----------------------------- MODULE MCLogPipeline -----------------------------
(* Instances of LogPipeline for TLC: the name of a source tells its mode. *)
EXTENDS LogPipeline

MCMode == [s \in Sources |-> CASE s \in {"c1", "c2"} -> "cat" [] s = "t1" -> "tail" [] s = "s1" -> "stream"]
=============================================================================
