--------------------------- MODULE MCBlocklistPull ---------------------------
(* Instances of BlocklistPull for TLC: list a lasts longer than list b. *)
EXTENDS BlocklistPull
CONSTANT v1
MCShort == [l \in Lists |-> IF l = "a" THEN 3 ELSE 2]
=============================================================================
