--------------------------- MODULE MCLeakyBuckets ---------------------------
(***************************************************************************)
(* Small instances of LeakyBuckets for TLC.                                *)
(***************************************************************************)
EXTENDS LeakyBuckets, TLC

CONSTANTS e1, e2, e3, k1, k2

OneEvent == {e1}
TwoEvents == {e1, e2}
ThreeEvents == {e1, e2, e3}

Leaky(capacity) ==
  [type |-> "leaky", capacity |-> capacity, cacheSize |-> 0,
   distinct |-> FALSE, cancelOn |-> {}, condition |-> FALSE,
   timed |-> FALSE, discards |-> FALSE, reprocess |-> FALSE,
   initFails |-> FALSE]
Trigger == [Leaky(0) EXCEPT !.type = "trigger"]
Counter == [Leaky(-1) EXCEPT !.type = "counter", !.timed = TRUE]
Conditional == [Leaky(1) EXCEPT !.type = "conditional", !.condition = TRUE]
Bayesian == [Leaky(-1) EXCEPT !.type = "bayesian", !.condition = TRUE]

\* Every event goes to the one key, a leaky bucket of capacity 1.
AllToK1 == [e \in Events |-> <<k1>>]
Leaky1 == [k \in Keys |-> Leaky(1)]

\* Every event goes to a distinct, cancellable bucket and then to a counter
\* with a small cache whose alerts may be discarded.
AllToBoth == [e \in Events |-> <<k1, k2>>]
Filtering ==
  (k1 :> [Leaky(1) EXCEPT !.distinct = TRUE, !.cancelOn = {e3} \cap Events]) @@
  (k2 :> [Counter EXCEPT !.cacheSize = 1, !.discards = TRUE])

\* Every event may overflow a leaky bucket, and triggers the second holder.
BothOverflow == (k1 :> [Leaky(1) EXCEPT !.discards = TRUE]) @@ (k2 :> Trigger)
TwoElements == [e \in Events |-> IF e = e2 THEN e1 ELSE e]

\* The filter of the second holder fails on one event.
SomeErrors == {<<e2, k2>>}
NoErrors == {}

Triggers == [k \in Keys |-> Trigger]

\* A trigger whose overflow is reprocessed into a conditional bucket.
Reprocessing ==
  (k1 :> [Trigger EXCEPT !.reprocess = TRUE]) @@ (k2 :> Conditional)

JustK2 == <<k2>>
NoKeys == << >>

\* A Bayesian scenario whose condition does not compile.
Broken == [k \in Keys |-> [Bayesian EXCEPT !.initFails = TRUE]]
=============================================================================
