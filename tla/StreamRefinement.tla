-------------------------- MODULE StreamRefinement --------------------------
(***************************************************************************)
(* DecisionStream with a history of what each key was since the pull in    *)
(* progress began, and the mapping under which it implements BouncerView.  *)
(***************************************************************************)
EXTENDS DecisionStream

VARIABLE held

hvars == <<vars, held>>

\* A key is to be blocked while a decision the bouncer asked for runs.
Truth(k) ==
  LET of == {d \in Ids : Wanted(d) /\ row[d].key = k} IN
  {b \in BOOLEAN : IF b THEN \E d \in of : row[d].until >= clock
                        ELSE \A d \in of : row[d].until <= clock}

truth == [k \in Keys |-> Truth(k)]

HInit == Init /\ held = [k \in Keys |-> {}]

HNext ==
  /\ Next
  /\ held' =
       [k \in Keys |->
          IF pull'.pc = "idle" THEN {}
          ELSE (IF pull.pc = "idle" THEN truth[k] ELSE held[k]) \cup truth'[k]]

HSpec == HInit /\ [][HNext]_hvars /\ Fairness

BV == INSTANCE BouncerView WITH
        pulling <- pull.pc # "idle", started <- pull.start, recorded <- lastPull,
        excluded <- happened # {}

\* The stream implements BouncerView: through any interleaving of pages,
\* inserts, expiries, failed pulls and restarts, a completed StreamDecision
\* leaves the bouncer with a state every key had since the pull began, and a
\* failed one adds nothing that was not so, until one of FaultKinds happens.
Implements == BV!Spec
=============================================================================
