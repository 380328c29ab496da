----------------------------- MODULE BouncerView -----------------------------
(***************************************************************************)
(* What the decision stream promises to a remediation component: after     *)
(* every answer that completes, each key is in the state it had at some    *)
(* moment since the pull began; an answer that fails half-way may leave    *)
(* keys as they were, never invents a state, and is not recorded.  The     *)
(* promise ends when something happens that it excludes.                   *)
(***************************************************************************)
EXTENDS Integers

CONSTANT Keys

VARIABLES
  truth,    \* per key, whether it is to be blocked now (both answers are
            \* right at the very instant a decision ends)
  view,     \* the keys the component blocks
  pulling,  \* a pull is in progress
  started,  \* when it began (0 when there is none)
  recorded, \* when the last pull that completed began, -1 at first
  held,     \* the states each key had since the pull began
  excluded  \* something the promise excludes has happened

vars == <<truth, view, pulling, started, recorded, held, excluded>>

Verdicts == (SUBSET BOOLEAN) \ {{}}

Init ==
  /\ truth = [k \in Keys |-> {FALSE}]
  /\ view = {}
  /\ pulling = FALSE /\ started = 0 /\ recorded = -1
  /\ held = [k \in Keys |-> {}]
  /\ ~excluded

Nothing == [k \in Keys |-> {}]
Both(f, g) == [k \in Keys |-> f[k] \cup g[k]]

\* Decisions are made, expire and are lifted at any time.
Change ==
  /\ truth' \in [Keys -> Verdicts]
  /\ held' = IF pulling THEN Both(held, truth') ELSE held
  /\ UNCHANGED <<view, pulling, started, recorded>>

Begin ==
  /\ ~pulling /\ pulling'
  /\ truth' \in [Keys -> Verdicts]
  /\ started' >= recorded
  /\ held' = Both(truth, truth')
  /\ UNCHANGED <<view, recorded>>

End(allowed) ==
  /\ pulling /\ ~pulling'
  /\ view' \in SUBSET Keys
  /\ \A k \in Keys : (k \in view') \in allowed[k]
  /\ held' = Nothing /\ started' = 0
  /\ UNCHANGED truth

Complete == End(held) /\ recorded' = started
Fail == End(Both(held, [k \in Keys |-> {(k \in view)}])) /\ UNCHANGED recorded

Restart ==
  /\ ~pulling
  /\ view' = {}
  /\ UNCHANGED <<truth, pulling, started, recorded, held>>

Next == excluded' \/ Change \/ Begin \/ Complete \/ Fail \/ Restart

Spec == Init /\ [][Next]_vars
=============================================================================
