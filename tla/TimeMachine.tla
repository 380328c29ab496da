------------------------------ MODULE TimeMachine ------------------------------
(***************************************************************************)
(* Buckets of logs that are replayed (pkg/leakybucket/timemachine.go and   *)
(* the time-machine parts of manager_run.go and bucket.go): a bucket fills *)
(* and leaks by the times written in the logs.  One key of one leaky       *)
(* scenario, one pour routine.  The model runs a sequential replay of the  *)
(* same logs beside the code, to compare alerts with.                      *)
(*                                                                         *)
(* Tokens are counted in units of time: a bucket holds Capacity * Leak of  *)
(* them and an event takes Leak.  Buckets are numbered as they are made.   *)
(***************************************************************************)
EXTENDS Integers, Sequences, SequencesExt, Bags, BagsExt

CONSTANTS
    Capacity, Leak,      \* of the scenario
    Ordered,             \* -order-event
    RealTicks,           \* whether the ticker, in real time, may fire meanwhile
    InOrder,             \* whether the lines come in the order of their times
    NoTime,              \* the time of a line without one
    MaxTime, MaxEvents   \* bounds

\* What the constants must satisfy.
TimeAssumption ==
    /\ Capacity \in Nat \ {0}
    /\ Leak \in Nat \ {0}
    /\ Ordered \in BOOLEAN /\ RealTicks \in BOOLEAN /\ InOrder \in BOOLEAN

VARIABLES
    seen,        \* times of the lines read so far
    store,       \* the bucket the store has for the key, 0 for none
    bkt,         \* the buckets ever made
    pc,          \* the pour routine: idle, check, send or wait
    cur,         \* the bucket it pours into
    cleanups,    \* events without an alert on their way to the output routine
    alerts,      \* bag of the overflows, each the times of its events
    ref, refAlerts       \* observer: the sequential replay

vars == <<seen, store, bkt, pc, cur, cleanups, alerts, ref, refAlerts>>

Duration == (Capacity + 1) * Leak

(* The limiter and the queue of a bucket. *)
Empty == [tok |-> Capacity * Leak, lim |-> 0, times |-> <<>>]

(* Tokens at d; the limiter does not go back in time. *)
Advance(q, d) ==
    LET gap == IF d > q.lim THEN d - q.lim ELSE 0
    IN  IF q.tok + gap > Capacity * Leak THEN Capacity * Leak ELSE q.tok + gap

Allows(q, d) == Advance(q, d) >= Leak

(* TimeMachinePour, for an event with a time: AllowN and Queue.Add. *)
Filled(q, d) ==
    [tok   |-> IF Allows(q, d) THEN Advance(q, d) - Leak ELSE q.tok,
     lim   |-> IF Allows(q, d) THEN d ELSE q.lim,
     times |-> Append(q.times, d)]

(* First_ts is set by the first event, Last_ts by each of them. *)
Expired(q, d) == q.times # <<>> /\ d # NoTime /\ d > Last(q.times) + Duration

Init ==
    /\ seen = <<>>
    /\ store = 0
    /\ bkt = <<>>
    /\ pc = "idle"
    /\ cur = 0
    /\ cleanups = 0
    /\ alerts = EmptyBag
    /\ ref = Empty
    /\ refAlerts = EmptyBag

-----------------------------------------------------------------------------
(* The sequential replay: an event is dealt with at once. *)

Replay(d) ==
    LET q == IF Expired(ref, d) THEN Empty ELSE ref
    IN  CASE d = NoTime   -> UNCHANGED <<ref, refAlerts>>
          [] d # NoTime /\ Allows(q, d) -> ref' = Filled(q, d) /\ UNCHANGED refAlerts
          [] OTHER        -> ref' = Empty /\ refAlerts' = BagAdd(refAlerts, Append(q.times, d))

-----------------------------------------------------------------------------
(* The pour routine. *)

(* LoadOrStoreBucketFromHolder, on a store that has bucket s. *)
Fetch(s) ==
    IF s # 0
      THEN store' = s /\ cur' = s /\ UNCHANGED bkt
      ELSE /\ bkt' = Append(bkt, [at |-> "select", msg |-> NoTime, q |-> Empty, ticks |-> FALSE])
           /\ store' = Len(bkt) + 1
           /\ cur' = Len(bkt) + 1

(* The next line comes to PourItemToHolders. *)
Line(d) ==
    /\ pc = "idle"
    /\ Len(seen) < MaxEvents
    /\ InOrder /\ d # NoTime => \A t \in ToSet(seen) \ {NoTime} : t <= d
    /\ seen' = Append(seen, d)
    /\ Replay(d)
    /\ Fetch(store)
    /\ pc' = "check"
    /\ UNCHANGED <<cleanups, alerts>>

(* The checks at the top of PourItemToBucket's loop: a bucket that is done,   *)
(* or that has expired by the logs, is replaced.  An expired one lives on.    *)
CheckBucket ==
    /\ pc = "check"
    /\ IF bkt[cur].at = "done" \/ Expired(bkt[cur].q, Last(seen))
         THEN Fetch(0) /\ UNCHANGED pc
         ELSE pc' = "send" /\ UNCHANGED <<store, bkt, cur>>
    /\ UNCHANGED <<seen, cleanups, alerts, ref, refAlerts>>

AfterSend == IF Ordered THEN "wait" ELSE "idle"

(* The send does not block: if the bucket is busy the loop starts again. *)
Send ==
    /\ pc = "send"
    /\ IF bkt[cur].at = "select"
         THEN /\ bkt' = [bkt EXCEPT ![cur].at = "pour", ![cur].msg = Last(seen)]
              /\ pc' = AfterSend
         ELSE pc' = "check" /\ UNCHANGED bkt
    /\ UNCHANGED <<seen, store, cur, cleanups, alerts, ref, refAlerts>>

(* orderEvent's wait group: the bucket has processed the event. *)
Wait ==
    /\ pc = "wait"
    /\ bkt[cur].at # "pour"
    /\ pc' = "idle"
    /\ UNCHANGED <<seen, store, bkt, cur, cleanups, alerts, ref, refAlerts>>

-----------------------------------------------------------------------------
(* The leak routine of a bucket. *)

PourTime(b) ==
    /\ bkt[b].at = "pour"
    /\ LET d == bkt[b].msg
           q == bkt[b].q
       IN  bkt' = [bkt EXCEPT ![b] =
                     [at    |-> IF d = NoTime \/ Allows(q, d) THEN "select" ELSE "overflow",
                      msg   |-> NoTime,
                      q     |-> IF d = NoTime THEN q ELSE Filled(q, d),
                      ticks |-> TRUE]]
    /\ UNCHANGED <<seen, store, pc, cur, cleanups, alerts, ref, refAlerts>>

Overflow(b) ==
    /\ bkt[b].at = "overflow"
    /\ bkt' = [bkt EXCEPT ![b].at = "done"]
    /\ alerts' = BagAdd(alerts, bkt[b].q.times)
    /\ UNCHANGED <<seen, store, pc, cur, cleanups, ref, refAlerts>>

(* The ticker: Duration has passed in real time since the last event. *)
Underflow(b) ==
    /\ RealTicks
    /\ bkt[b].at = "select"
    /\ bkt[b].ticks
    /\ bkt' = [bkt EXCEPT ![b].at = "done"]
    /\ cleanups' = cleanups + 1
    /\ UNCHANGED <<seen, store, pc, cur, alerts, ref, refAlerts>>

(* The output routine deletes the key, whoever has it now. *)
Cleanup ==
    /\ cleanups > 0
    /\ cleanups' = cleanups - 1
    /\ store' = 0
    /\ UNCHANGED <<seen, bkt, pc, cur, alerts, ref, refAlerts>>

Next ==
    \/ \E d \in 0..MaxTime \cup {NoTime} : Line(d)
    \/ CheckBucket \/ Send \/ Wait \/ Cleanup
    \/ \E b \in 1..Len(bkt) : PourTime(b) \/ Overflow(b) \/ Underflow(b)

Spec == Init /\ [][Next]_vars

-----------------------------------------------------------------------------
(* Every variable has its type; no bucket has more tokens than it holds. *)
TypeOK ==
    /\ TimeAssumption
    /\ store \in 0..Len(bkt)
    /\ cur \in 0..Len(bkt)
    /\ pc \in {"idle", "check", "send", "wait"}
    /\ \A b \in 1..Len(bkt) :
         /\ bkt[b].at \in {"select", "pour", "overflow", "done"}
         /\ bkt[b].q.tok \in 0..Capacity * Leak
    /\ cleanups \in Nat

Quiet == pc = "idle" /\ \A b \in 1..Len(bkt) : bkt[b].at \notin {"pour", "overflow"}

(* With -order-event, replaying logs faster than the ticker gives the alerts   *)
(* of a sequential replay, each made of the same events, although bucket and   *)
(* pour routine are two goroutines: every time both are at rest.               *)
SameAlerts == Quiet => alerts = refAlerts

(* Whatever goes on in real time, an alert stands for a burst: at the end of   *)
(* its events there are more than the capacity and what leaked among them.     *)
AlertIsABurst ==
    \A s \in DOMAIN alerts :
      LET n == Len(s)
      IN  \E j \in 1..n : (n - j + 1) * Leak > Capacity * Leak + (s[n] - s[j])

-----------------------------------------------------------------------------
(* What the repository says and the code does not keep: TLC finds a        *)
(* behaviour against each of these, which the README describes.            *)

(* README: "When the capacity is reached and a new event is poured, the bucket *)
(* overflows", without -order-event too.                                       *)
OverflowsWhenFull == Quiet => BagCardinality(alerts) = BagCardinality(refAlerts)

(* manager_run.go: "when we are running in time-machine mode, the reference    *)
(* time is in logs and not "real" time".                                       *)
LogTimeOnly == Quiet => BagCardinality(alerts) = BagCardinality(refAlerts)
=============================================================================
