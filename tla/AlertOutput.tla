---------------------------- MODULE AlertOutput ----------------------------
(***************************************************************************)
(* The way of an alert from an output routine of the agent into the        *)
(* database of the local API.                                              *)
(*                                                                         *)
(* Every runOutput routine has a buffer of pending alerts.  A ticker       *)
(* empties it into a request that a goroutine sends; when the request      *)
(* fails its alerts go back to the buffer.  At shutdown the routine sends  *)
(* what is left itself, once; a postoverflow node that fails ends the      *)
(* routine without that.  The CreateAlert handler of the local API         *)
(* notifies, then commits batch by batch, stamps the machine and offers    *)
(* the alerts to the central API; it can fail between any two of these.    *)
(*                                                                         *)
(* The sets below stand for the slices of the code: SingleOwner says that  *)
(* an alert is never in two of them.                                       *)
(***************************************************************************)
EXTENDS Integers, FiniteSets

CONSTANTS
  Alerts,       \* alerts the output routines will be given
  Sources,      \* [Alerts -> sets of sources]: one stored alert per source
  Listable,     \* items isAllowListed may find on an allowlist: lists change
  Invalid,      \* items whose decisions may all have an invalid value
  Matches,      \* the pairs of an item and a profile that may match it
  Outputs,      \* the output_routines goroutines
  Requests,     \* bound on the requests in flight: their slots
  BatchSize,    \* alertCreateBulkSize (50)
  MaxFailures   \* bound on the failures of a behaviour

ASSUME OutputAssumption ==
  /\ BatchSize \in Nat \ {0} /\ MaxFailures \in Nat
  /\ IsFiniteSet(Requests)
  /\ \A a \in Alerts : Sources[a] # {} /\ IsFiniteSet(Sources[a])

\* What dedupAlerts makes of a batch: one item per source of an alert.
dedupAlerts(S) == UNION {{<<a, s>> : s \in Sources[a]} : a \in S}

Items == dedupAlerts(Alerts)

VARIABLES
  offered,   \* alerts the routines have not received yet
  pending,   \* [Outputs -> pendingAlerts]
  output,    \* [Outputs -> "select", "flush" or "exited"]
  request,   \* [Requests -> the request in the slot]
  tomb,      \* outputsTomb: "alive"; dying, "failed" with a routine's error
             \* or "killed" by the shutdown
  cancelled, \* cancel() was called
  stored,    \* [Items -> rows in the alerts table]
  notified,  \* [Matches -> ProfileAlerts the broker has received]
  toCapi,    \* [Items -> how often it was put on AlertsAddChan]
  acked,     \* history: alerts of a push that succeeded
  dropped,   \* history: alerts a routine held when it returned and no buffer has
  failures   \* number of failures so far

\* Histories of what became of alerts and items, read by properties only.
VARIABLES
  refused,   \* items that acknowledged pushes did not store: on an allowlist,
             \* or with invalid decisions only
  late,      \* alerts of a push that failed when outputsTomb was dying
  abandoned  \* alerts a routine had when a postoverflow node failed

history == <<refused, late, abandoned>>

vars == <<offered, pending, output, request, tomb, cancelled, stored,
          notified, toCapi, acked, dropped, failures, history>>

agent == <<offered, pending, output, tomb, cancelled, acked, dropped, history>>
server == <<stored, notified, toCapi>>

\* client: "waiting", or "gone" when it gave up; final: sent by the routine
\* itself.  at: where the handler is; kept: alertsToSave; left: those of them
\* not yet in a committed batch; refused: the items that were not stored.
Free == [at |-> "free", client |-> "gone", final |-> FALSE, from |-> {},
         alerts |-> {}, kept |-> {}, left |-> {}, refused |-> {}]

Init ==
  /\ offered = Alerts
  /\ pending = [o \in Outputs |-> {}]
  /\ output = [o \in Outputs |-> "select"]
  /\ request = [r \in Requests |-> Free]
  /\ tomb = "alive" /\ cancelled = FALSE
  /\ stored = [i \in Items |-> 0]
  /\ notified = [n \in Matches |-> 0]
  /\ toCapi = [i \in Items |-> 0]
  /\ acked = {} /\ dropped = {}
  /\ refused = {} /\ late = {} /\ abandoned = {}
  /\ failures = 0

-----------------------------------------------------------------------------
(* The output routine.                                                     *)

\* pendingAlerts.add, at the end of the overflow case.
AddAlert(o, a) ==
  /\ output[o] = "select" /\ a \in offered
  /\ offered' = offered \ {a}
  /\ pending' = [pending EXCEPT ![o] = @ \cup {a}]
  /\ UNCHANGED <<output, request, tomb, cancelled, server, acked, dropped,
                 failures, history>>

\* A postoverflow node fails: the routine returns the error, which kills the
\* tomb, with the event in hand and without a push of pendingAlerts.
PostOverflowFails(o, a) ==
  /\ output[o] = "select" /\ a \in offered
  /\ offered' = offered \ {a}
  /\ dropped' = dropped \cup {a}
  /\ abandoned' = abandoned \cup {a} \cup pending[o]
  /\ output' = [output EXCEPT ![o] = "exited"]
  /\ tomb' = IF tomb = "alive" THEN "failed" ELSE tomb
  /\ UNCHANGED <<pending, request, cancelled, server, acked, failures, refused, late>>

\* takeAll followed by PushAlerts: the request is on its way.  After cancel()
\* the client fails at once and nothing is sent: a ticker then puts back what
\* it took, which changes nothing.  The slots are all alike: the first free
\* one is taken.
Send(o, r, final) ==
  /\ pending[o] # {} /\ ~cancelled
  /\ request[r].at = "free" /\ r = CHOOSE x \in Requests : request[x].at = "free"
  /\ request' = [request EXCEPT ![r] =
                   [at |-> "received", client |-> "waiting", final |-> final,
                    from |-> {o}, alerts |-> pending[o],
                    kept |-> {}, left |-> {}, refused |-> {}]]
  /\ pending' = [pending EXCEPT ![o] = {}]
  /\ UNCHANGED <<offered, tomb, cancelled, server, acked, dropped, failures, history>>

\* The ticker case: a goroutine of outputsTomb sends the batch.
TickerPush(o, r) ==
  /\ output[o] = "select"
  /\ Send(o, r, FALSE)
  /\ UNCHANGED output

\* Defect: the routine returns at once.
FinalPushNot(o, r) ==
  /\ output[o] = "select" /\ tomb # "alive" /\ pending[o] # {}
  /\ output' = [output EXCEPT ![o] = "exited"]
  /\ UNCHANGED <<offered, pending, request, tomb, cancelled, server, acked,
                 dropped, failures, history>>

\* The Dying case: the routine sends what is left and returns.
FinalPush(o, r) ==
  /\ output[o] = "select" /\ tomb # "alive"
  /\ Send(o, r, TRUE)
  /\ output' = [output EXCEPT ![o] = "flush"]

FinalDrop(o) ==
  /\ output[o] = "select" /\ tomb # "alive" /\ cancelled /\ pending[o] # {}
  /\ output' = [output EXCEPT ![o] = "exited"]
  /\ dropped' = dropped \cup pending[o]
  /\ late' = late \cup pending[o]
  /\ pending' = [pending EXCEPT ![o] = {}]
  /\ UNCHANGED <<offered, request, tomb, cancelled, server, acked, failures,
                 refused, abandoned>>

NothingLeft(o) ==
  /\ output[o] = "select" /\ tomb # "alive" /\ pending[o] = {}
  /\ output' = [output EXCEPT ![o] = "exited"]
  /\ UNCHANGED <<offered, pending, request, tomb, cancelled, server, acked,
                 dropped, failures, history>>

\* Defect: the routine goes on after its final push.
ReturnsNot(r) == UNCHANGED output

Returns(r) ==
  output' = [o \in Outputs |->
               IF request[r].final /\ o \in request[r].from THEN "exited"
                                                            ELSE output[o]]

\* Defect: a failed batch is forgotten.
PushFailedLost(r) ==
  /\ Returns(r)
  /\ UNCHANGED <<offered, pending, tomb, cancelled, acked, dropped, history>>

\* Defect: what goes back to the buffer is the deduplicated list.
PushFailedItems(r) ==
  /\ pending' = [o \in Outputs |->
                   IF o \in request[r].from
                     THEN pending[o] \cup dedupAlerts(request[r].alerts) ELSE pending[o]]
  /\ Returns(r)
  /\ UNCHANGED <<offered, tomb, cancelled, acked, dropped, history>>

\* The push failed: its alerts go back to the buffer, or are logged and
\* dropped when it was the final one.
PushFailed(r) ==
  /\ pending' = [o \in Outputs |->
                   IF o \in request[r].from /\ ~request[r].final
                     THEN pending[o] \cup request[r].alerts ELSE pending[o]]
  /\ dropped' = IF request[r].final THEN dropped \cup request[r].alerts
                                    ELSE dropped
  /\ late' = IF tomb = "alive" THEN late ELSE late \cup request[r].alerts
  /\ Returns(r)
  /\ UNCHANGED <<offered, tomb, cancelled, acked, refused, abandoned>>

\* The push succeeded.
PushDone(r) ==
  /\ acked' = acked \cup request[r].alerts
  /\ refused' = refused \cup request[r].refused
  /\ Returns(r)
  /\ UNCHANGED <<offered, pending, tomb, cancelled, dropped, late, abandoned>>

\* The client gives up: the connection breaks, or cancel() ends its context.
\* The handler may go on for a while.
GiveUp(r) ==
  /\ request[r].at # "free" /\ request[r].client = "waiting"
  /\ failures < MaxFailures \/ cancelled
  /\ failures' = IF cancelled THEN failures ELSE failures + 1
  /\ PushFailed(r)
  /\ request' = [request EXCEPT ![r].client = "gone"]
  /\ UNCHANGED server

\* outputsTomb.Kill.
KillOutputs ==
  /\ tomb # "killed"
  /\ tomb' = "killed"
  /\ UNCHANGED <<offered, pending, output, request, cancelled, server, acked,
                 dropped, failures, history>>

\* cancel(): the outputs are done, or three seconds have passed.
Cancel ==
  /\ tomb = "killed" /\ ~cancelled
  /\ cancelled' = TRUE
  /\ UNCHANGED <<offered, pending, output, request, tomb, server, acked,
                 dropped, failures, history>>

-----------------------------------------------------------------------------
(* The CreateAlert handler of the local API.                               *)

Bump(f, S) == [i \in Items |-> IF i \in S THEN f[i] + 1 ELSE f[i]]

\* An answer: the client, if it still waits, acts on it.
Answer(r, ok) ==
  /\ request' = [request EXCEPT ![r] = Free]
  /\ \/ request[r].client = "waiting" /\ ok /\ PushDone(r)
     \/ request[r].client = "waiting" /\ ~ok /\ PushFailed(r)
     \/ request[r].client = "gone" /\ UNCHANGED agent

\* A failure counts when it makes a push fail.
Failing(r) ==
  /\ failures < MaxFailures \/ request[r].client = "gone"
  /\ failures' = IF request[r].client = "gone" THEN failures ELSE failures + 1

\* A failure of the handler outside of the profiles: a body that is refused,
\* a transaction that is rolled back, the machine that cannot be read or
\* updated.  What was done stays done.
ServerFails(r) ==
  /\ request[r].at \in {"received", "saving", "stamp"}
  /\ Failing(r)
  /\ Answer(r, FALSE)
  /\ UNCHANGED server

\* What the loop over the profiles may send to the broker for some items: an
\* alert for every profile that matches.
ProfileAlerts(S) == {n \in Matches : n[1] \in S}

\* sendAlertToPluginChannel: the broker has received the alerts of S.
Notify(S) ==
  notified' = [n \in Matches |-> IF n \in S THEN notified[n] + 1 ELSE notified[n]]

\* Defect: the alerts are offered to the central API before they are saved.
EvaluateForward(r) ==
  LET items == dedupAlerts(request[r].alerts) IN
  /\ request[r].at = "received"
  /\ toCapi' = Bump(toCapi, items)
  /\ request' = [request EXCEPT ![r].at = "saving", ![r].kept = items,
                                ![r].left = items]
  /\ UNCHANGED <<agent, stored, notified, failures>>

\* The loop over the items of the body.  One that is on an allowlist now is
\* skipped.  The others are sent to the broker for the profiles that match,
\* up to one with on_success: break, each as far as the channel is not busy
\* three times.
Evaluate(r) ==
  LET items == dedupAlerts(request[r].alerts) IN
  /\ request[r].at = "received"
  /\ \E listed \in SUBSET (items \cap Listable) :
       /\ \E S \in SUBSET ProfileAlerts(items \ listed) : Notify(S)
       /\ request' = [request EXCEPT ![r].at = "saving", ![r].kept = items \ listed,
                                     ![r].left = items \ listed, ![r].refused = listed]
  /\ UNCHANGED <<agent, stored, toCapi, failures>>

\* A profile without on_error fails for an item: items before it, and this
\* one for the profiles before, have been sent.
EvaluateFails(r) ==
  LET all == ProfileAlerts(dedupAlerts(request[r].alerts)) IN
  /\ request[r].at = "received"
  /\ \E n \in all : \E S \in SUBSET (all \ {n}) : Notify(S)
  /\ Failing(r)
  /\ Answer(r, FALSE)
  /\ UNCHANGED <<stored, toCapi>>

\* A batch of alertsToSave.
Batch(S, left) ==
  Cardinality(S) = BatchSize \/ (S = left /\ Cardinality(S) < BatchSize)

\* Defect: only the first batch is saved.
SaveBatchFirst(r) ==
  /\ request[r].at = "saving" /\ request[r].left # {}
  /\ \E S \in SUBSET request[r].left :
       /\ Batch(S, request[r].left)
       /\ stored' = Bump(stored, S)
       /\ request' = [request EXCEPT ![r].left = {}]
  /\ UNCHANGED <<agent, notified, toCapi, failures>>

\* createAlertBatch: one transaction per batch.  An item that has decisions,
\* none of them with a valid value, is left out of it.
SaveBatch(r) ==
  /\ request[r].at = "saving" /\ request[r].left # {}
  /\ \E S \in SUBSET request[r].left : \E discarded \in SUBSET (S \cap Invalid) :
       /\ Batch(S, request[r].left)
       /\ stored' = Bump(stored, S \ discarded)
       /\ request' = [request EXCEPT ![r].left = @ \ S,
                                     ![r].refused = @ \cup discarded]
  /\ UNCHANGED <<agent, notified, toCapi, failures>>

Saved(r) ==
  /\ request[r].at = "saving" /\ request[r].left = {}
  /\ request' = [request EXCEPT ![r].at = "stamp"]
  /\ UNCHANGED <<agent, server, failures>>

\* Defect: the handler waits for AlertsAddChan, and nobody reads it.
FinishBlocking(r) ==
  /\ request[r].at = "stamp"
  /\ \A i \in Items : toCapi[i] = 0
  /\ toCapi' = Bump(toCapi, request[r].kept)
  /\ Answer(r, TRUE)
  /\ UNCHANGED <<stored, notified, failures>>

\* last_push is updated, AlertsAddChan is tried once with alertsToSave, the
\* items SaveBatch left out included, 201 is answered.
Finish(r) ==
  /\ request[r].at = "stamp"
  /\ \/ toCapi' = Bump(toCapi, request[r].kept)
     \/ UNCHANGED toCapi
  /\ Answer(r, TRUE)
  /\ UNCHANGED <<stored, notified, failures>>

Handler(r) == Evaluate(r) \/ SaveBatch(r) \/ Saved(r) \/ Finish(r)

Routine(o) ==
  \/ \E a \in Alerts : AddAlert(o, a) \/ PostOverflowFails(o, a)
  \/ \E r \in Requests : TickerPush(o, r) \/ FinalPush(o, r)
  \/ NothingLeft(o) \/ FinalDrop(o)

Next ==
  \/ \E o \in Outputs : Routine(o)
  \/ \E r \in Requests : Handler(r) \/ ServerFails(r) \/ EvaluateFails(r) \/ GiveUp(r)
  \/ KillOutputs \/ Cancel

Spec == Init /\ [][Next]_vars

\* Goroutines and handlers make progress; the ticker fires for ever and its
\* case of the select is taken; failures are bounded.
FairSpec ==
  /\ Spec
  /\ \A o \in Outputs :
       /\ WF_vars(\E r \in Requests : TickerPush(o, r))
       /\ WF_vars(NothingLeft(o) \/ FinalDrop(o) \/ \E r \in Requests : FinalPush(o, r))
  /\ \A r \in Requests : WF_vars(Handler(r))
  /\ WF_vars(\E o \in Outputs, a \in Alerts : AddAlert(o, a))

-----------------------------------------------------------------------------
(* Properties.                                                             *)

TypeOK ==
  /\ offered \subseteq Alerts /\ acked \subseteq Alerts /\ dropped \subseteq Alerts
  /\ late \subseteq Alerts /\ abandoned \subseteq Alerts /\ refused \subseteq Items
  /\ pending \in [Outputs -> SUBSET Alerts]
  /\ output \in [Outputs -> {"select", "flush", "exited"}]
  /\ request \in [Requests ->
       [at : {"free", "received", "saving", "stamp"},
        client : {"waiting", "gone"}, final : BOOLEAN, from : SUBSET Outputs,
        alerts : SUBSET Alerts, kept : SUBSET Items, left : SUBSET Items,
        refused : SUBSET Items]]
  /\ tomb \in {"alive", "failed", "killed"} /\ cancelled \in BOOLEAN
  /\ stored \in [Items -> Nat] /\ notified \in [Matches -> Nat]
  /\ toCapi \in [Items -> Nat] /\ failures \in Nat

Waiting(r) == request[r].client = "waiting"

\* Where an alert can be.
Places == ({"buffer"} \X Outputs) \cup ({"flight"} \X Requests)
          \cup {<<"offered", 0>>, <<"acked", 0>>, <<"dropped", 0>>}

At(a, p) ==
  \/ p[1] = "buffer" /\ a \in pending[p[2]]
  \/ p[1] = "flight" /\ Waiting(p[2]) /\ a \in request[p[2]].alerts
  \/ p[1] = "offered" /\ a \in offered
  \/ p[1] = "acked" /\ a \in acked
  \/ p[1] = "dropped" /\ a \in dropped

\* An alert is in one place: not received yet, in the buffer of one routine,
\* in one request whose sender waits, acknowledged, or dropped by a routine
\* that returned.  takeAll, requeue and the asynchronous push never lose or
\* copy it.  (A buffer may be one nobody reads any more: LostOnlyOnFailure.)
SingleOwner ==
  \A a \in Alerts : \E p \in Places : \A q \in Places : At(a, q) <=> q = p

\* A push the agent counts as done has stored every source of its alerts,
\* but for those it found on an allowlist and those without a single valid
\* decision, which createAlertBatch drops: a partial commit is never
\* acknowledged.
AckedIsStored ==
  \A i \in dedupAlerts(acked) : stored[i] >= 1 \/ i \in refused

\* Retries after a partial commit store an item again, send it to the broker
\* again for the same profile and forward it again, but each only as often
\* as a push failed.  Forwarding comes last: an item that was not dropped for
\* its decisions is forwarded at most as often as it is stored.
CopiesBounded ==
  /\ \A i \in Items :
       /\ stored[i] <= 1 + failures /\ toCapi[i] <= 1 + failures
       /\ i \notin Invalid => toCapi[i] <= stored[i]
  /\ \A n \in Matches : notified[n] <= 1 + failures

\* When the routines are done, an alert they were given is acknowledged,
\* unless a push of that very alert failed after the shutdown began (the
\* final one, or one that requeued it behind the final takeAll) or its
\* routine left with a postoverflow error.  Whatever failed before is
\* retried, and a routine that fails costs no other routine's alerts.
LostOnlyOnFailure ==
  (\A o \in Outputs : output[o] = "exited") /\ (\A r \in Requests : ~Waiting(r))
    => Alerts \ offered \subseteq acked \cup late \cup abandoned

\* Every alert is acknowledged in the end, through any bounded number of
\* failed pushes, unless the routines are stopped.  (By AckedIsStored its
\* sources are then stored, allowlisted or without a valid decision.)
EventuallyAcked ==
  \A a \in Alerts : <>(a \in acked \/ tomb # "alive")

\* Once outputsTomb is dying the routines end, whatever is in flight:
\* ShutdownCrowdsecRoutines waits for them.
OutputsEnd == tomb # "alive" ~> \A o \in Outputs : output[o] = "exited"
=============================================================================
