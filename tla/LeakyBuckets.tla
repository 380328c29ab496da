---------------------------- MODULE LeakyBuckets ----------------------------
(***************************************************************************)
(* The live bucket engine: runPour goroutines deliver parsed events to     *)
(* leaky buckets, every bucket runs in a goroutine of its own              *)
(* (LeakRoutine), and runOutput goroutines consume what the buckets emit.  *)
(*                                                                         *)
(*   pourers --(Leaky.In, unbuffered)--> buckets --(AllOut, 1 slot)-->     *)
(*   outputs --(inEvents, reprocessed overflows)--> pourers                *)
(*                                                                         *)
(* The goroutines share BucketStore (partition key -> *Leaky), the orderEvent *)
(* wait groups and the shutdown signals.  Only one goroutine step is one   *)
(* step here; a step never spans a blocking operation or two accesses to   *)
(* shared state.  Every event carries ExpectMode LIVE.                     *)
(***************************************************************************)
EXTENDS Integers, Sequences, FiniteSets

CONSTANTS
  Events,           \* parsed events the parser stage will offer
  Keys,             \* partition keys, BucketKey(filter, groupby, name)
  Pourers,          \* the buckets_routines goroutines
  Outputs,          \* the output_routines goroutines
  MaxBuckets,       \* bound on the bucket instances of a behaviour
  Factory,          \* [Keys -> FactoryType]: the holder a key belongs to
  EventHolders,     \* [Events -> Seq(Keys)]: the keys an event is poured to
  OverflowHolders,  \* Seq(Keys): the keys a reprocessed overflow is poured to
  ElementOf,        \* [Events -> value of the distinct expression]
  FilterErrors,     \* subset of Events \X Keys: filter or groupby fails
  OrderEvent,       \* the -order-event flag
  PostOverflow,     \* the results the postoverflow stage may give
  MayShutdown       \* whether ShutdownCrowdsecRoutines may be called

BucketIds == 1 .. MaxBuckets
NoBucket  == 0

\* A reprocessed overflow is the event named by the bucket that raised it.
Msgs == Events \cup BucketIds
NoMsg == NoBucket

BucketTypes == {"leaky", "trigger", "counter", "conditional", "bayesian"}

\* The BucketSpec fields the control flow depends on.  timed: a duration is
\* set.  condition: a Conditional or Bayesian processor is attached.
\* discards: overflow_filter, blackhole or a sourceless alert may void an
\* overflow.  initFails: an OnBucketInit returns an error.
FactoryType ==
  [type : BucketTypes, capacity : Nat \cup {-1}, cacheSize : Nat,
   distinct : BOOLEAN, cancelOn : SUBSET Events, condition : BOOLEAN,
   timed : BOOLEAN, discards : BOOLEAN, reprocess : BOOLEAN,
   initFails : BOOLEAN]

\* Distinct holders have distinct names, hence distinct keys.
Injective(s) == \A i, j \in 1 .. Len(s) : s[i] = s[j] => i = j

ASSUME ConstantsAssumption ==
  /\ MaxBuckets \in Nat /\ Pourers # {}
  /\ Events \cap (BucketIds \cup {NoBucket}) = {}
  /\ Factory \in [Keys -> FactoryType]
  /\ EventHolders \in [Events -> Seq(Keys)]
  /\ \A e \in Events : EventHolders[e] # << >> /\ Injective(EventHolders[e])
  /\ OverflowHolders \in Seq(Keys) /\ Injective(OverflowHolders)
  /\ FilterErrors \subseteq Events \X Keys
  /\ OrderEvent \in BOOLEAN /\ MayShutdown \in BOOLEAN
  /\ PostOverflow \subseteq {"ok", "whitelisted", "error"}

\* Validate: a trigger has capacity 0, counters and Bayesian buckets have an
\* infinite one.
ASSUME FactoryAssumption ==
  \A k \in Keys :
    /\ Factory[k].type = "trigger" => Factory[k].capacity = 0
    /\ Factory[k].type \in {"counter", "bayesian"} => Factory[k].capacity = -1
    /\ Factory[k].type = "counter" => Factory[k].timed
    /\ Factory[k].type \in {"conditional", "bayesian"} => Factory[k].condition
    /\ Factory[k].reprocess => OverflowHolders # << >>

\* The orderEvent map is a plain Go map: the flag is only usable with a
\* single pour routine.
ASSUME OrderAssumption == OrderEvent => \A p, q \in Pourers : p = q

VARIABLES
  fate,      \* what became of each message (see Fates)
  store,     \* BucketStore.m: [Keys -> bucket or NoBucket]
  born,      \* number of bucket instances created so far
  bucket,    \* the Leaky structs with the state of their LeakRoutine
  pourer,    \* the runPour goroutines
  output,    \* the runOutput goroutines
  allOut,    \* the outEvents channel, one slot
  wg,        \* orderEvent: the counter of each key's wait group
  phase,     \* "running", "draining", "killed", "cancelled"
  tomb,      \* outputsTomb: "alive" or "dying"
  delivered, \* history: how often a message was received by a key's buckets
  alerts     \* history: how often a bucket's alert reached pendingAlerts

vars == <<fate, store, born, bucket, pourer, output, allOut, wg, phase,
          tomb, delivered, alerts>>

\* offered: waiting on inEvents; poured: PourItemToHolders returned without
\* an error; failed: it returned one; drained: dropped by drainChan.
Fates == {"none", "offered", "held", "poured", "failed", "drained"}

Phases == {"running", "draining", "killed", "cancelled"}
cancelled == phase = "cancelled"

HoldersOf(m) == IF m \in Events THEN EventHolders[m] ELSE OverflowHolders

Element(m) == IF m \in Events THEN ElementOf[m] ELSE m

\* Qsize of NewLeakyFromFactory; -1 is a queue without limit.
Qsize(f) ==
  IF f.cacheSize > 0 /\ (f.cacheSize <= f.capacity \/ f.capacity = -1)
    THEN f.cacheSize ELSE f.capacity

\* Queue.Add: drop from the front while longer than L, then append.
Add(q, m, L) ==
  Append(IF L # -1 /\ Len(q) > L
           THEN SubSeq(q, Len(q) - L + 1, Len(q)) ELSE q, m)

\* The fields of a Leaky that has not been allocated are irrelevant.
Unborn ==
  [pc |-> "unborn", key |-> NoBucket, ready |-> FALSE, done |-> FALSE,
   msg |-> NoMsg, queue |-> << >>, tokens |-> 0, pending |-> FALSE,
   suicide |-> FALSE, armed |-> FALSE, seen |-> {}, out |-> "none"]

\* NewLeakyFromFactory: the limiter starts with capacity tokens.
NewLeaky(k) ==
  [Unborn EXCEPT !.pc = "start", !.key = k, !.tokens = Factory[k].capacity]

IdlePourer ==
  [pc |-> "idle", msg |-> NoMsg, idx |-> 1, retry |-> FALSE,
   bucket |-> NoBucket]

Init ==
  /\ fate = [m \in Msgs |-> IF m \in Events THEN "offered" ELSE "none"]
  /\ store = [k \in Keys |-> NoBucket]
  /\ born = 0
  /\ bucket = [b \in BucketIds |-> Unborn]
  /\ pourer = [p \in Pourers |-> IdlePourer]
  /\ output = [o \in Outputs |-> [pc |-> "select", bucket |-> NoBucket]]
  /\ allOut = << >>
  /\ wg = [k \in Keys |-> 0]
  /\ phase = "running"
  /\ tomb = "alive"
  /\ delivered = [m \in Msgs |-> [k \in Keys |-> 0]]
  /\ alerts = [b \in BucketIds |-> 0]

-----------------------------------------------------------------------------
(* runPour and PourItemToHolders.                                          *)

KeyOf(p) == HoldersOf(pourer[p].msg)[pourer[p].idx]

\* The message of p goes through its holders from the first one.
Take(p, m) ==
  /\ pourer' = [pourer EXCEPT ![p] = [IdlePourer EXCEPT !.pc = "load",
                                                      !.msg = m]]
  /\ fate' = [fate EXCEPT ![m] = "held"]

\* case parsed := <-input, sent by a parser routine.
ReceiveEvent(p) ==
  /\ pourer[p].pc = "idle"
  /\ \E e \in Events : fate[e] = "offered" /\ Take(p, e)
  /\ UNCHANGED <<store, born, bucket, output, allOut, wg, phase, tomb,
                 delivered, alerts>>

\* case <-ctx.Done() of runPour.
PourExit(p) ==
  /\ pourer[p].pc = "idle" /\ cancelled
  /\ pourer' = [pourer EXCEPT ![p].pc = "exited"]
  /\ UNCHANGED <<fate, store, born, bucket, output, allOut, wg, phase, tomb,
                 delivered, alerts>>

\* Defect: the error of a holder is not returned to runPour.
HolderFailsSilently(p) ==
  /\ pourer[p].pc = "load" /\ ~pourer[p].retry
  /\ <<pourer[p].msg, KeyOf(p)>> \in FilterErrors
  /\ pourer' = [pourer EXCEPT ![p] = IdlePourer]
  /\ fate' = [fate EXCEPT ![pourer[p].msg] = "poured"]
  /\ UNCHANGED <<store, born, bucket, output, allOut, wg, phase, tomb,
                 delivered, alerts>>

\* The filter or the groupby of a holder fails: the holders after it are
\* abandoned with the message.
HolderFails(p) ==
  /\ pourer[p].pc = "load" /\ ~pourer[p].retry
  /\ <<pourer[p].msg, KeyOf(p)>> \in FilterErrors
  /\ pourer' = [pourer EXCEPT ![p] = IdlePourer]
  /\ fate' = [fate EXCEPT ![pourer[p].msg] = "failed"]
  /\ UNCHANGED <<store, born, bucket, output, allOut, wg, phase, tomb,
                 delivered, alerts>>

\* LoadOrStoreBucketFromHolder returned b.  A first load passes the ordering
\* gate before it pours; a reload from PourItemToBucket does not.
Loaded(p, b) ==
  [pourer EXCEPT ![p].bucket = b,
                 ![p].pc = IF OrderEvent /\ ~pourer[p].retry
                             THEN "gate" ELSE "pour"]

LoadBucket(p) ==
  /\ pourer[p].pc = "load"
  /\ pourer[p].retry \/ <<pourer[p].msg, KeyOf(p)>> \notin FilterErrors
  /\ pourer' = IF store[KeyOf(p)] # NoBucket
                 THEN Loaded(p, store[KeyOf(p)])
                 ELSE [pourer EXCEPT ![p].pc = "store"]
  /\ UNCHANGED <<fate, store, born, bucket, output, allOut, wg, phase, tomb,
                 delivered, alerts>>

\* BucketStore.LoadOrStore: another pourer may have stored one meanwhile;
\* otherwise the fresh bucket is stored and its goroutine started.
LoadOrStore(p) ==
  LET k == KeyOf(p) b == born + 1 IN
  /\ pourer[p].pc = "store"
  /\ \/ /\ store[k] # NoBucket
        /\ pourer' = Loaded(p, store[k])
        /\ UNCHANGED <<store, born, bucket>>
     \/ /\ store[k] = NoBucket
        /\ born < MaxBuckets
        /\ born' = b
        /\ store' = [store EXCEPT ![k] = b]
        /\ bucket' = [bucket EXCEPT ![b] = NewLeaky(k)]
        /\ pourer' = [pourer EXCEPT ![p].pc = "ready", ![p].bucket = b]
  /\ UNCHANGED <<fate, output, allOut, wg, phase, tomb, delivered, alerts>>

\* <-fresh_bucket.ready
AwaitReady(p) ==
  /\ pourer[p].pc = "ready"
  /\ bucket[pourer[p].bucket].ready
  /\ pourer' = Loaded(p, pourer[p].bucket)
  /\ UNCHANGED <<fate, store, born, bucket, output, allOut, wg, phase, tomb,
                 delivered, alerts>>

\* orderEvent[buckey].Wait(); orderEvent[buckey].Add(1)
OrderGate(p) ==
  /\ pourer[p].pc = "gate"
  /\ wg[KeyOf(p)] = 0
  /\ wg' = [wg EXCEPT ![KeyOf(p)] = @ + 1]
  /\ pourer' = [pourer EXCEPT ![p].pc = "pour"]
  /\ UNCHANGED <<fate, store, born, bucket, output, allOut, phase, tomb,
                 delivered, alerts>>

\* The holder is done with: the next holder, or the next message.
NextHolder(p) ==
  LET m == pourer[p].msg IN
  IF pourer[p].idx < Len(HoldersOf(m))
    THEN /\ pourer' = [pourer EXCEPT
                         ![p] = [IdlePourer EXCEPT !.pc = "load", !.msg = m,
                                                   !.idx = pourer[p].idx + 1]]
         /\ UNCHANGED fate
    ELSE /\ pourer' = [pourer EXCEPT ![p] = IdlePourer]
         /\ fate' = [fate EXCEPT ![m] = "poured"]

\* Defect: a blocking send, which a select with a suicide pending may choose.
ReceptiveBlocking(b) == bucket[b].pc = "select" /\ ~cancelled

\* A leak routine is parked in its select with no other case ready: the only
\* situation in which a non-blocking send on its unbuffered In succeeds.
Receptive(b) ==
  bucket[b].pc = "select" /\ ~bucket[b].suicide /\ ~cancelled

\* The loop of PourItemToBucket, dead bucket found: delete the key, then
\* load again.  The iterations that find the bucket neither done nor
\* receptive change nothing.
CleanupBody(p) ==
  /\ pourer[p].pc = "pour"
  /\ bucket[pourer[p].bucket].done
  /\ pourer' = [pourer EXCEPT ![p].pc = "delete"]
  /\ UNCHANGED <<fate, store, born, bucket, output, allOut, wg, phase, tomb,
                 delivered, alerts>>

\* Defect: the dead bucket stays in the store and is found again.
DeleteBodyForgotten(p) ==
  /\ pourer[p].pc = "delete"
  /\ pourer' = [pourer EXCEPT ![p].pc = "load", ![p].retry = TRUE,
                              ![p].bucket = NoBucket]
  /\ UNCHANGED <<fate, store, born, bucket, output, allOut, wg, phase, tomb,
                 delivered, alerts>>

\* bucketStore.Delete(buckey): whatever bucket the key maps to by now.
DeleteBody(p) ==
  /\ pourer[p].pc = "delete"
  /\ store' = [store EXCEPT ![KeyOf(p)] = NoBucket]
  /\ pourer' = [pourer EXCEPT ![p].pc = "load", ![p].retry = TRUE,
                              ![p].bucket = NoBucket]
  /\ UNCHANGED <<fate, born, bucket, output, allOut, wg, phase, tomb,
                 delivered, alerts>>

\* Defect: the retry loop goes on after a successful send.
PourItemAgain(p) ==
  LET b == pourer[p].bucket m == pourer[p].msg IN
  /\ pourer[p].pc = "pour" /\ ~bucket[b].done /\ Receptive(b)
  /\ bucket' = [bucket EXCEPT ![b].pc = "got", ![b].msg = m]
  /\ delivered' = [delivered EXCEPT ![m][KeyOf(p)] = @ + 1]
  /\ UNCHANGED <<fate, store, born, pourer, output, allOut, wg, phase, tomb,
                 alerts>>

\* Defect: the order gate is not waited for after the pour.
PourItemUnordered(p) ==
  LET b == pourer[p].bucket m == pourer[p].msg IN
  /\ pourer[p].pc = "pour" /\ ~bucket[b].done /\ Receptive(b)
  /\ bucket' = [bucket EXCEPT ![b].pc = "got", ![b].msg = m]
  /\ delivered' = [delivered EXCEPT ![m][KeyOf(p)] = @ + 1]
  /\ NextHolder(p)
  /\ UNCHANGED <<store, born, output, allOut, wg, phase, tomb, alerts>>

\* case bucket.In <- parsed; with orderEvent the pourer then waits.
PourItem(p) ==
  LET b == pourer[p].bucket m == pourer[p].msg IN
  /\ pourer[p].pc = "pour"
  /\ ~bucket[b].done
  /\ Receptive(b)
  /\ bucket' = [bucket EXCEPT ![b].pc = "got", ![b].msg = m]
  /\ delivered' = [delivered EXCEPT ![m][KeyOf(p)] = @ + 1]
  /\ IF OrderEvent
       THEN pourer' = [pourer EXCEPT ![p].pc = "await"] /\ UNCHANGED fate
       ELSE NextHolder(p)
  /\ UNCHANGED <<store, born, output, allOut, wg, phase, tomb, alerts>>

\* orderEvent[buckey].Wait() after the pour.
OrderWait(p) ==
  /\ pourer[p].pc = "await"
  /\ wg[KeyOf(p)] = 0
  /\ NextHolder(p)
  /\ UNCHANGED <<store, born, bucket, output, allOut, wg, phase, tomb,
                 delivered, alerts>>

-----------------------------------------------------------------------------
(* LeakRoutine.                                                            *)

F(b) == Factory[bucket[b].key]

\* What a leak routine never touches.
NotBucket == UNCHANGED <<fate, store, born, pourer, output, phase, tomb,
                         delivered, alerts>>

\* l.markReady()
Ready(b) ==
  /\ bucket[b].pc = "start"
  /\ bucket' = [bucket EXCEPT ![b].pc = "init", ![b].ready = TRUE]
  /\ UNCHANGED <<allOut, wg>> /\ NotBucket

\* OnBucketInit of every processor; an error returns through markDone.
BucketInit(b) ==
  /\ bucket[b].pc = "init"
  /\ bucket' = IF F(b).initFails
                 THEN [bucket EXCEPT ![b].pc = "dead", ![b].done = TRUE]
                 ELSE [bucket EXCEPT ![b].pc = "select"]
  /\ UNCHANGED <<allOut, wg>> /\ NotBucket

\* Defect: a pending overflow is not emitted in the same iteration.
EndIterationLate(b, new) ==
  /\ bucket' = [bucket EXCEPT ![b] = [new EXCEPT !.pc = "select",
                                                 !.msg = NoMsg]]
  /\ wg' = IF OrderEvent THEN [wg EXCEPT ![new.key] = @ - 1] ELSE wg

\* The end of an iteration that received a message: the ordering gate is
\* released, and an overflow decided in this iteration comes next.
EndIteration(b, new) ==
  /\ bucket' = [bucket EXCEPT ![b] =
                  [new EXCEPT !.pc = IF new.pending THEN "end" ELSE "select",
                              !.msg = NoMsg]]
  /\ wg' = IF OrderEvent THEN [wg EXCEPT ![new.key] = @ - 1] ELSE wg

\* Defect: the key cache is shared by the buckets of a factory.
DuplicateShared(b) ==
  /\ F(b).distinct
  /\ \E c \in BucketIds : /\ bucket[c].key = bucket[b].key
                          /\ Element(bucket[b].msg) \in bucket[c].seen

Duplicate(b) ==
  F(b).distinct /\ Element(bucket[b].msg) \in bucket[b].seen

\* The bucket with its KeyCache updated by UniqProcessor.OnBucketPour.
Remembering(b) ==
  IF F(b).distinct
    THEN [bucket[b] EXCEPT !.seen = @ \cup {Element(bucket[b].msg)}]
    ELSE bucket[b]

\* TriggerProcessor.OnBucketPour: the first event overflows.
PourTrigger(b) ==
  /\ bucket[b].pc = "got" /\ F(b).type = "trigger"
  /\ EndIteration(b, [bucket[b] EXCEPT
                        !.queue = Add(@, bucket[b].msg, Qsize(F(b))),
                        !.pending = TRUE])
  /\ UNCHANGED allOut /\ NotBucket

\* UniqProcessor.OnBucketPour discards an element seen before.
PourDuplicate(b) ==
  /\ bucket[b].pc = "got" /\ F(b).type # "trigger" /\ Duplicate(b)
  /\ EndIteration(b, bucket[b])
  /\ UNCHANGED allOut /\ NotBucket

\* CancelProcessor.OnBucketPour: Suicide has one slot; a send to the full
\* channel would block the routine on itself.
PourCancel(b) ==
  /\ bucket[b].pc = "got" /\ F(b).type # "trigger" /\ ~Duplicate(b)
  /\ bucket[b].msg \in F(b).cancelOn
  /\ ~bucket[b].suicide
  /\ EndIteration(b, [Remembering(b) EXCEPT !.suicide = TRUE])
  /\ UNCHANGED allOut /\ NotBucket

\* Limiter.Allow() || l.conditionalOverflow; Allow takes a token.
Allowed(b) ==
  \/ F(b).capacity = -1 \/ bucket[b].tokens > 0 \/ F(b).type = "conditional"

\* Defect: the first event does not start the ticker.
PouredNoTicker(b, condition) ==
  [Remembering(b) EXCEPT
     !.queue   = Add(@, bucket[b].msg, Qsize(F(b))),
     !.tokens  = IF @ > 0 THEN @ - 1 ELSE @,
     !.pending = ~Allowed(b) \/ condition,
     !.armed   = @ \/ (~condition /\ bucket[b].queue # << >>)]

\* Pour, then AfterBucketPour: condition says whether a conditional or a
\* Bayesian processor decides to overflow, which skips the ticker.
Poured(b, condition) ==
  [Remembering(b) EXCEPT
     !.queue   = Add(@, bucket[b].msg, Qsize(F(b))),
     !.tokens  = IF @ > 0 THEN @ - 1 ELSE @,
     !.pending = ~Allowed(b) \/ condition,
     !.armed   = @ \/ ~condition]

PourLimited(b) ==
  /\ bucket[b].pc = "got" /\ F(b).type # "trigger" /\ ~Duplicate(b)
  /\ bucket[b].msg \notin F(b).cancelOn
  /\ \E condition \in IF F(b).condition THEN BOOLEAN ELSE {FALSE} :
       EndIteration(b, Poured(b, condition))
  /\ UNCHANGED allOut /\ NotBucket

\* The rate limiter gives a token back as time passes.
Leak(b) ==
  /\ bucket[b].pc = "select" /\ bucket[b].tokens \in 0 .. F(b).capacity - 1
  /\ bucket' = [bucket EXCEPT ![b].tokens = @ + 1]
  /\ UNCHANGED <<allOut, wg>> /\ NotBucket

\* overflow(): markDone, the alert or its discarded form, then AllOut.
Overflowing(b, out) ==
  [bucket EXCEPT ![b].pc = "emit", ![b].done = TRUE, ![b].out = out]

Outcomes(b) == IF F(b).discards THEN {"alert", "cleanup"} ELSE {"alert"}

Overflow(b) ==
  /\ bucket[b].pc = "end"
  /\ \E out \in Outcomes(b) : bucket' = Overflowing(b, out)
  /\ UNCHANGED <<allOut, wg>> /\ NotBucket

\* case <-l.Suicide
Suicide(b) ==
  /\ bucket[b].pc = "select" /\ bucket[b].suicide
  /\ bucket' = [Overflowing(b, "cleanup") EXCEPT ![b].suicide = FALSE]
  /\ UNCHANGED <<allOut, wg>> /\ NotBucket

\* Defect: an underflow refills the bucket instead of destroying it.
TickerFiresRefill(b) ==
  /\ bucket[b].pc = "select" /\ bucket[b].armed
  /\ bucket' = [bucket EXCEPT ![b].tokens = F(b).capacity]
  /\ UNCHANGED <<allOut, wg>> /\ NotBucket

\* case <-durationTickerChan: a deadline overflows, an underflow destroys.
TickerFires(b) ==
  /\ bucket[b].pc = "select" /\ bucket[b].armed
  /\ \E out \in IF F(b).timed THEN Outcomes(b) ELSE {"cleanup"} :
       bucket' = Overflowing(b, out)
  /\ UNCHANGED <<allOut, wg>> /\ NotBucket

\* case <-ctx.Done(): done is left to the deferred markDone.
ExternallyKilled(b) ==
  /\ bucket[b].pc = "select" /\ cancelled
  /\ bucket' = [bucket EXCEPT ![b].pc = "emit", ![b].out = "cleanup"]
  /\ UNCHANGED <<allOut, wg>> /\ NotBucket

\* Defect: AllOut is written although its slot is taken.
EmitUnbounded(b) ==
  /\ bucket[b].pc = "emit"
  /\ allOut' = Append(allOut, b)
  /\ bucket' = [bucket EXCEPT ![b].pc = "dead", ![b].done = TRUE]
  /\ UNCHANGED wg /\ NotBucket

\* Defect: the routine does not return after its emission.
EmitAgain(b) ==
  /\ bucket[b].pc = "emit"
  /\ Len(allOut) < 1
  /\ allOut' = Append(allOut, b)
  /\ UNCHANGED <<bucket, wg>> /\ NotBucket

\* l.AllOut <- event, then the deferred markDone.
Emit(b) ==
  /\ bucket[b].pc = "emit"
  /\ Len(allOut) < 1
  /\ allOut' = Append(allOut, b)
  /\ bucket' = [bucket EXCEPT ![b].pc = "dead", ![b].done = TRUE]
  /\ UNCHANGED wg /\ NotBucket

-----------------------------------------------------------------------------
(* runOutput.  What it does with pendingAlerts afterwards is AlertOutput.  *)

\* case event := <-overflow.  An event without an alert only cleans up.
ReceiveOverflow(o) ==
  /\ output[o].pc = "select" /\ allOut # << >>
  /\ allOut' = Tail(allOut)
  /\ output' = [output EXCEPT
       ![o] = [pc |-> IF bucket[Head(allOut)].out = "cleanup"
                        THEN "cleanup" ELSE "parse",
               bucket |-> Head(allOut)]]
  /\ UNCHANGED <<fate, store, born, bucket, pourer, wg, phase, tomb,
                 delivered, alerts>>

OutputTo(o, pc) == [output EXCEPT ![o].pc = pc]

\* bucketStore.Delete(event.Overflow.Mapkey): by key, not by instance.
CleanupKey(o) ==
  /\ output[o].pc = "cleanup"
  /\ store' = [store EXCEPT ![bucket[output[o].bucket].key] = NoBucket]
  /\ output' = OutputTo(o, "select")
  /\ UNCHANGED <<fate, born, bucket, pourer, allOut, wg, phase, tomb,
                 delivered, alerts>>

\* pendingAlerts.add(ov)
AddAlert(o) == alerts' = [alerts EXCEPT ![output[o].bucket] = @ + 1]

\* The postoverflow parser: an error ends this routine, and with it the tomb.
PostOverflowFails(o) ==
  /\ output[o].pc = "parse" /\ "error" \in PostOverflow
  /\ output' = OutputTo(o, "exited")
  /\ tomb' = "dying"
  /\ UNCHANGED <<fate, store, born, bucket, pourer, allOut, wg, phase,
                 delivered, alerts>>

Whitelisted(o) ==
  /\ output[o].pc = "parse" /\ "whitelisted" \in PostOverflow
  /\ output' = OutputTo(o, "select")
  /\ UNCHANGED <<fate, store, born, bucket, pourer, allOut, wg, phase, tomb,
                 delivered, alerts>>

\* Defect: a reprocessed alert is buffered before it is handed back as well.
PassedTwice(o) ==
  LET b == output[o].bucket IN
  /\ output[o].pc = "parse" /\ "ok" \in PostOverflow
  /\ IF F(b).reprocess
       THEN /\ output' = OutputTo(o, "reprocess")
            /\ fate' = [fate EXCEPT ![b] = "offered"]
       ELSE /\ output' = OutputTo(o, "select")
            /\ UNCHANGED fate
  /\ AddAlert(o)
  /\ UNCHANGED <<store, born, bucket, pourer, allOut, wg, phase, tomb,
                 delivered>>

\* An alert that passed is sent again to inEvents if its scenario asks for
\* it, and then buffered.
Passed(o) ==
  LET b == output[o].bucket IN
  /\ output[o].pc = "parse" /\ "ok" \in PostOverflow
  /\ IF F(b).reprocess
       THEN /\ output' = OutputTo(o, "reprocess")
            /\ fate' = [fate EXCEPT ![b] = "offered"]
            /\ UNCHANGED alerts
       ELSE /\ output' = OutputTo(o, "select")
            /\ AddAlert(o)
            /\ UNCHANGED fate
  /\ UNCHANGED <<store, born, bucket, pourer, allOut, wg, phase, tomb,
                 delivered>>

\* Defect: a reprocessed overflow is not buffered as an alert.
ReprocessOnly(o, p) ==
  /\ output[o].pc = "reprocess" /\ pourer[p].pc = "idle"
  /\ Take(p, output[o].bucket)
  /\ output' = OutputTo(o, "select")
  /\ UNCHANGED <<store, born, bucket, allOut, wg, phase, tomb, delivered,
                 alerts>>

\* case input <- event, received by an idle pour routine.
Reprocess(o, p) ==
  /\ output[o].pc = "reprocess" /\ pourer[p].pc = "idle"
  /\ Take(p, output[o].bucket)
  /\ output' = OutputTo(o, "select")
  /\ AddAlert(o)
  /\ UNCHANGED <<store, born, bucket, allOut, wg, phase, tomb, delivered>>

\* case <-ctx.Done() of the reprocess select.
SkipReprocess(o) ==
  /\ output[o].pc = "reprocess" /\ cancelled
  /\ fate' = [fate EXCEPT ![output[o].bucket] = "drained"]
  /\ output' = OutputTo(o, "select")
  /\ AddAlert(o)
  /\ UNCHANGED <<store, born, bucket, pourer, allOut, wg, phase, tomb,
                 delivered>>

\* case <-outputsTomb.Dying()
OutputExit(o) ==
  /\ output[o].pc = "select" /\ tomb = "dying"
  /\ output' = OutputTo(o, "exited")
  /\ UNCHANGED <<fate, store, born, bucket, pourer, allOut, wg, phase, tomb,
                 delivered, alerts>>

-----------------------------------------------------------------------------
(* ShutdownCrowdsecRoutines.                                               *)

\* Acquisition is over and drainChan(inEvents) starts.
StartShutdown ==
  /\ MayShutdown /\ phase = "running"
  /\ phase' = "draining"
  /\ UNCHANGED <<fate, store, born, bucket, pourer, output, allOut, wg, tomb,
                 delivered, alerts>>

\* drainChan receives and drops a parser's event or a reprocessed overflow.
DrainEvent ==
  /\ phase = "draining"
  /\ \E e \in Events :
       fate[e] = "offered" /\ fate' = [fate EXCEPT ![e] = "drained"]
  /\ UNCHANGED <<store, born, bucket, pourer, output, allOut, wg, phase,
                 tomb, delivered, alerts>>

DrainReprocess(o) ==
  /\ phase = "draining" /\ output[o].pc = "reprocess"
  /\ fate' = [fate EXCEPT ![output[o].bucket] = "drained"]
  /\ output' = OutputTo(o, "select")
  /\ AddAlert(o)
  /\ UNCHANGED <<store, born, bucket, pourer, allOut, wg, phase, tomb,
                 delivered>>

\* outputsTomb.Kill(nil)
KillOutputs ==
  /\ phase = "draining"
  /\ phase' = "killed" /\ tomb' = "dying"
  /\ UNCHANGED <<fate, store, born, bucket, pourer, output, allOut, wg,
                 delivered, alerts>>

\* cancel(), once the outputs are done or after three seconds.
Cancel ==
  /\ phase = "killed"
  /\ phase' = "cancelled"
  /\ UNCHANGED <<fate, store, born, bucket, pourer, output, allOut, wg, tomb,
                 delivered, alerts>>

-----------------------------------------------------------------------------
PourStep(p) ==
  \/ ReceiveEvent(p) \/ HolderFails(p) \/ LoadBucket(p) \/ LoadOrStore(p)
  \/ AwaitReady(p) \/ OrderGate(p) \/ CleanupBody(p) \/ DeleteBody(p)
  \/ PourItem(p) \/ OrderWait(p) \/ PourExit(p)

BucketStep(b) ==
  \/ Ready(b) \/ BucketInit(b) \/ PourTrigger(b) \/ PourDuplicate(b)
  \/ PourCancel(b) \/ PourLimited(b) \/ Overflow(b) \/ Suicide(b)
  \/ TickerFires(b) \/ ExternallyKilled(b) \/ Emit(b)

OutputStep(o) ==
  \/ ReceiveOverflow(o) \/ CleanupKey(o) \/ PostOverflowFails(o)
  \/ Whitelisted(o) \/ Passed(o) \/ SkipReprocess(o) \/ OutputExit(o)
  \/ \E p \in Pourers : Reprocess(o, p)

ShutdownStep ==
  \/ StartShutdown \/ DrainEvent \/ KillOutputs \/ Cancel
  \/ \E o \in Outputs : DrainReprocess(o)

\* Nothing is left to do: every routine waits, or has returned.
Quiescent ==
  /\ \A m \in Msgs : fate[m] \notin {"offered", "held"}
  /\ \A b \in BucketIds : bucket[b].pc \in {"unborn", "dead"}
  /\ \A o \in Outputs : output[o].pc \in {"select", "exited"}
  /\ allOut = << >>

Idle == Quiescent /\ UNCHANGED vars

Next ==
  \/ \E p \in Pourers : PourStep(p)
  \/ \E b \in BucketIds : BucketStep(b) \/ Leak(b)
  \/ \E o \in Outputs : OutputStep(o)
  \/ ShutdownStep
  \/ Idle

Spec == Init /\ [][Next]_vars

\* Every goroutine keeps being scheduled and tickers eventually fire.
Fairness ==
  /\ \A p \in Pourers : WF_vars(PourStep(p))
  /\ \A b \in BucketIds : WF_vars(BucketStep(b))
  /\ \A o \in Outputs : WF_vars(OutputStep(o))

FairSpec == Spec /\ Fairness

-----------------------------------------------------------------------------
(* Properties.                                                             *)

PourerPCs == {"idle", "load", "store", "ready", "gate", "pour", "delete",
              "await", "exited"}
BucketPCs == {"unborn", "start", "init", "select", "got", "end", "emit",
              "dead"}
OutputPCs == {"select", "cleanup", "parse", "reprocess", "exited"}

BucketRec ==
  [pc : BucketPCs, key : Keys \cup {NoBucket}, ready : BOOLEAN,
   done : BOOLEAN, msg : Msgs \cup {NoMsg}, queue : Seq(Msgs), tokens : Int,
   pending : BOOLEAN, suicide : BOOLEAN, armed : BOOLEAN,
   seen : SUBSET {Element(m) : m \in Msgs},
   out : {"none", "alert", "cleanup"}]
PourerRec ==
  [pc : PourerPCs, msg : Msgs \cup {NoMsg}, idx : Nat, retry : BOOLEAN,
   bucket : BucketIds \cup {NoBucket}]
OutputRec == [pc : OutputPCs, bucket : BucketIds \cup {NoBucket}]

\* Every variable has its type: channels within their capacity, wait group
\* counters never negative (sync.WaitGroup would panic in LeakRoutine).
TypeOK ==
  /\ fate \in [Msgs -> Fates]
  /\ store \in [Keys -> BucketIds \cup {NoBucket}]
  /\ born \in 0 .. MaxBuckets
  /\ bucket \in [BucketIds -> BucketRec]
  /\ pourer \in [Pourers -> PourerRec]
  /\ output \in [Outputs -> OutputRec]
  /\ allOut \in Seq(BucketIds) /\ Len(allOut) <= 1
  /\ wg \in [Keys -> Nat]
  /\ phase \in Phases
  /\ tomb \in {"alive", "dying"}
  /\ delivered \in [Msgs -> [Keys -> Nat]]
  /\ alerts \in [BucketIds -> Nat]

\* PourItemToHolders gives a message to each of its holders exactly once,
\* whatever happens to the buckets it finds, loses and recreates meanwhile:
\* no retry of PourItemToBucket pours it twice, none is skipped, and a
\* message dropped by the shutdown's drainChan was not half poured.
DeliveredOnce ==
  /\ \A m \in Msgs, k \in Keys : delivered[m][k] <= 1
  /\ \A m \in Msgs : fate[m] = "poured" =>
       \A i \in 1 .. Len(HoldersOf(m)) : delivered[m][HoldersOf(m)[i]] = 1
  /\ \A m \in Msgs, k \in Keys :
       fate[m] \in {"none", "offered", "drained"} => delivered[m][k] = 0

\* The comment at the End label of LeakRoutine: once an iteration decided to
\* overflow, or the bucket is done, nothing more is poured into the queue the
\* alert is built from.
QueueFrozen ==
  [][\A b \in BucketIds :
       bucket[b].pending \/ bucket[b].done =>
         bucket'[b].queue = bucket[b].queue /\ bucket'[b].msg = NoMsg]_vars

\* The comment above deepcopy.Copy in LeakRoutine: no bucket waits for events
\* without anything that will ever destroy it.  A bucket at its select has a
\* ticker or a suicide pending, unless a pourer still has it in hand.
NoImmortalBucket ==
  \A b \in BucketIds : bucket[b].pc = "select" =>
    \/ bucket[b].armed \/ bucket[b].suicide
    \/ \E p \in Pourers : /\ pourer[p].bucket = b
                          /\ pourer[p].pc \in {"ready", "gate", "pour"}

\* The leak routine writes to its own Suicide channel (cancel.go), whose slot
\* is always free then: it cannot block on itself.
SuicideSlotFree ==
  \A b \in BucketIds : bucket[b].pc = "got" => ~bucket[b].suicide

\* Where the event a bucket emitted is: in the channel or with an output.
InFlight(b) ==
  Cardinality({i \in 1 .. Len(allOut) : allOut[i] = b})
  + Cardinality({o \in Outputs : /\ output[o].bucket = b
                                 /\ output[o].pc \in {"cleanup", "parse",
                                                      "reprocess"}})

\* A bucket emits one event in its life and its alert is buffered at most
\* once, even when the overflow is reprocessed: emission (LeakRoutine, Emit)
\* and pendingAlerts.add agree.
AlertOnce ==
  \A b \in BucketIds :
    /\ alerts[b] + InFlight(b) <= 1
    /\ alerts[b] + InFlight(b) = 1 => bucket[b].pc = "dead"
    /\ alerts[b] = 1 => bucket[b].out = "alert"

\* With -order-event, PourItemToHolders returns from a holder only when the
\* bucket has processed the event: no bucket is processing one while its
\* pourer has moved on, and a key's wait group never counts two.
OrderedPour ==
  OrderEvent =>
    /\ \A b \in BucketIds : bucket[b].pc = "got" =>
         \E p \in Pourers : /\ pourer[p].pc = "await"
                            /\ pourer[p].bucket = b
                            /\ pourer[p].msg = bucket[b].msg
    /\ \A k \in Keys : wg[k] <= 1

\* A message a pour routine took is eventually through all its holders: the
\* retry loop of PourItemToBucket ends (no shutdown).
PourReturns ==
  \A p \in Pourers : pourer[p].pc # "idle" ~> pourer[p].pc = "idle"

\* Every bucket is eventually gone: it underflows, overflows or is cancelled,
\* and is never left blocked on AllOut (outputs running, no shutdown).
EveryBucketEnds ==
  \A b \in BucketIds : bucket[b].pc # "unborn" ~> bucket[b].pc = "dead"

\* An overflow that the postoverflow stage passes reaches pendingAlerts, also
\* when the output first has to hand it back to the pour routines.
AlertsArrive ==
  \A b \in BucketIds :
    bucket[b].pc = "emit" /\ bucket[b].out = "alert" ~> alerts[b] = 1

-----------------------------------------------------------------------------
(* Statements of the documentation and of comments that the code does not  *)
(* keep.                                                                   *)

Live(b) == bucket[b].pc \in {"start", "init", "select", "got"}

\* README.md of leakybucket: the same (filter, stackkey) pair always maps to
\* the same bucket instance, so two live instances of a key never coexist.
\* The cleanup event of a dead bucket deletes by key (output.go:129) and can
\* remove the successor that a pourer has already stored.
OneInstancePerKey ==
  \A b, c \in BucketIds :
    Live(b) /\ Live(c) /\ bucket[b].key = bucket[c].key => b = c

\* manager_run.go: once the created goroutine is ready to process events, we
\* can return it.  A bucket marked ready either reaches its select or is
\* still initialising; it does not die without ever having received.
ReadyMeansReceiving ==
  \A b \in BucketIds : bucket[b].ready /\ bucket[b].pc = "dead" =>
    bucket[b].out # "none"

\* bucket.go: don't wait defer to close the channel, in case we are blocked
\* before returning.  Pourers rely on it: after cancel() every pour routine
\* gets out of the bucket it is pouring to and returns.
CancelStopsPourers ==
  \A p \in Pourers : cancelled ~> pourer[p].pc = "exited"

\* README.md of leakybucket: a bucket that reaches its threshold emits an
\* overflow and is then destroyed, so the store forgets it.
OverflowedIsForgotten ==
  \A b \in BucketIds :
    bucket[b].pc = "end" ~> \A k \in Keys : store[k] # b
=============================================================================
