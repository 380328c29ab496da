----------------------- MODULE LeakyBucketsLifeProofs -----------------------
(***************************************************************************)
(* Proofs about the life of a bucket: what it does to its queue and its    *)
(* Suicide channel, that something will always destroy it, and that it     *)
(* raises at most one alert.                                               *)
(***************************************************************************)
EXTENDS LeakyBucketsProofs, FiniteSetTheorems

-----------------------------------------------------------------------------
(* The life of a bucket.                                                   *)

\* An overflow decided is an overflow under way, a bucket marked done emits
\* or is dead, a message is only with a bucket that processes it, and what is
\* to be emitted is known.
LifeRec(r) ==
  /\ r.pending => r.pc \in {"end", "emit", "dead"}
  /\ r.done => r.pc \in {"emit", "dead"}
  /\ r.pc # "got" => r.msg = NoMsg
  /\ r.pc = "got" => ~r.suicide
  /\ r.pc = "emit" => r.out # "none"

LifeInv == \A b \in BucketIds : LifeRec(bucket[b])

\* What a step may do to a bucket: r becomes s.
LifeRel(r, s) ==
  /\ LifeRec(s)
  /\ r.pc = "dead" => s.pc = "dead"
  /\ r.pc \in {"emit", "dead"} => s.out = r.out
  /\ r.pending \/ r.done => s.queue = r.queue /\ s.msg = NoMsg

\* A step that changes one bucket as LifeRel allows.
LEMMA LifeMove ==
  ASSUME TypeInv, LifeInv, NEW b \in BucketIds, NEW new,
         bucket' = [bucket EXCEPT ![b] = new], LifeRel(bucket[b], new)
  PROVE  \A c \in BucketIds : LifeRel(bucket[c], bucket'[c])
<1> SUFFICES ASSUME NEW c \in BucketIds
             PROVE  LifeRel(bucket[c], bucket'[c])
  OBVIOUS
<1>1. CASE c = b
  BY <1>1 DEF TypeInv, TypeOK
<1>2. CASE c # b
  <2>1. bucket'[c] = bucket[c] /\ LifeRec(bucket[c])
    BY <1>2 DEF TypeInv, TypeOK, LifeInv
  <2>2. bucket[c].pending \/ bucket[c].done => bucket[c].msg = NoMsg
    BY <2>1 DEF LifeRec
  <2> QED BY <2>1, <2>2 DEF LifeRel
<1> QED BY <1>1, <1>2

\* A step that leaves every bucket alone.
LEMMA LifeStutter ==
  ASSUME LifeInv, bucket' = bucket
  PROVE  \A c \in BucketIds : LifeRel(bucket[c], bucket'[c])
<1> SUFFICES ASSUME NEW c \in BucketIds
             PROVE  LifeRel(bucket[c], bucket[c])
  OBVIOUS
<1>1. LifeRec(bucket[c])
  BY DEF LifeInv
<1>2. bucket[c].pending \/ bucket[c].done => bucket[c].msg = NoMsg
  BY <1>1 DEF LifeRec
<1> QED BY <1>1, <1>2 DEF LifeRel

\* The end of the iteration of a bucket b whose processors left it as new.
LEMMA LifeIteration ==
  ASSUME TypeInv, LifeInv, NEW b \in BucketIds, bucket[b].pc = "got",
         NEW new \in BucketRec, new.done = bucket[b].done,
         EndIteration(b, new)
  PROVE  \A c \in BucketIds : LifeRel(bucket[c], bucket'[c])
<1> DEFINE pc == IF new.pending THEN "end" ELSE "select"
           end == [new EXCEPT !.pc = pc, !.msg = NoMsg]
<1>1. bucket' = [bucket EXCEPT ![b] = end]
  BY DEF EndIteration
<1>2. ~bucket[b].pending /\ ~bucket[b].done
  BY DEF LifeInv, LifeRec
<1>3. LifeRec(end)
  <2>1. end.pc = pc /\ end.msg = NoMsg /\ end.pending = new.pending
        /\ end.done = new.done
    BY DEF BucketRec
  <2>2. pc \in {"end", "select"} /\ (new.pending => pc = "end")
    OBVIOUS
  <2> HIDE DEF end, pc
  <2> QED BY <1>2, <2>1, <2>2 DEF LifeRec
<1> HIDE DEF end
<1>4. LifeRel(bucket[b], end)
  BY <1>2, <1>3 DEF LifeRel
<1> QED BY <1>1, <1>4, LifeMove, Zenon

\* Every step of a leak routine, and of its limiter, respects LifeRel.
LEMMA LifeBucketStep ==
  ASSUME TypeInv, LifeInv, NEW b \in BucketIds, BucketStep(b) \/ Leak(b)
  PROVE  \A c \in BucketIds : LifeRel(bucket[c], bucket'[c])
<1> DEFINE r == bucket[b]
<1>0. r \in BucketRec /\ LifeRec(r)
  BY DEF TypeInv, TypeOK, LifeInv
<1>1. ASSUME NEW pc \in {"init", "select", "emit", "dead"},
             r.pc \notin {"got", "dead"}, NEW new, new \in BucketRec, bucket' = [bucket EXCEPT ![b] = new],
             new.pc = pc, new.queue = r.queue, new.msg = r.msg,
             new.pending = r.pending, new.done = r.done \/ new.done = TRUE,
             new.pending \/ new.done => pc \in {"emit", "dead"},
             pc = "emit" => new.out # "none", r.pc = "emit" => new.out = r.out
      PROVE  \A c \in BucketIds : LifeRel(bucket[c], bucket'[c])
  <2>1. new.msg = NoMsg
    BY <1>0, <1>1 DEF LifeRec
  <2>2. LifeRec(new)
    BY <1>1, <2>1 DEF LifeRec
  <2>3. LifeRel(r, new)
    BY <1>1, <2>1, <2>2 DEF LifeRel
  <2> QED BY <1>1, <2>3, LifeMove, Zenon
<1>2. CASE Ready(b)
  <2> DEFINE new == [r EXCEPT !.pc = "init", !.ready = TRUE]
  <2>1. r.pc = "start" /\ bucket' = [bucket EXCEPT ![b] = new]
    BY <1>2, Zenon DEF Ready, TypeInv, TypeOK
  <2>2. new \in BucketRec /\ new.pc = "init" /\ new.queue = r.queue
        /\ new.msg = r.msg /\ new.pending = r.pending /\ new.done = r.done
    BY <1>0, Zenon DEF BucketRec, BucketPCs
  <2> HIDE DEF new
  <2>3. ~r.pending /\ ~r.done
    BY <1>0, <2>1 DEF LifeRec
  <2> QED BY <1>1, <2>1, <2>2, <2>3, Zenon
<1>3. CASE BucketInit(b)
  <2> DEFINE dead == [r EXCEPT !.pc = "dead", !.done = TRUE]
             select == [r EXCEPT !.pc = "select"]
  <2>1. r.pc = "init" /\ \/ bucket' = [bucket EXCEPT ![b] = dead]
                         \/ bucket' = [bucket EXCEPT ![b] = select]
    BY <1>3, Zenon DEF BucketInit, TypeInv, TypeOK
  <2>2. dead \in BucketRec /\ dead.pc = "dead" /\ dead.queue = r.queue
        /\ dead.msg = r.msg /\ dead.pending = r.pending /\ dead.done = TRUE
    BY <1>0, Zenon DEF BucketRec, BucketPCs
  <2>3. select \in BucketRec /\ select.pc = "select"
        /\ select.queue = r.queue /\ select.msg = r.msg
        /\ select.pending = r.pending /\ select.done = r.done
    BY <1>0 DEF BucketRec, BucketPCs
  <2> HIDE DEF dead, select
  <2>4. ~r.pending /\ ~r.done
    BY <1>0, <2>1 DEF LifeRec
  <2>5. CASE bucket' = [bucket EXCEPT ![b] = dead]
    BY <1>1, <2>1, <2>2, <2>5, Zenon
  <2>6. CASE bucket' = [bucket EXCEPT ![b] = select]
    BY <1>1, <2>1, <2>3, <2>4, <2>6, Zenon
  <2> QED BY <2>1, <2>5, <2>6
<1>4. CASE PourTrigger(b)
  <2> DEFINE q == Add(r.queue, r.msg, Qsize(F(b)))
             new == [r EXCEPT !.queue = q, !.pending = TRUE]
  <2>1. r.pc = "got" /\ EndIteration(b, new)
    BY <1>4 DEF PourTrigger
  <2>2. q \in Seq(Msgs)
    <3>1. r.msg \in Msgs /\ r.queue \in Seq(Msgs)
      BY <1>0, <2>1 DEF TypeInv, BucketInv, BucketRec
    <3>2. Qsize(F(b)) \in Nat \cup {-1}
      BY <2>1, FactoryOf, QsizeType
    <3> QED BY <3>1, <3>2, AddType, Zenon
  <2> HIDE DEF q
  <2>3. new \in BucketRec /\ new.done = r.done
    BY <1>0, <2>2, Zenon DEF BucketRec
  <2> HIDE DEF new
  <2> QED BY <2>1, <2>3, LifeIteration
<1>5. CASE PourDuplicate(b)
  BY <1>0, <1>5, LifeIteration DEF PourDuplicate
<1>6. CASE PourCancel(b)
  <2> DEFINE s == Remembering(b)
             new == [s EXCEPT !.suicide = TRUE]
  <2>1. r.pc = "got" /\ EndIteration(b, new)
    BY <1>6 DEF PourCancel
  <2>2. s \in BucketRec /\ s.done = r.done
    BY <2>1, RememberingType
  <2> HIDE DEF s
  <2>3. new \in BucketRec /\ new.done = s.done
    BY <2>2, Zenon DEF BucketRec
  <2> HIDE DEF new
  <2> QED BY <2>1, <2>2, <2>3, LifeIteration
<1>7. CASE PourLimited(b)
  <2>1. PICK condition \in BOOLEAN : EndIteration(b, Poured(b, condition))
    BY <1>7, Zenon DEF PourLimited
  <2>2. r.pc = "got"
    BY <1>7 DEF PourLimited
  <2>3. Poured(b, condition) \in BucketRec
        /\ Poured(b, condition).done = r.done
    BY <2>2, PouredType
  <2> QED BY <2>1, <2>2, <2>3, LifeIteration
<1>8. CASE Overflow(b) \/ TickerFires(b)
  <2>1. PICK out \in {"alert", "cleanup"} : bucket' = Overflowing(b, out)
    BY <1>8 DEF Overflow, TickerFires, Outcomes
  <2> DEFINE new == [r EXCEPT !.pc = "emit", !.done = TRUE, !.out = out]
  <2>2. bucket' = [bucket EXCEPT ![b] = new]
        /\ r.pc \notin {"got", "emit", "dead"}
    BY <1>8, <2>1, Zenon DEF Overflowing, Overflow, TickerFires, TypeInv, TypeOK
  <2>3. new \in BucketRec /\ new.pc = "emit" /\ new.queue = r.queue
        /\ new.msg = r.msg /\ new.pending = r.pending /\ new.done = TRUE
        /\ new.out # "none"
    BY <1>0, Zenon DEF BucketRec, BucketPCs
  <2> HIDE DEF new
  <2> QED BY <1>1, <2>2, <2>3, Zenon
<1>9. CASE Suicide(b)
  <2> DEFINE new == [r EXCEPT !.pc = "emit", !.done = TRUE, !.out = "cleanup",
                              !.suicide = FALSE]
  <2>1. r.pc = "select"
        /\ bucket' = [Overflowing(b, "cleanup") EXCEPT ![b].suicide = FALSE]
    BY <1>9 DEF Suicide
  <2>2. bucket' = [bucket EXCEPT ![b] = new]
    BY <1>0, <2>1, Zenon DEF Overflowing, TypeInv, TypeOK, BucketRec
  <2>3. new \in BucketRec /\ new.pc = "emit" /\ new.queue = r.queue
        /\ new.msg = r.msg /\ new.pending = r.pending /\ new.done = TRUE
        /\ new.out # "none"
    BY <1>0, Zenon DEF BucketRec, BucketPCs
  <2> HIDE DEF new
  <2> QED BY <1>1, <2>1, <2>2, <2>3, Zenon
<1>10. CASE ExternallyKilled(b)
  <2> DEFINE new == [r EXCEPT !.pc = "emit", !.out = "cleanup"]
  <2>1. r.pc = "select" /\ bucket' = [bucket EXCEPT ![b] = new]
    BY <1>10, Zenon DEF ExternallyKilled, TypeInv, TypeOK
  <2>2. new \in BucketRec /\ new.pc = "emit" /\ new.queue = r.queue
        /\ new.msg = r.msg /\ new.pending = r.pending /\ new.done = r.done
        /\ new.out # "none"
    BY <1>0, Zenon DEF BucketRec, BucketPCs
  <2> HIDE DEF new
  <2> QED BY <1>1, <2>1, <2>2, Zenon
<1>11. CASE Leak(b)
  <2> DEFINE n == r.tokens + 1
             new == [r EXCEPT !.tokens = n]
  <2>1. r.pc = "select" /\ bucket' = [bucket EXCEPT ![b] = new]
    BY <1>11 DEF Leak, TypeInv, TypeOK
  <2>2. n \in Int
    BY <1>0 DEF BucketRec
  <2> HIDE DEF n
  <2>3. new \in BucketRec /\ new.pc = r.pc /\ new.queue = r.queue
        /\ new.msg = r.msg /\ new.pending = r.pending /\ new.done = r.done
    BY <1>0, <2>2 DEF BucketRec
  <2> HIDE DEF new
  <2>4. ~r.pending /\ ~r.done
    BY <1>0, <2>1 DEF LifeRec
  <2> QED BY <1>1, <2>1, <2>3, <2>4, Zenon
<1>12. CASE Emit(b)
  <2> DEFINE new == [r EXCEPT !.pc = "dead", !.done = TRUE]
  <2>1. r.pc = "emit" /\ bucket' = [bucket EXCEPT ![b] = new]
    BY <1>12, Zenon DEF Emit, TypeInv, TypeOK
  <2>2. new \in BucketRec /\ new.pc = "dead" /\ new.queue = r.queue
        /\ new.msg = r.msg /\ new.pending = r.pending /\ new.done = TRUE
        /\ new.out = r.out
    BY <1>0, Zenon DEF BucketRec, BucketPCs
  <2> HIDE DEF new
  <2> QED BY <1>1, <2>1, <2>2, Zenon
<1> QED
  BY <1>2, <1>3, <1>4, <1>5, <1>6, <1>7, <1>8, <1>9, <1>10, <1>11, <1>12
     DEF BucketStep

\* Every step of the engine respects LifeRel.
LEMMA LifeNext ==
  ASSUME TypeInv, LifeInv, [Next]_vars
  PROVE  \A c \in BucketIds : LifeRel(bucket[c], bucket'[c])
<1>1. CASE \E b \in BucketIds : BucketStep(b) \/ Leak(b)
  BY <1>1, LifeBucketStep
<1>2. CASE \E o \in Outputs : OutputStep(o)
  BY <1>2, LifeStutter
     DEF OutputStep, ReceiveOverflow, CleanupKey, PostOverflowFails,
         Whitelisted, Passed, SkipReprocess, OutputExit, Reprocess
<1>3. CASE ShutdownStep
  BY <1>3, LifeStutter
     DEF ShutdownStep, StartShutdown, DrainEvent, KillOutputs, Cancel,
         DrainReprocess
<1>4. CASE Idle \/ UNCHANGED vars
  BY <1>4, LifeStutter DEF Idle, vars
<1>5. ASSUME NEW p \in Pourers, PourStep(p)
      PROVE  \A c \in BucketIds : LifeRel(bucket[c], bucket'[c])
  <2>1. CASE PourItem(p)
    <3> DEFINE b == pourer[p].bucket
               m == pourer[p].msg
               r == bucket[b]
               new == [r EXCEPT !.pc = "got", !.msg = m]
    <3>1. pourer[p].pc = "pour" /\ r.pc = "select" /\ ~r.suicide
      BY <2>1 DEF PourItem, Receptive
    <3>2. b \in BucketIds
      BY <3>1, BornIds DEF TypeInv, PourerInv, Holding
    <3>3. bucket' = [bucket EXCEPT ![b] = new]
      BY <2>1, <3>2, Zenon DEF PourItem, TypeInv, TypeOK
    <3>4. r \in BucketRec /\ LifeRec(r)
      BY <3>2 DEF TypeInv, TypeOK, LifeInv
    <3> HIDE DEF b, r, m
    <3>5. new.pc = "got" /\ new.suicide = r.suicide
          /\ new.pending = r.pending /\ new.done = r.done
      BY <3>4 DEF BucketRec
    <3> HIDE DEF new
    <3>6. LifeRel(r, new)
      BY <3>1, <3>4, <3>5 DEF LifeRel, LifeRec
    <3> QED BY <3>2, <3>3, <3>6, LifeMove, Zenon DEF r
  <2>2. CASE LoadOrStore(p)
    <3>1. CASE bucket' = bucket
      BY <3>1, LifeStutter
    <3>2. CASE bucket' # bucket
      <4> DEFINE b == born + 1
                 k == KeyOf(p)
      <4>1. bucket' = [bucket EXCEPT ![b] = NewLeaky(k)] /\ born < MaxBuckets
        BY <2>2, <3>2 DEF LoadOrStore
      <4>2. b \in BucketIds /\ b \notin 1 .. born
        BY <4>1, ConstantsAssumption DEF TypeInv, TypeOK, BucketIds
      <4>3. bucket[b].pc = "unborn"
        BY <4>2 DEF TypeInv, BucketInv
      <4> HIDE DEF b, k
      <4>4. LifeRel(bucket[b], NewLeaky(k))
        BY <4>2, <4>3 DEF LifeInv, LifeRel, LifeRec, NewLeaky, Unborn
      <4> QED BY <4>1, <4>2, <4>4, LifeMove, Zenon
    <3> QED BY <3>1, <3>2
  <2>3. CASE ~PourItem(p) /\ ~LoadOrStore(p)
    BY <1>5, <2>3, LifeStutter
       DEF PourStep, ReceiveEvent, HolderFails, LoadBucket, AwaitReady,
           OrderGate, CleanupBody, DeleteBody, OrderWait, PourExit
  <2> QED BY <2>1, <2>2, <2>3
<1> QED BY <1>1, <1>2, <1>3, <1>4, <1>5 DEF Next

\* LifeInv is inductive relative to TypeInv.
LEMMA LifeInvariant == Spec => []LifeInv
<1>1. Init => LifeInv
  BY DEF Init, LifeInv, LifeRec, Unborn
<1>2. TypeInv /\ LifeInv /\ [Next]_vars => LifeInv'
  <2> SUFFICES ASSUME TypeInv, LifeInv, [Next]_vars PROVE LifeInv'
    OBVIOUS
  <2>1. \A c \in BucketIds : LifeRel(bucket[c], bucket'[c])
    BY LifeNext
  <2> QED BY <2>1 DEF LifeRel, LifeInv
<1> QED BY <1>1, <1>2, TypeInvariant, PTL DEF Spec

\* cancel.go: the leak routine never blocks on its own Suicide channel.
THEOREM SuicideSlotFreeHolds == Spec => []SuicideSlotFree
<1>1. LifeInv => SuicideSlotFree
  BY DEF LifeInv, LifeRec, SuicideSlotFree
<1> QED BY <1>1, LifeInvariant, PTL

\* LeakRoutine: nothing is poured into a bucket that decided to overflow.
THEOREM QueueFrozenHolds == Spec => QueueFrozen
<1> DEFINE A == \A b \in BucketIds :
                  bucket[b].pending \/ bucket[b].done =>
                    bucket'[b].queue = bucket[b].queue /\ bucket'[b].msg = NoMsg
<1>1. TypeInv /\ LifeInv /\ [Next]_vars => [A]_vars
  BY LifeNext DEF LifeRel
<1>2. Spec => [][A]_vars
  BY <1>1, TypeInvariant, LifeInvariant, PTL DEF Spec
<1> QED BY <1>2 DEF QueueFrozen
-----------------------------------------------------------------------------
(* No bucket is immortal.                                                  *)

\* A pourer is on its way to pour into b.
InHand(b) ==
  \E p \in Pourers : /\ pourer[p].bucket = b
                     /\ pourer[p].pc \in {"ready", "gate", "pour"}

\* A bucket that has never armed its ticker has remembered no element, and
\* until its first message some pourer is about to pour into it.
MortalRec(r, inHand) ==
  /\ r.pc \in {"start", "init"} => r.seen = {} /\ inHand
  /\ r.pc = "select" => r.armed \/ r.suicide \/ (r.seen = {} /\ inHand)
  /\ r.pc = "got" => r.armed \/ r.seen = {}

MortalInv == \A b \in BucketIds : MortalRec(bucket[b], InHand(b))

\* A step of the leak routine of b.
LEMMA MortalMove ==
  ASSUME TypeInv, MortalInv, NEW b \in BucketIds, NEW new,
         bucket' = [bucket EXCEPT ![b] = new], pourer' = pourer,
         MortalRec(new, InHand(b))
  PROVE  MortalInv'
<1> SUFFICES ASSUME NEW c \in BucketIds
             PROVE  MortalRec(bucket'[c], InHand(c)')
  BY DEF MortalInv
<1>1. InHand(c)' <=> InHand(c)
  BY DEF InHand
<1>2. bucket'[c] = IF c = b THEN new ELSE bucket[c]
  BY DEF TypeInv, TypeOK
<1>3. MortalRec(bucket[c], InHand(c))
  BY DEF MortalInv
<1> QED BY <1>1, <1>2, <1>3 DEF MortalRec

\* The end of an iteration: the bucket overflows, dies or has a ticker.
LEMMA MortalIteration ==
  ASSUME TypeInv, MortalInv, NEW b \in BucketIds, pourer' = pourer,
         NEW new \in BucketRec, EndIteration(b, new),
         new.pending \/ new.armed \/ new.suicide
  PROVE  MortalInv'
<1> DEFINE pc == IF new.pending THEN "end" ELSE "select"
           end == [new EXCEPT !.pc = pc, !.msg = NoMsg]
<1>1. bucket' = [bucket EXCEPT ![b] = end]
  BY DEF EndIteration
<1>2. end.pc = pc /\ end.armed = new.armed /\ end.suicide = new.suicide
  BY DEF BucketRec
<1>3. pc \in {"end", "select"} /\ (pc = "select" => ~new.pending)
  OBVIOUS
<1> HIDE DEF end, pc
<1>4. MortalRec(end, InHand(b))
  BY <1>2, <1>3 DEF MortalRec
<1> QED BY <1>1, <1>4, MortalMove, Zenon

\* Every step of a leak routine, and of its limiter, keeps MortalInv.
LEMMA MortalBucketStep ==
  ASSUME TypeInv, LifeInv, MortalInv, NEW b \in BucketIds,
         BucketStep(b) \/ Leak(b)
  PROVE  MortalInv'
<1> DEFINE r == bucket[b]
<1>0. r \in BucketRec /\ MortalRec(r, InHand(b))
  BY DEF TypeInv, TypeOK, MortalInv
<1>p. pourer' = pourer
  BY Zenon DEF BucketStep, Leak, Ready, BucketInit, PourTrigger, PourDuplicate,
         PourCancel, PourLimited, Overflow, Suicide, TickerFires,
         ExternallyKilled, Emit, NotBucket
<1>1. CASE Ready(b)
  <2> DEFINE new == [r EXCEPT !.pc = "init", !.ready = TRUE]
  <2>1. r.pc = "start" /\ bucket' = [bucket EXCEPT ![b] = new]
    BY <1>1, Zenon DEF Ready, TypeInv, TypeOK
  <2>2. new.pc = "init" /\ new.seen = r.seen
    BY <1>0 DEF BucketRec
  <2> HIDE DEF new
  <2>3. MortalRec(new, InHand(b))
    BY <1>0, <2>1, <2>2 DEF MortalRec
  <2> QED BY <1>p, <2>1, <2>3, MortalMove, Zenon
<1>2. CASE BucketInit(b)
  <2> DEFINE dead == [r EXCEPT !.pc = "dead", !.done = TRUE]
             select == [r EXCEPT !.pc = "select"]
  <2>1. r.pc = "init" /\ \/ bucket' = [bucket EXCEPT ![b] = dead]
                         \/ bucket' = [bucket EXCEPT ![b] = select]
    BY <1>2, Zenon DEF BucketInit, TypeInv, TypeOK
  <2>2. dead.pc = "dead" /\ select.pc = "select" /\ select.seen = r.seen
    BY <1>0 DEF BucketRec
  <2> HIDE DEF dead, select
  <2>3. MortalRec(dead, InHand(b)) /\ MortalRec(select, InHand(b))
    BY <1>0, <2>1, <2>2 DEF MortalRec
  <2> QED BY <1>p, <2>1, <2>3, MortalMove
<1>3. CASE PourTrigger(b)
  <2> DEFINE q == Add(r.queue, r.msg, Qsize(F(b)))
             new == [r EXCEPT !.queue = q, !.pending = TRUE]
  <2>1. r.pc = "got" /\ EndIteration(b, new)
    BY <1>3 DEF PourTrigger
  <2>2. q \in Seq(Msgs)
    <3>1. r.msg \in Msgs /\ r.queue \in Seq(Msgs)
      BY <1>0, <2>1 DEF TypeInv, BucketInv, BucketRec
    <3>2. Qsize(F(b)) \in Nat \cup {-1}
      BY <2>1, FactoryOf, QsizeType
    <3> QED BY <3>1, <3>2, AddType
  <2> HIDE DEF q
  <2>3. new \in BucketRec /\ new.pending = TRUE
    BY <1>0, <2>2, Zenon DEF BucketRec
  <2> HIDE DEF new
  <2> QED BY <1>p, <2>1, <2>3, MortalIteration
<1>4. CASE PourDuplicate(b)
  <2>1. r.pc = "got" /\ EndIteration(b, r) /\ Element(r.msg) \in r.seen
    BY <1>4 DEF PourDuplicate, Duplicate
  <2>2. r.armed
    BY <1>0, <2>1 DEF MortalRec
  <2> QED BY <1>0, <1>p, <2>1, <2>2, MortalIteration
<1>5. CASE PourCancel(b)
  <2> DEFINE s == Remembering(b)
             new == [s EXCEPT !.suicide = TRUE]
  <2>1. r.pc = "got" /\ EndIteration(b, new)
    BY <1>5 DEF PourCancel
  <2>2. s \in BucketRec
    BY <2>1, RememberingType
  <2> HIDE DEF s
  <2>3. new \in BucketRec /\ new.suicide = TRUE
    BY <2>2, Zenon DEF BucketRec
  <2> HIDE DEF new
  <2> QED BY <1>p, <2>1, <2>3, MortalIteration
<1>6. CASE PourLimited(b)
  <2>1. PICK condition \in BOOLEAN : EndIteration(b, Poured(b, condition))
    BY <1>6, Zenon DEF PourLimited
  <2>2. r.pc = "got"
    BY <1>6 DEF PourLimited
  <2> DEFINE new == Poured(b, condition)
  <2>3. new \in BucketRec /\ new.armed = (r.armed \/ ~condition)
        /\ new.pending = (~Allowed(b) \/ condition)
    BY <2>2, PouredType
  <2> HIDE DEF new
  <2>4. new.pending \/ new.armed
    BY <2>3, Zenon
  <2> QED BY <1>p, <2>1, <2>3, <2>4, MortalIteration DEF new
<1>7. CASE Overflow(b) \/ TickerFires(b) \/ Suicide(b) \/ ExternallyKilled(b)
           \/ Emit(b)
  <2>1. bucket'[b].pc \in {"emit", "dead"}
        /\ bucket' = [bucket EXCEPT ![b] = bucket'[b]]
    BY <1>7 DEF Overflow, TickerFires, Suicide, ExternallyKilled, Emit,
                Overflowing, TypeInv, TypeOK, BucketRec
  <2>2. MortalRec(bucket'[b], InHand(b))
    BY <2>1 DEF MortalRec
  <2> QED BY <1>p, <2>1, <2>2, MortalMove
<1>8. CASE Leak(b)
  <2> DEFINE n == r.tokens + 1
             new == [r EXCEPT !.tokens = n]
  <2>1. bucket' = [bucket EXCEPT ![b] = new]
    BY <1>8 DEF Leak, TypeInv, TypeOK
  <2> HIDE DEF n
  <2>2. new.pc = r.pc /\ new.seen = r.seen /\ new.armed = r.armed
        /\ new.suicide = r.suicide
    BY <1>0 DEF BucketRec
  <2> HIDE DEF new
  <2>3. MortalRec(new, InHand(b))
    BY <1>0, <2>2 DEF MortalRec
  <2> QED BY <1>p, <2>1, <2>3, MortalMove, Zenon
<1> QED
  BY <1>1, <1>2, <1>3, <1>4, <1>5, <1>6, <1>7, <1>8 DEF BucketStep
InHandPCs == {"ready", "gate", "pour"}

\* A step of a pourer p: a bucket it lets go of needs no hand any more.
LEMMA MortalPourer ==
  ASSUME TypeInv, MortalInv, NEW p \in Pourers,
         \A q \in Pourers : q # p => pourer'[q] = pourer[q],
         \A c \in BucketIds :
           \/ /\ bucket'[c] = bucket[c]
              /\ \/ bucket[c].pc \notin {"start", "init", "select"}
                 \/ pourer[p].bucket # c
                 \/ pourer[p].pc \notin InHandPCs
                 \/ pourer'[p].bucket = c /\ pourer'[p].pc \in InHandPCs
           \/ MortalRec(bucket'[c], InHand(c)')
  PROVE  MortalInv'
<1> SUFFICES ASSUME NEW c \in BucketIds
             PROVE  MortalRec(bucket'[c], InHand(c)')
  BY DEF MortalInv
<1>1. CASE MortalRec(bucket'[c], InHand(c)')
  BY <1>1
<1>2. CASE /\ bucket'[c] = bucket[c]
           /\ bucket[c].pc \notin {"start", "init", "select"}
  BY <1>2 DEF MortalInv, MortalRec
<1>3. CASE /\ bucket'[c] = bucket[c]
           /\ \/ pourer[p].bucket # c
              \/ pourer[p].pc \notin InHandPCs
              \/ pourer'[p].bucket = c /\ pourer'[p].pc \in InHandPCs
  <2>1. InHand(c) => InHand(c)'
    BY <1>3 DEF InHand, InHandPCs
  <2>2. MortalRec(bucket[c], InHand(c))
    BY DEF MortalInv
  <2> QED BY <1>3, <2>1, <2>2 DEF MortalRec
<1> QED BY <1>1, <1>2, <1>3

\* Every step of a pourer keeps MortalInv.
LEMMA MortalPourStep ==
  ASSUME TypeInv, LifeInv, MortalInv, NEW p \in Pourers, PourStep(p)
  PROVE  MortalInv'
<1>0. pourer \in [Pourers -> PourerRec] /\ bucket \in [BucketIds -> BucketRec]
  BY DEF TypeInv, TypeOK
<1>1. CASE ReceiveEvent(p) \/ HolderFails(p) \/ LoadBucket(p) \/ DeleteBody(p)
           \/ OrderWait(p) \/ PourExit(p)
  <2>1. pourer[p].pc \notin InHandPCs /\ bucket' = bucket
    BY <1>1 DEF ReceiveEvent, HolderFails, LoadBucket, DeleteBody, OrderWait,
                PourExit, InHandPCs
  <2>2. \A q \in Pourers : q # p => pourer'[q] = pourer[q]
    BY <1>0, <1>1, Zenon DEF ReceiveEvent, HolderFails, LoadBucket, DeleteBody,
                      OrderWait, PourExit, Take, Loaded, NextHolder
  <2> QED BY <2>1, <2>2, MortalPourer
<1>2. CASE AwaitReady(p) \/ OrderGate(p)
  <2>1. bucket' = bucket /\ pourer'[p].bucket = pourer[p].bucket
        /\ pourer'[p].pc \in InHandPCs
    BY <1>0, <1>2 DEF AwaitReady, OrderGate, Loaded, InHandPCs, PourerRec
  <2>2. \A q \in Pourers : q # p => pourer'[q] = pourer[q]
    BY <1>0, <1>2 DEF AwaitReady, OrderGate, Loaded
  <2> QED BY <2>1, <2>2, MortalPourer
<1>3. CASE CleanupBody(p)
  <2>1. bucket' = bucket /\ bucket[pourer[p].bucket].done
    BY <1>3 DEF CleanupBody
  <2>2. \A q \in Pourers : q # p => pourer'[q] = pourer[q]
    BY <1>0, <1>3 DEF CleanupBody
  <2>3. \A c \in BucketIds : pourer[p].bucket = c =>
          bucket[c].pc \in {"emit", "dead"}
    BY <2>1 DEF LifeInv, LifeRec
  <2> QED BY <2>1, <2>2, <2>3, MortalPourer
<1>4. CASE PourItem(p)
  <2> DEFINE b == pourer[p].bucket
             m == pourer[p].msg
             r == bucket[b]
             new == [r EXCEPT !.pc = "got", !.msg = m]
  <2>1. pourer[p].pc = "pour" /\ r.pc = "select" /\ ~r.suicide
    BY <1>4 DEF PourItem, Receptive
  <2>2. b \in BucketIds
    BY <2>1, BornIds DEF TypeInv, PourerInv, Holding
  <2>3. bucket' = [bucket EXCEPT ![b] = new]
    BY <1>0, <1>4, <2>2, Zenon DEF PourItem
  <2>4. r \in BucketRec /\ MortalRec(r, InHand(b))
    BY <1>0, <2>2 DEF MortalInv
  <2>5. \A q \in Pourers : q # p => pourer'[q] = pourer[q]
    BY <1>0, <1>4 DEF PourItem, NextHolder
  <2> HIDE DEF b, r, m
  <2>6. new.pc = "got" /\ new.seen = r.seen /\ new.armed = r.armed
    BY <2>4 DEF BucketRec
  <2> HIDE DEF new
  <2>7. ASSUME NEW h PROVE MortalRec(new, h)
    BY <2>1, <2>4, <2>6 DEF MortalRec
  <2>8. bucket'[b] = new /\ \A c \in BucketIds : c # b => bucket'[c] = bucket[c]
    BY <1>0, <2>2, <2>3
  <2>9. pourer[p].bucket = b
    BY DEF b
  <2>10. ASSUME NEW c \in BucketIds, c = b
         PROVE  MortalRec(bucket'[c], InHand(c)')
    BY <2>7, <2>8, <2>10
  <2> QED BY <2>5, <2>8, <2>9, <2>10, MortalPourer
<1>5. CASE LoadOrStore(p)
  <2>1. pourer[p].pc \notin InHandPCs
    BY <1>5 DEF LoadOrStore, InHandPCs
  <2>2. \A q \in Pourers : q # p => pourer'[q] = pourer[q]
    BY <1>0, <1>5 DEF LoadOrStore, Loaded
  <2>3. CASE bucket' = bucket
    BY <2>1, <2>2, <2>3, MortalPourer
  <2>4. CASE bucket' # bucket
    <3> DEFINE b == born + 1
               k == KeyOf(p)
    <3>1. bucket' = [bucket EXCEPT ![b] = NewLeaky(k)] /\ born < MaxBuckets
          /\ pourer' = [pourer EXCEPT ![p].pc = "ready", ![p].bucket = b]
      BY <1>5, <2>4 DEF LoadOrStore
    <3>2. b \in BucketIds
      BY <3>1, ConstantsAssumption DEF TypeInv, TypeOK, BucketIds
    <3> HIDE DEF b, k
    <3>3. pourer'[p].pc = "ready" /\ pourer'[p].bucket = b
      <4> DEFINE r == pourer[p]
                 new == [r EXCEPT !.pc = "ready", !.bucket = b]
      <4>1. pourer' = [pourer EXCEPT ![p] = new]
        BY <1>0, <3>1, Zenon
      <4>2. new.pc = "ready" /\ new.bucket = b
        BY <1>0 DEF PourerRec
      <4> HIDE DEF new
      <4> QED BY <1>0, <4>1, <4>2
    <3>5. NewLeaky(k).pc = "start" /\ NewLeaky(k).seen = {}
      BY DEF NewLeaky, Unborn
    <3>6. bucket'[b] = NewLeaky(k)
          /\ \A c \in BucketIds : c # b => bucket'[c] = bucket[c]
      BY <1>0, <3>1, <3>2
    <3>7. ASSUME NEW c \in BucketIds, c = b
          PROVE  MortalRec(bucket'[c], InHand(c)')
      <4>1. InHand(c)'
        BY <3>3, <3>7 DEF InHand
      <4> QED BY <3>5, <3>6, <3>7, <4>1 DEF MortalRec
    <3> QED BY <2>1, <2>2, <3>6, <3>7, MortalPourer
  <2> QED BY <2>3, <2>4
<1> QED BY <1>1, <1>2, <1>3, <1>4, <1>5 DEF PourStep

\* MortalInv is inductive relative to TypeInv and LifeInv.
LEMMA MortalInvariant == Spec => []MortalInv
<1>1. Init => MortalInv
  BY DEF Init, MortalInv, MortalRec, Unborn
<1>2. TypeInv /\ LifeInv /\ MortalInv /\ [Next]_vars => MortalInv'
  <2> SUFFICES ASSUME TypeInv, LifeInv, MortalInv, [Next]_vars
               PROVE  MortalInv'
    OBVIOUS
  <2>s. ASSUME bucket' = bucket, pourer' = pourer
        PROVE  MortalInv'
    BY <2>s DEF MortalInv, MortalRec, InHand
  <2>1. CASE \E p \in Pourers : PourStep(p)
    BY <2>1, MortalPourStep
  <2>2. CASE \E b \in BucketIds : BucketStep(b) \/ Leak(b)
    BY <2>2, MortalBucketStep
  <2>3. ASSUME NEW o \in Outputs, OutputStep(o)
        PROVE  MortalInv'
    <3>1. ASSUME NEW p \in Pourers, Reprocess(o, p)
          PROVE  MortalInv'
      <4>1. pourer[p].pc \notin InHandPCs /\ bucket' = bucket
        BY <3>1 DEF Reprocess, InHandPCs
      <4>2. \A q \in Pourers : q # p => pourer'[q] = pourer[q]
        BY <3>1 DEF Reprocess, Take, TypeInv, TypeOK
      <4> QED BY <4>1, <4>2, MortalPourer
    <3>2. CASE ~\E p \in Pourers : Reprocess(o, p)
      BY <2>3, <2>s, <3>2
         DEF OutputStep, ReceiveOverflow, CleanupKey, PostOverflowFails,
             Whitelisted, Passed, SkipReprocess, OutputExit
    <3> QED BY <3>1, <3>2
  <2>4. CASE ShutdownStep
    BY <2>4, <2>s DEF ShutdownStep, StartShutdown, DrainEvent, KillOutputs,
                      Cancel, DrainReprocess
  <2>5. CASE Idle \/ UNCHANGED vars
    BY <2>5, <2>s DEF Idle, vars
  <2> QED BY <2>1, <2>2, <2>3, <2>4, <2>5 DEF Next
<1> QED BY <1>1, <1>2, TypeInvariant, LifeInvariant, PTL DEF Spec

\* LeakRoutine: no bucket waits at its select without a ticker, a suicide or
\* a pourer that is about to pour into it.
THEOREM NoImmortalBucketHolds == Spec => []NoImmortalBucket
<1>1. MortalInv => NoImmortalBucket
  BY DEF MortalInv, MortalRec, InHand, NoImmortalBucket
<1> QED BY <1>1, MortalInvariant, PTL
-----------------------------------------------------------------------------
(* A bucket raises at most one alert.                                      *)

Working(o) == output[o].pc \in {"cleanup", "parse", "reprocess"}

\* The bucket whose event is in the channel is dead, and the event is nowhere
\* else.
ChannelEvent ==
  \A i \in 1 .. Len(allOut) :
    /\ bucket[allOut[i]].pc = "dead" /\ bucket[allOut[i]].out # "none"
    /\ alerts[allOut[i]] = 0
    /\ \A o \in Outputs : Working(o) => output[o].bucket # allOut[i]

\* So is the bucket whose event an output has; an output that does more than
\* clean up has an alert.
OutputEvent ==
  \A o \in Outputs : Working(o) =>
    /\ bucket[output[o].bucket].pc = "dead" /\ alerts[output[o].bucket] = 0
    /\ output[o].pc # "cleanup" => bucket[output[o].bucket].out = "alert"

OneOutput ==
  \A o, q \in Outputs :
    Working(o) /\ Working(q) /\ output[o].bucket = output[q].bucket => o = q

BufferedAlert ==
  \A b \in BucketIds :
    \/ alerts[b] = 0
    \/ alerts[b] = 1 /\ bucket[b].pc = "dead" /\ bucket[b].out = "alert"

\* The event of a bucket is in one place: in the channel, with one output, or
\* buffered as an alert.
AlertInv == ChannelEvent /\ OutputEvent /\ OneOutput /\ BufferedAlert

\* A dead bucket stays as it is.
DeadRests ==
  \A b \in BucketIds : bucket[b].pc = "dead" =>
    bucket'[b].pc = "dead" /\ bucket'[b].out = bucket[b].out

\* The events in the channel and with the outputs are those of buckets.
LEMMA EventIds ==
  ASSUME TypeInv
  PROVE  /\ \A i \in 1 .. Len(allOut) : allOut[i] \in BucketIds
         /\ \A o \in Outputs : Working(o) => output[o].bucket \in BucketIds
BY BornIds DEF TypeInv, OutputInv, Working

\* AlertInv survives a step away from the channel and the outputs.
LEMMA AlertElsewhere ==
  ASSUME TypeInv, AlertInv, DeadRests, UNCHANGED <<allOut, output, alerts>>
  PROVE  AlertInv'
<1>1. \A o \in Outputs : Working(o)' <=> Working(o)
  BY DEF Working
<1>2. /\ \A i \in 1 .. Len(allOut) : allOut[i] \in BucketIds
      /\ \A o \in Outputs : Working(o) => output[o].bucket \in BucketIds
  BY EventIds
<1>3. ChannelEvent'
  <2>1. ASSUME NEW i \in 1 .. Len(allOut)
        PROVE  /\ bucket'[allOut[i]].pc = "dead" /\ bucket'[allOut[i]].out # "none"
               /\ alerts[allOut[i]] = 0
               /\ \A o \in Outputs : Working(o) => output[o].bucket # allOut[i]
    BY <1>2 DEF AlertInv, ChannelEvent, DeadRests
  <2> QED BY <1>1, <2>1 DEF ChannelEvent
<1>4. OutputEvent'
  <2>1. ASSUME NEW o \in Outputs, Working(o)
        PROVE  /\ bucket'[output[o].bucket].pc = "dead"
               /\ alerts[output[o].bucket] = 0
               /\ output[o].pc # "cleanup" => bucket'[output[o].bucket].out = "alert"
    BY <1>2, <2>1 DEF AlertInv, OutputEvent, DeadRests
  <2> QED BY <1>1, <2>1 DEF OutputEvent
<1>5. OneOutput'
  BY <1>1 DEF AlertInv, OneOutput
<1>6. BufferedAlert'
  BY DEF AlertInv, BufferedAlert, DeadRests
<1> QED BY <1>3, <1>4, <1>5, <1>6 DEF AlertInv

\* AlertInv survives the emission of a bucket's event.
LEMMA AlertEmit ==
  ASSUME TypeInv, LifeInv, AlertInv, DeadRests, NEW b \in BucketIds, Emit(b)
  PROVE  AlertInv'
<1>1. /\ bucket[b].pc = "emit" /\ allOut' = Append(allOut, b)
      /\ UNCHANGED <<output, alerts>>
      /\ bucket' = [bucket EXCEPT ![b].pc = "dead", ![b].done = TRUE]
  BY DEF Emit, NotBucket
<1>2. allOut \in Seq(BucketIds) /\ Len(allOut) = 0
  BY DEF Emit, TypeInv, TypeOK
<1>3. \A i \in 1 .. Len(allOut') : allOut'[i] = b
  BY <1>1, <1>2
<1>4. bucket'[b].pc = "dead" /\ bucket'[b].out = bucket[b].out
  BY <1>1 DEF TypeInv, TypeOK, BucketRec
<1>5. bucket[b].out # "none"
  BY <1>1 DEF LifeInv, LifeRec
<1>6. alerts[b] = 0 /\ \A o \in Outputs : Working(o) => output[o].bucket # b
  BY <1>1 DEF AlertInv, OutputEvent, BufferedAlert
<1>7. \A o \in Outputs : Working(o)' <=> Working(o)
  BY <1>1 DEF Working
<1>8. ChannelEvent'
  BY <1>1, <1>3, <1>4, <1>5, <1>6, <1>7, Zenon DEF ChannelEvent
<1>9. OutputEvent'
  <2>1. ASSUME NEW o \in Outputs, Working(o)
        PROVE  /\ bucket'[output[o].bucket].pc = "dead"
               /\ alerts[output[o].bucket] = 0
               /\ output[o].pc # "cleanup" => bucket'[output[o].bucket].out = "alert"
    BY <2>1, EventIds DEF AlertInv, OutputEvent, DeadRests
  <2> QED BY <1>1, <1>7, <2>1, Zenon DEF OutputEvent
<1>10. OneOutput'
  BY <1>1, <1>7 DEF AlertInv, OneOutput
<1>11. BufferedAlert'
  BY <1>1, Zenon DEF AlertInv, BufferedAlert, DeadRests
<1> QED BY <1>8, <1>9, <1>10, <1>11 DEF AlertInv

\* AlertInv survives an output that takes the event in the channel.
LEMMA AlertReceive ==
  ASSUME TypeInv, AlertInv, NEW o \in Outputs, ReceiveOverflow(o)
  PROVE  AlertInv'
<1> DEFINE b == Head(allOut)
           pc == IF bucket[b].out = "cleanup" THEN "cleanup" ELSE "parse"
           new == [pc |-> pc, bucket |-> b]
<1>1. output[o].pc = "select" /\ allOut # << >> /\ allOut' = Tail(allOut)
      /\ output' = [output EXCEPT ![o] = new] /\ UNCHANGED <<bucket, alerts>>
  BY DEF ReceiveOverflow
<1>2. allOut \in Seq(BucketIds) /\ Len(allOut) = 1 /\ b = allOut[1]
  <2>1. allOut \in Seq(BucketIds) /\ Len(allOut) <= 1
    BY DEF TypeInv, TypeOK
  <2>2. Len(allOut) \in Nat /\ Len(allOut) # 0
    BY <1>1, <2>1
  <2> QED BY <2>1, <2>2
<1>3. \A i \in 1 .. Len(allOut') : FALSE
  <2>1. Len(Tail(allOut)) = Len(allOut) - 1
    BY <1>1, <1>2
  <2>2. Len(Tail(allOut)) = 0
    BY <1>2, <2>1
  <2>3. Len(allOut') = 0
    BY <1>1, <2>2
  <2> QED BY ONLY <2>3
<1>4. /\ b \in BucketIds /\ bucket[b].pc = "dead" /\ bucket[b].out # "none"
      /\ alerts[b] = 0 /\ \A q \in Outputs : Working(q) => output[q].bucket # b
  <2>1. 1 \in 1 .. Len(allOut) /\ b \in BucketIds
    BY <1>2, EventIds
  <2> QED BY <1>2, <2>1 DEF AlertInv, ChannelEvent
<1>5. pc \in {"cleanup", "parse"} /\ (pc # "cleanup" => bucket[b].out = "alert")
  BY <1>4 DEF TypeInv, TypeOK, BucketRec
<1> HIDE DEF b, pc
<1>6. new.pc = pc /\ new.bucket = b
  OBVIOUS
<1> HIDE DEF new
<1>7. output'[o] = new /\ \A q \in Outputs : q # o => output'[q] = output[q]
  BY <1>1 DEF TypeInv, TypeOK
<1>8. \A q \in Outputs : q # o => (Working(q)' <=> Working(q))
  BY <1>7 DEF Working
<1>9. OutputEvent'
  <2>1. ASSUME NEW q \in Outputs, q # o, Working(q)'
        PROVE  /\ bucket[output[q].bucket].pc = "dead"
               /\ alerts[output[q].bucket] = 0
               /\ output[q].pc # "cleanup" => bucket[output[q].bucket].out = "alert"
    BY <1>8, <2>1 DEF AlertInv, OutputEvent
  <2> QED BY <1>1, <1>4, <1>5, <1>6, <1>7, <2>1 DEF OutputEvent
<1>10. OneOutput'
  <2>1. \A n, q \in Outputs :
          n # o /\ q # o /\ Working(n)' /\ Working(q)'
            /\ output'[n].bucket = output'[q].bucket => n = q
    BY <1>7, <1>8 DEF AlertInv, OneOutput
  <2>2. \A q \in Outputs : q # o /\ Working(q)' => output'[q].bucket # b
    BY <1>4, <1>7, <1>8
  <2> QED BY <1>6, <1>7, <2>1, <2>2 DEF OneOutput
<1>11. ChannelEvent' /\ BufferedAlert'
  BY <1>1, <1>3 DEF AlertInv, ChannelEvent, BufferedAlert
<1> QED BY <1>9, <1>10, <1>11 DEF AlertInv

\* AlertInv survives an output that moves on with its event or drops it.
LEMMA AlertMoved ==
  ASSUME TypeInv, AlertInv, NEW o \in Outputs, NEW pc \in OutputPCs,
         output' = OutputTo(o, pc), UNCHANGED <<bucket, allOut, alerts>>,
         \/ pc \in {"select", "exited"}
         \/ pc = "reprocess" /\ output[o].pc = "parse"
  PROVE  AlertInv'
<1>1. /\ output'[o].pc = pc /\ output'[o].bucket = output[o].bucket
      /\ \A q \in Outputs : q # o => output'[q] = output[q]
  BY DEF OutputTo, TypeInv, TypeOK, OutputRec
<1>2. \A q \in Outputs : output'[q].bucket = output[q].bucket
  BY <1>1
<1>3. \A q \in Outputs : Working(q)' =>
        Working(q) /\ (output'[q].pc # "cleanup" => output[q].pc # "cleanup")
  BY <1>1 DEF Working
<1>4. ChannelEvent'
  BY <1>2, <1>3 DEF AlertInv, ChannelEvent
<1>5. OutputEvent'
  BY <1>2, <1>3 DEF AlertInv, OutputEvent
<1>6. OneOutput'
  BY <1>2, <1>3 DEF AlertInv, OneOutput
<1>7. BufferedAlert'
  BY DEF AlertInv, BufferedAlert
<1> QED BY <1>4, <1>5, <1>6, <1>7 DEF AlertInv

\* AlertInv survives an output that buffers the alert it holds.
LEMMA AlertAdded ==
  ASSUME TypeInv, AlertInv, NEW o \in Outputs,
         output[o].pc \in {"parse", "reprocess"}, AddAlert(o),
         output' = OutputTo(o, "select"), UNCHANGED <<bucket, allOut>>
  PROVE  AlertInv'
<1> DEFINE b == output[o].bucket
<1>1. /\ output'[o].pc = "select"
      /\ \A q \in Outputs : q # o => output'[q] = output[q]
  BY DEF OutputTo, TypeInv, TypeOK, OutputRec
<1>2. Working(o) /\ ~Working(o)' /\ b \in BucketIds
  BY <1>1, EventIds DEF Working
<1>3. \A q \in Outputs : Working(q)' =>
        Working(q) /\ output'[q] = output[q] /\ q # o
  BY <1>1, <1>2 DEF Working
<1>4. alerts[b] = 0 /\ bucket[b].pc = "dead" /\ bucket[b].out = "alert"
  BY <1>2 DEF AlertInv, OutputEvent
<1>5. alerts'[b] = 1 /\ \A c \in BucketIds : c # b => alerts'[c] = alerts[c]
  BY <1>2, <1>4 DEF AddAlert, TypeInv, TypeOK
<1>6. \A q \in Outputs : Working(q)' => output[q].bucket # b
  BY <1>2, <1>3 DEF AlertInv, OneOutput
<1>7. \A i \in 1 .. Len(allOut) : allOut[i] # b
  BY <1>2 DEF AlertInv, ChannelEvent
<1> HIDE DEF b
<1>8. ChannelEvent'
  <2>1. \A i \in 1 .. Len(allOut) : alerts'[allOut[i]] = alerts[allOut[i]]
    BY <1>5, <1>7, EventIds
  <2> QED BY <1>3, <2>1 DEF AlertInv, ChannelEvent
<1>9. OutputEvent'
  <2>1. \A q \in Outputs : Working(q)' =>
          alerts'[output[q].bucket] = alerts[output[q].bucket]
    BY <1>3, <1>5, <1>6, EventIds
  <2> QED BY <1>3, <2>1 DEF AlertInv, OutputEvent
<1>10. OneOutput'
  BY <1>3 DEF AlertInv, OneOutput
<1>11. BufferedAlert'
  BY <1>4, <1>5 DEF AlertInv, BufferedAlert
<1> QED BY <1>8, <1>9, <1>10, <1>11 DEF AlertInv

\* The steps of an output, and drainChan receiving from one, keep AlertInv.
LEMMA AlertOutputStep ==
  ASSUME TypeInv, AlertInv, NEW o \in Outputs, OutputStep(o) \/ DrainReprocess(o)
  PROVE  AlertInv'
<1>1. CASE ReceiveOverflow(o)
  BY <1>1, AlertReceive
<1>2. CASE CleanupKey(o) \/ PostOverflowFails(o) \/ Whitelisted(o) \/ OutputExit(o)
  BY <1>2, AlertMoved
     DEF CleanupKey, PostOverflowFails, Whitelisted, OutputExit, OutputPCs
<1>3. CASE Passed(o)
  BY <1>3, AlertMoved, AlertAdded DEF Passed, OutputPCs
<1>4. CASE SkipReprocess(o) \/ DrainReprocess(o) \/ \E p \in Pourers : Reprocess(o, p)
  BY <1>4, AlertAdded DEF SkipReprocess, DrainReprocess, Reprocess
<1> QED BY <1>1, <1>2, <1>3, <1>4 DEF OutputStep

\* AlertInv is inductive relative to TypeInv and LifeInv.
LEMMA AlertInvariant == Spec => []AlertInv
<1>1. Init => AlertInv
  BY DEF Init, AlertInv, ChannelEvent, OutputEvent, OneOutput,
         BufferedAlert, Working
<1>2. TypeInv /\ LifeInv /\ AlertInv /\ [Next]_vars => AlertInv'
  <2> SUFFICES ASSUME TypeInv, LifeInv, AlertInv, [Next]_vars PROVE AlertInv'
    OBVIOUS
  <2>1. DeadRests
    BY LifeNext DEF DeadRests, LifeRel
  <2>2. CASE \E o \in Outputs : OutputStep(o) \/ DrainReprocess(o)
    BY <2>2, AlertOutputStep
  <2>3. CASE \E b \in BucketIds : Emit(b)
    BY <2>1, <2>3, AlertEmit
  <2>4. ASSUME NEW b \in BucketIds, BucketStep(b) \/ Leak(b), ~Emit(b)
        PROVE  UNCHANGED <<allOut, output, alerts>>
    BY <2>4, Zenon
       DEF BucketStep, Leak, Ready, BucketInit, PourTrigger, PourDuplicate,
           PourCancel, PourLimited, Overflow, Suicide, TickerFires,
           ExternallyKilled, NotBucket
  <2>5. ASSUME NEW p \in Pourers, PourStep(p)
        PROVE  UNCHANGED <<allOut, output, alerts>>
    BY <2>5, Zenon
       DEF PourStep, ReceiveEvent, HolderFails, LoadBucket, LoadOrStore,
           AwaitReady, OrderGate, CleanupBody, DeleteBody, PourItem,
           OrderWait, PourExit
  <2>6. CASE StartShutdown \/ DrainEvent \/ KillOutputs \/ Cancel \/ Idle
             \/ UNCHANGED vars
    BY <2>1, <2>6, AlertElsewhere
       DEF StartShutdown, DrainEvent, KillOutputs, Cancel, Idle, vars
  <2> QED
    BY <2>1, <2>2, <2>3, <2>4, <2>5, <2>6, AlertElsewhere DEF Next, ShutdownStep
<1> QED BY <1>1, <1>2, TypeInvariant, LifeInvariant, PTL DEF Spec

\* LeakRoutine and runOutput: a bucket emits one event in its life, and its
\* alert is buffered at most once, however many outputs there are.
THEOREM AlertOnceHolds == Spec => []AlertOnce
<1>1. TypeInv /\ AlertInv => AlertOnce
  <2> SUFFICES ASSUME TypeInv, AlertInv, NEW b \in BucketIds
               PROVE  /\ alerts[b] + InFlight(b) <= 1
                      /\ alerts[b] + InFlight(b) = 1 => bucket[b].pc = "dead"
                      /\ alerts[b] = 1 => bucket[b].out = "alert"
    BY DEF AlertOnce
  <2> DEFINE I == {i \in 1 .. Len(allOut) : allOut[i] = b}
             O == {o \in Outputs : /\ output[o].bucket = b
                                   /\ output[o].pc \in {"cleanup", "parse",
                                                        "reprocess"}}
  <2>1. I = {} \/ I = {1}
    <3>1. Len(allOut) \in Nat /\ Len(allOut) <= 1
      BY DEF TypeInv, TypeOK
    <3> QED BY <3>1
  <2>2. O = {} \/ \E o \in Outputs : O = {o}
    BY DEF AlertInv, OneOutput, Working
  <2>3. Cardinality({}) = 0 /\ Cardinality({1}) = 1
        /\ \A o \in Outputs : Cardinality({o}) = 1
    BY FS_EmptySet, FS_Singleton, Zenon
  <2>4. I # {} => O = {} /\ alerts[b] = 0 /\ bucket[b].pc = "dead"
    BY DEF AlertInv, ChannelEvent, Working
  <2>5. O # {} => alerts[b] = 0 /\ bucket[b].pc = "dead"
    BY DEF AlertInv, OutputEvent, Working
  <2>6. \/ alerts[b] = 0
        \/ alerts[b] = 1 /\ bucket[b].pc = "dead" /\ bucket[b].out = "alert"
    BY DEF AlertInv, BufferedAlert
  <2>7. InFlight(b) = Cardinality(I) + Cardinality(O)
    BY DEF InFlight
  <2> HIDE DEF I, O
  <2>8. (I = {} /\ Cardinality(I) = 0) \/ (I # {} /\ Cardinality(I) = 1)
    BY <2>1, <2>3
  <2>9. (O = {} /\ Cardinality(O) = 0) \/ (O # {} /\ Cardinality(O) = 1)
    BY <2>2, <2>3
  <2> QED BY <2>4, <2>5, <2>6, <2>7, <2>8, <2>9
<1> QED BY <1>1, TypeInvariant, AlertInvariant, PTL

=============================================================================
