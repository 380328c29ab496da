------------------------- MODULE LeakyBucketsProofs -------------------------
(***************************************************************************)
(* Proofs about LeakyBuckets for any number of events, keys, pour and      *)
(* output routines and buckets: the invariant behind type correctness,     *)
(* that the steps of the pour routines, of the buckets, of the outputs and *)
(* of the shutdown keep it, and the ordering gate of PourItemToBucket.     *)
(***************************************************************************)
EXTENDS LeakyBuckets, TLAPS

-----------------------------------------------------------------------------
(* The inductive invariant.                                                *)

Active(p) == pourer[p].pc \notin {"idle", "exited"}

\* The pourer works on a bucket.
Holding(p) == pourer[p].pc \in {"ready", "gate", "pour", "delete", "await"}

\* A pourer in a message has a holder to pour it to, and the bucket it holds
\* is one of that holder's.
PourerInv ==
  \A p \in Pourers :
    /\ Active(p) => /\ pourer[p].msg \in Msgs
                    /\ pourer[p].idx \in 1 .. Len(HoldersOf(pourer[p].msg))
    /\ Holding(p) => /\ pourer[p].bucket \in 1 .. born
                     /\ bucket[pourer[p].bucket].key = KeyOf(p)

\* The buckets up to born exist, have a key, and the store files them there.
BucketInv ==
  /\ \A b \in BucketIds : b \in 1 .. born <=> bucket[b].pc # "unborn"
  /\ \A b \in 1 .. born : bucket[b].key \in Keys
  /\ \A b \in BucketIds : bucket[b].pc = "got" => bucket[b].msg \in Msgs
  /\ \A k \in Keys : store[k] # NoBucket =>
       store[k] \in 1 .. born /\ bucket[store[k]].key = k

\* A pourer that took the gate of its holder and has not poured yet.
GatedRec(r) ==
  \/ r.pc \in {"pour", "delete"}
  \/ r.pc \in {"load", "store", "ready"} /\ r.retry
Gated(p) == GatedRec(pourer[p])

NoneGot == \A b \in BucketIds : bucket[b].pc # "got"
WgIs(k) == wg = [j \in Keys |-> IF j = k THEN 1 ELSE 0]
WgFree == wg = [j \in Keys |-> 0]

\* With -order-event a wait group counts exactly the message between its gate
\* and the end of the bucket's iteration.
OrderInv ==
  OrderEvent =>
    /\ \A b \in BucketIds : bucket[b].pc = "got" =>
         \E p \in Pourers : pourer[p].pc = "await" /\ pourer[p].bucket = b
    /\ \A p \in Pourers :
         /\ Gated(p) => NoneGot /\ WgIs(KeyOf(p))
         /\ pourer[p].pc = "await" =>
              \/ NoneGot /\ WgFree
              \/ /\ bucket[pourer[p].bucket].pc = "got"
                 /\ bucket[pourer[p].bucket].msg = pourer[p].msg
                 /\ WgIs(KeyOf(p))
         /\ ~Gated(p) /\ pourer[p].pc # "await" => NoneGot /\ WgFree
         /\ pourer[p].pc = "gate" => ~pourer[p].retry

\* An output works on an event some bucket emitted.
OutputInv ==
  /\ \A o \in Outputs :
       /\ output[o].pc \in {"cleanup", "parse", "reprocess"} =>
            output[o].bucket \in 1 .. born
       /\ output[o].pc = "reprocess" => OverflowHolders # << >>
  /\ \A i \in 1 .. Len(allOut) : allOut[i] \in 1 .. born

TypeInv == TypeOK /\ PourerInv /\ BucketInv /\ OrderInv /\ OutputInv

-----------------------------------------------------------------------------
(* The operators.                                                          *)

\* The gates are as they were when buckets, pour routines and counters are.
LEMMA OrderSame ==
  ASSUME OrderInv, bucket' = bucket, pourer' = pourer, wg' = wg
  PROVE  OrderInv'
<1>1. /\ NoneGot' <=> NoneGot
      /\ WgFree' <=> WgFree
  BY DEF NoneGot, WgFree
<1>2. \A p \in Pourers : Gated(p)' <=> Gated(p)
  BY DEF Gated
<1>3. \A p \in Pourers : WgIs(KeyOf(p))' <=> WgIs(KeyOf(p))
  BY DEF KeyOf, WgIs
<1> QED BY <1>1, <1>2, <1>3 DEF OrderInv

\* The holders of a message are keys.
LEMMA HoldersType ==
  ASSUME NEW m \in Msgs
  PROVE  HoldersOf(m) \in Seq(Keys) /\ Injective(HoldersOf(m))
BY ConstantsAssumption DEF HoldersOf, Msgs

\* The holder a pourer is at is a key.
LEMMA KeyOfType ==
  ASSUME TypeOK, PourerInv, NEW p \in Pourers, Active(p)
  PROVE  KeyOf(p) \in Keys
<1>1. pourer[p].msg \in Msgs
      /\ pourer[p].idx \in 1 .. Len(HoldersOf(pourer[p].msg))
  BY DEF PourerInv
<1> QED
  BY <1>1, HoldersType DEF KeyOf

\* The buckets born are buckets.
LEMMA BornIds == TypeOK => 1 .. born \subseteq BucketIds
BY ConstantsAssumption DEF TypeOK, BucketIds

\* Queue.Add keeps a queue of messages.
LEMMA AddType ==
  ASSUME NEW q \in Seq(Msgs), NEW m \in Msgs, NEW L \in Nat \cup {-1}
  PROVE  Add(q, m, L) \in Seq(Msgs)
<1>1. CASE L # -1 /\ Len(q) > L
  <2>1. Len(q) - L + 1 \in 1 .. Len(q) + 1
    BY <1>1
  <2>2. SubSeq(q, Len(q) - L + 1, Len(q)) \in Seq(Msgs)
    BY <1>1, <2>1
  <2> QED BY <1>1, <2>2 DEF Add
<1>2. CASE ~(L # -1 /\ Len(q) > L)
  BY <1>2 DEF Add
<1> QED BY <1>1, <1>2

\* A queue size is a capacity.
LEMMA QsizeType ==
  ASSUME NEW f \in FactoryType
  PROVE  Qsize(f) \in Nat \cup {-1}
BY DEF FactoryType, Qsize

\* A new bucket is well typed.
LEMMA UnbornType == Unborn \in BucketRec
BY DEF Unborn, BucketRec, BucketPCs, NoMsg, NoBucket

\* NewLeakyFromFactory returns a well-typed bucket whose queue is empty.
LEMMA NewLeakyType ==
  ASSUME NEW k \in Keys
  PROVE  NewLeaky(k) \in BucketRec
<1>1. Factory[k].capacity \in Int
  BY ConstantsAssumption DEF FactoryType
<1> QED
  BY <1>1, UnbornType, Zenon DEF NewLeaky, BucketRec, BucketPCs

-----------------------------------------------------------------------------
(* Type correctness.                                                       *)

\* The state startBucketRoutines leaves behind satisfies the type invariant.
LEMMA TypeInit == Init => TypeInv
<1> SUFFICES ASSUME Init PROVE TypeInv
  OBVIOUS
<1>1. TypeOK
  <2>1. IdlePourer \in PourerRec
    BY DEF IdlePourer, PourerRec, PourerPCs, NoMsg, NoBucket
  <2>2. [pc |-> "select", bucket |-> NoBucket] \in OutputRec
    BY DEF OutputRec, OutputPCs, NoBucket
  <2>3. 0 \in 0 .. MaxBuckets
    BY ConstantsAssumption
  <2>4. fate \in [Msgs -> Fates] /\ delivered \in [Msgs -> [Keys -> Nat]]
    BY DEF Init, Fates
  <2>5. bucket \in [BucketIds -> BucketRec]
        /\ pourer \in [Pourers -> PourerRec]
        /\ output \in [Outputs -> OutputRec]
    BY <2>1, <2>2, UnbornType DEF Init
  <2>6. store \in [Keys -> BucketIds \cup {NoBucket}] /\ wg \in [Keys -> Nat]
        /\ alerts \in [BucketIds -> Nat] /\ born \in 0 .. MaxBuckets
    BY <2>3 DEF Init
  <2>7. allOut \in Seq(BucketIds) /\ Len(allOut) <= 1 /\ phase \in Phases
        /\ tomb \in {"alive", "dying"}
    BY DEF Init, Phases
  <2> QED
    BY <2>4, <2>5, <2>6, <2>7 DEF TypeOK
<1>2. PourerInv /\ OutputInv
  BY DEF Init, PourerInv, OutputInv, Active, Holding, IdlePourer
<1>3. BucketInv
  BY DEF Init, BucketInv, Unborn, NoBucket
<1>4. OrderInv
  BY DEF Init, OrderInv, Gated, GatedRec, NoneGot, WgFree, IdlePourer,
         Unborn
<1> QED BY <1>1, <1>2, <1>3, <1>4 DEF TypeInv

\* A step of a leak routine outside an iteration: bucket b changes but is not
\* processing a message before or after, and the wait groups stay.
LEMMA BucketMove ==
  ASSUME TypeInv, NEW b \in BucketIds, NEW new \in BucketRec,
         new.key = bucket[b].key, bucket[b].pc \notin {"unborn", "got"},
         new.pc \notin {"unborn", "got"},
         bucket' = [bucket EXCEPT ![b] = new],
         allOut' \in Seq(BucketIds), Len(allOut') <= 1,
         \A i \in 1 .. Len(allOut') : allOut'[i] \in 1 .. born,
         wg' = wg, NotBucket
  PROVE  TypeInv'
<1> USE DEF TypeInv, NotBucket
<1>1. TypeOK'
  BY DEF TypeOK
<1>2. bucket' \in [BucketIds -> BucketRec]
      /\ \A c \in BucketIds : /\ bucket'[c].key = bucket[c].key
                              /\ bucket'[c].pc = "got" <=> bucket[c].pc = "got"
                              /\ bucket[c].pc = "got" => bucket'[c] = bucket[c]
                              /\ bucket'[c].pc = "unborn" <=>
                                   bucket[c].pc = "unborn"
  BY DEF TypeOK
<1>3. 1 .. born \subseteq BucketIds
  BY BornIds
<1>4. PourerInv'
  BY <1>2, <1>3 DEF PourerInv, Active, Holding, KeyOf
<1>5. BucketInv'
  BY <1>2, <1>3 DEF BucketInv
<1>6. NoneGot => NoneGot'
  BY <1>2 DEF NoneGot
<1>7. OrderInv'
  <2> SUFFICES ASSUME OrderEvent PROVE OrderInv'
    BY DEF OrderInv
  <2>1. \A c \in BucketIds : bucket'[c].pc = "got" =>
          \E p \in Pourers : pourer'[p].pc = "await" /\ pourer'[p].bucket = c
    BY <1>2 DEF OrderInv
  <2>2. ASSUME NEW p \in Pourers
        PROVE  /\ Gated(p)' => NoneGot' /\ WgIs(KeyOf(p))'
               /\ pourer'[p].pc = "await" =>
                    \/ NoneGot' /\ WgFree'
                    \/ /\ bucket'[pourer'[p].bucket].pc = "got"
                       /\ bucket'[pourer'[p].bucket].msg = pourer'[p].msg
                       /\ WgIs(KeyOf(p))'
               /\ ~Gated(p)' /\ pourer'[p].pc # "await" => NoneGot' /\ WgFree'
               /\ pourer'[p].pc = "gate" => ~pourer'[p].retry
    <3>1. pourer[p].pc = "await" => pourer[p].bucket \in BucketIds
      BY <1>3 DEF PourerInv, Holding
    <3> QED
      BY <1>2, <1>6, <3>1 DEF OrderInv, Gated, KeyOf, WgIs, WgFree
  <2> QED BY <2>1, <2>2 DEF OrderInv
<1>8. OutputInv'
  BY DEF OutputInv
<1> QED BY <1>1, <1>4, <1>5, <1>7, <1>8
\* The end of an iteration: bucket b has processed the message it got.
LEMMA IterationMove ==
  ASSUME TypeInv, NEW b \in BucketIds, bucket[b].pc = "got",
         NEW end \in BucketRec, end.pc \in {"end", "select"},
         end.key = bucket[b].key,
         bucket' = [bucket EXCEPT ![b] = end],
         OrderEvent => wg' = [wg EXCEPT ![end.key] = @ - 1],
         ~OrderEvent => wg' = wg, allOut' = allOut, NotBucket
  PROVE  TypeInv'
<1> USE DEF TypeInv, NotBucket
<1>1. bucket' \in [BucketIds -> BucketRec] /\ bucket'[b] = end
      /\ \A c \in BucketIds : c # b => bucket'[c] = bucket[c]
  BY DEF TypeOK
<1>2. bucket'[b].pc # "got" /\ bucket'[b].pc # "unborn"
      /\ bucket'[b].key = bucket[b].key
  BY <1>1
<1>3. \A c \in BucketIds : /\ bucket'[c].key = bucket[c].key
                           /\ bucket'[c].pc = "unborn" <=>
                                bucket[c].pc = "unborn"
  BY <1>1, <1>2
<1>4. 1 .. born \subseteq BucketIds
  BY BornIds
<1>5. PourerInv'
  BY <1>3, <1>4 DEF PourerInv, Active, Holding, KeyOf
<1>6. BucketInv'
  BY <1>1, <1>2, <1>3, <1>4 DEF BucketInv
<1>7. OutputInv'
  BY DEF OutputInv
<1>8. CASE ~OrderEvent
  <2>1. TypeOK'
    BY <1>1, <1>8 DEF TypeOK
  <2> QED BY <1>5, <1>6, <1>7, <1>8, <2>1 DEF OrderInv
<1>9. CASE OrderEvent
  <2>1. PICK p \in Pourers : pourer[p].pc = "await" /\ pourer[p].bucket = b
    BY <1>9 DEF OrderInv
  <2>2. \A q \in Pourers : q = p
    BY <1>9, OrderAssumption
  <2>3. WgIs(KeyOf(p)) /\ KeyOf(p) = bucket[b].key
    BY <1>9, <2>1 DEF OrderInv, NoneGot, PourerInv, Holding
  <2>4. \A c \in BucketIds : bucket[c].pc = "got" => c = b
    BY <1>9, <2>1, <2>2 DEF OrderInv
  <2>5. NoneGot'
    BY <1>1, <1>2, <2>4 DEF NoneGot
  <2>6. KeyOf(p) \in Keys
    BY <2>1, KeyOfType DEF Active
  <2>7. WgFree'
    BY <1>9, <2>3, <2>6 DEF WgIs, WgFree
  <2>8. TypeOK'
    <3>1. wg' \in [Keys -> Nat]
      BY <2>7 DEF WgFree
    <3> QED BY <1>1, <3>1 DEF TypeOK
  <2>9. OrderInv'
    BY <2>1, <2>2, <2>5, <2>7 DEF OrderInv, NoneGot, Gated
  <2> QED BY <1>5, <1>6, <1>7, <2>8, <2>9
<1> QED BY <1>8, <1>9

\* The End label of LeakRoutine: an iteration that leaves a well-typed bucket
\* keeps the type invariant and takes the order gate down by one.
LEMMA IterationEnds ==
  ASSUME TypeInv, NEW b \in BucketIds, bucket[b].pc = "got",
         NEW new \in BucketRec, new.key = bucket[b].key,
         EndIteration(b, new), allOut' = allOut, NotBucket
  PROVE  TypeInv'
<1> DEFINE pc == IF new.pending THEN "end" ELSE "select"
           end == [new EXCEPT !.pc = pc, !.msg = NoMsg]
<1>1. /\ bucket' = [bucket EXCEPT ![b] = end]
      /\ wg' = IF OrderEvent THEN [wg EXCEPT ![new.key] = @ - 1] ELSE wg
  BY DEF EndIteration
<1>2. pc \in {"end", "select"}
  OBVIOUS
<1> HIDE DEF pc
<1>3. end \in BucketRec /\ end.pc \in {"end", "select"} /\ end.key = new.key
  BY <1>2, Zenon DEF BucketRec, BucketPCs
<1> HIDE DEF end
<1> QED BY <1>1, <1>3, IterationMove, Zenon
\* A step of a pourer p to state new keeps its invariant when new has a
\* holder and holds one of that holder's buckets.
LEMMA PourerMove ==
  ASSUME TypeInv, NEW p \in Pourers, NEW new \in PourerRec,
         pourer' = [pourer EXCEPT ![p] = new],
         new.pc \notin {"idle", "exited"} =>
           new.msg \in Msgs /\ new.idx \in 1 .. Len(HoldersOf(new.msg)),
         new.pc \in {"ready", "gate", "pour", "delete", "await"} =>
           /\ new.bucket \in 1 .. born'
           /\ bucket'[new.bucket].key = HoldersOf(new.msg)[new.idx],
         \A b \in 1 .. born : b \in 1 .. born' /\ bucket'[b].key = bucket[b].key
  PROVE  PourerInv' /\ pourer' \in [Pourers -> PourerRec]
<1>1. pourer' \in [Pourers -> PourerRec] /\ pourer'[p] = new
      /\ \A q \in Pourers : q # p => pourer'[q] = pourer[q]
  BY DEF TypeInv, TypeOK
<1>2. ASSUME NEW q \in Pourers
      PROVE  /\ Active(q)' => /\ pourer'[q].msg \in Msgs
                              /\ pourer'[q].idx \in
                                   1 .. Len(HoldersOf(pourer'[q].msg))
             /\ Holding(q)' => /\ pourer'[q].bucket \in 1 .. born'
                               /\ bucket'[pourer'[q].bucket].key = KeyOf(q)'
  <2>1. CASE q = p
    BY <1>1, <2>1 DEF Active, Holding, KeyOf
  <2>2. CASE q # p
    BY <1>1, <2>2 DEF TypeInv, PourerInv, Active, Holding, KeyOf
  <2> QED BY <2>1, <2>2
<1> QED BY <1>1, <1>2 DEF PourerInv

\* A step of a pourer p to state new keeps the order invariant when it does
\* not move a gate.
LEMMA OrderMove ==
  ASSUME TypeInv, NEW p \in Pourers, NEW new \in PourerRec,
         pourer' = [pourer EXCEPT ![p] = new], wg' = wg,
         NoneGot => NoneGot',
         OrderEvent =>
           \/ /\ Gated(p) /\ GatedRec(new) /\ new.pc # "await"
              /\ new.msg = pourer[p].msg /\ new.idx = pourer[p].idx
           \/ /\ NoneGot /\ WgFree /\ ~GatedRec(new) /\ new.pc # "await"
              /\ new.pc = "gate" => ~new.retry
  PROVE  OrderInv'
<1> SUFFICES ASSUME OrderEvent PROVE OrderInv'
  BY DEF OrderInv
<1>1. pourer'[p] = new /\ \A q \in Pourers : q = p
  BY OrderAssumption DEF TypeInv, TypeOK
<1>2. NoneGot'
  BY DEF TypeInv, OrderInv
<1>3. CASE /\ Gated(p) /\ GatedRec(new) /\ new.pc # "await"
           /\ new.msg = pourer[p].msg /\ new.idx = pourer[p].idx
  <2>1. WgIs(KeyOf(p))'
    BY <1>1, <1>3 DEF TypeInv, OrderInv, WgIs, KeyOf
  <2>2. new.pc # "gate"
    BY <1>3 DEF GatedRec
  <2>3. Gated(p)'
    BY <1>1, <1>3 DEF Gated
  <2> QED BY <1>1, <1>2, <1>3, <2>1, <2>2, <2>3 DEF OrderInv, NoneGot
<1>4. CASE /\ NoneGot /\ WgFree /\ ~GatedRec(new) /\ new.pc # "await"
           /\ new.pc = "gate" => ~new.retry
  <2>1. WgFree' /\ ~Gated(p)'
    BY <1>1, <1>4 DEF WgFree, Gated
  <2> QED BY <1>1, <1>2, <1>4, <2>1 DEF OrderInv, NoneGot
<1> QED BY <1>3, <1>4
\* A pourer that takes or finishes nothing but moves within its message.
LEMMA PourerOnly ==
  ASSUME TypeInv, NEW p \in Pourers, NEW new \in PourerRec,
         pourer' = [pourer EXCEPT ![p] = new],
         new.pc \notin {"idle", "exited"} =>
           new.msg \in Msgs /\ new.idx \in 1 .. Len(HoldersOf(new.msg)),
         new.pc \in {"ready", "gate", "pour", "delete", "await"} =>
           /\ new.bucket \in 1 .. born
           /\ bucket[new.bucket].key = HoldersOf(new.msg)[new.idx],
         OrderEvent =>
           \/ /\ Gated(p) /\ GatedRec(new) /\ new.pc # "await"
              /\ new.msg = pourer[p].msg /\ new.idx = pourer[p].idx
           \/ /\ NoneGot /\ WgFree /\ ~GatedRec(new) /\ new.pc # "await"
              /\ new.pc = "gate" => ~new.retry,
         fate' \in [Msgs -> Fates],
         store' \in [Keys -> BucketIds \cup {NoBucket}],
         \A k \in Keys : store'[k] \in {store[k], NoBucket},
         UNCHANGED <<born, bucket, allOut, wg, phase, tomb, delivered>>,
         output' \in [Outputs -> OutputRec], OutputInv',
         alerts' \in [BucketIds -> Nat]
  PROVE  TypeInv'
<1>1. PourerInv' /\ pourer' \in [Pourers -> PourerRec]
  BY PourerMove, Zenon
<1>2. OrderInv'
  <2>1. NoneGot => NoneGot'
    BY DEF NoneGot
  <2> QED BY <2>1, OrderMove, Zenon
<1>3. TypeOK'
  BY <1>1 DEF TypeInv, TypeOK
<1>4. BucketInv'
  BY DEF TypeInv, BucketInv
<1> QED BY <1>1, <1>2, <1>3, <1>4 DEF TypeInv

\* A runPour routine at its select is well typed.
LEMMA IdlePourerType == IdlePourer \in PourerRec
BY DEF IdlePourer, PourerRec, PourerPCs, NoMsg, NoBucket

\* A pourer outside a gate and not awaiting leaves the wait groups free.
LEMMA Ungated ==
  ASSUME TypeInv, NEW p \in Pourers, ~Gated(p), pourer[p].pc # "await",
         OrderEvent
  PROVE  NoneGot /\ WgFree
BY DEF TypeInv, OrderInv

\* Taking a message with holders.
LEMMA TakeType ==
  ASSUME TypeInv, NEW p \in Pourers, NEW m \in Msgs, HoldersOf(m) # << >>,
         pourer[p].pc = "idle", Take(p, m),
         UNCHANGED <<store, born, bucket, allOut, wg, phase, tomb, delivered>>,
         output' \in [Outputs -> OutputRec], OutputInv',
         alerts' \in [BucketIds -> Nat]
  PROVE  TypeInv'
<1> DEFINE new == [IdlePourer EXCEPT !.pc = "load", !.msg = m]
<1>1. new \in PourerRec /\ new.pc = "load" /\ new.msg = m /\ new.idx = 1
      /\ new.retry = FALSE
  BY Zenon DEF IdlePourer, PourerRec, PourerPCs, NoBucket
<1>2. pourer' = [pourer EXCEPT ![p] = new] /\ fate' \in [Msgs -> Fates]
  BY DEF Take, TypeInv, TypeOK, Fates
<1> HIDE DEF new
<1>3. new.idx \in 1 .. Len(HoldersOf(new.msg))
  BY <1>1, HoldersType
<1>4. OrderEvent => NoneGot /\ WgFree /\ ~GatedRec(new)
  BY <1>1, Ungated DEF Gated, GatedRec
<1>5. store' \in [Keys -> BucketIds \cup {NoBucket}]
      /\ \A k \in Keys : store'[k] \in {store[k], NoBucket}
  BY DEF TypeInv, TypeOK
<1> QED BY <1>1, <1>2, <1>3, <1>4, <1>5, PourerOnly, Zenon
\* Where NextHolder takes a pourer.
LEMMA NextHolderType ==
  ASSUME TypeInv, NEW p \in Pourers, Active(p), NextHolder(p)
  PROVE  /\ fate' \in [Msgs -> Fates]
         /\ \E new \in PourerRec :
              /\ pourer' = [pourer EXCEPT ![p] = new]
              /\ new.pc \in {"idle", "load"} /\ new.retry = FALSE
              /\ new.pc = "load" =>
                   /\ new.msg \in Msgs
                   /\ new.idx \in 1 .. Len(HoldersOf(new.msg))
<1> DEFINE m == pourer[p].msg
           next == [IdlePourer EXCEPT !.pc = "load", !.msg = m,
                                      !.idx = pourer[p].idx + 1]
<1>1. m \in Msgs /\ pourer[p].idx \in 1 .. Len(HoldersOf(m))
      /\ HoldersOf(m) \in Seq(Keys)
  BY HoldersType DEF TypeInv, PourerInv
<1>2. CASE pourer[p].idx < Len(HoldersOf(m))
  <2>1. next \in PourerRec /\ next.pc = "load" /\ next.retry = FALSE
        /\ next.msg = m /\ next.idx = pourer[p].idx + 1
    <3> DEFINE i == pourer[p].idx + 1
    <3>1. i \in Nat
      BY <1>1
    <3> HIDE DEF m, i
    <3>2. m \in Msgs
      BY <1>1
    <3>3. IdlePourer \in PourerRec /\ IdlePourer.retry = FALSE
      BY IdlePourerType DEF IdlePourer
    <3>4. [IdlePourer EXCEPT !.pc = "load", !.msg = m, !.idx = i] \in PourerRec
      BY <3>1, <3>2, <3>3, Zenon DEF PourerRec, PourerPCs
    <3>5. /\ [IdlePourer EXCEPT !.pc = "load", !.msg = m, !.idx = i].pc = "load"
          /\ [IdlePourer EXCEPT !.pc = "load", !.msg = m, !.idx = i].msg = m
          /\ [IdlePourer EXCEPT !.pc = "load", !.msg = m, !.idx = i].idx = i
          /\ [IdlePourer EXCEPT !.pc = "load", !.msg = m, !.idx = i].retry
               = FALSE
      BY <3>3 DEF PourerRec
    <3> QED BY <3>4, <3>5 DEF i
  <2>2. pourer' = [pourer EXCEPT ![p] = next] /\ fate' = fate
    BY <1>2 DEF NextHolder
  <2>3. next.idx \in 1 .. Len(HoldersOf(next.msg))
    BY <1>1, <1>2, <2>1
  <2> HIDE DEF next
  <2> QED BY <1>1, <2>1, <2>2, <2>3, Zenon DEF TypeInv, TypeOK
<1>3. CASE ~(pourer[p].idx < Len(HoldersOf(m)))
  <2>1. pourer' = [pourer EXCEPT ![p] = IdlePourer]
        /\ fate' = [fate EXCEPT ![m] = "poured"]
    BY <1>3 DEF NextHolder
  <2>2. IdlePourer.pc = "idle" /\ IdlePourer.retry = FALSE
    BY DEF IdlePourer
  <2>3. fate' \in [Msgs -> Fates]
    BY <2>1, Zenon DEF TypeInv, TypeOK, Fates
  <2> QED BY <2>1, <2>2, <2>3, IdlePourerType, Zenon
<1> QED BY <1>2, <1>3, Zenon

\* A successful load.
LEMMA LoadedType ==
  ASSUME TypeInv, NEW p \in Pourers, NEW b \in 1 .. born,
         pourer[p].pc \in {"load", "store", "ready"},
         bucket[b].key = KeyOf(p), pourer' = Loaded(p, b),
         UNCHANGED <<fate, store, born, bucket, output, allOut, wg, phase,
                     tomb, delivered, alerts>>
  PROVE  TypeInv'
<1> DEFINE pc == IF OrderEvent /\ ~pourer[p].retry THEN "gate" ELSE "pour"
           new == [pourer[p] EXCEPT !.bucket = b, !.pc = pc]
<1>1. pourer' = [pourer EXCEPT ![p] = new]
  BY Zenon DEF Loaded, TypeInv, TypeOK
<1>2. pc \in {"gate", "pour"}
      /\ (OrderEvent => (pc = "gate" <=> ~pourer[p].retry))
  OBVIOUS
<1> HIDE DEF pc
<1>3. b \in BucketIds
  BY BornIds DEF TypeInv
<1>4. new \in PourerRec /\ new.pc = pc /\ new.bucket = b
      /\ new.msg = pourer[p].msg /\ new.idx = pourer[p].idx
      /\ new.retry = pourer[p].retry
  BY <1>2, <1>3, Zenon DEF TypeInv, TypeOK, PourerRec, PourerPCs
<1> HIDE DEF new
<1>5. new.msg \in Msgs /\ new.idx \in 1 .. Len(HoldersOf(new.msg))
      /\ bucket[new.bucket].key = HoldersOf(new.msg)[new.idx]
  BY <1>4 DEF TypeInv, PourerInv, Active, KeyOf
<1>6. OrderEvent =>
        \/ Gated(p) /\ GatedRec(new) /\ new.pc # "await"
        \/ /\ NoneGot /\ WgFree /\ ~GatedRec(new) /\ new.pc # "await"
           /\ new.pc = "gate" => ~new.retry
  <2> SUFFICES ASSUME OrderEvent
               PROVE  \/ Gated(p) /\ GatedRec(new) /\ new.pc # "await"
                      \/ /\ NoneGot /\ WgFree /\ ~GatedRec(new)
                         /\ new.pc # "await"
                         /\ new.pc = "gate" => ~new.retry
    OBVIOUS
  <2>1. CASE pourer[p].retry
    BY <1>2, <1>4, <2>1 DEF Gated, GatedRec
  <2>2. CASE ~pourer[p].retry
    <3>1. ~Gated(p) /\ pourer[p].pc # "await"
      BY <2>2 DEF Gated, GatedRec
    <3>2. NoneGot /\ WgFree
      BY <3>1, Ungated
    <3> QED BY <1>2, <1>4, <2>2, <3>2 DEF GatedRec
  <2> QED BY <2>1, <2>2
<1>7. /\ fate' \in [Msgs -> Fates]
      /\ store' \in [Keys -> BucketIds \cup {NoBucket}]
      /\ \A k \in Keys : store'[k] \in {store[k], NoBucket}
      /\ output' \in [Outputs -> OutputRec] /\ OutputInv'
      /\ alerts' \in [BucketIds -> Nat]
  BY DEF TypeInv, TypeOK, OutputInv
<1> QED BY <1>1, <1>4, <1>5, <1>6, <1>7, PourerOnly, Zenon
\* The fresh bucket of LoadOrStore.
LEMMA CreateType ==
  ASSUME TypeInv, NEW p \in Pourers, pourer[p].pc = "store",
         born < MaxBuckets, born' = born + 1,
         store' = [store EXCEPT ![KeyOf(p)] = born + 1],
         bucket' = [bucket EXCEPT ![born + 1] = NewLeaky(KeyOf(p))],
         pourer' = [pourer EXCEPT ![p].pc = "ready", ![p].bucket = born + 1],
         UNCHANGED <<fate, output, allOut, wg, phase, tomb, delivered, alerts>>
  PROVE  TypeInv'
<1> DEFINE k == KeyOf(p)
           b == born + 1
           new == [pourer[p] EXCEPT !.pc = "ready", !.bucket = b]
           leaky == NewLeaky(k)
<1>1. k \in Keys
  BY KeyOfType DEF TypeInv, Active
<1>2. b \in BucketIds /\ b \notin 1 .. born /\ b \in 1 .. born'
      /\ 1 .. born' = (1 .. born) \cup {b} /\ born' \in 0 .. MaxBuckets
  BY ConstantsAssumption DEF TypeInv, TypeOK, BucketIds
<1>3. leaky \in BucketRec /\ leaky.pc = "start" /\ leaky.key = k
  BY <1>1, NewLeakyType, Zenon DEF NewLeaky, Unborn
<1>4. bucket' = [bucket EXCEPT ![b] = leaky]
      /\ store' = [store EXCEPT ![k] = b]
      /\ pourer' = [pourer EXCEPT ![p] = new]
  BY Zenon DEF TypeInv, TypeOK
<1>5. new \in PourerRec /\ new.pc = "ready" /\ new.bucket = b
      /\ new.msg = pourer[p].msg /\ new.idx = pourer[p].idx
      /\ new.retry = pourer[p].retry
  BY <1>2, Zenon DEF TypeInv, TypeOK, PourerRec, PourerPCs
<1>6. k = HoldersOf(new.msg)[new.idx]
  BY <1>5 DEF KeyOf
<1> HIDE DEF k, b, new, leaky
<1>7. bucket' \in [BucketIds -> BucketRec] /\ bucket'[b] = leaky
      /\ \A c \in BucketIds : c # b => bucket'[c] = bucket[c]
  BY <1>2, <1>3, <1>4 DEF TypeInv, TypeOK
<1>8. \A c \in 1 .. born : c \in 1 .. born' /\ bucket'[c].key = bucket[c].key
  BY <1>2, <1>7, BornIds DEF TypeInv
<1>9. PourerInv' /\ pourer' \in [Pourers -> PourerRec]
  <2>1. new.msg \in Msgs /\ new.idx \in 1 .. Len(HoldersOf(new.msg))
    BY <1>5 DEF TypeInv, PourerInv, Active
  <2>2. new.bucket \in 1 .. born'
        /\ bucket'[new.bucket].key = HoldersOf(new.msg)[new.idx]
    BY <1>2, <1>3, <1>5, <1>6, <1>7
  <2> QED BY <1>4, <1>5, <1>8, <2>1, <2>2, PourerMove, Zenon
<1>10. BucketInv'
  <2>1. \A c \in BucketIds : c \in 1 .. born' <=> bucket'[c].pc # "unborn"
    BY <1>2, <1>3, <1>7 DEF TypeInv, BucketInv
  <2>2. \A c \in 1 .. born' : bucket'[c].key \in Keys
    BY <1>1, <1>2, <1>3, <1>7, <1>8 DEF TypeInv, BucketInv
  <2>3. \A j \in Keys : store'[j] # NoBucket =>
          store'[j] \in 1 .. born' /\ bucket'[store'[j]].key = j
    BY <1>1, <1>2, <1>3, <1>4, <1>7, <1>8 DEF TypeInv, TypeOK, BucketInv
  <2>4. \A c \in BucketIds : bucket'[c].pc = "got" => bucket'[c].msg \in Msgs
    BY <1>3, <1>7 DEF TypeInv, BucketInv
  <2> QED BY <2>1, <2>2, <2>3, <2>4 DEF BucketInv
<1>11. OrderInv'
  <2>1. NoneGot => NoneGot'
    BY <1>3, <1>7 DEF NoneGot
  <2>2. OrderEvent =>
          \/ Gated(p) /\ GatedRec(new) /\ new.pc # "await"
          \/ /\ NoneGot /\ WgFree /\ ~GatedRec(new) /\ new.pc # "await"
             /\ new.pc = "gate" => ~new.retry
    BY <1>5, Ungated DEF Gated, GatedRec
  <2> QED BY <1>4, <1>5, <2>1, <2>2, OrderMove, Zenon
<1>12. TypeOK'
  <2>1. store' \in [Keys -> BucketIds \cup {NoBucket}]
    BY <1>1, <1>2, <1>4, Zenon DEF TypeInv, TypeOK
  <2>2. UNCHANGED <<fate, output, allOut, wg, phase, tomb, delivered, alerts>>
    OBVIOUS
  <2> QED BY ONLY TypeInv, <1>2, <1>7, <1>9, <2>1, <2>2 DEF TypeInv, TypeOK
<1>13. OutputInv'
  BY <1>2 DEF TypeInv, OutputInv
<1> QED BY <1>9, <1>10, <1>11, <1>12, <1>13 DEF TypeInv

\* The rendezvous of PourItem.
LEMMA PourItemType ==
  ASSUME TypeInv, NEW p \in Pourers, PourItem(p)
  PROVE  TypeInv'
<1> DEFINE b == pourer[p].bucket
           m == pourer[p].msg
           got == [bucket[b] EXCEPT !.pc = "got", !.msg = m]
<1>1. pourer[p].pc = "pour" /\ bucket[b].pc = "select"
  BY DEF PourItem, Receptive
<1>2. b \in 1 .. born /\ b \in BucketIds /\ bucket[b].key = KeyOf(p)
      /\ KeyOf(p) \in Keys /\ m \in Msgs
  BY <1>1, BornIds, KeyOfType DEF TypeInv, PourerInv, Active, Holding
<1>3. got \in BucketRec /\ got.pc = "got" /\ got.msg = m
      /\ got.key = bucket[b].key
  <2>1. bucket[b] \in BucketRec
    BY <1>2 DEF TypeInv, TypeOK
  <2> HIDE DEF b, m
  <2> QED BY <1>2, <2>1, Zenon DEF BucketRec, BucketPCs
<1>4. bucket' = [bucket EXCEPT ![b] = got]
  BY <1>2, Zenon DEF PourItem, TypeInv, TypeOK
<1>5. delivered' \in [Msgs -> [Keys -> Nat]]
  BY <1>2 DEF PourItem, TypeInv, TypeOK
<1> HIDE DEF got
<1>6. bucket' \in [BucketIds -> BucketRec] /\ bucket'[b] = got
      /\ \A c \in BucketIds : c # b => bucket'[c] = bucket[c]
  BY <1>2, <1>3, <1>4 DEF TypeInv, TypeOK
<1>7. \A c \in BucketIds : bucket'[c].key = bucket[c].key
  BY <1>3, <1>6
<1>8. BucketInv'
  <2>1. 1 .. born \subseteq BucketIds
    BY BornIds DEF TypeInv
  <2>2. bucket'[b].pc # "unborn"
    BY <1>3, <1>6
  <2>3. UNCHANGED <<store, born>>
    BY DEF PourItem
  <2>4. \A c \in BucketIds : bucket'[c].pc = "got" => bucket'[c].msg \in Msgs
    BY <1>2, <1>3, <1>6 DEF TypeInv, BucketInv
  <2> QED BY <1>2, <1>6, <1>7, <2>1, <2>2, <2>3, <2>4 DEF TypeInv, BucketInv
<1>9. OutputInv'
  BY DEF PourItem, TypeInv, OutputInv
<1>10. ASSUME NEW new \in PourerRec, pourer' = [pourer EXCEPT ![p] = new],
              new.pc \notin {"idle", "exited"} =>
                new.msg \in Msgs /\ new.idx \in 1 .. Len(HoldersOf(new.msg)),
              new.pc \in {"ready", "gate", "pour", "delete", "await"} =>
                /\ new.bucket \in 1 .. born
                /\ bucket[new.bucket].key = HoldersOf(new.msg)[new.idx],
              fate' \in [Msgs -> Fates]
       PROVE  PourerInv' /\ TypeOK'
  <2>1. UNCHANGED <<store, born, output, allOut, wg, phase, tomb, alerts>>
    BY DEF PourItem
  <2>2. 1 .. born \subseteq BucketIds
    BY BornIds DEF TypeInv
  <2>3. PourerInv' /\ pourer' \in [Pourers -> PourerRec]
    BY <1>7, <1>10, <2>1, <2>2, PourerMove, Zenon
  <2>4. TypeOK'
    BY <1>5, <1>6, <1>10, <2>1, <2>3 DEF TypeInv, TypeOK
  <2> QED BY <2>3, <2>4
<1>11. CASE ~OrderEvent
  <2>1. NextHolder(p)
    BY <1>11 DEF PourItem
  <2>2. PICK new \in PourerRec :
          /\ pourer' = [pourer EXCEPT ![p] = new]
          /\ new.pc \in {"idle", "load"} /\ new.retry = FALSE
          /\ new.pc = "load" => /\ new.msg \in Msgs
                                /\ new.idx \in 1 .. Len(HoldersOf(new.msg))
    BY <1>1, <2>1, NextHolderType, Zenon DEF Active
  <2>3. fate' \in [Msgs -> Fates]
    BY <1>1, <2>1, NextHolderType, Zenon DEF Active
  <2>4. PourerInv' /\ TypeOK'
    BY <1>10, <2>2, <2>3, Zenon
  <2> QED BY <1>8, <1>9, <1>11, <2>4, Zenon DEF TypeInv, OrderInv
<1>12. CASE OrderEvent
  <2> DEFINE new == [pourer[p] EXCEPT !.pc = "await"]
  <2>1. pourer' = [pourer EXCEPT ![p] = new] /\ fate' = fate
    BY <1>12 DEF PourItem, TypeInv, TypeOK
  <2>2. new \in PourerRec /\ new.pc = "await" /\ new.bucket = b /\ new.msg = m
        /\ new.idx = pourer[p].idx
    BY Zenon DEF TypeInv, TypeOK, PourerRec, PourerPCs
  <2> HIDE DEF new
  <2>3. new.idx \in 1 .. Len(HoldersOf(new.msg))
        /\ KeyOf(p) = HoldersOf(new.msg)[new.idx]
    BY <1>1, <2>2 DEF TypeInv, PourerInv, Active, KeyOf
  <2>4. PourerInv' /\ TypeOK'
    <3>1. fate' \in [Msgs -> Fates]
      BY <2>1 DEF TypeInv, TypeOK
    <3> QED BY <1>2, <1>10, <2>1, <2>2, <2>3, <3>1, Zenon
  <2>5. pourer'[p] = new /\ \A q \in Pourers : q = p
    BY <1>12, <2>1, OrderAssumption DEF TypeInv, TypeOK
  <2>6. NoneGot /\ WgIs(KeyOf(p))
    BY <1>1, <1>12 DEF TypeInv, OrderInv, Gated, GatedRec
  <2>7. WgIs(KeyOf(p))'
    <3>1. wg' = wg /\ KeyOf(p)' = KeyOf(p)
      BY <2>2, <2>5 DEF PourItem, KeyOf
    <3> QED BY <2>6, <3>1 DEF WgIs
  <2>8. ~Gated(p)' /\ pourer'[p].pc = "await" /\ pourer'[p].bucket = b
        /\ bucket'[pourer'[p].bucket].pc = "got"
        /\ bucket'[pourer'[p].bucket].msg = pourer'[p].msg
    BY <1>3, <1>6, <2>2, <2>5 DEF Gated, GatedRec
  <2>9. \A c \in BucketIds : bucket'[c].pc = "got" => c = b
    BY <1>6, <2>6 DEF NoneGot
  <2>10. OrderInv'
    BY <2>5, <2>7, <2>8, <2>9 DEF OrderInv
  <2> QED BY <1>8, <1>9, <2>4, <2>10 DEF TypeInv
<1> QED BY <1>11, <1>12
\* What a pourer that only moves leaves as it was.
LEMMA RestType ==
  ASSUME TypeInv,
         UNCHANGED <<born, bucket, output, allOut, wg, phase, tomb, delivered,
                     alerts>>
  PROVE  output' \in [Outputs -> OutputRec] /\ OutputInv'
         /\ alerts' \in [BucketIds -> Nat]
BY DEF TypeInv, TypeOK, OutputInv

\* Every step of a runPour routine keeps the type invariant.
LEMMA PourStepType ==
  ASSUME TypeInv, NEW p \in Pourers, PourStep(p)
  PROVE  TypeInv'
<1>0. pourer[p] \in PourerRec
  BY DEF TypeInv, TypeOK
<1>s. UNCHANGED store => /\ store' \in [Keys -> BucketIds \cup {NoBucket}]
                         /\ \A k \in Keys : store'[k] \in {store[k], NoBucket}
  BY DEF TypeInv, TypeOK
<1>1. CASE ReceiveEvent(p)
  <2>1. PICK e \in Events : Take(p, e)
    BY <1>1 DEF ReceiveEvent
  <2>2. e \in Msgs /\ HoldersOf(e) # << >>
    BY ConstantsAssumption DEF Msgs, HoldersOf
  <2>3. pourer[p].pc = "idle"
        /\ UNCHANGED <<store, born, bucket, output, allOut, wg, phase, tomb,
                       delivered, alerts>>
    BY <1>1 DEF ReceiveEvent
  <2> QED BY <2>1, <2>2, <2>3, RestType, TakeType
<1>2. CASE PourExit(p)
  <2> DEFINE new == [pourer[p] EXCEPT !.pc = "exited"]
  <2>1. pourer[p].pc = "idle" /\ pourer' = [pourer EXCEPT ![p] = new]
        /\ UNCHANGED <<fate, store, born, bucket, output, allOut, wg, phase,
                       tomb, delivered, alerts>>
    BY <1>2 DEF PourExit, TypeInv, TypeOK
  <2>2. new \in PourerRec /\ new.pc = "exited"
    BY <1>0 DEF PourerRec, PourerPCs
  <2> HIDE DEF new
  <2>3. OrderEvent => NoneGot /\ WgFree /\ ~GatedRec(new)
    BY <2>1, <2>2, Ungated DEF Gated, GatedRec
  <2>4. fate' \in [Msgs -> Fates]
    BY <2>1 DEF TypeInv, TypeOK
  <2> QED BY <1>s, <2>1, <2>2, <2>3, <2>4, RestType, PourerOnly, Zenon
<1>3. CASE HolderFails(p)
  <2>1. pourer[p].pc = "load" /\ ~pourer[p].retry
        /\ pourer' = [pourer EXCEPT ![p] = IdlePourer]
        /\ fate' = [fate EXCEPT ![pourer[p].msg] = "failed"]
        /\ UNCHANGED <<store, born, bucket, output, allOut, wg, phase, tomb,
                       delivered, alerts>>
    BY <1>3 DEF HolderFails
  <2>2. IdlePourer.pc = "idle" /\ ~GatedRec(IdlePourer)
    BY DEF IdlePourer, GatedRec
  <2>3. OrderEvent => NoneGot /\ WgFree
    BY <2>1, Ungated DEF Gated, GatedRec
  <2>4. fate' \in [Msgs -> Fates]
    BY <2>1, Zenon DEF TypeInv, TypeOK, Fates
  <2> QED BY <1>s, <2>1, <2>2, <2>3, <2>4, IdlePourerType, RestType, PourerOnly, Zenon
<1>4. ASSUME pourer[p].pc \in {"load", "store"}, store[KeyOf(p)] # NoBucket,
             pourer' = Loaded(p, store[KeyOf(p)]),
             UNCHANGED <<fate, store, born, bucket, output, allOut, wg, phase,
                         tomb, delivered, alerts>>
      PROVE  TypeInv'
  <2>1. KeyOf(p) \in Keys
    BY <1>4, KeyOfType DEF TypeInv, Active
  <2>2. store[KeyOf(p)] \in 1 .. born
        /\ bucket[store[KeyOf(p)]].key = KeyOf(p)
    BY <1>4, <2>1 DEF TypeInv, BucketInv
  <2> QED BY <1>4, <2>2, LoadedType
<1>5. CASE LoadBucket(p)
  <2>1. CASE store[KeyOf(p)] # NoBucket
    BY <1>4, <1>5, <2>1 DEF LoadBucket
  <2>2. CASE store[KeyOf(p)] = NoBucket
    <3> DEFINE new == [pourer[p] EXCEPT !.pc = "store"]
    <3>1. pourer[p].pc = "load" /\ pourer' = [pourer EXCEPT ![p] = new]
          /\ UNCHANGED <<fate, store, born, bucket, output, allOut, wg, phase,
                         tomb, delivered, alerts>>
      BY <1>5, <2>2 DEF LoadBucket, TypeInv, TypeOK
    <3>2. new \in PourerRec /\ new.pc = "store" /\ new.msg = pourer[p].msg
          /\ new.idx = pourer[p].idx /\ new.retry = pourer[p].retry
      BY <1>0 DEF PourerRec, PourerPCs
    <3> HIDE DEF new
    <3>3. new.msg \in Msgs /\ new.idx \in 1 .. Len(HoldersOf(new.msg))
      BY <3>1, <3>2 DEF TypeInv, PourerInv, Active
    <3>4. OrderEvent => \/ Gated(p) /\ GatedRec(new)
                        \/ NoneGot /\ WgFree /\ ~GatedRec(new)
      BY <3>1, <3>2, Ungated DEF Gated, GatedRec
    <3>5. fate' \in [Msgs -> Fates]
      BY <3>1 DEF TypeInv, TypeOK
    <3> QED BY <1>s, <3>1, <3>2, <3>3, <3>4, <3>5, RestType, PourerOnly, Zenon
  <2> QED BY <2>1, <2>2
<1>6. CASE LoadOrStore(p)
  <2>1. CASE store[KeyOf(p)] # NoBucket
    BY <1>4, <1>6, <2>1 DEF LoadOrStore
  <2>2. CASE store[KeyOf(p)] = NoBucket
    BY <1>6, <2>2, CreateType DEF LoadOrStore
  <2> QED BY <2>1, <2>2
<1>7. CASE AwaitReady(p)
  <2>1. pourer[p].pc = "ready" /\ pourer' = Loaded(p, pourer[p].bucket)
        /\ UNCHANGED <<fate, store, born, bucket, output, allOut, wg, phase,
                       tomb, delivered, alerts>>
    BY <1>7 DEF AwaitReady
  <2>2. pourer[p].bucket \in 1 .. born
        /\ bucket[pourer[p].bucket].key = KeyOf(p)
    BY <2>1 DEF TypeInv, PourerInv, Holding
  <2> QED BY <2>1, <2>2, LoadedType
<1>8. CASE OrderGate(p)
  <2> DEFINE new == [pourer[p] EXCEPT !.pc = "pour"]
  <2>1. pourer[p].pc = "gate" /\ pourer' = [pourer EXCEPT ![p] = new]
        /\ wg' = [wg EXCEPT ![KeyOf(p)] = @ + 1] /\ wg[KeyOf(p)] = 0
        /\ UNCHANGED <<fate, store, born, bucket, output, allOut, phase,
                       tomb, delivered, alerts>>
    BY <1>8 DEF OrderGate, TypeInv, TypeOK
  <2>2. new \in PourerRec /\ new.pc = "pour" /\ new.msg = pourer[p].msg
        /\ new.idx = pourer[p].idx /\ new.bucket = pourer[p].bucket
    BY <1>0 DEF PourerRec, PourerPCs
  <2> HIDE DEF new
  <2>3. KeyOf(p) \in Keys
    BY <2>1, KeyOfType DEF TypeInv, Active
  <2>4. PourerInv' /\ pourer' \in [Pourers -> PourerRec]
    <3>1. new.msg \in Msgs /\ new.idx \in 1 .. Len(HoldersOf(new.msg))
          /\ new.bucket \in 1 .. born
          /\ bucket[new.bucket].key = HoldersOf(new.msg)[new.idx]
      BY <2>1, <2>2 DEF TypeInv, PourerInv, Active, Holding, KeyOf
    <3> QED BY <2>1, <2>2, <3>1, PourerMove, Zenon
  <2>5. TypeOK'
    BY <2>1, <2>3, <2>4 DEF TypeInv, TypeOK
  <2>6. BucketInv' /\ OutputInv'
    BY <2>1 DEF TypeInv, BucketInv, OutputInv
  <2>7. OrderInv'
    <3> SUFFICES ASSUME OrderEvent PROVE OrderInv'
      BY DEF OrderInv
    <3>1. NoneGot /\ WgFree
      <4>1. ~Gated(p)
        BY <2>1 DEF Gated, GatedRec
      <4> QED BY <2>1, <4>1, Ungated
    <3>2. NoneGot' /\ pourer'[p] = new /\ \A q \in Pourers : q = p
      BY <2>1, <3>1, OrderAssumption DEF NoneGot, TypeInv, TypeOK
    <3>3. WgIs(KeyOf(p))'
      <4>1. KeyOf(p)' = KeyOf(p)
        BY <2>2, <3>2 DEF KeyOf
      <4> QED BY <2>1, <2>3, <3>1, <4>1 DEF WgFree, WgIs
    <3> QED BY <2>2, <3>2, <3>3 DEF OrderInv, NoneGot, Gated, GatedRec
  <2> QED BY <2>4, <2>5, <2>6, <2>7 DEF TypeInv
<1>9. CASE CleanupBody(p)
  <2> DEFINE new == [pourer[p] EXCEPT !.pc = "delete"]
  <2>1. pourer[p].pc = "pour" /\ pourer' = [pourer EXCEPT ![p] = new]
        /\ UNCHANGED <<fate, store, born, bucket, output, allOut, wg, phase,
                       tomb, delivered, alerts>>
    BY <1>9 DEF CleanupBody, TypeInv, TypeOK
  <2>2. new \in PourerRec /\ new.pc = "delete" /\ new.msg = pourer[p].msg
        /\ new.idx = pourer[p].idx /\ new.bucket = pourer[p].bucket
    BY <1>0 DEF PourerRec, PourerPCs
  <2> HIDE DEF new
  <2>3. new.msg \in Msgs /\ new.idx \in 1 .. Len(HoldersOf(new.msg))
        /\ new.bucket \in 1 .. born
        /\ bucket[new.bucket].key = HoldersOf(new.msg)[new.idx]
    BY <2>1, <2>2, Zenon DEF TypeInv, PourerInv, Active, Holding, KeyOf
  <2>4. Gated(p) /\ GatedRec(new)
    BY <2>1, <2>2 DEF Gated, GatedRec
  <2>5. fate' \in [Msgs -> Fates]
    BY <2>1 DEF TypeInv, TypeOK
  <2> QED BY <1>s, <2>1, <2>2, <2>3, <2>4, <2>5, RestType, PourerOnly, Zenon
<1>10. CASE DeleteBody(p)
  <2> DEFINE new == [pourer[p] EXCEPT !.pc = "load", !.retry = TRUE,
                                      !.bucket = NoBucket]
  <2>1. pourer[p].pc = "delete" /\ pourer' = [pourer EXCEPT ![p] = new]
        /\ store' = [store EXCEPT ![KeyOf(p)] = NoBucket]
        /\ UNCHANGED <<fate, born, bucket, output, allOut, wg, phase,
                       tomb, delivered, alerts>>
    BY <1>10, Zenon DEF DeleteBody, TypeInv, TypeOK
  <2>2. new \in PourerRec /\ new.pc = "load" /\ new.msg = pourer[p].msg
        /\ new.idx = pourer[p].idx /\ new.retry = TRUE
    BY <1>0, Zenon DEF PourerRec, PourerPCs
  <2> HIDE DEF new
  <2>3. new.msg \in Msgs /\ new.idx \in 1 .. Len(HoldersOf(new.msg))
    BY <2>1, <2>2 DEF TypeInv, PourerInv, Active
  <2>4. Gated(p) /\ GatedRec(new)
    BY <2>1, <2>2 DEF Gated, GatedRec
  <2>5. fate' \in [Msgs -> Fates]
        /\ store' \in [Keys -> BucketIds \cup {NoBucket}]
        /\ \A k \in Keys : store'[k] \in {store[k], NoBucket}
    BY <2>1, Zenon DEF TypeInv, TypeOK
  <2> QED BY <2>1, <2>2, <2>3, <2>4, <2>5, RestType, PourerOnly, Zenon
<1>11. CASE PourItem(p)
  BY <1>11, PourItemType
<1>12. CASE OrderWait(p)
  <2>1. pourer[p].pc = "await" /\ wg[KeyOf(p)] = 0 /\ NextHolder(p)
        /\ UNCHANGED <<store, born, bucket, output, allOut, wg, phase, tomb,
                       delivered, alerts>>
    BY <1>12 DEF OrderWait
  <2>2. PICK new \in PourerRec :
          /\ pourer' = [pourer EXCEPT ![p] = new]
          /\ new.pc \in {"idle", "load"} /\ new.retry = FALSE
          /\ new.pc = "load" => /\ new.msg \in Msgs
                                /\ new.idx \in 1 .. Len(HoldersOf(new.msg))
    BY <2>1, NextHolderType, Zenon DEF Active
  <2>3. fate' \in [Msgs -> Fates]
    BY <2>1, NextHolderType, Zenon DEF Active
  <2>4. KeyOf(p) \in Keys
    BY <2>1, KeyOfType DEF TypeInv, Active
  <2>5. ~WgIs(KeyOf(p))
    BY <2>1, <2>4 DEF WgIs
  <2>6. OrderEvent => NoneGot /\ WgFree /\ ~GatedRec(new)
    BY <2>1, <2>2, <2>5 DEF TypeInv, OrderInv, GatedRec
  <2> QED BY <1>s, <2>1, <2>2, <2>3, <2>6, RestType, PourerOnly, Zenon
<1> QED
  BY <1>1, <1>2, <1>3, <1>5, <1>6, <1>7, <1>8, <1>9, <1>10, <1>11, <1>12
     DEF PourStep

-----------------------------------------------------------------------------
(* The steps of a leak routine.                                            *)

\* The factory of a bucket that exists.
LEMMA FactoryOf ==
  ASSUME TypeInv, NEW b \in BucketIds, bucket[b].pc # "unborn"
  PROVE  b \in 1 .. born /\ bucket[b].key \in Keys /\ F(b) \in FactoryType
BY ConstantsAssumption DEF TypeInv, BucketInv, F

\* UniqProcessor's cache holds elements.
LEMMA RememberingType ==
  ASSUME TypeInv, NEW b \in BucketIds, bucket[b].pc = "got"
  PROVE  Remembering(b) \in BucketRec
         /\ Remembering(b).key = bucket[b].key
         /\ Remembering(b).queue = bucket[b].queue
         /\ Remembering(b).tokens = bucket[b].tokens
         /\ Remembering(b).armed = bucket[b].armed
         /\ Remembering(b).done = bucket[b].done
         /\ Remembering(b).pc = bucket[b].pc
<1>1. bucket[b] \in BucketRec
  BY DEF TypeInv, TypeOK
<1> DEFINE x == Element(bucket[b].msg)
           seen == bucket[b].seen \cup {x}
           r == bucket[b]
<1>2. seen \in SUBSET {Element(m) : m \in Msgs}
  BY <1>1 DEF TypeInv, BucketInv, BucketRec
<1>3. CASE F(b).distinct
  <2>1. Remembering(b) = [r EXCEPT !.seen = seen]
    BY <1>3 DEF Remembering
  <2> HIDE DEF r, seen
  <2>2. r \in BucketRec
    BY <1>1 DEF r
  <2>3. [r EXCEPT !.seen = seen] \in BucketRec
        /\ [r EXCEPT !.seen = seen].key = r.key
        /\ [r EXCEPT !.seen = seen].queue = r.queue
        /\ [r EXCEPT !.seen = seen].tokens = r.tokens
        /\ [r EXCEPT !.seen = seen].armed = r.armed
        /\ [r EXCEPT !.seen = seen].done = r.done
        /\ [r EXCEPT !.seen = seen].pc = r.pc
    BY <1>2, <2>2 DEF BucketRec
  <2> QED BY <2>1, <2>3 DEF r
<1>4. CASE ~F(b).distinct
  BY <1>1, <1>4 DEF Remembering
<1> QED BY <1>3, <1>4
\* A bucket that leaves its loop for the emission.
LEMMA EmittingType ==
  ASSUME TypeInv, NEW b \in BucketIds,
         bucket[b].pc \notin {"unborn", "got"},
         NEW out \in {"alert", "cleanup"}, NEW done \in BOOLEAN,
         NEW suicide \in BOOLEAN,
         bucket' = [bucket EXCEPT ![b] =
                      [bucket[b] EXCEPT !.pc = "emit", !.done = done,
                                        !.out = out, !.suicide = suicide]],
         UNCHANGED <<allOut, wg>>, NotBucket
  PROVE  TypeInv'
<1> DEFINE r == bucket[b]
           new == [r EXCEPT !.pc = "emit", !.done = done, !.out = out,
                            !.suicide = suicide]
<1>1. r \in BucketRec
  BY DEF TypeInv, TypeOK
<1>2. new \in BucketRec /\ new.pc = "emit" /\ new.key = r.key
  <2> HIDE DEF r
  <2> QED BY <1>1, Zenon DEF BucketRec, BucketPCs
<1>3. bucket' = [bucket EXCEPT ![b] = new]
  OBVIOUS
<1> HIDE DEF new
<1>4. allOut' \in Seq(BucketIds) /\ Len(allOut') <= 1
      /\ \A i \in 1 .. Len(allOut') : allOut'[i] \in 1 .. born
  BY DEF TypeInv, TypeOK, OutputInv
<1> QED BY <1>2, <1>3, <1>4, BucketMove, Zenon

\* An overflow, a suicide and a kill all leave for the emission.
LEMMA OverflowingType ==
  ASSUME TypeInv, NEW b \in BucketIds, NEW out \in {"alert", "cleanup"},
         bucket[b].pc \notin {"unborn", "got"},
         bucket' = Overflowing(b, out), UNCHANGED <<allOut, wg>>, NotBucket
  PROVE  TypeInv'
<1>1. bucket[b] \in BucketRec
  BY DEF TypeInv, TypeOK
<1>2. bucket[b].suicide \in BOOLEAN
  BY <1>1 DEF BucketRec
<1>3. [bucket[b] EXCEPT !.suicide = bucket[b].suicide] = bucket[b]
  BY <1>1 DEF BucketRec
<1>4. bucket' = [bucket EXCEPT ![b] =
                   [bucket[b] EXCEPT !.pc = "emit", !.done = TRUE, !.out = out,
                                     !.suicide = bucket[b].suicide]]
  BY <1>1, Zenon DEF TypeInv, TypeOK, BucketRec, Overflowing
<1> QED BY <1>2, <1>4, EmittingType, Zenon
\* The bucket after Pour and AfterBucketPour.
LEMMA PouredType ==
  ASSUME TypeInv, NEW b \in BucketIds, bucket[b].pc = "got",
         NEW condition \in BOOLEAN
  PROVE  /\ Poured(b, condition) \in BucketRec
         /\ Poured(b, condition).key = bucket[b].key
         /\ Poured(b, condition).done = bucket[b].done
         /\ Poured(b, condition).pc = "got"
         /\ Poured(b, condition).armed = (bucket[b].armed \/ ~condition)
         /\ Poured(b, condition).pending = (~Allowed(b) \/ condition)
<1> DEFINE r == bucket[b]
           s == Remembering(b)
           q == Add(s.queue, r.msg, Qsize(F(b)))
           tokens == IF s.tokens > 0 THEN s.tokens - 1 ELSE s.tokens
           pending == ~Allowed(b) \/ condition
           armed == s.armed \/ ~condition
           new == [s EXCEPT !.queue = q, !.tokens = tokens,
                            !.pending = pending, !.armed = armed]
<1>1. new = Poured(b, condition)
  BY DEF Poured
<1>2. s \in BucketRec /\ s.key = r.key /\ s.queue = r.queue
      /\ s.tokens = r.tokens /\ s.armed = r.armed /\ s.done = r.done
      /\ s.pc = r.pc
  BY RememberingType
<1>3. q \in Seq(Msgs)
  <2>1. r.msg \in Msgs /\ r.queue \in Seq(Msgs)
    BY DEF TypeInv, TypeOK, BucketInv, BucketRec
  <2>2. Qsize(F(b)) \in Nat \cup {-1}
    BY FactoryOf, QsizeType
  <2> QED BY <1>2, <2>1, <2>2, AddType
<1>4. tokens \in Int
  BY <1>2 DEF BucketRec
<1>5. pending \in BOOLEAN /\ armed \in BOOLEAN
  OBVIOUS
<1>6. armed = (r.armed \/ ~condition)
  BY <1>2
<1> HIDE DEF s, q, tokens, pending, armed
<1>7. new \in BucketRec /\ new.key = s.key /\ new.done = s.done
      /\ new.pc = s.pc /\ new.armed = armed /\ new.pending = pending
  BY <1>2, <1>3, <1>4, <1>5, Zenon DEF BucketRec
<1> HIDE DEF new
<1> QED BY <1>1, <1>2, <1>6, <1>7 DEF pending

\* A step of a leak routine that neither starts nor ends an iteration.
LEMMA SimpleMove ==
  ASSUME TypeInv, NEW b \in BucketIds, bucket[b].pc \notin {"unborn", "got"},
         NEW new \in BucketRec, new.key = bucket[b].key,
         new.pc \notin {"unborn", "got"},
         bucket' = [bucket EXCEPT ![b] = new], UNCHANGED <<allOut, wg>>,
         NotBucket
  PROVE  TypeInv'
<1>1. allOut' \in Seq(BucketIds) /\ Len(allOut') <= 1
      /\ \A i \in 1 .. Len(allOut') : allOut'[i] \in 1 .. born
  BY DEF TypeInv, TypeOK, OutputInv
<1> QED BY <1>1, BucketMove, Zenon

\* Every step of a LeakRoutine, and every refill of its limiter, keeps the
\* type invariant.
LEMMA BucketStepType ==
  ASSUME TypeInv, NEW b \in BucketIds, BucketStep(b) \/ Leak(b)
  PROVE  TypeInv'
<1> DEFINE r == bucket[b]
<1>0. r \in BucketRec
  BY DEF TypeInv, TypeOK
<1>1. CASE Ready(b)
  <2> DEFINE new == [r EXCEPT !.pc = "init", !.ready = TRUE]
  <2>1. r.pc = "start" /\ bucket' = [bucket EXCEPT ![b] = new]
        /\ UNCHANGED <<allOut, wg>> /\ NotBucket
    BY <1>1, Zenon DEF Ready, TypeInv, TypeOK
  <2>2. new \in BucketRec /\ new.key = r.key /\ new.pc = "init"
    BY <1>0, Zenon DEF BucketRec, BucketPCs
  <2> HIDE DEF new
  <2> QED BY <2>1, <2>2, SimpleMove, Zenon
<1>2. CASE BucketInit(b)
  <2> DEFINE dead == [r EXCEPT !.pc = "dead", !.done = TRUE]
             select == [r EXCEPT !.pc = "select"]
  <2>1. r.pc = "init" /\ UNCHANGED <<allOut, wg>> /\ NotBucket
        /\ \/ bucket' = [bucket EXCEPT ![b] = dead]
           \/ bucket' = [bucket EXCEPT ![b] = select]
    BY <1>2, Zenon DEF BucketInit, TypeInv, TypeOK
  <2>2. dead \in BucketRec /\ dead.key = r.key /\ dead.pc = "dead"
    BY <1>0, Zenon DEF BucketRec, BucketPCs
  <2>3. select \in BucketRec /\ select.key = r.key /\ select.pc = "select"
    BY <1>0 DEF BucketRec, BucketPCs
  <2> HIDE DEF dead, select
  <2> QED BY <2>1, <2>2, <2>3, SimpleMove
<1>m. r.pc = "got" => /\ r.msg \in Msgs
                      /\ Add(r.queue, r.msg, Qsize(F(b))) \in Seq(Msgs)
  <2> SUFFICES ASSUME r.pc = "got"
               PROVE  /\ r.msg \in Msgs
                      /\ Add(r.queue, r.msg, Qsize(F(b))) \in Seq(Msgs)
    OBVIOUS
  <2>1. r.msg \in Msgs /\ r.queue \in Seq(Msgs)
    BY <1>0 DEF TypeInv, BucketInv, BucketRec
  <2>2. Qsize(F(b)) \in Nat \cup {-1}
    BY FactoryOf, QsizeType
  <2> QED BY <2>1, <2>2, AddType
<1>3. CASE PourTrigger(b)
  <2> DEFINE q == Add(r.queue, r.msg, Qsize(F(b)))
             new == [r EXCEPT !.queue = q, !.pending = TRUE]
  <2>1. r.pc = "got" /\ EndIteration(b, new) /\ allOut' = allOut /\ NotBucket
    BY <1>3 DEF PourTrigger
  <2>2. new \in BucketRec /\ new.key = r.key
    <3>1. q \in Seq(Msgs)
      BY <1>m, <2>1
    <3> HIDE DEF q
    <3> QED BY <1>0, <3>1, Zenon DEF BucketRec
  <2> HIDE DEF new
  <2> QED BY <2>1, <2>2, IterationEnds
<1>4. CASE PourDuplicate(b)
  BY <1>0, <1>4, IterationEnds DEF PourDuplicate
<1>5. CASE PourCancel(b)
  <2> DEFINE s == Remembering(b)
             new == [s EXCEPT !.suicide = TRUE]
  <2>1. r.pc = "got" /\ EndIteration(b, new) /\ allOut' = allOut /\ NotBucket
    BY <1>5 DEF PourCancel
  <2>2. s \in BucketRec /\ s.key = r.key
    BY <2>1, RememberingType
  <2> HIDE DEF s
  <2>3. new \in BucketRec /\ new.key = s.key
    BY <2>2, Zenon DEF BucketRec
  <2> HIDE DEF new
  <2> QED BY <2>1, <2>2, <2>3, IterationEnds
<1>6. CASE PourLimited(b)
  <2>1. r.pc = "got" /\ allOut' = allOut /\ NotBucket
    BY <1>6 DEF PourLimited
  <2>2. PICK condition \in BOOLEAN : EndIteration(b, Poured(b, condition))
    BY <1>6, Zenon DEF PourLimited
  <2>3. Poured(b, condition) \in BucketRec
        /\ Poured(b, condition).key = r.key
    BY <2>1, PouredType
  <2> QED BY <2>1, <2>2, <2>3, IterationEnds
<1>7. CASE Overflow(b)
  <2>1. r.pc = "end" /\ UNCHANGED <<allOut, wg>> /\ NotBucket
    BY <1>7 DEF Overflow
  <2>2. PICK out \in {"alert", "cleanup"} : bucket' = Overflowing(b, out)
    BY <1>7 DEF Overflow, Outcomes
  <2> QED BY <2>1, <2>2, OverflowingType
<1>8. CASE Suicide(b)
  <2>1. r.pc = "select" /\ UNCHANGED <<allOut, wg>> /\ NotBucket
        /\ bucket' = [Overflowing(b, "cleanup") EXCEPT ![b].suicide = FALSE]
    BY <1>8 DEF Suicide
  <2>2. bucket' = [bucket EXCEPT ![b] =
                     [r EXCEPT !.pc = "emit", !.done = TRUE, !.out = "cleanup",
                               !.suicide = FALSE]]
    BY <1>0, <2>1, Zenon DEF Overflowing, TypeInv, TypeOK, BucketRec
  <2> QED BY <2>1, <2>2, EmittingType, Zenon
<1>9. CASE TickerFires(b)
  <2>1. r.pc = "select" /\ UNCHANGED <<allOut, wg>> /\ NotBucket
    BY <1>9 DEF TickerFires
  <2>2. PICK out \in {"alert", "cleanup"} : bucket' = Overflowing(b, out)
    BY <1>9 DEF TickerFires, Outcomes
  <2> QED BY <2>1, <2>2, OverflowingType
<1>10. CASE ExternallyKilled(b)
  <2> DEFINE new == [r EXCEPT !.pc = "emit", !.out = "cleanup"]
  <2>1. r.pc = "select" /\ UNCHANGED <<allOut, wg>> /\ NotBucket
        /\ bucket' = [bucket EXCEPT ![b] = new]
    BY <1>10, Zenon DEF ExternallyKilled, TypeInv, TypeOK
  <2>2. new \in BucketRec /\ new.key = r.key /\ new.pc = "emit"
    BY <1>0, Zenon DEF BucketRec, BucketPCs
  <2> HIDE DEF new
  <2> QED BY <2>1, <2>2, SimpleMove, Zenon
<1>11. CASE Leak(b)
  <2> DEFINE n == r.tokens + 1
             new == [r EXCEPT !.tokens = n]
  <2>1. r.pc = "select" /\ UNCHANGED <<allOut, wg>> /\ NotBucket
        /\ bucket' = [bucket EXCEPT ![b] = new]
    BY <1>11 DEF Leak, TypeInv, TypeOK
  <2>2. n \in Int
    BY <1>0 DEF BucketRec
  <2> HIDE DEF n
  <2>3. new \in BucketRec /\ new.key = r.key /\ new.pc = r.pc
    BY <1>0, <2>2 DEF BucketRec
  <2> HIDE DEF new
  <2> QED BY <2>1, <2>3, SimpleMove, Zenon
<1>12. CASE Emit(b)
  <2> DEFINE new == [r EXCEPT !.pc = "dead", !.done = TRUE]
  <2>1. r.pc = "emit" /\ wg' = wg /\ NotBucket /\ Len(allOut) < 1
        /\ bucket' = [bucket EXCEPT ![b] = new] /\ allOut' = Append(allOut, b)
    BY <1>12, Zenon DEF Emit, TypeInv, TypeOK
  <2>2. new \in BucketRec /\ new.key = r.key /\ new.pc = "dead"
    BY <1>0, Zenon DEF BucketRec, BucketPCs
  <2> HIDE DEF new
  <2>3. b \in 1 .. born
    BY <2>1, FactoryOf
  <2>4. allOut \in Seq(BucketIds) /\ Len(allOut) = 0
    BY <2>1 DEF TypeInv, TypeOK
  <2>5. allOut' \in Seq(BucketIds) /\ Len(allOut') <= 1
        /\ \A i \in 1 .. Len(allOut') : allOut'[i] \in 1 .. born
    BY <2>1, <2>3, <2>4
  <2> QED BY <2>1, <2>2, <2>5, BucketMove, Zenon
<1> QED
  BY <1>1, <1>2, <1>3, <1>4, <1>5, <1>6, <1>7, <1>8, <1>9, <1>10, <1>11, <1>12
     DEF BucketStep

\* A step that leaves the buckets and the pour routines alone.
LEMMA OutputMove ==
  ASSUME TypeInv, UNCHANGED <<born, bucket, pourer, wg, delivered>>,
         fate' \in [Msgs -> Fates],
         store' \in [Keys -> BucketIds \cup {NoBucket}],
         \A k \in Keys : store'[k] \in {store[k], NoBucket},
         output' \in [Outputs -> OutputRec], OutputInv',
         allOut' \in Seq(BucketIds), Len(allOut') <= 1,
         phase' \in Phases, tomb' \in {"alive", "dying"},
         alerts' \in [BucketIds -> Nat]
  PROVE  TypeInv'
<1>1. TypeOK'
  BY DEF TypeInv, TypeOK
<1>2. PourerInv'
  BY Zenon DEF TypeInv, PourerInv, Active, Holding, KeyOf
<1>3. BucketInv'
  BY Zenon DEF TypeInv, BucketInv
<1>4. OrderInv'
  BY OrderSame DEF TypeInv
<1> QED BY <1>1, <1>2, <1>3, <1>4 DEF TypeInv

\* An output o that moves to state new.
LEMMA OutputState ==
  ASSUME TypeInv, NEW o \in Outputs, NEW new \in OutputRec,
         output' = [output EXCEPT ![o] = new], born' = born,
         \A i \in 1 .. Len(allOut') : allOut'[i] \in 1 .. born,
         new.pc \in {"cleanup", "parse", "reprocess"} =>
           new.bucket \in 1 .. born,
         new.pc = "reprocess" => OverflowHolders # << >>
  PROVE  output' \in [Outputs -> OutputRec] /\ OutputInv'
<1>1. output' \in [Outputs -> OutputRec] /\ output'[o] = new
      /\ \A q \in Outputs : q # o => output'[q] = output[q]
  BY DEF TypeInv, TypeOK
<1> QED BY <1>1 DEF TypeInv, OutputInv

\* Buffering the alert an output holds.
LEMMA AddAlertType ==
  ASSUME TypeInv, NEW o \in Outputs, output[o].bucket \in BucketIds,
         AddAlert(o)
  PROVE  alerts' \in [BucketIds -> Nat]
BY DEF AddAlert, TypeInv, TypeOK

\* The steps of an output, and drainChan receiving from one, keep TypeInv.
LEMMA OutputStepType ==
  ASSUME TypeInv, NEW o \in Outputs, OutputStep(o) \/ DrainReprocess(o)
  PROVE  TypeInv'
<1> DEFINE r == output[o]
<1>0. r \in OutputRec /\ 1 .. born \subseteq BucketIds
  BY BornIds DEF TypeInv, TypeOK
<1>a. /\ allOut \in Seq(BucketIds) /\ Len(allOut) <= 1
      /\ phase \in Phases /\ tomb \in {"alive", "dying"}
      /\ alerts \in [BucketIds -> Nat] /\ fate \in [Msgs -> Fates]
      /\ store \in [Keys -> BucketIds \cup {NoBucket}]
      /\ \A i \in 1 .. Len(allOut) : allOut[i] \in 1 .. born
  BY DEF TypeInv, TypeOK, OutputInv
<1>b. r.pc \in {"cleanup", "parse", "reprocess"} =>
        r.bucket \in 1 .. born /\ r.bucket \in BucketIds
        /\ bucket[r.bucket].key \in Keys
  BY <1>0 DEF TypeInv, OutputInv, BucketInv
<1>c. r.pc = "reprocess" => OverflowHolders # << >>
  BY DEF TypeInv, OutputInv
<1>d. ASSUME NEW pc \in {"select", "exited"}, output' = OutputTo(o, pc),
             UNCHANGED <<born, allOut>>
      PROVE  output' \in [Outputs -> OutputRec] /\ OutputInv'
  <2> DEFINE new == [r EXCEPT !.pc = pc]
  <2>1. output' = [output EXCEPT ![o] = new]
    BY <1>d DEF OutputTo, TypeInv, TypeOK
  <2>2. new \in OutputRec /\ new.pc = pc
    BY <1>0 DEF OutputRec, OutputPCs
  <2> HIDE DEF new
  <2> QED BY <1>a, <1>d, <2>1, <2>2, OutputState, Zenon
<1>e. ASSUME NEW m \in Msgs, NEW f \in Fates, fate' = [fate EXCEPT ![m] = f]
      PROVE  fate' \in [Msgs -> Fates]
  BY <1>a, <1>e
<1>f. BucketIds \subseteq Msgs
  BY DEF Msgs
<1>1. CASE ReceiveOverflow(o)
  <2> DEFINE pc == IF bucket[Head(allOut)].out = "cleanup"
                     THEN "cleanup" ELSE "parse"
             new == [pc |-> pc, bucket |-> Head(allOut)]
  <2>1. output' = [output EXCEPT ![o] = new] /\ allOut # << >>
        /\ allOut' = Tail(allOut)
        /\ UNCHANGED <<fate, store, born, bucket, pourer, wg, phase, tomb,
                       delivered, alerts>>
    BY <1>1 DEF ReceiveOverflow
  <2>2. Len(allOut) = 1 /\ Head(allOut) = allOut[1]
    <3>1. allOut \in Seq(BucketIds) /\ Len(allOut) <= 1 /\ allOut # << >>
      BY <1>a, <2>1
    <3>2. Len(allOut) \in Nat /\ Len(allOut) # 0
      BY ONLY <3>1
    <3>3. Head(allOut) = allOut[1]
      BY ONLY <3>1
    <3> DEFINE n == Len(allOut)
    <3>4. n \in Nat /\ n # 0 /\ n <= 1
      BY <3>1, <3>2
    <3> HIDE DEF n
    <3>5. n = 1
      BY ONLY <3>4
    <3> QED BY <3>3, <3>5 DEF n
  <2>3. Head(allOut) \in 1 .. born
    BY <1>a, <2>2
  <2>4. pc \in {"cleanup", "parse"}
    OBVIOUS
  <2> HIDE DEF pc
  <2>5. new \in OutputRec /\ new.pc = pc /\ new.bucket = Head(allOut)
    BY <1>0, <2>3, <2>4 DEF OutputRec, OutputPCs
  <2> HIDE DEF new
  <2>6. allOut' \in Seq(BucketIds) /\ Len(allOut') = 0
    <3>1. Tail(allOut) \in Seq(BucketIds) /\ Len(Tail(allOut)) = 0
      BY <1>a, <2>1, <2>2
    <3> QED BY <2>1, <3>1
  <2>7. \A i \in 1 .. Len(allOut') : allOut'[i] \in 1 .. born
    BY <2>6
  <2>8. output' \in [Outputs -> OutputRec] /\ OutputInv'
    BY <2>1, <2>3, <2>4, <2>5, <2>7, OutputState, Zenon
  <2> QED BY <1>a, <2>1, <2>6, <2>8, OutputMove
<1>2. CASE CleanupKey(o)
  <2>1. /\ r.pc = "cleanup" /\ output' = OutputTo(o, "select")
        /\ store' = [store EXCEPT ![bucket[r.bucket].key] = NoBucket]
        /\ UNCHANGED <<fate, born, bucket, pourer, allOut, wg, phase, tomb,
                       delivered, alerts>>
    BY <1>2, Zenon DEF CleanupKey
  <2>2. store' \in [Keys -> BucketIds \cup {NoBucket}]
        /\ \A k \in Keys : store'[k] \in {store[k], NoBucket}
    BY <1>a, <1>b, <2>1, Zenon
  <2> QED BY <1>a, <1>d, <2>1, <2>2, OutputMove
<1>3. CASE PostOverflowFails(o)
  <2>1. output' = OutputTo(o, "exited") /\ tomb' = "dying"
        /\ UNCHANGED <<fate, store, born, bucket, pourer, allOut, wg, phase,
                       delivered, alerts>>
    BY <1>3 DEF PostOverflowFails
  <2> QED BY <1>a, <1>d, <2>1, OutputMove
<1>4. CASE Whitelisted(o)
  <2>1. output' = OutputTo(o, "select")
        /\ UNCHANGED <<fate, store, born, bucket, pourer, allOut, wg, phase,
                       tomb, delivered, alerts>>
    BY <1>4 DEF Whitelisted
  <2> QED BY <1>a, <1>d, <2>1, OutputMove
<1>5. CASE Passed(o)
  <2>1. r.pc = "parse"
        /\ UNCHANGED <<store, born, bucket, pourer, allOut, wg, phase, tomb,
                       delivered>>
    BY <1>5 DEF Passed
  <2>2. CASE F(r.bucket).reprocess
    <3> DEFINE new == [r EXCEPT !.pc = "reprocess"]
    <3>1. output' = [output EXCEPT ![o] = new] /\ alerts' = alerts
          /\ fate' = [fate EXCEPT ![r.bucket] = "offered"]
      BY <1>5, <2>2 DEF Passed, OutputTo, TypeInv, TypeOK
    <3>2. new \in OutputRec /\ new.pc = "reprocess" /\ new.bucket = r.bucket
      BY <1>0 DEF OutputRec, OutputPCs
    <3> HIDE DEF new
    <3>3. OverflowHolders # << >>
      BY <1>b, <2>1, <2>2, FactoryAssumption DEF F
    <3>4. output' \in [Outputs -> OutputRec] /\ OutputInv'
      BY <1>a, <1>b, <2>1, <3>1, <3>2, <3>3, OutputState, Zenon
    <3>5. fate' \in [Msgs -> Fates]
      BY <1>b, <1>e, <1>f, <2>1, <3>1, Zenon DEF Fates
    <3> QED BY <1>a, <2>1, <3>1, <3>4, <3>5, OutputMove
  <2>3. CASE ~F(r.bucket).reprocess
    <3>1. output' = OutputTo(o, "select") /\ AddAlert(o) /\ fate' = fate
      BY <1>5, <2>3, Zenon DEF Passed
    <3>2. alerts' \in [BucketIds -> Nat]
      BY <1>b, <2>1, <3>1, AddAlertType
    <3> QED BY <1>a, <1>d, <2>1, <3>1, <3>2, OutputMove, Zenon
  <2> QED BY <2>2, <2>3
<1>6. CASE SkipReprocess(o) \/ DrainReprocess(o)
  <2>1. /\ r.pc = "reprocess" /\ output' = OutputTo(o, "select")
        /\ fate' = [fate EXCEPT ![r.bucket] = "drained"] /\ AddAlert(o)
        /\ UNCHANGED <<store, born, bucket, pourer, allOut, wg, phase, tomb,
                       delivered>>
    BY <1>6 DEF SkipReprocess, DrainReprocess
  <2>2. alerts' \in [BucketIds -> Nat]
    BY <1>b, <2>1, AddAlertType, Zenon
  <2>3. fate' \in [Msgs -> Fates]
    BY <1>b, <1>e, <1>f, <2>1, Zenon DEF Fates
  <2> QED BY <1>a, <1>d, <2>1, <2>2, <2>3, OutputMove
<1>7. CASE OutputExit(o)
  <2>1. output' = OutputTo(o, "exited")
        /\ UNCHANGED <<fate, store, born, bucket, pourer, allOut, wg, phase,
                       tomb, delivered, alerts>>
    BY <1>7 DEF OutputExit
  <2> QED BY <1>a, <1>d, <2>1, OutputMove
<1>8. ASSUME NEW p \in Pourers, Reprocess(o, p)
      PROVE  TypeInv'
  <2>1. /\ r.pc = "reprocess" /\ pourer[p].pc = "idle" /\ Take(p, r.bucket)
        /\ output' = OutputTo(o, "select") /\ AddAlert(o)
        /\ UNCHANGED <<store, born, bucket, allOut, wg, phase, tomb,
                       delivered>>
    BY <1>8, Zenon DEF Reprocess
  <2>2. r.bucket \in Msgs /\ HoldersOf(r.bucket) # << >>
    <3>1. r.bucket \in BucketIds /\ OverflowHolders # << >>
      BY <1>b, <1>c, <2>1
    <3> QED BY <1>f, <3>1, ConstantsAssumption DEF HoldersOf
  <2>3. alerts' \in [BucketIds -> Nat]
    BY <1>b, <2>1, AddAlertType
  <2>4. output' \in [Outputs -> OutputRec] /\ OutputInv'
    BY <1>d, <2>1, Zenon
  <2> QED BY <2>1, <2>2, <2>3, <2>4, TakeType
<1> QED BY <1>1, <1>2, <1>3, <1>4, <1>5, <1>6, <1>7, <1>8 DEF OutputStep

\* The shutdown sequence keeps TypeInv.
LEMMA ShutdownStepType ==
  ASSUME TypeInv, ShutdownStep
  PROVE  TypeInv'
<1>1. CASE \E o \in Outputs : DrainReprocess(o)
  BY <1>1, OutputStepType
<1>2. CASE StartShutdown \/ KillOutputs \/ Cancel \/ DrainEvent
  <2>1. UNCHANGED <<store, born, bucket, pourer, output, allOut, wg,
                    delivered, alerts>>
    BY <1>2 DEF StartShutdown, KillOutputs, Cancel, DrainEvent
  <2>2. phase' \in Phases /\ tomb' \in {"alive", "dying"}
    BY <1>2 DEF StartShutdown, KillOutputs, Cancel, DrainEvent, Phases,
                TypeInv, TypeOK
  <2>3. fate' \in [Msgs -> Fates]
    BY <1>2, Zenon DEF StartShutdown, KillOutputs, Cancel, DrainEvent, Fates, Msgs,
                TypeInv, TypeOK
  <2>4. OutputInv'
    BY <2>1 DEF TypeInv, OutputInv
  <2> QED BY <2>1, <2>2, <2>3, <2>4, OutputMove DEF TypeInv, TypeOK
<1> QED BY <1>1, <1>2 DEF ShutdownStep

\* Every step of the engine keeps TypeInv.
LEMMA TypeNext == TypeInv /\ [Next]_vars => TypeInv'
<1> SUFFICES ASSUME TypeInv, [Next]_vars PROVE TypeInv'
  OBVIOUS
<1>1. CASE UNCHANGED vars
  <2>1. OutputInv'
    BY <1>1, Zenon DEF vars, TypeInv, OutputInv
  <2> QED BY <1>1, <2>1, OutputMove DEF vars, TypeInv, TypeOK
<1>2. CASE \E p \in Pourers : PourStep(p)
  BY <1>2, PourStepType
<1>3. CASE \E b \in BucketIds : BucketStep(b) \/ Leak(b)
  BY <1>3, BucketStepType
<1>4. CASE \E o \in Outputs : OutputStep(o)
  BY <1>4, OutputStepType
<1>5. CASE ShutdownStep
  BY <1>5, ShutdownStepType
<1> QED BY <1>1, <1>2, <1>3, <1>4, <1>5 DEF Next, Idle

\* TypeInv is inductive.
LEMMA TypeInvariant == Spec => []TypeInv
BY TypeInit, TypeNext, PTL DEF Spec

\* The live engine keeps its channels within their capacity and its wait
\* groups from going negative, for any number of routines, keys and events.
THEOREM TypeCorrect == Spec => []TypeOK
<1>1. TypeInv => TypeOK
  BY DEF TypeInv
<1> QED BY <1>1, TypeInvariant, PTL

\* With -order-event (manager_run.go) a holder is left only when the bucket
\* has processed the message: OrderedPour holds for any constants.
THEOREM OrderedPourHolds == Spec => []OrderedPour
<1>1. TypeInv => OrderedPour
  <2> SUFFICES ASSUME TypeInv, OrderEvent PROVE OrderedPour
    BY DEF OrderedPour
  <2>1. ASSUME NEW b \in BucketIds, bucket[b].pc = "got"
        PROVE  \E p \in Pourers : /\ pourer[p].pc = "await"
                                  /\ pourer[p].bucket = b
                                  /\ pourer[p].msg = bucket[b].msg
    BY <2>1 DEF TypeInv, OrderInv, NoneGot
  <2>2. ASSUME NEW k \in Keys PROVE wg[k] <= 1
    <3>1. PICK p \in Pourers : TRUE
      BY ConstantsAssumption
    <3> QED BY <3>1 DEF TypeInv, OrderInv, WgIs, WgFree
  <2> QED BY <2>1, <2>2 DEF OrderedPour
<1> QED BY <1>1, TypeInvariant, PTL
=============================================================================
