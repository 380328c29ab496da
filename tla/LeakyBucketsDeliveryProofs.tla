--------------------- MODULE LeakyBucketsDeliveryProofs ---------------------
(***************************************************************************)
(* Proof that every message is delivered once, from the invariants of      *)
(* LeakyBucketsProofs and LeakyBucketsLifeProofs.                          *)
(***************************************************************************)
EXTENDS LeakyBucketsLifeProofs

-----------------------------------------------------------------------------
(* Every message is delivered once.                                        *)

\* A bucket's event is emitted once, by its death, and is in one place; the
\* overflow it may be reprocessed as is not offered before.
EmitInv ==
  /\ \A b \in BucketIds : bucket[b].pc # "dead" => fate[b] = "none"
  /\ \A i \in 1 .. Len(allOut) :
       /\ bucket[allOut[i]].pc = "dead" /\ fate[allOut[i]] = "none"
       /\ \A o \in Outputs : Working(o) => output[o].bucket # allOut[i]
  /\ \A o \in Outputs : Working(o) =>
       /\ bucket[output[o].bucket].pc = "dead"
       /\ output[o].pc = "reprocess" => fate[output[o].bucket] = "offered"
       /\ output[o].pc # "reprocess" => fate[output[o].bucket] = "none"
  /\ \A o, q \in Outputs :
       Working(o) /\ Working(q) /\ output[o].bucket = output[q].bucket => o = q

\* Whether holder i of its message is behind the pourer in state r.
Behind(r, i) == i < r.idx \/ (i = r.idx /\ r.pc = "await")

\* A pourer in state r, its message delivered as d says: the holders behind it
\* received the message, the others did not.
ServedAs(r, d) ==
  \A i \in 1 .. Len(HoldersOf(r.msg)) :
    /\ Behind(r, i) => d[HoldersOf(r.msg)[i]] = 1
    /\ ~Behind(r, i) => d[HoldersOf(r.msg)[i]] = 0

\* A message is with one pourer, and the holders behind that pourer are
\* exactly those that received it.
HeldInv ==
  /\ \A p \in Pourers : Active(p) => fate[pourer[p].msg] = "held"
  /\ \A p, q \in Pourers :
       Active(p) /\ Active(q) /\ pourer[p].msg = pourer[q].msg => p = q
  /\ \A p \in Pourers :
       Active(p) => ServedAs(pourer[p], delivered[pourer[p].msg])

DeliveryInv == EmitInv /\ HeldInv /\ DeliveredOnce
DeadStays == \A b \in BucketIds : bucket[b].pc = "dead" => bucket'[b].pc = "dead"

\* A pourer in a message: what the type invariants say of it.
LEMMA ActiveFacts ==
  ASSUME TypeInv, NEW p \in Pourers, Active(p)
  PROVE  /\ pourer[p].msg \in Msgs /\ HoldersOf(pourer[p].msg) \in Seq(Keys)
         /\ pourer[p].idx \in 1 .. Len(HoldersOf(pourer[p].msg))
         /\ Injective(HoldersOf(pourer[p].msg)) /\ KeyOf(p) \in Keys
BY HoldersType, KeyOfType, ConstantsAssumption
   DEF TypeInv, PourerInv, HoldersOf, Msgs

\* EmitInv survives a step away from the channel and the outputs, which
\* moves only the fate of a message that a pourer holds, or of an event.
LEMMA EmitElsewhere ==
  ASSUME TypeInv, EmitInv, DeadStays, UNCHANGED <<allOut, output>>,
         \A b \in BucketIds : fate'[b] = fate[b] \/ fate[b] = "held"
  PROVE  EmitInv'
<1> USE DEF Working, DeadStays
<1>1. 1 .. born \subseteq BucketIds
  BY BornIds DEF TypeInv
<1>2. /\ \A i \in 1 .. Len(allOut) : allOut[i] \in BucketIds
      /\ \A o \in Outputs : Working(o) => output[o].bucket \in BucketIds
  BY <1>1 DEF TypeInv, OutputInv
<1>3. \A b \in BucketIds : bucket'[b].pc # "dead" => fate'[b] = "none"
  BY DEF EmitInv
<1>4. \A i \in 1 .. Len(allOut') :
       /\ bucket'[allOut'[i]].pc = "dead" /\ fate'[allOut'[i]] = "none"
       /\ \A o \in Outputs : Working(o)' => output'[o].bucket # allOut'[i]
  BY <1>2 DEF EmitInv
<1>5. \A o \in Outputs : Working(o)' =>
       /\ bucket'[output'[o].bucket].pc = "dead"
       /\ output'[o].pc = "reprocess" => fate'[output'[o].bucket] = "offered"
       /\ output'[o].pc # "reprocess" => fate'[output'[o].bucket] = "none"
  BY <1>2 DEF EmitInv
<1>6. \A o, q \in Outputs :
       Working(o)' /\ Working(q)' /\ output'[o].bucket = output'[q].bucket
         => o = q
  BY DEF EmitInv
<1> QED BY <1>3, <1>4, <1>5, <1>6 DEF EmitInv

\* EmitInv survives an output o that finishes with its event, whatever fate
\* it gives to it.
LEMMA EmitFinished ==
  ASSUME TypeInv, EmitInv, NEW o \in Outputs, bucket' = bucket,
         allOut' = allOut, output' \in [Outputs -> OutputRec],
         \A q \in Outputs : q # o => output'[q] = output[q],
         output'[o].pc \in {"select", "exited"},
         \A b \in BucketIds :
           fate'[b] = fate[b] \/ (Working(o) /\ b = output[o].bucket)
  PROVE  EmitInv'
<1> USE DEF Working
<1>1. 1 .. born \subseteq BucketIds
  BY BornIds DEF TypeInv
<1>2. /\ \A i \in 1 .. Len(allOut) : allOut[i] \in BucketIds
      /\ \A q \in Outputs : Working(q) => output[q].bucket \in BucketIds
  BY <1>1 DEF TypeInv, OutputInv
<1>3. \A b \in BucketIds : bucket'[b].pc # "dead" => fate'[b] = "none"
  BY DEF EmitInv
<1>4. \A i \in 1 .. Len(allOut') :
       /\ bucket'[allOut'[i]].pc = "dead" /\ fate'[allOut'[i]] = "none"
       /\ \A q \in Outputs : Working(q)' => output'[q].bucket # allOut'[i]
  BY <1>2 DEF EmitInv
<1>5. \A q \in Outputs : Working(q)' =>
       /\ bucket'[output'[q].bucket].pc = "dead"
       /\ output'[q].pc = "reprocess" => fate'[output'[q].bucket] = "offered"
       /\ output'[q].pc # "reprocess" => fate'[output'[q].bucket] = "none"
  BY <1>2 DEF EmitInv
<1>6. \A n, q \in Outputs :
       Working(n)' /\ Working(q)' /\ output'[n].bucket = output'[q].bucket
         => n = q
  BY DEF EmitInv
<1> QED BY <1>3, <1>4, <1>5, <1>6 DEF EmitInv

\* The pourers' part survives a step that does not move a message.
LEMMA HeldStutter ==
  ASSUME TypeInv, HeldInv, DeliveredOnce, UNCHANGED <<fate, delivered>>,
         \A p \in Pourers :
           /\ Active(p)' <=> Active(p)
           /\ Active(p) => /\ pourer'[p].msg = pourer[p].msg
                           /\ pourer'[p].idx = pourer[p].idx
                           /\ pourer'[p].pc = "await" <=> pourer[p].pc = "await"
  PROVE  HeldInv' /\ DeliveredOnce'
<1>1. DeliveredOnce'
  BY DEF DeliveredOnce
<1>2. \A p \in Pourers : Active(p)' => fate'[pourer'[p].msg] = "held"
  BY DEF HeldInv
<1>3. \A p, q \in Pourers :
       Active(p)' /\ Active(q)' /\ pourer'[p].msg = pourer'[q].msg => p = q
  BY DEF HeldInv
<1>4. ASSUME NEW p \in Pourers, Active(p)'
      PROVE  ServedAs(pourer'[p], delivered'[pourer'[p].msg])
  <2>1. /\ Active(p) /\ pourer'[p].msg = pourer[p].msg
        /\ pourer'[p].idx = pourer[p].idx
        /\ pourer'[p].pc = "await" <=> pourer[p].pc = "await"
    BY <1>4
  <2>2. ServedAs(pourer[p], delivered[pourer[p].msg])
    BY <2>1 DEF HeldInv
  <2>3. \A i \in 1 .. Len(HoldersOf(pourer[p].msg)) :
          Behind(pourer'[p], i) <=> Behind(pourer[p], i)
    BY <2>1 DEF Behind
  <2> QED BY <2>1, <2>2, <2>3 DEF ServedAs
<1> QED BY <1>1, <1>2, <1>3, <1>4 DEF HeldInv

\* It survives the fate a message nobody holds meets in a drain, or when an
\* overflow is offered to the pour routines.
LEMMA HeldFate ==
  ASSUME TypeInv, HeldInv, DeliveredOnce, UNCHANGED <<pourer, delivered>>,
         NEW m \in Msgs, fate[m] \in {"none", "offered"},
         NEW f \in {"offered", "drained"}, fate' = [fate EXCEPT ![m] = f]
  PROVE  HeldInv' /\ DeliveredOnce'
<1>1. fate'[m] = f /\ \A n \in Msgs : n # m => fate'[n] = fate[n]
  BY DEF TypeInv, TypeOK
<1>2. \A p \in Pourers : Active(p) => pourer[p].msg \in Msgs
  BY DEF TypeInv, PourerInv
<1>3. HeldInv'
  BY <1>1, <1>2 DEF HeldInv, Active
<1>4. DeliveredOnce'
  BY <1>1 DEF DeliveredOnce
<1> QED BY <1>3, <1>4

\* It survives a pourer taking an offered message.
LEMMA HeldTake ==
  ASSUME TypeInv, HeldInv, DeliveredOnce, NEW p \in Pourers, NEW m \in Msgs,
         ~Active(p), fate[m] = "offered", Take(p, m), delivered' = delivered
  PROVE  HeldInv' /\ DeliveredOnce'
<1> DEFINE new == [IdlePourer EXCEPT !.pc = "load", !.msg = m]
<1>1. new.pc = "load" /\ new.msg = m /\ new.idx = 1
  BY DEF IdlePourer
<1>2. pourer' = [pourer EXCEPT ![p] = new] /\ fate' = [fate EXCEPT ![m] = "held"]
  BY DEF Take
<1> HIDE DEF new
<1>3. pourer'[p] = new /\ \A q \in Pourers : q # p => pourer'[q] = pourer[q]
  BY <1>2 DEF TypeInv, TypeOK
<1>4. fate'[m] = "held" /\ \A n \in Msgs : n # m => fate'[n] = fate[n]
  BY <1>2 DEF TypeInv, TypeOK
<1>5. \A q \in Pourers : Active(q) => pourer[q].msg \in Msgs /\ pourer[q].msg # m
  BY DEF TypeInv, PourerInv, HeldInv
<1>6. \A q \in Pourers : Active(q)' => q = p \/ (Active(q) /\ q # p)
  BY <1>3 DEF Active
<1>7. DeliveredOnce'
  BY <1>4 DEF DeliveredOnce
<1>8. \A q \in Pourers : Active(q)' => fate'[pourer'[q].msg] = "held"
  BY <1>1, <1>3, <1>4, <1>5, <1>6 DEF HeldInv
<1>9. \A q, n \in Pourers :
       Active(q)' /\ Active(n)' /\ pourer'[q].msg = pourer'[n].msg => q = n
  BY <1>1, <1>3, <1>5, <1>6 DEF HeldInv
<1>10. ASSUME NEW q \in Pourers, Active(q)'
       PROVE  ServedAs(pourer'[q], delivered'[pourer'[q].msg])
  <2>1. CASE q = p
    <3>1. \A i \in 1 .. Len(HoldersOf(m)) : ~Behind(new, i)
      BY <1>1 DEF Behind
    <3>2. \A i \in 1 .. Len(HoldersOf(m)) : HoldersOf(m)[i] \in Keys
      BY HoldersType
    <3>3. \A i \in 1 .. Len(HoldersOf(m)) : delivered[m][HoldersOf(m)[i]] = 0
      BY <3>2 DEF DeliveredOnce
    <3>4. ServedAs(new, delivered[m])
      BY <1>1, <3>1, <3>3 DEF ServedAs
    <3> QED BY <1>1, <1>3, <2>1, <3>4
  <2>2. CASE q # p
    <3>1. Active(q) /\ pourer'[q] = pourer[q]
      BY <1>3, <1>6, <1>10, <2>2
    <3>2. ServedAs(pourer[q], delivered[pourer[q].msg])
      BY <3>1 DEF HeldInv
    <3> QED BY <3>1, <3>2
  <2> QED BY <2>1, <2>2
<1> QED BY <1>7, <1>8, <1>9, <1>10 DEF HeldInv
\* What delivered says once the holder at hand has the message.
HolderServed(p) ==
  LET m == pourer[p].msg IN
  /\ \A n \in Msgs : n # m => delivered'[n] = delivered[n]
  /\ \A k \in Keys : delivered'[m][k] <= 1
  /\ \A i \in 1 .. Len(HoldersOf(m)) :
       /\ i <= pourer[p].idx => delivered'[m][HoldersOf(m)[i]] = 1
       /\ i > pourer[p].idx => delivered'[m][HoldersOf(m)[i]] = 0

\* PourItem serves the holder at hand.
LEMMA PourServes ==
  ASSUME TypeInv, HeldInv, DeliveredOnce, NEW p \in Pourers, PourItem(p)
  PROVE  HolderServed(p)
<1> DEFINE m == pourer[p].msg
           x == pourer[p].idx
           h == HoldersOf(m)
           k == KeyOf(p)
<1>1. pourer[p].pc = "pour" /\ Active(p)
      /\ delivered' = [delivered EXCEPT ![m][k] = @ + 1]
  BY DEF PourItem, Active
<1>2. m \in Msgs /\ h \in Seq(Keys) /\ x \in 1 .. Len(h) /\ Injective(h)
      /\ k \in Keys /\ k = h[x]
  BY <1>1, ActiveFacts DEF KeyOf
<1>3. \A i \in 1 .. Len(h) :
        (i < x => delivered[m][h[i]] = 1) /\ (i >= x => delivered[m][h[i]] = 0)
  <2>1. \A i \in 1 .. Len(h) :
          /\ Behind(pourer[p], i) => delivered[m][h[i]] = 1
          /\ ~Behind(pourer[p], i) => delivered[m][h[i]] = 0
    BY <1>1 DEF HeldInv, ServedAs
  <2>2. x \in Nat /\ Len(h) \in Nat
    BY <1>2
  <2>3. \A i \in 1 .. Len(h) : Behind(pourer[p], i) <=> i < x
    BY <1>1 DEF Behind
  <2> HIDE DEF m, h, x
  <2> QED BY <2>1, <2>2, <2>3
<1>4. \A j \in Keys : delivered[m][j] <= 1 /\ delivered[m][j] \in Nat
  BY <1>2 DEF DeliveredOnce, TypeInv, TypeOK
<1>5. /\ \A n \in Msgs : n # m => delivered'[n] = delivered[n]
      /\ delivered'[m][k] = delivered[m][k] + 1
      /\ \A j \in Keys : j # k => delivered'[m][j] = delivered[m][j]
  BY <1>1, <1>2 DEF TypeInv, TypeOK
<1> HIDE DEF m, x, h, k
<1>6. delivered'[m][k] = 1
  BY <1>2, <1>3, <1>5
<1>7. \A i \in 1 .. Len(h) : h[i] \in Keys /\ (h[i] = k <=> i = x)
  BY <1>2 DEF Injective
<1>8. \A j \in Keys : delivered'[m][j] <= 1
  BY <1>4, <1>5, <1>6
<1>9. ASSUME NEW i \in 1 .. Len(h)
      PROVE  /\ i <= x => delivered'[m][h[i]] = 1
             /\ i > x => delivered'[m][h[i]] = 0
  <2>1. CASE i = x
    BY <1>2, <1>6, <2>1
  <2>2. CASE i # x
    <3>1. delivered'[m][h[i]] = delivered[m][h[i]]
      BY <1>5, <1>7, <2>2
    <3> QED BY <1>2, <1>3, <2>2, <3>1
  <2> QED BY <2>1, <2>2
<1> QED BY <1>5, <1>8, <1>9 DEF HolderServed, m, x, h

\* The pourers' part survives NextHolder after a served holder.
LEMMA HeldNext ==
  ASSUME TypeInv, HeldInv, DeliveredOnce, NEW p \in Pourers, Active(p),
         HolderServed(p), NextHolder(p)
  PROVE  HeldInv' /\ DeliveredOnce'
<1> DEFINE m == pourer[p].msg
           x == pourer[p].idx
           h == HoldersOf(m)
<1>1. m \in Msgs /\ h \in Seq(Keys) /\ x \in 1 .. Len(h) /\ Len(h) \in Nat
  BY ActiveFacts
<1>2. \A i \in 1 .. Len(h) : h[i] \in Keys
  BY <1>1
<1>3. /\ \A n \in Msgs : n # m => delivered'[n] = delivered[n]
      /\ \A k \in Keys : delivered'[m][k] <= 1
      /\ \A i \in 1 .. Len(h) : /\ i <= x => delivered'[m][h[i]] = 1
                                /\ i > x => delivered'[m][h[i]] = 0
  BY DEF HolderServed
<1>4. \A n \in Msgs, k \in Keys : delivered'[n][k] <= 1
  BY <1>3 DEF DeliveredOnce
<1>5. \A q \in Pourers : q # p => pourer'[q] = pourer[q]
  BY DEF NextHolder, TypeInv, TypeOK
<1>6. \A q \in Pourers : q # p /\ Active(q) =>
        pourer[q].msg # m /\ pourer[q].msg \in Msgs
  BY DEF HeldInv, TypeInv, PourerInv
<1>7. \A n \in Msgs : n # m => fate'[n] = fate[n]
  BY DEF NextHolder, TypeInv, TypeOK
<1>8. ASSUME NEW q \in Pourers, q # p, Active(q)'
      PROVE  /\ Active(q) /\ pourer'[q] = pourer[q]
             /\ fate'[pourer'[q].msg] = "held"
             /\ ServedAs(pourer'[q], delivered'[pourer'[q].msg])
  <2>1. Active(q) /\ pourer'[q] = pourer[q]
    BY <1>5, <1>8 DEF Active
  <2>2. fate'[pourer[q].msg] = "held"
    BY <1>6, <1>7, <1>8, <2>1 DEF HeldInv
  <2>3. delivered'[pourer[q].msg] = delivered[pourer[q].msg]
    BY <1>3, <1>6, <1>8, <2>1
  <2>4. ServedAs(pourer[q], delivered[pourer[q].msg])
    BY <2>1 DEF HeldInv
  <2> QED BY <2>1, <2>2, <2>3, <2>4
<1>9. CASE x < Len(h)
  <2> DEFINE new == [IdlePourer EXCEPT !.pc = "load", !.msg = m, !.idx = x + 1]
  <2>1. new.pc = "load" /\ new.msg = m /\ new.idx = x + 1
    BY DEF IdlePourer
  <2>2. pourer' = [pourer EXCEPT ![p] = new] /\ fate' = fate
    BY <1>9 DEF NextHolder
  <2> HIDE DEF new
  <2>3. pourer'[p] = new
    BY <2>2 DEF TypeInv, TypeOK
  <2>4. fate[m] = "held"
    BY DEF HeldInv
  <2>5. DeliveredOnce'
    <3>1. ASSUME NEW n \in Msgs, fate[n] # "held", NEW k \in Keys
          PROVE  delivered'[n][k] = delivered[n][k]
      BY <1>3, <2>4, <3>1
    <3>2. \A n \in Msgs : fate[n] = "poured" =>
            \A i \in 1 .. Len(HoldersOf(n)) : HoldersOf(n)[i] \in Keys
      BY HoldersType
    <3> QED BY <1>4, <2>2, <3>1, <3>2 DEF DeliveredOnce
  <2>6. \A i \in 1 .. Len(h) : Behind(new, i) <=> i <= x
    BY <1>1, <2>1 DEF Behind
  <2> HIDE DEF m, x, h
  <2>7. /\ pourer'[p].msg = m /\ fate'[pourer'[p].msg] = "held"
        /\ ServedAs(pourer'[p], delivered'[pourer'[p].msg])
    <3>1. \A i \in 1 .. Len(h) :
            /\ Behind(new, i) => delivered'[m][h[i]] = 1
            /\ ~Behind(new, i) => delivered'[m][h[i]] = 0
      BY <1>1, <1>3, <2>6
    <3>2. pourer'[p].msg = m /\ fate'[m] = "held"
      BY <2>1, <2>2, <2>3, <2>4
    <3>3. ServedAs(new, delivered'[m])
      BY <2>1, <3>1 DEF ServedAs, h
    <3> QED BY <2>3, <3>2, <3>3
  <2>8. \A q, n \in Pourers :
          Active(q)' /\ Active(n)' /\ pourer'[q].msg = pourer'[n].msg => q = n
    BY <1>6, <1>8, <2>7 DEF HeldInv
  <2>9. HeldInv'
    BY <1>8, <2>7, <2>8 DEF HeldInv
  <2> QED BY <2>5, <2>9
<1>10. CASE ~(x < Len(h))
  <2>1. pourer' = [pourer EXCEPT ![p] = IdlePourer]
        /\ fate' = [fate EXCEPT ![m] = "poured"]
    BY <1>10 DEF NextHolder
  <2>2. x = Len(h)
    BY <1>1, <1>10
  <2>3. fate'[m] = "poured" /\ ~Active(p)'
    BY <1>1, <2>1 DEF TypeInv, TypeOK, Active, IdlePourer
  <2>4. \A i \in 1 .. Len(h) : delivered'[m][h[i]] = 1
    <3> HIDE DEF m, x, h
    <3>1. \A i \in 1 .. Len(h) : i <= x
      BY <1>1, <2>2
    <3> QED BY <1>3, <3>1
  <2>5. DeliveredOnce'
    <3> HIDE DEF m, x
    <3>1. ASSUME NEW n \in Msgs, fate'[n] = "poured",
                 NEW i \in 1 .. Len(HoldersOf(n))
          PROVE  delivered'[n][HoldersOf(n)[i]] = 1
      <4>1. CASE n = m
        BY <2>4, <3>1, <4>1
      <4>2. CASE n # m
        BY <1>3, <1>7, <3>1, <4>2 DEF DeliveredOnce
      <4> QED BY <4>1, <4>2
    <3>2. \A n \in Msgs, k \in Keys :
            fate'[n] \in {"none", "offered", "drained"} => delivered'[n][k] = 0
      BY <1>3, <1>7, <2>3 DEF DeliveredOnce
    <3> QED BY <1>4, <3>1, <3>2 DEF DeliveredOnce
  <2>6. \A q, n \in Pourers :
          Active(q)' /\ Active(n)' /\ pourer'[q].msg = pourer'[n].msg => q = n
    BY <1>8, <2>3 DEF HeldInv
  <2>7. HeldInv'
    BY <1>8, <2>3, <2>6 DEF HeldInv
  <2> QED BY <2>5, <2>7
<1> QED BY <1>9, <1>10

\* The pourers' part survives a pour into an ordered bucket, after which the
\* pourer waits.
LEMMA HeldAwait ==
  ASSUME TypeInv, HeldInv, DeliveredOnce, NEW p \in Pourers, Active(p),
         HolderServed(p), fate' = fate,
         pourer' = [pourer EXCEPT ![p].pc = "await"]
  PROVE  HeldInv' /\ DeliveredOnce'
<1> DEFINE m == pourer[p].msg
           x == pourer[p].idx
           h == HoldersOf(m)
           r == pourer[p]
           new == [r EXCEPT !.pc = "await"]
<1>1. m \in Msgs /\ h \in Seq(Keys) /\ x \in 1 .. Len(h) /\ Len(h) \in Nat
  BY ActiveFacts
<1>2. pourer' = [pourer EXCEPT ![p] = new] /\ r \in PourerRec
  BY DEF TypeInv, TypeOK
<1>3. new.pc = "await" /\ new.msg = m /\ new.idx = x
  BY <1>2 DEF PourerRec
<1> HIDE DEF new
<1>4. pourer'[p] = new /\ \A q \in Pourers : q # p => pourer'[q] = pourer[q]
  BY <1>2 DEF TypeInv, TypeOK
<1>5. /\ \A n \in Msgs : n # m => delivered'[n] = delivered[n]
      /\ \A k \in Keys : delivered'[m][k] <= 1
      /\ \A i \in 1 .. Len(h) : /\ i <= x => delivered'[m][h[i]] = 1
                                /\ i > x => delivered'[m][h[i]] = 0
  BY DEF HolderServed
<1>6. fate[m] = "held"
  BY DEF HeldInv
<1>7. \A q \in Pourers : /\ Active(q)' <=> Active(q)
                         /\ pourer'[q].msg = pourer[q].msg
  BY <1>3, <1>4 DEF Active
<1>8. DeliveredOnce'
  <2> HIDE DEF m, x, h
  <2>1. \A n \in Msgs : fate[n] # "held" => delivered'[n] = delivered[n]
    BY <1>5, <1>6
  <2>2. \A n \in Msgs, k \in Keys : delivered'[n][k] <= 1
    BY <1>5 DEF DeliveredOnce
  <2> QED BY <2>1, <2>2 DEF DeliveredOnce
<1>9. \A q \in Pourers : Active(q)' => fate'[pourer'[q].msg] = "held"
  BY <1>7 DEF HeldInv
<1>10. \A q, n \in Pourers :
         Active(q)' /\ Active(n)' /\ pourer'[q].msg = pourer'[n].msg => q = n
  BY <1>7 DEF HeldInv
<1>11. ASSUME NEW q \in Pourers, Active(q)'
       PROVE  ServedAs(pourer'[q], delivered'[pourer'[q].msg])
  <2>1. CASE q = p
    <3>1. \A i \in 1 .. Len(h) : Behind(new, i) <=> i <= x
      BY <1>1, <1>3 DEF Behind
    <3> HIDE DEF x, h
    <3>2. \A i \in 1 .. Len(h) :
            /\ Behind(new, i) => delivered'[m][h[i]] = 1
            /\ ~Behind(new, i) => delivered'[m][h[i]] = 0
      BY <1>1, <1>5, <3>1
    <3>3. ServedAs(new, delivered'[m])
      BY <1>3, <3>2 DEF ServedAs, h
    <3> QED BY <1>3, <1>4, <2>1, <3>3
  <2>2. CASE q # p
    <3>1. Active(q) /\ pourer'[q] = pourer[q]
      BY <1>4, <1>7, <1>11, <2>2
    <3>2. pourer[q].msg # m /\ pourer[q].msg \in Msgs
      BY <2>2, <3>1 DEF HeldInv, TypeInv, PourerInv
    <3>3. delivered'[pourer[q].msg] = delivered[pourer[q].msg]
      BY <1>5, <3>2
    <3>4. ServedAs(pourer[q], delivered[pourer[q].msg])
      BY <3>1 DEF HeldInv
    <3> QED BY <3>1, <3>3, <3>4
  <2> QED BY <2>1, <2>2
<1> QED BY <1>8, <1>9, <1>10, <1>11 DEF HeldInv

\* The pourers' part survives a holder whose filter fails.
LEMMA HeldFails ==
  ASSUME TypeInv, HeldInv, DeliveredOnce, NEW p \in Pourers, HolderFails(p)
  PROVE  HeldInv' /\ DeliveredOnce'
<1> DEFINE m == pourer[p].msg
<1>1. Active(p) /\ pourer' = [pourer EXCEPT ![p] = IdlePourer]
      /\ fate' = [fate EXCEPT ![m] = "failed"] /\ delivered' = delivered
  BY DEF HolderFails, Active
<1>2. m \in Msgs
  BY <1>1, ActiveFacts
<1>3. fate'[m] = "failed" /\ \A n \in Msgs : n # m => fate'[n] = fate[n]
  BY <1>1, <1>2 DEF TypeInv, TypeOK
<1>4. ~Active(p)' /\ \A q \in Pourers : q # p => pourer'[q] = pourer[q]
  BY <1>1 DEF TypeInv, TypeOK, Active, IdlePourer
<1>5. \A q \in Pourers : Active(q)' =>
        /\ q # p /\ Active(q) /\ pourer'[q] = pourer[q]
        /\ pourer[q].msg \in Msgs /\ pourer[q].msg # m
  BY <1>1, <1>4 DEF Active, HeldInv, TypeInv, PourerInv
<1>6. HeldInv'
  <2>1. \A q \in Pourers : Active(q)' => fate'[pourer'[q].msg] = "held"
    BY <1>3, <1>5 DEF HeldInv
  <2>2. \A q, n \in Pourers :
          Active(q)' /\ Active(n)' /\ pourer'[q].msg = pourer'[n].msg => q = n
    BY <1>5 DEF HeldInv
  <2>3. ASSUME NEW q \in Pourers, Active(q)'
        PROVE  ServedAs(pourer'[q], delivered'[pourer'[q].msg])
    <3>1. pourer'[q] = pourer[q] /\ Active(q) /\ delivered' = delivered
      BY <1>1, <1>5, <2>3
    <3>2. ServedAs(pourer[q], delivered[pourer[q].msg])
      BY <3>1 DEF HeldInv
    <3> QED BY <3>1, <3>2
  <2> QED BY <2>1, <2>2, <2>3 DEF HeldInv
<1>7. DeliveredOnce'
  BY <1>1, <1>3 DEF DeliveredOnce
<1> QED BY <1>6, <1>7

\* Every step of a pourer keeps DeliveryInv.
LEMMA DeliveryPourStep ==
  ASSUME TypeInv, DeliveryInv, DeadStays, NEW p \in Pourers, PourStep(p)
  PROVE  DeliveryInv'
<1> USE DEF DeliveryInv
<1>0. pourer \in [Pourers -> PourerRec] /\ fate \in [Msgs -> Fates]
      /\ pourer[p] \in PourerRec
  BY DEF TypeInv, TypeOK
<1>o. UNCHANGED <<allOut, output>>
  BY DEF PourStep, ReceiveEvent, HolderFails, LoadBucket, LoadOrStore,
         AwaitReady, OrderGate, CleanupBody, DeleteBody, PourItem, OrderWait,
         PourExit
<1>e. \A e \in Events : e \in Msgs /\ e \notin BucketIds
  BY ConstantsAssumption DEF Msgs
<1>n. NextHolder(p) /\ Active(p) =>
        \A b \in BucketIds : fate'[b] = fate[b] \/ fate[b] = "held"
  BY <1>0 DEF NextHolder, HeldInv, Msgs
<1>1. CASE ReceiveEvent(p)
  <2>1. PICK e \in Events : fate[e] = "offered" /\ Take(p, e)
    BY <1>1 DEF ReceiveEvent
  <2>2. ~Active(p) /\ delivered' = delivered
    BY <1>1 DEF ReceiveEvent, Active
  <2>3. HeldInv' /\ DeliveredOnce'
    BY <1>e, <2>1, <2>2, HeldTake
  <2>4. \A b \in BucketIds : fate'[b] = fate[b]
    BY <1>0, <1>e, <2>1 DEF Take, Msgs
  <2> QED BY <1>o, <2>3, <2>4, EmitElsewhere
<1>2. CASE HolderFails(p)
  <2>1. HeldInv' /\ DeliveredOnce'
    BY <1>2, HeldFails
  <2>2. \A b \in BucketIds : fate'[b] = fate[b] \/ fate[b] = "held"
    BY <1>0, <1>2 DEF HolderFails, HeldInv, Active, Msgs
  <2> QED BY <1>o, <2>1, <2>2, EmitElsewhere
<1>3. CASE PourItem(p)
  <2>1. Active(p) /\ HolderServed(p)
    BY <1>3, PourServes, Zenon DEF PourItem, Active
  <2>2. CASE OrderEvent
    <3>1. fate' = fate /\ pourer' = [pourer EXCEPT ![p].pc = "await"]
      BY <1>3, <2>2 DEF PourItem
    <3>2. HeldInv' /\ DeliveredOnce'
      BY <2>1, <3>1, HeldAwait, Zenon
    <3> QED BY <1>o, <3>1, <3>2, EmitElsewhere
  <2>3. CASE ~OrderEvent
    <3>1. NextHolder(p)
      BY <1>3, <2>3 DEF PourItem
    <3>2. HeldInv' /\ DeliveredOnce'
      BY <2>1, <3>1, HeldNext
    <3> QED BY <1>n, <1>o, <2>1, <3>1, <3>2, EmitElsewhere
  <2> QED BY <2>2, <2>3
<1>4. CASE OrderWait(p)
  <2>1. pourer[p].pc = "await" /\ Active(p) /\ NextHolder(p)
        /\ delivered' = delivered
    BY <1>4 DEF OrderWait, Active
  <2>2. pourer[p].msg \in Msgs
        /\ pourer[p].idx \in 1 .. Len(HoldersOf(pourer[p].msg))
        /\ HoldersOf(pourer[p].msg) \in Seq(Keys)
    BY <2>1, ActiveFacts
  <2>3. \A i \in 1 .. Len(HoldersOf(pourer[p].msg)) :
          Behind(pourer[p], i) <=> i <= pourer[p].idx
    BY <2>1, <2>2 DEF Behind
  <2>4. HolderServed(p)
    <3>1. \A k \in Keys : delivered[pourer[p].msg][k] <= 1
      BY <2>2 DEF DeliveredOnce
    <3>2. \A i \in 1 .. Len(HoldersOf(pourer[p].msg)) :
            i > pourer[p].idx => ~(i <= pourer[p].idx)
      BY <2>2
    <3> QED BY <2>1, <2>3, <3>1, <3>2 DEF HolderServed, HeldInv, ServedAs
  <2>5. HeldInv' /\ DeliveredOnce'
    BY <2>1, <2>4, HeldNext
  <2> QED BY <1>n, <1>o, <2>1, <2>5, EmitElsewhere
<1>5. CASE LoadBucket(p) \/ LoadOrStore(p) \/ AwaitReady(p) \/ OrderGate(p)
           \/ CleanupBody(p) \/ DeleteBody(p) \/ PourExit(p)
  <2>1. UNCHANGED <<fate, delivered>>
    BY <1>5 DEF LoadBucket, LoadOrStore, AwaitReady, OrderGate, CleanupBody,
                DeleteBody, PourExit
  <2>2. \A q \in Pourers : q # p => pourer'[q] = pourer[q]
    BY <1>0, <1>5 DEF LoadBucket, LoadOrStore, AwaitReady, OrderGate,
                      CleanupBody, DeleteBody, PourExit, Loaded
  <2>3. CASE PourExit(p)
    <3>1. ~Active(p) /\ ~Active(p)'
      BY <1>0, <2>3 DEF PourExit, Active, PourerRec
    <3>2. \A q \in Pourers :
            /\ Active(q)' <=> Active(q)
            /\ Active(q) => pourer'[q] = pourer[q]
      BY <2>2, <3>1 DEF Active
    <3>3. HeldInv' /\ DeliveredOnce'
      BY <2>1, <3>2, HeldStutter
    <3> QED BY <1>o, <2>1, <3>3, EmitElsewhere
  <2>4. CASE ~PourExit(p)
    <3>1. pourer[p].pc \in {"load", "store", "ready", "gate", "pour", "delete"}
      BY <1>5, <2>4 DEF LoadBucket, LoadOrStore, AwaitReady, OrderGate,
                        CleanupBody, DeleteBody
    <3>2. pourer'[p].pc \in {"load", "store", "ready", "gate", "pour", "delete"}
      BY <1>0, <1>5, <2>4 DEF LoadBucket, LoadOrStore, AwaitReady, OrderGate,
                              CleanupBody, DeleteBody, Loaded, PourerRec
    <3>3. pourer'[p].msg = pourer[p].msg /\ pourer'[p].idx = pourer[p].idx
      BY <1>0, <1>5, <2>4 DEF LoadBucket, LoadOrStore, AwaitReady, OrderGate,
                              CleanupBody, DeleteBody, Loaded, PourerRec
    <3>4. \A q \in Pourers :
            /\ Active(q)' <=> Active(q)
            /\ Active(q) => /\ pourer'[q].msg = pourer[q].msg
                            /\ pourer'[q].idx = pourer[q].idx
                            /\ pourer'[q].pc = "await" <=> pourer[q].pc = "await"
      BY <2>2, <3>1, <3>2, <3>3 DEF Active
    <3>5. HeldInv' /\ DeliveredOnce'
      BY <2>1, <3>4, HeldStutter
    <3> QED BY <1>o, <2>1, <3>5, EmitElsewhere
  <2> QED BY <2>3, <2>4
<1> QED BY <1>1, <1>2, <1>3, <1>4, <1>5 DEF PourStep

\* Every step of a leak routine, and of its limiter, keeps DeliveryInv.
LEMMA DeliveryBucketStep ==
  ASSUME TypeInv, DeliveryInv, DeadStays, NEW b \in BucketIds,
         BucketStep(b) \/ Leak(b)
  PROVE  DeliveryInv'
<1> USE DEF DeliveryInv
<1>1. UNCHANGED <<fate, pourer, output, delivered>>
  BY Zenon DEF BucketStep, Leak, Ready, BucketInit, PourTrigger, PourDuplicate,
         PourCancel, PourLimited, Overflow, Suicide, TickerFires,
         ExternallyKilled, Emit, NotBucket
<1>2. HeldInv' /\ DeliveredOnce'
  BY <1>1, HeldStutter DEF Active
<1>3. CASE Emit(b)
  <2>1. bucket[b].pc = "emit" /\ Len(allOut) < 1 /\ allOut' = Append(allOut, b)
        /\ bucket' = [bucket EXCEPT ![b].pc = "dead", ![b].done = TRUE]
    BY <1>3 DEF Emit
  <2>2. bucket'[b].pc = "dead"
    BY <2>1 DEF TypeInv, TypeOK, BucketRec
  <2>3. \A i \in 1 .. Len(allOut') : allOut'[i] = b
    <3>1. allOut \in Seq(BucketIds) /\ Len(allOut) = 0
      BY <2>1 DEF TypeInv, TypeOK
    <3> QED BY <2>1, <3>1
  <2>4. 1 .. born \subseteq BucketIds
    BY BornIds DEF TypeInv
  <2>5. \A o \in Outputs : Working(o) => output[o].bucket \in BucketIds
    BY <2>4 DEF TypeInv, OutputInv, Working
  <2>6. fate[b] = "none" /\ \A o \in Outputs : Working(o) => output[o].bucket # b
    BY <2>1 DEF EmitInv
  <2>7. \A c \in BucketIds : bucket'[c].pc # "dead" => fate'[c] = "none"
    BY <1>1 DEF EmitInv, DeadStays
  <2>8. \A i \in 1 .. Len(allOut') :
          /\ bucket'[allOut'[i]].pc = "dead" /\ fate'[allOut'[i]] = "none"
          /\ \A o \in Outputs : Working(o)' => output'[o].bucket # allOut'[i]
    BY <1>1, <2>2, <2>3, <2>6 DEF Working
  <2>9. \A o \in Outputs : Working(o)' =>
          /\ bucket'[output'[o].bucket].pc = "dead"
          /\ output'[o].pc = "reprocess" => fate'[output'[o].bucket] = "offered"
          /\ output'[o].pc # "reprocess" => fate'[output'[o].bucket] = "none"
    BY <1>1, <2>5 DEF EmitInv, DeadStays, Working
  <2>10. \A o, q \in Outputs :
           Working(o)' /\ Working(q)' /\ output'[o].bucket = output'[q].bucket
             => o = q
    BY <1>1 DEF EmitInv, Working
  <2>11. EmitInv'
    BY <2>7, <2>8, <2>9, <2>10 DEF EmitInv
  <2> QED BY <1>2, <2>11
<1>4. CASE ~Emit(b)
  <2>1. allOut' = allOut
    BY <1>4, Zenon DEF BucketStep, Leak, Ready, BucketInit, PourTrigger,
                PourDuplicate, PourCancel, PourLimited, Overflow, Suicide,
                TickerFires, ExternallyKilled
  <2> QED BY <1>1, <1>2, <2>1, EmitElsewhere
<1> QED BY <1>3, <1>4

\* An output that takes the event in the channel keeps DeliveryInv.
LEMMA DeliveryReceive ==
  ASSUME TypeInv, DeliveryInv, NEW o \in Outputs, ReceiveOverflow(o)
  PROVE  DeliveryInv'
<1> USE DEF DeliveryInv
<1> DEFINE b == Head(allOut)
           pc == IF bucket[b].out = "cleanup" THEN "cleanup" ELSE "parse"
           new == [pc |-> pc, bucket |-> b]
<1>1. output[o].pc = "select" /\ allOut # << >> /\ allOut' = Tail(allOut)
      /\ output' = [output EXCEPT ![o] = new]
      /\ UNCHANGED <<fate, bucket, pourer, delivered>>
  BY DEF ReceiveOverflow
<1>2. Len(allOut) \in Nat /\ Len(allOut) # 0 /\ allOut \in Seq(BucketIds)
      /\ b = allOut[1]
  BY <1>1 DEF TypeInv, TypeOK
<1>3. 1 \in 1 .. Len(allOut) /\ Len(allOut) <= 1
  BY <1>2 DEF TypeInv, TypeOK
<1>4. \A i \in 1 .. Len(allOut') : FALSE
  <2> DEFINE n == Len(allOut)
  <2>1. Len(Tail(allOut)) = n - 1
    BY <1>1, <1>2
  <2>2. n \in Nat /\ n # 0 /\ n <= 1
    BY <1>2, <1>3
  <2> HIDE DEF n
  <2>3. n - 1 = 0
    BY ONLY <2>2
  <2>4. Len(Tail(allOut)) = 0
    BY <2>1, <2>3
  <2>5. Len(allOut') = 0
    BY <1>1, <2>4
  <2> QED BY ONLY <2>5
<1>5. bucket[b].pc = "dead" /\ fate[b] = "none" /\ b \in BucketIds
      /\ \A q \in Outputs : Working(q) => output[q].bucket # b
  BY <1>2, <1>3 DEF EmitInv
<1>6. pc \in {"cleanup", "parse"}
  OBVIOUS
<1> HIDE DEF b, pc
<1>7. new.pc = pc /\ new.bucket = b
  OBVIOUS
<1> HIDE DEF new
<1>8. output'[o] = new /\ \A q \in Outputs : q # o => output'[q] = output[q]
  BY <1>1 DEF TypeInv, TypeOK
<1>9. HeldInv' /\ DeliveredOnce'
  BY <1>1, HeldStutter DEF Active
<1>10. \A c \in BucketIds : bucket'[c].pc # "dead" => fate'[c] = "none"
  BY <1>1 DEF EmitInv
<1>11. \A q \in Outputs : Working(q)' =>
         /\ bucket'[output'[q].bucket].pc = "dead"
         /\ output'[q].pc = "reprocess" => fate'[output'[q].bucket] = "offered"
         /\ output'[q].pc # "reprocess" => fate'[output'[q].bucket] = "none"
  <2>1. \A q \in Outputs : Working(q) =>
          /\ bucket[output[q].bucket].pc = "dead"
          /\ output[q].pc = "reprocess" => fate[output[q].bucket] = "offered"
          /\ output[q].pc # "reprocess" => fate[output[q].bucket] = "none"
    BY DEF EmitInv
  <2>2. bucket' = bucket /\ fate' = fate
    BY <1>1
  <2> QED BY ONLY <1>5, <1>6, <1>7, <1>8, <2>1, <2>2 DEF Working
<1>12. \A n, q \in Outputs :
         Working(n)' /\ Working(q)' /\ output'[n].bucket = output'[q].bucket
           => n = q
  <2>1. \A n, q \in Outputs :
          Working(n) /\ Working(q) /\ output[n].bucket = output[q].bucket
            => n = q
    BY DEF EmitInv
  <2>2. \A q \in Outputs : q # o => (Working(q)' <=> Working(q))
    BY <1>8 DEF Working
  <2> QED BY ONLY <1>5, <1>7, <1>8, <2>1, <2>2
<1>13. EmitInv'
  BY <1>4, <1>10, <1>11, <1>12 DEF EmitInv
<1> QED BY <1>9, <1>13

\* Offering an alert to the pour routines keeps DeliveryInv.
LEMMA DeliveryOffer ==
  ASSUME TypeInv, DeliveryInv, NEW o \in Outputs, output[o].pc = "parse",
         output' = [output EXCEPT ![o].pc = "reprocess"],
         fate' = [fate EXCEPT ![output[o].bucket] = "offered"],
         UNCHANGED <<bucket, pourer, allOut, delivered>>
  PROVE  DeliveryInv'
<1> USE DEF DeliveryInv
<1> DEFINE b == output[o].bucket
<1>0. 1 .. born \subseteq BucketIds
  BY BornIds DEF TypeInv
<1>1. /\ \A i \in 1 .. Len(allOut) : allOut[i] \in BucketIds
      /\ \A q \in Outputs : Working(q) => output[q].bucket \in BucketIds
  BY <1>0 DEF TypeInv, OutputInv, Working
<1>2. Working(o) /\ b \in BucketIds /\ b \in Msgs /\ fate[b] = "none"
      /\ bucket[b].pc = "dead"
  BY <1>1 DEF EmitInv, Working, Msgs
<1>3. fate'[b] = "offered" /\ \A n \in Msgs : n # b => fate'[n] = fate[n]
  BY <1>2 DEF TypeInv, TypeOK
<1>4. /\ output'[o].pc = "reprocess" /\ output'[o].bucket = b
      /\ \A q \in Outputs : q # o => output'[q] = output[q]
  BY DEF TypeInv, TypeOK, OutputRec
<1>5. HeldInv' /\ DeliveredOnce'
  BY <1>2, HeldFate, Zenon
<1>6. \A q \in Outputs : q # o /\ Working(q) => output[q].bucket # b
  BY <1>2 DEF EmitInv
<1>7. \A i \in 1 .. Len(allOut) : allOut[i] # b
  BY <1>2 DEF EmitInv
<1>8. BucketIds \subseteq Msgs
  BY DEF Msgs
<1> HIDE DEF b
<1>9. \A c \in BucketIds : bucket'[c].pc # "dead" => fate'[c] = "none"
  BY <1>2, <1>3, <1>8 DEF EmitInv
<1>10. \A i \in 1 .. Len(allOut') :
         /\ bucket'[allOut'[i]].pc = "dead" /\ fate'[allOut'[i]] = "none"
         /\ \A q \in Outputs : Working(q)' => output'[q].bucket # allOut'[i]
  BY <1>1, <1>3, <1>4, <1>7, <1>8 DEF EmitInv, Working
<1>11. \A q \in Outputs : Working(q)' =>
         /\ bucket'[output'[q].bucket].pc = "dead"
         /\ output'[q].pc = "reprocess" => fate'[output'[q].bucket] = "offered"
         /\ output'[q].pc # "reprocess" => fate'[output'[q].bucket] = "none"
  <2> SUFFICES ASSUME NEW q \in Outputs, Working(q)'
               PROVE
         /\ bucket'[output'[q].bucket].pc = "dead"
         /\ output'[q].pc = "reprocess" => fate'[output'[q].bucket] = "offered"
         /\ output'[q].pc # "reprocess" => fate'[output'[q].bucket] = "none"
    OBVIOUS
  <2>1. CASE q = o
    BY <1>2, <1>3, <1>4, <2>1
  <2>2. CASE q # o
    BY <1>1, <1>3, <1>4, <1>6, <1>8, <2>2 DEF EmitInv, Working
  <2> QED BY <2>1, <2>2
<1>12. \A n, q \in Outputs :
         Working(n)' /\ Working(q)' /\ output'[n].bucket = output'[q].bucket
           => n = q
  BY <1>4, <1>6 DEF EmitInv, Working
<1>13. EmitInv'
  BY <1>9, <1>10, <1>11, <1>12 DEF EmitInv
<1> QED BY <1>5, <1>13

\* Every step of an output, and drainChan receiving from one, keeps
\* DeliveryInv.
LEMMA DeliveryOutputStep ==
  ASSUME TypeInv, DeliveryInv, NEW o \in Outputs,
         OutputStep(o) \/ DrainReprocess(o)
  PROVE  DeliveryInv'
<1> USE DEF DeliveryInv
<1> DEFINE b == output[o].bucket
<1>0. output \in [Outputs -> OutputRec] /\ fate \in [Msgs -> Fates]
      /\ BucketIds \subseteq Msgs /\ 1 .. born \subseteq BucketIds
  BY BornIds DEF TypeInv, TypeOK, Msgs
<1>1. Working(o) => b \in BucketIds /\ b \in Msgs
  BY <1>0 DEF TypeInv, OutputInv, Working
<1>2. ASSUME NEW pc \in {"select", "exited"}, output' = OutputTo(o, pc),
             UNCHANGED <<bucket, allOut>>,
             \A c \in BucketIds : fate'[c] = fate[c] \/ (Working(o) /\ c = b)
      PROVE  EmitInv'
  <2>1. output'[o].pc = pc /\ \A q \in Outputs : q # o => output'[q] = output[q]
    BY <1>0, <1>2 DEF OutputTo, OutputRec
  <2>2. output' \in [Outputs -> OutputRec]
    BY <1>0, <1>2 DEF OutputTo, OutputRec, OutputPCs
  <2> QED BY <1>2, <2>1, <2>2, EmitFinished
<1>3. CASE ReceiveOverflow(o)
  BY <1>3, DeliveryReceive
<1>4. ASSUME NEW pc \in {"select", "exited"}, output' = OutputTo(o, pc),
             UNCHANGED <<bucket, allOut, fate, pourer, delivered>>
      PROVE  DeliveryInv'
  <2>1. HeldInv' /\ DeliveredOnce'
    BY <1>4, HeldStutter DEF Active
  <2> QED BY <1>2, <1>4, <2>1
<1>5. CASE CleanupKey(o) \/ PostOverflowFails(o) \/ Whitelisted(o)
           \/ OutputExit(o)
  BY <1>4, <1>5 DEF CleanupKey, PostOverflowFails, Whitelisted, OutputExit
<1>6. CASE Passed(o)
  <2>1. CASE F(b).reprocess
    BY <1>6, <2>1, DeliveryOffer DEF Passed, OutputTo
  <2>2. CASE ~F(b).reprocess
    BY <1>4, <1>6, <2>2 DEF Passed
  <2> QED BY <2>1, <2>2
<1>7. CASE SkipReprocess(o) \/ DrainReprocess(o)
  <2>1. output[o].pc = "reprocess" /\ output' = OutputTo(o, "select")
        /\ fate' = [fate EXCEPT ![b] = "drained"]
        /\ UNCHANGED <<bucket, allOut, pourer, delivered>>
    BY <1>7 DEF SkipReprocess, DrainReprocess
  <2>2. Working(o) /\ fate[b] = "offered"
    BY <2>1 DEF Working, EmitInv
  <2>3. HeldInv' /\ DeliveredOnce'
    BY <1>1, <2>1, <2>2, HeldFate, Zenon
  <2>4. \A c \in BucketIds : fate'[c] = fate[c] \/ (Working(o) /\ c = b)
    BY <1>0, <2>1, <2>2
  <2> QED BY <1>2, <2>1, <2>3, <2>4
<1>8. ASSUME NEW p \in Pourers, Reprocess(o, p)
      PROVE  DeliveryInv'
  <2>1. output[o].pc = "reprocess" /\ output' = OutputTo(o, "select")
        /\ pourer[p].pc = "idle" /\ Take(p, b)
        /\ UNCHANGED <<bucket, allOut, delivered>>
    BY <1>8 DEF Reprocess
  <2>2. Working(o) /\ fate[b] = "offered" /\ ~Active(p)
    BY <2>1 DEF Working, EmitInv, Active
  <2>3. HeldInv' /\ DeliveredOnce'
    BY <1>1, <2>1, <2>2, HeldTake
  <2>4. \A c \in BucketIds : fate'[c] = fate[c] \/ (Working(o) /\ c = b)
    BY <1>0, <2>1, <2>2 DEF Take
  <2> QED BY <1>2, <2>1, <2>3, <2>4
<1> QED BY <1>3, <1>5, <1>6, <1>7, <1>8 DEF OutputStep

\* DeliveryInv is inductive relative to TypeInv and LifeInv.
LEMMA DeliveryInvariant == Spec => []DeliveryInv
<1>1. Init => DeliveryInv
  <2> SUFFICES ASSUME Init PROVE DeliveryInv
    OBVIOUS
  <2>1. EmitInv
    <3>1. \A c \in BucketIds : c \in Msgs /\ c \notin Events
      BY ConstantsAssumption DEF Msgs
    <3> QED BY <3>1 DEF Init, EmitInv, Working
  <2>2. HeldInv
    BY DEF Init, HeldInv, Active, IdlePourer
  <2>3. DeliveredOnce
    BY DEF Init, DeliveredOnce
  <2> QED BY <2>1, <2>2, <2>3 DEF DeliveryInv
<1>2. TypeInv /\ LifeInv /\ DeliveryInv /\ [Next]_vars => DeliveryInv'
  <2> SUFFICES ASSUME TypeInv, LifeInv, DeliveryInv, [Next]_vars
               PROVE  DeliveryInv'
    OBVIOUS
  <2>0. DeadStays
    BY LifeNext DEF LifeRel, DeadStays
  <2>s. ASSUME UNCHANGED <<fate, bucket, pourer, output, allOut, delivered>>
        PROVE  DeliveryInv'
    <3>1. HeldInv' /\ DeliveredOnce'
      BY <2>s, HeldStutter DEF Active, DeliveryInv
    <3> QED BY <2>0, <2>s, <3>1, EmitElsewhere DEF DeliveryInv
  <2>1. CASE \E p \in Pourers : PourStep(p)
    BY <2>0, <2>1, DeliveryPourStep
  <2>2. CASE \E b \in BucketIds : BucketStep(b) \/ Leak(b)
    BY <2>0, <2>2, DeliveryBucketStep
  <2>3. CASE \E o \in Outputs : OutputStep(o) \/ DrainReprocess(o)
    BY <2>3, DeliveryOutputStep
  <2>4. CASE StartShutdown \/ KillOutputs \/ Cancel \/ Idle \/ UNCHANGED vars
    BY <2>4, <2>s DEF StartShutdown, KillOutputs, Cancel, Idle, vars
  <2>5. CASE DrainEvent
    <3>1. PICK e \in Events : fate[e] = "offered"
                              /\ fate' = [fate EXCEPT ![e] = "drained"]
      BY <2>5, Zenon DEF DrainEvent
    <3>2. UNCHANGED <<bucket, pourer, output, allOut, delivered>>
      BY <2>5 DEF DrainEvent
    <3>3. e \in Msgs /\ e \notin BucketIds /\ BucketIds \subseteq Msgs
      BY ConstantsAssumption DEF Msgs
    <3>4. HeldInv' /\ DeliveredOnce'
      BY <3>1, <3>2, <3>3, HeldFate, Zenon DEF DeliveryInv
    <3>5. \A b \in BucketIds : fate'[b] = fate[b]
      BY <3>1, <3>3 DEF TypeInv, TypeOK
    <3> QED BY <2>0, <3>2, <3>4, <3>5, EmitElsewhere DEF DeliveryInv
  <2> QED BY <2>1, <2>2, <2>3, <2>4, <2>5 DEF Next, ShutdownStep
<1> QED BY <1>1, <1>2, TypeInvariant, LifeInvariant, PTL DEF Spec

\* PourItemToHolders: each holder of a message receives it exactly once, for
\* any number of pour routines and however often its buckets are replaced.
THEOREM DeliveredOnceHolds == Spec => []DeliveredOnce
<1>1. DeliveryInv => DeliveredOnce
  BY DEF DeliveryInv
<1> QED BY <1>1, DeliveryInvariant, PTL
=============================================================================
