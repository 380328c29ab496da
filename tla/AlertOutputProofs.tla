-------------------------- MODULE AlertOutputProofs --------------------------
(***************************************************************************)
(* Proofs about the way of an alert from an output routine into the        *)
(* database, for any number of alerts, routines, requests and failures: an *)
(* alert always has exactly one owner (SingleOwner), an acknowledged alert *)
(* is stored or was refused (AckedIsStored), and nothing is lost unless    *)
(* its push failed during the shutdown or its routine left with an error   *)
(* (LostOnlyOnFailure).                                                    *)
(*                                                                         *)
(* StoreInv says how far the handler of a request is and what it has       *)
(* committed, and FlushInv what a routine that flushes or has exited left  *)
(* behind.                                                                 *)
(***************************************************************************)
EXTENDS AlertOutput, TLAPS

RequestRec ==
  [at : {"free", "received", "saving", "stamp"}, client : {"waiting", "gone"},
   final : BOOLEAN, from : SUBSET Outputs, alerts : SUBSET Alerts,
   kept : SUBSET Items, left : SUBSET Items, refused : SUBSET Items]

\* A request whose sender waits was sent by one routine; a free slot has no
\* sender.
WellSent(q) ==
  /\ q.client = "waiting" => \E o \in Outputs : q.from = {o}
  /\ q.at = "free" => q.client = "gone"

Shape ==
  /\ offered \subseteq Alerts /\ acked \subseteq Alerts /\ dropped \subseteq Alerts
  /\ pending \in [Outputs -> SUBSET Alerts]
  /\ request \in [Requests -> RequestRec]
  /\ \A r \in Requests : WellSent(request[r])

\* What the handler of request q has committed, f being the alerts table.
Progress(q, f) ==
  /\ q.at \in {"saving", "stamp"} =>
       \A i \in dedupAlerts(q.alerts) : f[i] >= 1 \/ i \in q.left \/ i \in q.refused
  /\ q.at = "stamp" => q.left = {}

TableShape == stored \in [Items -> Nat]

StoreInv ==
  /\ Shape /\ TableShape /\ AckedIsStored
  /\ \A r \in Requests : Progress(request[r], stored)

\* The types of the other variables.
Rest ==
  /\ output \in [Outputs -> {"select", "flush", "exited"}]
  /\ tomb \in {"alive", "failed", "killed"} /\ cancelled \in BOOLEAN
  /\ notified \in [Matches -> Nat] /\ toCapi \in [Items -> Nat]
  /\ failures \in Nat
  /\ refused \subseteq Items /\ late \subseteq Alerts /\ abandoned \subseteq Alerts

\* dedupAlerts has the pairs of an alert and one of its sources.
LEMMA DedupIs ==
  ASSUME NEW S, S \subseteq Alerts
  PROVE  /\ dedupAlerts(S) \subseteq Items
         /\ \A a \in S : \A x \in Sources[a] : <<a, x>> \in dedupAlerts(S)
<1>1. \A a \in S : \A x \in Sources[a] : <<a, x>> \in dedupAlerts(S)
  BY DEF dedupAlerts
<1>2. dedupAlerts(S) \subseteq Items
  BY DEF dedupAlerts, Items
<1> QED BY <1>1, <1>2

\* An item of a batch is of one of its alerts.
LEMMA DedupOf ==
  ASSUME NEW S, NEW i \in dedupAlerts(S)
  PROVE  i[1] \in S
BY DEF dedupAlerts

\* An item of two batches is of one of them.
LEMMA DedupUnion ==
  ASSUME NEW S, NEW T, NEW i \in dedupAlerts(S \cup T)
  PROVE  i \in dedupAlerts(S) \/ i \in dedupAlerts(T)
<1>1. PICK a \in S \cup T : i \in {<<a, x>> : x \in Sources[a]}
  BY DEF dedupAlerts
<1> QED BY <1>1 DEF dedupAlerts

\* What one more row or forward of the items of S makes of f.
LEMMA BumpIs ==
  ASSUME NEW f \in [Items -> Nat], NEW S
  PROVE  /\ Bump(f, S) \in [Items -> Nat]
         /\ \A i \in Items : Bump(f, S)[i] = IF i \in S THEN f[i] + 1 ELSE f[i]
BY DEF Bump

-----------------------------------------------------------------------------
(* Where an alert is.                                                     *)

\* A step that moves the alerts of S to place q and no other.
Moves(S, q) ==
  \A a \in Alerts, x \in Places :
    /\ a \in S => (At(a, x)' <=> x = q)
    /\ a \notin S => (At(a, x)' <=> At(a, x))

\* Moving alerts from where they are keeps every alert in one place.
LEMMA MoveKeepsOwner ==
  ASSUME SingleOwner, NEW S, NEW q \in Places, Moves(S, q)
  PROVE  SingleOwner'
<1> SUFFICES ASSUME NEW a \in Alerts
             PROVE  \E y \in Places : \A x \in Places : At(a, x)' <=> x = y
  BY DEF SingleOwner, Places
<1>1. CASE a \in S
  BY <1>1 DEF Moves
<1>2. CASE a \notin S
  BY <1>2 DEF Moves, SingleOwner
<1> QED BY <1>1, <1>2

\* The alerts of a place are nowhere else.
LEMMA Exclusive ==
  ASSUME SingleOwner, NEW a \in Alerts, NEW p \in Places, At(a, p),
         NEW x \in Places
  PROVE  At(a, x) <=> x = p
BY DEF SingleOwner

\* A place is one of the five kinds.
LEMMA Kinds ==
  ASSUME NEW x \in Places
  PROVE  \/ \E o \in Outputs : x = <<"buffer", o>>
         \/ \E r \in Requests : x = <<"flight", r>>
         \/ x = <<"offered", 0>> \/ x = <<"acked", 0>> \/ x = <<"dropped", 0>>
BY DEF Places

\* What At says of each kind of place.
LEMMA AtBuffer ==
  ASSUME NEW a, NEW o
  PROVE  /\ At(a, <<"buffer", o>>) <=> a \in pending[o]
         /\ At(a, <<"flight", o>>) <=> Waiting(o) /\ a \in request[o].alerts
         /\ At(a, <<"offered", 0>>) <=> a \in offered
         /\ At(a, <<"acked", 0>>) <=> a \in acked
         /\ At(a, <<"dropped", 0>>) <=> a \in dropped
BY DEF At

\* The places an alert can be in are those of Places.
LEMMA PlacesAre ==
  /\ \A o \in Outputs : <<"buffer", o>> \in Places
  /\ \A r \in Requests : <<"flight", r>> \in Places
  /\ <<"offered", 0>> \in Places /\ <<"acked", 0>> \in Places
  /\ <<"dropped", 0>> \in Places
BY DEF Places

\* What is moved is told place by place.
LEMMA MoveByKind ==
  ASSUME NEW S, NEW q \in Places,
         \A a \in Alerts :
           /\ \A o \in Outputs :
                IF a \in S THEN At(a, <<"buffer", o>>)' <=> <<"buffer", o>> = q
                ELSE At(a, <<"buffer", o>>)' <=> At(a, <<"buffer", o>>)
           /\ \A r \in Requests :
                IF a \in S THEN At(a, <<"flight", r>>)' <=> <<"flight", r>> = q
                ELSE At(a, <<"flight", r>>)' <=> At(a, <<"flight", r>>)
           /\ \A w \in {"offered", "acked", "dropped"} :
                IF a \in S THEN At(a, <<w, 0>>)' <=> <<w, 0>> = q
                ELSE At(a, <<w, 0>>)' <=> At(a, <<w, 0>>)
  PROVE  Moves(S, q)
<1> SUFFICES ASSUME NEW a \in Alerts, NEW x \in Places
             PROVE  /\ a \in S => (At(a, x)' <=> x = q)
                    /\ a \notin S => (At(a, x)' <=> At(a, x))
  BY DEF Moves
<1> QED BY Kinds

-----------------------------------------------------------------------------
(* What SingleOwner says of an alert in each kind of place.                *)

\* An alert in no buffer, in no request that is waited for, or in no end.
NotPending(a) == \A o \in Outputs : a \notin pending[o]
NotInFlight(a) == \A r \in Requests : ~(Waiting(r) /\ a \in request[r].alerts)
NotEnded(a) == a \notin offered /\ a \notin acked /\ a \notin dropped

\* An alert that was not received is nowhere else.
LEMMA WhenOffered ==
  ASSUME SingleOwner, NEW a \in Alerts, a \in offered
  PROVE  NotPending(a) /\ NotInFlight(a) /\ a \notin acked /\ a \notin dropped
<1>1. At(a, <<"offered", 0>>)
  BY AtBuffer, Zenon
<1>2. \A x \in Places : At(a, x) <=> x = <<"offered", 0>>
  BY <1>1, Exclusive, PlacesAre
<1> QED BY <1>2, AtBuffer, PlacesAre, Zenon DEF NotPending, NotInFlight

\* A buffered alert is in one buffer and nowhere else.
LEMMA WhenPending ==
  ASSUME SingleOwner, NEW a \in Alerts, NEW o \in Outputs, a \in pending[o]
  PROVE  /\ \A x \in Outputs : a \in pending[x] => x = o
         /\ NotInFlight(a) /\ NotEnded(a)
<1>1. At(a, <<"buffer", o>>)
  BY AtBuffer, Zenon
<1>2. \A x \in Places : At(a, x) <=> x = <<"buffer", o>>
  BY <1>1, Exclusive, PlacesAre
<1> QED BY <1>2, AtBuffer, PlacesAre, Zenon DEF NotInFlight, NotEnded

\* An alert of a request that is waited for is in no other and nowhere else.
LEMMA WhenInFlight ==
  ASSUME SingleOwner, NEW a \in Alerts, NEW r \in Requests,
         Waiting(r), a \in request[r].alerts
  PROVE  /\ \A x \in Requests : Waiting(x) /\ a \in request[x].alerts => x = r
         /\ NotPending(a) /\ NotEnded(a)
<1>1. At(a, <<"flight", r>>)
  BY AtBuffer, Zenon
<1>2. \A x \in Places : At(a, x) <=> x = <<"flight", r>>
  BY <1>1, Exclusive, PlacesAre
<1> QED BY <1>2, AtBuffer, PlacesAre, Zenon DEF NotPending, NotEnded

-----------------------------------------------------------------------------
(* Every action moves the alerts of one place to another, or none.         *)

\* The sender of a request, and what it waits for, stay the same.
SameFlight(r) ==
  (request'[r].client = "waiting" <=> request[r].client = "waiting")
  /\ (request[r].client = "waiting" => request'[r].alerts = request[r].alerts)

\* A step that changes no buffer, no end and no sender moves nothing.
LEMMA OwnerStays ==
  ASSUME SingleOwner, UNCHANGED <<offered, pending, acked, dropped>>,
         \A r \in Requests : SameFlight(r)
  PROVE  SingleOwner'
<1>1. \A a \in Alerts :
        /\ \A o \in Outputs : At(a, <<"buffer", o>>)' <=> At(a, <<"buffer", o>>)
        /\ \A r \in Requests : At(a, <<"flight", r>>)' <=> At(a, <<"flight", r>>)
        /\ \A w \in {"offered", "acked", "dropped"} :
             At(a, <<w, 0>>)' <=> At(a, <<w, 0>>)
  BY DEF At, Waiting, SameFlight
<1>2. Moves({}, <<"offered", 0>>)
  BY <1>1, MoveByKind, PlacesAre
<1> QED BY <1>2, MoveKeepsOwner, PlacesAre

\* pendingAlerts.add moves an alert into the buffer.
LEMMA OwnerAdd ==
  ASSUME Shape, SingleOwner, NEW o \in Outputs, NEW b \in Alerts, AddAlert(o, b)
  PROVE  SingleOwner'
<1> DEFINE q == <<"buffer", o>>
<1>1. /\ b \in offered /\ offered' = offered \ {b}
      /\ \A x \in Outputs :
           pending'[x] = IF x = o THEN pending[x] \cup {b} ELSE pending[x]
      /\ UNCHANGED <<request, acked, dropped>>
  BY Zenon DEF AddAlert, Shape
<1>2. NotPending(b) /\ NotInFlight(b) /\ b \notin acked /\ b \notin dropped
  BY <1>1, WhenOffered
<1>3. \A a \in Alerts : \A x \in Outputs :
        IF a \in {b} THEN At(a, <<"buffer", x>>)' <=> <<"buffer", x>> = q
        ELSE At(a, <<"buffer", x>>)' <=> At(a, <<"buffer", x>>)
  BY <1>1, <1>2, Zenon DEF At, NotPending
<1>4. \A a \in Alerts : \A r \in Requests :
        IF a \in {b} THEN At(a, <<"flight", r>>)' <=> <<"flight", r>> = q
        ELSE At(a, <<"flight", r>>)' <=> At(a, <<"flight", r>>)
  BY <1>1, <1>2 DEF At, NotInFlight, Waiting
<1>5. \A a \in Alerts : \A w \in {"offered", "acked", "dropped"} :
        IF a \in {b} THEN At(a, <<w, 0>>)' <=> <<w, 0>> = q
        ELSE At(a, <<w, 0>>)' <=> At(a, <<w, 0>>)
  BY <1>1, <1>2 DEF At
<1>6. Moves({b}, q)
  BY <1>3, <1>4, <1>5, MoveByKind, PlacesAre
<1> QED BY <1>6, MoveKeepsOwner, PlacesAre

\* takeAll moves a buffer into a request.
LEMMA OwnerSend ==
  ASSUME Shape, SingleOwner, NEW o \in Outputs, NEW r \in Requests,
         NEW final \in BOOLEAN, Send(o, r, final)
  PROVE  SingleOwner'
<1> DEFINE q == <<"flight", r>>
           S == pending[o]
<1>1. /\ \A x \in Outputs : pending'[x] = IF x = o THEN {} ELSE pending[x]
      /\ request'[r].client = "waiting" /\ request'[r].alerts = S
      /\ \A x \in Requests : x # r => request'[x] = request[x]
      /\ UNCHANGED <<offered, acked, dropped>>
      /\ S \subseteq Alerts
  BY DEF Send, Shape
<1>2. request[r].client # "waiting"
  BY DEF Send, Shape, WellSent
<1>3. \A a \in S : /\ \A x \in Outputs : a \in pending[x] => x = o
                   /\ NotInFlight(a) /\ NotEnded(a)
  BY <1>1, WhenPending
<1> HIDE DEF S
<1>4. \A a \in Alerts : \A x \in Outputs :
        IF a \in S THEN At(a, <<"buffer", x>>)' <=> <<"buffer", x>> = q
        ELSE At(a, <<"buffer", x>>)' <=> At(a, <<"buffer", x>>)
  BY <1>1, <1>3 DEF At, S
<1>5. \A a \in Alerts : \A x \in Requests :
        IF a \in S THEN At(a, <<"flight", x>>)' <=> <<"flight", x>> = q
        ELSE At(a, <<"flight", x>>)' <=> At(a, <<"flight", x>>)
  BY <1>1, <1>2, <1>3 DEF At, NotInFlight, Waiting
<1>6. \A a \in Alerts : \A w \in {"offered", "acked", "dropped"} :
        IF a \in S THEN At(a, <<w, 0>>)' <=> <<w, 0>> = q
        ELSE At(a, <<w, 0>>)' <=> At(a, <<w, 0>>)
  BY <1>1, <1>3 DEF At, NotEnded
<1>7. Moves(S, q)
  BY <1>4, <1>5, <1>6, MoveByKind, PlacesAre
<1> QED BY <1>7, MoveKeepsOwner, PlacesAre

\* A slot whose sender no longer waits, the others being as they were.
LetGo(r) ==
  /\ request'[r].client # "waiting"
  /\ \A x \in Requests : x # r => request'[x] = request[x]

\* The end of a push moves its alerts to one place.
LEMMA OwnerLetGo ==
  ASSUME Shape, SingleOwner, NEW r \in Requests, Waiting(r), LetGo(r),
         NEW q \in Places, offered' = offered,
         \A a \in Alerts :
           /\ \A o \in Outputs :
                a \in pending'[o] <=>
                  a \in pending[o] \/ (q = <<"buffer", o>> /\ a \in request[r].alerts)
           /\ a \in acked' <=>
                a \in acked \/ (q = <<"acked", 0>> /\ a \in request[r].alerts)
           /\ a \in dropped' <=>
                a \in dropped \/ (q = <<"dropped", 0>> /\ a \in request[r].alerts),
         q[1] \in {"buffer", "acked", "dropped"}
  PROVE  SingleOwner'
<1> DEFINE S == request[r].alerts
<1>1. S \subseteq Alerts
  BY DEF Shape, RequestRec
<1>2. \A a \in S :
        /\ \A x \in Requests : Waiting(x) /\ a \in request[x].alerts => x = r
        /\ NotPending(a) /\ NotEnded(a)
  BY <1>1, WhenInFlight
<1>3. \A a \in Alerts :
        /\ \A o \in Outputs :
             a \in pending'[o] <=> a \in pending[o] \/ (q = <<"buffer", o>> /\ a \in S)
        /\ a \in acked' <=> a \in acked \/ (q = <<"acked", 0>> /\ a \in S)
        /\ a \in dropped' <=> a \in dropped \/ (q = <<"dropped", 0>> /\ a \in S)
  OBVIOUS
<1>4. \A a \in S : Waiting(r) /\ a \in request[r].alerts
  OBVIOUS
<1>5. \A a \in Alerts : a \notin S => ~(a \in request[r].alerts)
  OBVIOUS
<1> HIDE DEF S
<1>6. \A a \in Alerts : \A x \in Outputs :
        IF a \in S THEN At(a, <<"buffer", x>>)' <=> <<"buffer", x>> = q
        ELSE At(a, <<"buffer", x>>)' <=> At(a, <<"buffer", x>>)
  BY <1>2, <1>3 DEF At, NotPending
<1>7. \A a \in Alerts : \A x \in Requests :
        IF a \in S THEN At(a, <<"flight", x>>)' <=> <<"flight", x>> = q
        ELSE At(a, <<"flight", x>>)' <=> At(a, <<"flight", x>>)
  BY <1>2, <1>5 DEF At, Waiting, LetGo
<1>8. \A a \in Alerts : \A w \in {"offered", "acked", "dropped"} :
        IF a \in S THEN At(a, <<w, 0>>)' <=> <<w, 0>> = q
        ELSE At(a, <<w, 0>>)' <=> At(a, <<w, 0>>)
  BY <1>2, <1>3 DEF At, NotEnded
<1>9. Moves(S, q)
  BY <1>6, <1>7, <1>8, MoveByKind
<1> QED BY <1>9, MoveKeepsOwner

\* A failed push goes back to its buffer, or is dropped if it was the last.
LEMMA OwnerFailed ==
  ASSUME Shape, SingleOwner, NEW r \in Requests, Waiting(r), LetGo(r), PushFailed(r)
  PROVE  SingleOwner'
<1>1. PICK o \in Outputs : request[r].from = {o}
  BY DEF Shape, WellSent, Waiting
<1>2. CASE request[r].final
  <2>1. /\ offered' = offered /\ acked' = acked
        /\ dropped' = dropped \cup request[r].alerts
        /\ \A x \in Outputs : pending'[x] = pending[x]
    BY <1>2 DEF PushFailed
  <2> QED BY <2>1, OwnerLetGo, PlacesAre
<1>3. CASE ~request[r].final
  <2>1. /\ offered' = offered /\ acked' = acked /\ dropped' = dropped
        /\ \A x \in Outputs : pending'[x] =
             IF x = o THEN pending[x] \cup request[r].alerts ELSE pending[x]
    BY <1>1, <1>3 DEF PushFailed
  <2>2. <<"buffer", o>> \in Places /\ <<"buffer", o>>[1] = "buffer"
    BY PlacesAre
  <2>3. \A a \in Alerts : \A x \in Outputs :
          a \in pending'[x] <=>
            a \in pending[x] \/ (<<"buffer", o>> = <<"buffer", x>> /\ a \in request[r].alerts)
    BY <2>1, Zenon
  <2> QED BY <2>1, <2>2, <2>3, OwnerLetGo
<1> QED BY <1>2, <1>3

\* An acknowledged push.
LEMMA OwnerDone ==
  ASSUME Shape, SingleOwner, NEW r \in Requests, Waiting(r), LetGo(r), PushDone(r)
  PROVE  SingleOwner'
<1>1. /\ offered' = offered /\ dropped' = dropped /\ pending' = pending
      /\ acked' = acked \cup request[r].alerts
  BY DEF PushDone
<1> QED BY <1>1, OwnerLetGo, PlacesAre

\* The buffer of a routine that ends after cancel() is dropped.
LEMMA OwnerDrop ==
  ASSUME Shape, SingleOwner, NEW o \in Outputs, FinalDrop(o)
  PROVE  SingleOwner'
<1> DEFINE q == <<"dropped", 0>>
           S == pending[o]
<1>1. /\ \A x \in Outputs : pending'[x] = IF x = o THEN {} ELSE pending[x]
      /\ dropped' = dropped \cup S
      /\ UNCHANGED <<offered, acked, request>>
      /\ S \subseteq Alerts
  BY DEF FinalDrop, Shape
<1>2. \A a \in S : /\ \A x \in Outputs : a \in pending[x] => x = o
                   /\ NotInFlight(a) /\ NotEnded(a)
  BY <1>1, WhenPending
<1> HIDE DEF S
<1>3. \A a \in Alerts : \A x \in Outputs :
        IF a \in S THEN At(a, <<"buffer", x>>)' <=> <<"buffer", x>> = q
        ELSE At(a, <<"buffer", x>>)' <=> At(a, <<"buffer", x>>)
  BY <1>1, <1>2 DEF At, S
<1>4. \A a \in Alerts : \A x \in Requests :
        IF a \in S THEN At(a, <<"flight", x>>)' <=> <<"flight", x>> = q
        ELSE At(a, <<"flight", x>>)' <=> At(a, <<"flight", x>>)
  BY <1>1, <1>2 DEF At, NotInFlight, Waiting
<1>5. \A a \in Alerts : \A w \in {"offered", "acked", "dropped"} :
        IF a \in S THEN At(a, <<w, 0>>)' <=> <<w, 0>> = q
        ELSE At(a, <<w, 0>>)' <=> At(a, <<w, 0>>)
  BY <1>1, <1>2 DEF At, NotEnded
<1>6. Moves(S, q)
  BY <1>3, <1>4, <1>5, MoveByKind, PlacesAre
<1> QED BY <1>6, MoveKeepsOwner, PlacesAre

\* A routine that leaves with a postoverflow error drops the alert in hand.
LEMMA OwnerAbort ==
  ASSUME SingleOwner, NEW o \in Outputs, NEW b \in Alerts, PostOverflowFails(o, b)
  PROVE  SingleOwner'
<1> DEFINE q == <<"dropped", 0>>
<1>1. /\ b \in offered /\ offered' = offered \ {b} /\ dropped' = dropped \cup {b}
      /\ UNCHANGED <<request, acked, pending>>
  BY DEF PostOverflowFails
<1>2. NotPending(b) /\ NotInFlight(b) /\ b \notin acked /\ b \notin dropped
  BY <1>1, WhenOffered
<1>3. \A a \in Alerts : \A x \in Outputs :
        IF a \in {b} THEN At(a, <<"buffer", x>>)' <=> <<"buffer", x>> = q
        ELSE At(a, <<"buffer", x>>)' <=> At(a, <<"buffer", x>>)
  BY <1>1, <1>2 DEF At, NotPending
<1>4. \A a \in Alerts : \A r \in Requests :
        IF a \in {b} THEN At(a, <<"flight", r>>)' <=> <<"flight", r>> = q
        ELSE At(a, <<"flight", r>>)' <=> At(a, <<"flight", r>>)
  BY <1>1, <1>2 DEF At, NotInFlight, Waiting
<1>5. \A a \in Alerts : \A w \in {"offered", "acked", "dropped"} :
        IF a \in {b} THEN At(a, <<w, 0>>)' <=> <<w, 0>> = q
        ELSE At(a, <<w, 0>>)' <=> At(a, <<w, 0>>)
  BY <1>1, <1>2 DEF At
<1>6. Moves({b}, q)
  BY <1>3, <1>4, <1>5, MoveByKind, PlacesAre
<1> QED BY <1>6, MoveKeepsOwner, PlacesAre

-----------------------------------------------------------------------------
(* The handler, and what it has stored.                                    *)

\* The rows of an item never become fewer.
Grows == /\ stored' \in [Items -> Nat]
         /\ \A i \in Items : stored'[i] >= stored[i]

\* What a handler has committed stays committed.
LEMMA ProgressKept ==
  ASSUME NEW q \in RequestRec, TableShape, Grows, Progress(q, stored)
  PROVE  Progress(q, stored')
<1>1. \A i \in dedupAlerts(q.alerts) : i \in Items
  BY DedupIs DEF RequestRec
<1>2. \A i \in Items : stored[i] >= 1 => stored'[i] >= 1
  BY DEF Grows, TableShape
<1> QED BY <1>1, <1>2 DEF Progress

\* What is stored or refused stays so.
LEMMA AckedKept ==
  ASSUME AckedIsStored, TableShape, Grows, acked' = acked, acked \subseteq Alerts,
         refused' = refused
  PROVE  AckedIsStored'
<1>1. \A i \in dedupAlerts(acked) : i \in Items
  BY DedupIs
<1>2. \A i \in Items : stored[i] >= 1 => stored'[i] >= 1
  BY DEF Grows, TableShape
<1>3. \A i \in dedupAlerts(acked) : stored'[i] >= 1 \/ i \in refused
  BY <1>1, <1>2 DEF AckedIsStored
<1> QED BY <1>3, Zenon DEF AckedIsStored, dedupAlerts

\* A free slot.
LEMMA FreeIs ==
  Free \in RequestRec /\ WellSent(Free) /\ Free.client = "gone" /\ Free.at = "free"
BY DEF Free, RequestRec, WellSent

\* A step that puts q into slot r, q being as far as its handler says.
LEMMA RequestStep ==
  ASSUME StoreInv, NEW r \in Requests, NEW q \in RequestRec, WellSent(q),
         request' = [request EXCEPT ![r] = q], Grows, Progress(q, stored'),
         pending' \in [Outputs -> SUBSET Alerts],
         offered' \subseteq Alerts, dropped' \subseteq Alerts,
         acked' \subseteq Alerts, AckedIsStored'
  PROVE  StoreInv'
<1>1. /\ request' \in [Requests -> RequestRec] /\ request'[r] = q
      /\ \A x \in Requests : x # r => request'[x] = request[x]
  BY DEF StoreInv, Shape
<1>2. Shape'
  <2>1. \A x \in Requests : WellSent(request'[x])
    BY <1>1 DEF StoreInv, Shape
  <2>2. \A x \in Requests : WellSent(request[x])'
    BY <2>1 DEF WellSent
  <2> QED BY <1>1, <2>2 DEF Shape
<1>3. \A x \in Requests : Progress(request[x], stored)'
  <2> SUFFICES ASSUME NEW x \in Requests
               PROVE  Progress(request'[x], stored')
    BY DEF Progress
  <2>1. CASE x = r
    BY <1>1, <2>1
  <2>2. CASE x # r
    <3>1. request[x] \in RequestRec /\ Progress(request[x], stored) /\ TableShape
      BY DEF StoreInv, Shape
    <3>2. Progress(request[x], stored')
      BY <3>1, ProgressKept
    <3> QED BY <1>1, <2>2, <3>2
  <2> QED BY <2>1, <2>2
<1> QED BY <1>2, <1>3 DEF StoreInv, TableShape, Grows

\* A step that leaves the requests and the table alone.
LEMMA QuietStep ==
  ASSUME StoreInv, UNCHANGED <<request, stored, acked, refused>>,
         pending' \in [Outputs -> SUBSET Alerts],
         offered' \subseteq Alerts, dropped' \subseteq Alerts
  PROVE  StoreInv'
<1>1. Shape'
  BY DEF StoreInv, Shape, WellSent
<1>2. AckedIsStored'
  BY Zenon DEF StoreInv, AckedIsStored, dedupAlerts
<1>3. \A x \in Requests : Progress(request[x], stored)'
  BY Zenon DEF StoreInv, Progress, dedupAlerts
<1> QED BY <1>1, <1>2, <1>3 DEF StoreInv, TableShape

\* A table that does not change.
LEMMA SameTable ==
  ASSUME TableShape, stored' = stored
  PROVE  Grows
BY DEF TableShape, Grows

\* A committed batch.
LEMMA BumpGrows ==
  ASSUME TableShape, NEW S, stored' = Bump(stored, S)
  PROVE  Grows /\ \A i \in Items : i \in S => stored'[i] >= 1
<1>1. \A i \in Items : stored[i] \in Nat
  BY DEF TableShape
<1>2. stored' = [i \in Items |-> IF i \in S THEN stored[i] + 1 ELSE stored[i]]
  BY DEF Bump
<1>3. \A i \in Items : stored'[i] = IF i \in S THEN stored[i] + 1 ELSE stored[i]
  BY <1>2
<1>4. \A i \in Items : stored'[i] \in Nat /\ stored'[i] >= stored[i]
  BY <1>1, <1>3
<1>5. \A i \in Items : i \in S => stored'[i] >= 1
  BY <1>1, <1>3
<1> QED BY <1>2, <1>4, <1>5 DEF Grows

\* What a sender that stops waiting leaves: types of its buffers.
LEMMA FailedTypes ==
  ASSUME Shape, NEW r \in Requests, PushFailed(r)
  PROVE  /\ pending' \in [Outputs -> SUBSET Alerts] /\ offered' = offered
         /\ dropped' \subseteq Alerts /\ acked' = acked /\ refused' = refused
<1>1. request[r].alerts \subseteq Alerts
  BY DEF Shape, RequestRec
<1> QED BY <1>1 DEF Shape, PushFailed

\* An answer of a handler that ended: the slot is free again.  A success is
\* only answered by a handler that has stored everything.
LEMMA AnswerStep ==
  ASSUME StoreInv, NEW r \in Requests, NEW ok \in BOOLEAN, Answer(r, ok),
         stored' = stored, ok => request[r].at = "stamp"
  PROVE  StoreInv'
<1>1. Shape /\ TableShape /\ Grows
  BY SameTable DEF StoreInv
<1>2. Progress(Free, stored')
  BY FreeIs DEF Progress
<1>3. request' = [request EXCEPT ![r] = Free]
  BY DEF Answer
<1>4. CASE PushFailed(r)
  <2>1. AckedIsStored'
    BY <1>1, <1>4, FailedTypes, AckedKept DEF StoreInv, Shape
  <2> QED BY <1>1, <1>2, <1>3, <1>4, <2>1, FailedTypes, FreeIs, RequestStep, Zenon DEF Shape
<1>5. CASE UNCHANGED agent
  <2>1. UNCHANGED <<offered, pending, acked, dropped, refused>>
    BY <1>5 DEF agent, history
  <2>2. AckedIsStored'
    BY <1>1, <2>1, AckedKept DEF StoreInv, Shape
  <2> QED BY <1>1, <1>2, <1>3, <2>1, <2>2, FreeIs, RequestStep, Zenon DEF Shape
<1>6. CASE ok /\ PushDone(r)
  <2>1. /\ UNCHANGED <<offered, pending, dropped>>
        /\ acked' = acked \cup request[r].alerts
        /\ refused' = refused \cup request[r].refused /\ request[r].at = "stamp"
    BY <1>6 DEF PushDone
  <2>2. request[r].alerts \subseteq Alerts /\ acked \subseteq Alerts
    BY <1>1 DEF Shape, RequestRec
  <2>3. \A i \in dedupAlerts(request[r].alerts) : stored[i] >= 1 \/ i \in request[r].refused
    BY <2>1 DEF StoreInv, Progress
  <2>4. AckedIsStored'
    <3>1. \A i \in dedupAlerts(acked') :
            i \in dedupAlerts(acked) \/ i \in dedupAlerts(request[r].alerts)
      BY <2>1, DedupUnion
    <3>2. \A i \in dedupAlerts(acked) : stored[i] >= 1 \/ i \in refused
      BY DEF StoreInv, AckedIsStored
    <3>3. \A i \in dedupAlerts(acked') : stored'[i] >= 1 \/ i \in refused'
      BY <2>1, <2>3, <3>1, <3>2
    <3> QED BY <3>3, Zenon DEF AckedIsStored, dedupAlerts
  <2> QED BY <1>1, <1>2, <1>3, <2>1, <2>2, <2>4, FreeIs, RequestStep, Zenon DEF Shape
<1> QED BY <1>4, <1>5, <1>6 DEF Answer

\* A step of a handler that is not its answer: q takes its place, the sender
\* and what it sent unchanged.
LEMMA HandlerStep ==
  ASSUME StoreInv, NEW r \in Requests, NEW q \in RequestRec,
         request' = [request EXCEPT ![r] = q], UNCHANGED agent,
         q.client = request[r].client, q.from = request[r].from,
         q.at # "free", Grows, Progress(q, stored')
  PROVE  StoreInv'
<1>1. UNCHANGED <<offered, pending, acked, dropped, refused>>
  BY DEF agent, history
<1>2. Shape /\ TableShape /\ WellSent(request[r])
  BY DEF StoreInv, Shape
<1>3. WellSent(q)
  BY <1>2 DEF WellSent
<1>4. AckedIsStored'
  BY <1>1, <1>2, AckedKept DEF StoreInv, Shape
<1> QED BY <1>1, <1>2, <1>3, <1>4, RequestStep, Zenon DEF Shape

\* The steps of a handler up to its answer.
LEMMA HandlerKeeps ==
  ASSUME StoreInv, NEW r \in Requests, Evaluate(r) \/ SaveBatch(r) \/ Saved(r)
  PROVE  StoreInv' /\ \A x \in Requests : SameFlight(x)
<1>1. Shape /\ TableShape /\ request[r] \in RequestRec
      /\ Progress(request[r], stored)
  BY DEF StoreInv, Shape
<1>2. CASE Evaluate(r)
  <2> DEFINE items == dedupAlerts(request[r].alerts)
  <2>1. PICK listed \in SUBSET (items \cap Listable) :
          request' = [request EXCEPT ![r].at = "saving", ![r].kept = items \ listed,
                                     ![r].left = items \ listed, ![r].refused = listed]
    BY <1>2, Zenon DEF Evaluate
  <2> DEFINE q == [request[r] EXCEPT !.at = "saving", !.kept = items \ listed,
                                     !.left = items \ listed, !.refused = listed]
  <2>2. request' = [request EXCEPT ![r] = q] /\ UNCHANGED agent /\ stored' = stored
    BY <1>2, <2>1, Zenon DEF Evaluate
  <2>3. items \subseteq Items
    BY <1>1, DedupIs DEF RequestRec
  <2>4. items = dedupAlerts(request[r].alerts)
    OBVIOUS
  <2> HIDE DEF items
  <2>5. /\ q \in RequestRec /\ q.client = request[r].client
        /\ q.from = request[r].from /\ q.at = "saving"
        /\ q.left = items \ listed /\ q.refused = listed /\ q.alerts = request[r].alerts
    BY <1>1, <2>3, Zenon DEF RequestRec
  <2> HIDE DEF q
  <2>6. Progress(q, stored')
    BY <2>4, <2>5 DEF Progress
  <2>7. \A x \in Requests : SameFlight(x)
    BY <1>1, <2>2, <2>5 DEF SameFlight, Shape
  <2> QED BY <1>1, <2>2, <2>5, <2>6, <2>7, SameTable, HandlerStep, Zenon
<1>3. CASE SaveBatch(r)
  <2>1. PICK S \in SUBSET request[r].left : \E discarded \in SUBSET (S \cap Invalid) :
          /\ stored' = Bump(stored, S \ discarded)
          /\ request' = [request EXCEPT ![r].left = @ \ S,
                                        ![r].refused = @ \cup discarded]
    BY <1>3, Zenon DEF SaveBatch
  <2>2. PICK discarded \in SUBSET (S \cap Invalid) :
          /\ stored' = Bump(stored, S \ discarded)
          /\ request' = [request EXCEPT ![r].left = @ \ S,
                                        ![r].refused = @ \cup discarded]
    BY <2>1, Zenon
  <2> DEFINE q == [request[r] EXCEPT !.left = @ \ S, !.refused = @ \cup discarded]
  <2>3. request' = [request EXCEPT ![r] = q] /\ UNCHANGED agent
        /\ request[r].at = "saving"
    BY <1>3, <2>2, Zenon DEF SaveBatch
  <2>4. /\ q \in RequestRec /\ q.client = request[r].client
        /\ q.from = request[r].from /\ q.at = "saving"
        /\ q.left = request[r].left \ S /\ q.refused = request[r].refused \cup discarded
        /\ q.alerts = request[r].alerts
    BY <1>1, <2>3, Zenon DEF RequestRec
  <2> HIDE DEF q
  <2>5. Grows /\ \A i \in Items : i \in S \ discarded => stored'[i] >= 1
    BY <1>1, <2>2, BumpGrows
  <2>6. Progress(request[r], stored')
    BY <1>1, <2>5, ProgressKept
  <2>7. \A i \in dedupAlerts(q.alerts) : i \in Items
    BY <2>4, DedupIs DEF RequestRec
  <2>8. Progress(q, stored')
    BY <2>3, <2>4, <2>5, <2>6, <2>7 DEF Progress
  <2>9. \A x \in Requests : SameFlight(x)
    BY <1>1, <2>3, <2>4 DEF SameFlight, Shape
  <2> QED BY <2>3, <2>4, <2>5, <2>8, <2>9, HandlerStep, Zenon
<1>4. CASE Saved(r)
  <2> DEFINE q == [request[r] EXCEPT !.at = "stamp"]
  <2>1. request' = [request EXCEPT ![r] = q] /\ UNCHANGED agent
        /\ stored' = stored /\ request[r].at = "saving" /\ request[r].left = {}
    BY <1>1, <1>4 DEF Saved, Shape, server
  <2>2. /\ q \in RequestRec /\ q.client = request[r].client
        /\ q.from = request[r].from /\ q.at = "stamp"
        /\ q.left = {} /\ q.refused = request[r].refused
        /\ q.alerts = request[r].alerts
    BY <1>1, <2>1 DEF RequestRec
  <2> HIDE DEF q
  <2>3. Progress(q, stored')
    BY <1>1, <2>1, <2>2 DEF Progress
  <2>4. \A x \in Requests : SameFlight(x)
    BY <1>1, <2>1, <2>2 DEF SameFlight, Shape
  <2> QED BY <1>1, <2>1, <2>2, <2>3, <2>4, SameTable, HandlerStep, Zenon
<1> QED BY <1>2, <1>3, <1>4

\* A sender that gives up leaves the handler where it is.
LEMMA GiveUpKeeps ==
  ASSUME StoreInv, NEW r \in Requests, GiveUp(r)
  PROVE  StoreInv' /\ LetGo(r) /\ Waiting(r) /\ PushFailed(r)
<1>1. Shape /\ TableShape /\ request[r] \in RequestRec
      /\ Progress(request[r], stored)
  BY DEF StoreInv, Shape
<1> DEFINE q == [request[r] EXCEPT !.client = "gone"]
<1>2. /\ request' = [request EXCEPT ![r] = q] /\ stored' = stored
      /\ Waiting(r) /\ PushFailed(r) /\ request[r].at # "free"
  BY <1>1 DEF GiveUp, Shape, server, Waiting
<1>3. /\ q \in RequestRec /\ q.client = "gone" /\ q.at = request[r].at
      /\ q.left = request[r].left /\ q.refused = request[r].refused
      /\ q.alerts = request[r].alerts
  BY <1>1 DEF RequestRec
<1> HIDE DEF q
<1>4. Progress(q, stored') /\ WellSent(q)
  BY <1>1, <1>2, <1>3 DEF Progress, WellSent
<1>5. AckedIsStored'
  BY <1>1, <1>2, SameTable, FailedTypes, AckedKept DEF StoreInv, Shape
<1>6. StoreInv'
  BY <1>1, <1>2, <1>3, <1>4, <1>5, SameTable, FailedTypes, RequestStep, Zenon DEF Shape
<1>7. LetGo(r)
  BY <1>1, <1>2, <1>3 DEF LetGo, Shape
<1> QED BY <1>2, <1>6, <1>7

\* The steps of an output routine.
LEMMA RoutineKeeps ==
  ASSUME StoreInv, SingleOwner, NEW o \in Outputs, Routine(o)
  PROVE  StoreInv' /\ SingleOwner'
<1>1. Shape /\ TableShape
  BY DEF StoreInv
<1>2. ASSUME NEW a \in Alerts, AddAlert(o, a)
      PROVE  StoreInv' /\ SingleOwner'
  <2>1. UNCHANGED <<request, stored, acked, dropped, refused>> /\ offered' \subseteq Alerts
        /\ pending' \in [Outputs -> SUBSET Alerts]
    BY <1>1, <1>2 DEF AddAlert, Shape, server, history
  <2> QED BY <1>1, <1>2, <2>1, QuietStep, OwnerAdd DEF Shape
<1>3. ASSUME NEW r \in Requests, NEW final \in BOOLEAN, Send(o, r, final)
      PROVE  StoreInv' /\ SingleOwner'
  <2> DEFINE q == [at |-> "received", client |-> "waiting", final |-> final,
                   from |-> {o}, alerts |-> pending[o], kept |-> {}, left |-> {},
                   refused |-> {}]
  <2>1. /\ request' = [request EXCEPT ![r] = q]
        /\ pending' \in [Outputs -> SUBSET Alerts]
        /\ UNCHANGED <<offered, stored, acked, dropped, refused>>
    BY <1>1, <1>3, Zenon DEF Send, Shape, server, history
  <2>2. q \in RequestRec /\ WellSent(q) /\ q.at = "received"
    BY <1>1, Zenon DEF Shape, RequestRec, WellSent
  <2> HIDE DEF q
  <2>3. Progress(q, stored')
    BY <2>2 DEF Progress
  <2>4. AckedIsStored'
    BY <1>1, <2>1, SameTable, AckedKept DEF StoreInv, Shape
  <2> QED BY <1>1, <1>3, <2>1, <2>2, <2>3, <2>4, SameTable, RequestStep, OwnerSend, Zenon
          DEF Shape
<1>4. CASE NothingLeft(o)
  <2>1. UNCHANGED <<request, stored, acked, offered, pending, dropped, refused>>
    BY <1>4 DEF NothingLeft, server, history
  <2>2. \A x \in Requests : SameFlight(x)
    BY <2>1 DEF SameFlight
  <2> QED BY <1>1, <2>1, <2>2, QuietStep, OwnerStays DEF Shape
<1>5. CASE FinalDrop(o)
  <2>1. UNCHANGED <<request, stored, acked, offered, refused>> /\ dropped' \subseteq Alerts
        /\ pending' \in [Outputs -> SUBSET Alerts]
    BY <1>1, <1>5 DEF FinalDrop, Shape, server
  <2> QED BY <1>1, <1>5, <2>1, QuietStep, OwnerDrop DEF Shape
<1>6. ASSUME NEW a \in Alerts, PostOverflowFails(o, a)
      PROVE  StoreInv' /\ SingleOwner'
  <2>1. UNCHANGED <<request, stored, acked, pending, refused>> /\ offered' \subseteq Alerts
        /\ dropped' \subseteq Alerts
    BY <1>1, <1>6 DEF PostOverflowFails, Shape, server
  <2> QED BY <1>1, <1>6, <2>1, QuietStep, OwnerAbort DEF Shape
<1> QED BY <1>2, <1>3, <1>4, <1>5, <1>6, Zenon DEF Routine, TickerPush, FinalPush

\* An answer moves the alerts of a sender that waits.
LEMMA AnswerOwner ==
  ASSUME StoreInv, SingleOwner, NEW r \in Requests, NEW ok \in BOOLEAN, Answer(r, ok)
  PROVE  SingleOwner'
<1>1. Shape
  BY DEF StoreInv
<1>2. /\ request'[r] = Free
      /\ \A x \in Requests : x # r => request'[x] = request[x]
  BY <1>1 DEF Answer, Shape
<1>3. LetGo(r)
  BY <1>2, FreeIs DEF LetGo
<1>4. CASE request[r].client = "waiting" /\ PushDone(r)
  BY <1>1, <1>3, <1>4, OwnerDone DEF Waiting
<1>5. CASE request[r].client = "waiting" /\ PushFailed(r)
  BY <1>1, <1>3, <1>5, OwnerFailed DEF Waiting
<1>6. CASE request[r].client = "gone" /\ UNCHANGED agent
  <2>1. UNCHANGED <<offered, pending, acked, dropped>>
    BY <1>6 DEF agent
  <2>2. \A x \in Requests : SameFlight(x)
    BY <1>2, <1>6, FreeIs DEF SameFlight
  <2> QED BY <2>1, <2>2, OwnerStays
<1> QED BY <1>4, <1>5, <1>6 DEF Answer

\* The steps of a request: its handler, its failures and its sender.
LEMMA RequestKeeps ==
  ASSUME StoreInv, SingleOwner, NEW r \in Requests,
         Handler(r) \/ ServerFails(r) \/ EvaluateFails(r) \/ GiveUp(r)
  PROVE  StoreInv' /\ SingleOwner'
<1>1. Shape
  BY DEF StoreInv
<1>2. CASE Evaluate(r) \/ SaveBatch(r) \/ Saved(r)
  <2>1. UNCHANGED <<offered, pending, acked, dropped>>
    BY <1>2, Zenon DEF Evaluate, SaveBatch, Saved, agent
  <2> QED BY <1>2, <2>1, HandlerKeeps, OwnerStays
<1>3. CASE Finish(r)
  <2>1. Answer(r, TRUE) /\ stored' = stored /\ request[r].at = "stamp"
    BY <1>3, Zenon DEF Finish
  <2> QED BY <2>1, AnswerStep, AnswerOwner, Zenon
<1>4. CASE ServerFails(r) \/ EvaluateFails(r)
  <2>1. Answer(r, FALSE) /\ stored' = stored
    BY <1>4, Zenon DEF ServerFails, EvaluateFails, server
  <2> QED BY <2>1, AnswerStep, AnswerOwner, Zenon
<1>5. CASE GiveUp(r)
  BY <1>1, <1>5, GiveUpKeeps, OwnerFailed
<1> QED BY <1>2, <1>3, <1>4, <1>5 DEF Handler

\* Every step keeps both invariants.
LEMMA OutputStep ==
  ASSUME StoreInv, SingleOwner, [Next]_vars
  PROVE  StoreInv' /\ SingleOwner'
<1>1. Shape
  BY DEF StoreInv
<1>2. CASE KillOutputs \/ Cancel \/ UNCHANGED vars
  <2>1. UNCHANGED <<request, stored, acked, offered, pending, dropped, refused>>
    BY <1>2 DEF KillOutputs, Cancel, vars, server, history
  <2>2. \A x \in Requests : SameFlight(x)
    BY <2>1 DEF SameFlight
  <2> QED BY <1>1, <2>1, <2>2, QuietStep, OwnerStays DEF Shape
<1> QED BY <1>2, RoutineKeeps, RequestKeeps DEF Next

\* Initially every alert is offered and nothing is sent.
LEMMA OutputInit ==
  ASSUME Init
  PROVE  StoreInv /\ SingleOwner
<1>1. Shape
  BY FreeIs DEF Init, Shape
<1>2. TableShape /\ AckedIsStored
  BY DEF Init, TableShape, AckedIsStored, dedupAlerts
<1>3. \A r \in Requests : Progress(request[r], stored)
  BY FreeIs DEF Init, Progress
<1>4. SingleOwner
  <2> SUFFICES ASSUME NEW a \in Alerts, NEW x \in Places
               PROVE  At(a, x) <=> x = <<"offered", 0>>
    BY PlacesAre DEF SingleOwner
  <2>1. \A o \in Outputs : ~At(a, <<"buffer", o>>)
    BY DEF Init, At
  <2>2. \A r \in Requests : ~At(a, <<"flight", r>>)
    BY FreeIs DEF Init, At, Waiting
  <2>3. At(a, <<"offered", 0>>) /\ ~At(a, <<"acked", 0>>) /\ ~At(a, <<"dropped", 0>>)
    BY DEF Init, At
  <2> QED BY <2>1, <2>2, <2>3, Kinds
<1> QED BY <1>1, <1>2, <1>3, <1>4 DEF StoreInv

\* SingleOwner for every value of the constants: runOutput, its pushes and
\* its shutdown never lose or copy an alert.
THEOREM SingleOwnerHolds == Spec => []SingleOwner
<1> QED BY OutputInit, OutputStep, PTL DEF Spec

\* AckedIsStored for every value of the constants: CreateAlert answers with
\* success only when every batch was committed, and what an acknowledged push
\* did not store is on record as allowlisted or without a valid decision.
THEOREM AckedIsStoredHolds == Spec => []AckedIsStored
<1>1. StoreInv => AckedIsStored
  BY DEF StoreInv
<1> QED BY <1>1, OutputInit, OutputStep, PTL DEF Spec

-----------------------------------------------------------------------------
(* The other types.                                                        *)

\* A push that is over leaves the routines and the histories typed.
LEMMA ReturnsType ==
  ASSUME Shape, Rest, NEW r \in Requests,
         PushFailed(r) \/ PushDone(r) \/ UNCHANGED agent
  PROVE  /\ output' \in [Outputs -> {"select", "flush", "exited"}]
         /\ tomb' = tomb /\ cancelled' = cancelled
         /\ refused' \subseteq Items /\ late' \subseteq Alerts /\ abandoned' \subseteq Alerts
<1>1. request[r].alerts \subseteq Alerts /\ request[r].refused \subseteq Items
  BY DEF Shape, RequestRec
<1>2. /\ output' \in [Outputs -> {"select", "flush", "exited"}]
      /\ tomb' = tomb /\ cancelled' = cancelled
  BY Zenon DEF Rest, PushFailed, PushDone, Returns, agent
<1>3. refused' \subseteq Items /\ late' \subseteq Alerts /\ abandoned' \subseteq Alerts
  BY <1>1, Zenon DEF Rest, PushFailed, PushDone, agent, history
<1> QED BY <1>2, <1>3

\* The notifications stay numbers.
LEMMA NotifyType ==
  ASSUME Rest, NEW S, Notify(S)
  PROVE  notified' \in [Matches -> Nat]
BY DEF Rest, Notify

\* So do the failures.
LEMMA FailingType ==
  ASSUME Rest, NEW r, Failing(r)
  PROVE  failures' \in Nat
BY DEF Rest, Failing

\* Every step keeps them.
LEMMA RestStep ==
  ASSUME StoreInv, Rest, [Next]_vars
  PROVE  Rest'
<1>1. Shape
  BY DEF StoreInv
<1>2. CASE KillOutputs \/ Cancel \/ UNCHANGED vars
  <2>1. UNCHANGED <<output, notified, toCapi, failures, history>>
        /\ tomb' \in {tomb, "killed"} /\ cancelled' \in {cancelled, TRUE}
    BY <1>2, Zenon DEF KillOutputs, Cancel, vars, server
  <2>2. cancelled' \in BOOLEAN
    BY <2>1, Zenon DEF Rest
  <2> QED BY <2>1, <2>2 DEF Rest, history
<1>3. ASSUME NEW o \in Outputs, Routine(o) PROVE Rest'
  <2>1. /\ UNCHANGED <<cancelled, notified, toCapi, failures, refused>>
        /\ output' \in {output, [output EXCEPT ![o] = "exited"], [output EXCEPT ![o] = "flush"]}
        /\ tomb' \in {tomb, "failed"}
        /\ late' \in {late, late \cup pending[o]}
        /\ \/ abandoned' = abandoned
           \/ \E a \in Alerts : abandoned' = abandoned \cup {a} \cup pending[o]
    BY <1>3, Zenon DEF Routine, AddAlert, PostOverflowFails, TickerPush, FinalPush, Send,
                NothingLeft, FinalDrop, server, history
  <2>2. pending[o] \subseteq Alerts
    BY <1>1 DEF Shape
  <2>3. output' \in [Outputs -> {"select", "flush", "exited"}] /\ cancelled' \in BOOLEAN
    BY <2>1, Zenon DEF Rest
  <2>4. late' \subseteq Alerts /\ abandoned' \subseteq Alerts
    BY <2>1, <2>2 DEF Rest
  <2> QED BY <2>1, <2>3, <2>4 DEF Rest
<1>4. ASSUME NEW r \in Requests, Evaluate(r) \/ SaveBatch(r) \/ Saved(r)
      PROVE  Rest'
  <2>1. UNCHANGED <<agent, toCapi, failures>>
    BY <1>4, Zenon DEF Evaluate, SaveBatch, Saved, server
  <2>2. notified' = notified \/ \E S : Notify(S)
    BY <1>4, Zenon DEF Evaluate, SaveBatch, Saved, server
  <2>3. notified' \in [Matches -> Nat]
    BY <2>2, NotifyType DEF Rest
  <2> QED BY <2>1, <2>3 DEF Rest, agent, history
<1>5. ASSUME NEW r \in Requests, NEW ok \in BOOLEAN, Answer(r, ok),
             notified' \in [Matches -> Nat], toCapi' \in [Items -> Nat], failures' \in Nat
      PROVE  Rest'
  <2>1. PushFailed(r) \/ PushDone(r) \/ UNCHANGED agent
    BY <1>5 DEF Answer
  <2> QED BY <1>1, <1>5, <2>1, ReturnsType DEF Rest
<1>6. ASSUME NEW r \in Requests, Finish(r) PROVE Rest'
  <2>1. toCapi' \in [Items -> Nat] /\ UNCHANGED <<notified, failures>>
    BY <1>6, BumpIs DEF Finish, Rest
  <2> QED BY <1>5, <1>6, <2>1, Zenon DEF Finish, Rest
<1>7. ASSUME NEW r \in Requests, ServerFails(r) PROVE Rest'
  <2>1. failures' \in Nat /\ UNCHANGED <<notified, toCapi>>
    BY <1>7, FailingType, Zenon DEF ServerFails, server
  <2> QED BY <1>5, <1>7, <2>1, Zenon DEF ServerFails, Rest
<1>8. ASSUME NEW r \in Requests, EvaluateFails(r) PROVE Rest'
  <2>1. failures' \in Nat /\ UNCHANGED toCapi
    BY <1>8, FailingType, Zenon DEF EvaluateFails
  <2>2. notified' \in [Matches -> Nat]
    BY <1>8, NotifyType DEF EvaluateFails
  <2> QED BY <1>5, <1>8, <2>1, <2>2, Zenon DEF EvaluateFails, Rest
<1>9. ASSUME NEW r \in Requests, GiveUp(r) PROVE Rest'
  <2>1. failures' \in Nat /\ UNCHANGED <<notified, toCapi>> /\ PushFailed(r)
    BY <1>9 DEF GiveUp, server, Rest
  <2> QED BY <1>1, <2>1, ReturnsType DEF Rest
<1> QED BY <1>2, <1>3, <1>4, <1>6, <1>7, <1>8, <1>9 DEF Next, Handler

\* The invariants so far, together.
LEMMA OutputInvariant == Spec => [](StoreInv /\ SingleOwner /\ Rest)
<1>1. Init => Rest
  <2> SUFFICES ASSUME Init PROVE Rest
    OBVIOUS
  <2>1. cancelled \in BOOLEAN
    BY Zenon DEF Init
  <2>2. notified \in [Matches -> Nat] /\ toCapi \in [Items -> Nat] /\ failures \in Nat
    BY DEF Init
  <2>3. output \in [Outputs -> {"select", "flush", "exited"}]
        /\ tomb \in {"alive", "failed", "killed"}
    BY DEF Init
  <2>4. refused \subseteq Items /\ late \subseteq Alerts /\ abandoned \subseteq Alerts
    BY DEF Init
  <2> QED BY <2>1, <2>2, <2>3, <2>4 DEF Rest
<1> QED BY <1>1, OutputInit, OutputStep, RestStep, PTL DEF Spec

\* Types for every value of the constants.
THEOREM TypeCorrect == Spec => []TypeOK
<1>1. StoreInv /\ Rest => TypeOK
  <2>1. Shape /\ TableShape /\ Rest => TypeOK
    BY DEF Shape, RequestRec, TableShape, Rest, TypeOK
  <2> QED BY <2>1 DEF StoreInv
<1> QED BY <1>1, OutputInvariant, PTL

-----------------------------------------------------------------------------
(* What is not acknowledged in the end.                                    *)

\* The alerts whose push failed during the shutdown, or whose routine left
\* with an error.
Excused == late \cup abandoned

\* A routine past its select has only such alerts in its buffer, and nothing
\* else is dropped; routines leave their select when the tomb is dying; one
\* that waits for its final push has left.
FlushInv ==
  /\ tomb = "alive" => \A o \in Outputs : output[o] = "select"
  /\ \A o \in Outputs : output[o] # "select" => pending[o] \subseteq Excused
  /\ dropped \subseteq Excused
  /\ \A r \in Requests : Waiting(r) /\ request[r].final =>
       \A o \in request[r].from : output[o] # "select"

\* The last part survives when no routine returns to its select and a
\* request is final only if it was, or if its routine just left.
Flushed ==
  /\ \A o \in Outputs : output[o] # "select" => output'[o] # "select"
  /\ \A r \in Requests : Waiting(r)' /\ request'[r].final =>
       \/ Waiting(r) /\ request[r].final /\ request'[r].from = request[r].from
       \/ \A o \in request'[r].from : output'[o] # "select"

\* The other parts, of the next state.
Accounted ==
  /\ tomb' = "alive" => \A o \in Outputs : output'[o] = "select"
  /\ \A o \in Outputs : output'[o] # "select" => pending'[o] \subseteq Excused'
  /\ dropped' \subseteq Excused'

\* Both together keep FlushInv.
LEMMA FlushKept ==
  ASSUME FlushInv, Shape, Accounted, Flushed
  PROVE  FlushInv'
<1>1. \A r \in Requests : Waiting(r)' /\ request'[r].final =>
        \A o \in request'[r].from : output'[o] # "select"
  BY Zenon DEF FlushInv, Flushed, Shape, RequestRec
<1> QED BY <1>1, Zenon DEF FlushInv, Accounted

\* A step that leaves the routines, their buffers and the histories alone.
LEMMA AccountedSame ==
  ASSUME FlushInv, UNCHANGED <<output, pending, dropped, late, abandoned>>,
         tomb' = "alive" => tomb = "alive"
  PROVE  Accounted
BY DEF FlushInv, Accounted, Excused

\* The steps of a routine.
LEMMA FlushRoutine ==
  ASSUME Shape, Rest, FlushInv, NEW o \in Outputs, Routine(o)
  PROVE  Accounted /\ Flushed
<1>1. ASSUME NEW a \in Alerts, AddAlert(o, a) PROVE Accounted /\ Flushed
  <2>1. /\ UNCHANGED <<output, dropped, late, abandoned, tomb, request>> /\ output[o] = "select"
        /\ \A x \in Outputs : x # o => pending'[x] = pending[x]
    BY <1>1 DEF AddAlert, Shape, history
  <2> QED BY <2>1, Zenon DEF FlushInv, Accounted, Excused, Flushed, Waiting
<1>2. ASSUME NEW a \in Alerts, PostOverflowFails(o, a) PROVE Accounted /\ Flushed
  <2>1. /\ UNCHANGED <<pending, late, request>> /\ tomb' # "alive"
        /\ output'[o] = "exited" /\ \A x \in Outputs : x # o => output'[x] = output[x]
        /\ dropped' = dropped \cup {a} /\ abandoned' = abandoned \cup {a} \cup pending[o]
    BY <1>2 DEF PostOverflowFails, Rest
  <2>2. Accounted
    BY <2>1 DEF FlushInv, Accounted, Excused
  <2>3. Flushed
    BY <2>1 DEF Flushed, Waiting
  <2> QED BY <2>2, <2>3
<1>3. CASE NothingLeft(o)
  <2>1. /\ UNCHANGED <<pending, dropped, late, abandoned, tomb, request>> /\ tomb # "alive"
        /\ output'[o] = "exited" /\ \A x \in Outputs : x # o => output'[x] = output[x]
        /\ pending[o] = {}
    BY <1>3, Zenon DEF NothingLeft, Rest, history
  <2> QED BY <2>1 DEF FlushInv, Accounted, Excused, Flushed, Waiting
<1>4. CASE FinalDrop(o)
  <2>1. /\ UNCHANGED <<abandoned, tomb, request>> /\ tomb # "alive"
        /\ output'[o] = "exited" /\ \A x \in Outputs : x # o => output'[x] = output[x]
        /\ pending'[o] = {} /\ \A x \in Outputs : x # o => pending'[x] = pending[x]
        /\ dropped' = dropped \cup pending[o] /\ late' = late \cup pending[o]
    BY <1>4 DEF FinalDrop, Rest, Shape
  <2>2. Accounted
    BY <2>1 DEF FlushInv, Accounted, Excused
  <2>3. Flushed
    BY <2>1 DEF Flushed, Waiting
  <2> QED BY <2>2, <2>3
<1>5. ASSUME NEW r \in Requests, NEW final \in BOOLEAN, Send(o, r, final),
             \/ UNCHANGED output /\ ~final
             \/ output' = [output EXCEPT ![o] = "flush"] /\ tomb # "alive"
      PROVE  Accounted /\ Flushed
  <2>1. /\ request'[r].final = final /\ request'[r].from = {o}
        /\ \A x \in Requests : x # r => request'[x] = request[x]
        /\ pending'[o] = {} /\ \A x \in Outputs : x # o => pending'[x] = pending[x]
        /\ UNCHANGED <<dropped, late, abandoned, tomb>>
    BY <1>5 DEF Send, Shape, history
  <2>2. \A x \in Outputs : x # o => output'[x] = output[x]
    BY <1>5 DEF Rest
  <2>3. final => output'[o] # "select"
    BY <1>5 DEF Rest
  <2>4. output[o] # "select" => output'[o] # "select"
    BY <1>5 DEF Rest
  <2>5. tomb' = "alive" => output' = output
    BY <1>5, <2>1
  <2>6. Accounted
    BY <2>1, <2>2, <2>5 DEF FlushInv, Accounted, Excused
  <2>7. Flushed
    BY <2>1, <2>2, <2>3, <2>4 DEF Flushed, Waiting
  <2> QED BY <2>6, <2>7
<1>6. ASSUME NEW r \in Requests, TickerPush(o, r) \/ FinalPush(o, r)
      PROVE  Accounted /\ Flushed
  BY <1>5, <1>6, Zenon DEF TickerPush, FinalPush
<1> QED BY <1>1, <1>2, <1>3, <1>4, <1>6 DEF Routine

\* The answer of a handler, and a sender that gives up: who returns made its
\* final push before, so that what it drops failed during the shutdown.
LEMMA FlushReturns ==
  ASSUME Shape, Rest, FlushInv, NEW r \in Requests,
         \A x \in Requests : x # r => request'[x] = request[x], ~Waiting(r)',
         \/ UNCHANGED agent
         \/ Waiting(r) /\ (PushDone(r) \/ PushFailed(r))
  PROVE  Accounted /\ Flushed
<1>1. UNCHANGED output \/ Returns(r)
  BY DEF PushDone, PushFailed, agent
<1>2. \A o \in Outputs : output[o] # "select" => output'[o] # "select"
  BY <1>1, Zenon DEF Rest, Returns
<1>3. Flushed
  BY <1>2, Zenon DEF Flushed, Waiting
<1>4. CASE UNCHANGED agent
  <2>1. UNCHANGED <<output, pending, dropped, late, abandoned, tomb>>
    BY <1>4 DEF agent, history
  <2> QED BY <1>3, <2>1, AccountedSame
<1>5. CASE Waiting(r) /\ (PushDone(r) \/ PushFailed(r))
  <2>1. PICK o \in Outputs : request[r].from = {o}
    BY <1>5 DEF Shape, WellSent, Waiting
  <2>2. request[r].final => output[o] # "select" /\ tomb # "alive"
    BY <1>5, <2>1, Zenon DEF FlushInv
  <2>3. \A x \in Outputs : output'[x] = IF request[r].final /\ x = o THEN "exited" ELSE output[x]
    BY <1>5, <2>1, Zenon DEF PushDone, PushFailed, Returns
  <2>4. \A x \in Outputs : output'[x] # "select" => output[x] # "select"
    BY <2>2, <2>3
  <2>5. CASE PushDone(r)
    <3>1. UNCHANGED <<pending, dropped, late, abandoned, tomb>>
      BY <2>5 DEF PushDone
    <3> QED BY <1>3, <2>4, <3>1, Zenon DEF FlushInv, Accounted, Excused
  <2>6. CASE PushFailed(r)
    <3>1. /\ UNCHANGED <<abandoned, tomb>>
          /\ late' = IF tomb = "alive" THEN late ELSE late \cup request[r].alerts
          /\ dropped' = IF request[r].final THEN dropped \cup request[r].alerts ELSE dropped
          /\ \A x \in Outputs : pending'[x] \subseteq pending[x] \cup request[r].alerts
      BY <2>6, Zenon DEF PushFailed
    <3>2. tomb = "alive" => \A x \in Outputs : output'[x] = "select"
      BY <2>4, Zenon DEF FlushInv
    <3>3. dropped' \subseteq Excused'
      BY <2>2, <3>1, Zenon DEF FlushInv, Excused
    <3>4. \A x \in Outputs : output'[x] # "select" => pending'[x] \subseteq Excused'
      BY <2>4, <3>1, <3>2 DEF FlushInv, Excused
    <3> QED BY <1>3, <3>1, <3>2, <3>3, <3>4 DEF Accounted
  <2> QED BY <1>5, <2>5, <2>6
<1> QED BY <1>4, <1>5

\* FlushInv is inductive relative to the other invariants.
LEMMA FlushStep ==
  ASSUME StoreInv, Rest, FlushInv, [Next]_vars
  PROVE  FlushInv'
<1>1. Shape
  BY DEF StoreInv
<1>2. CASE KillOutputs \/ Cancel \/ UNCHANGED vars
  <2>1. UNCHANGED <<output, pending, dropped, late, abandoned, request>>
        /\ (tomb' = "alive" => tomb = "alive")
    BY <1>2 DEF KillOutputs, Cancel, vars, history
  <2>2. Flushed
    BY <2>1 DEF Flushed, Waiting
  <2> QED BY <1>1, <2>1, <2>2, AccountedSame, FlushKept
<1>3. ASSUME NEW r \in Requests, Evaluate(r) \/ SaveBatch(r) \/ Saved(r)
      PROVE  FlushInv'
  <2>1. UNCHANGED <<output, pending, dropped, late, abandoned, tomb>>
    BY <1>3, Zenon DEF Evaluate, SaveBatch, Saved, agent, history
  <2>2. \A x \in Requests : /\ request'[x].client = request[x].client
                            /\ request'[x].final = request[x].final
                            /\ request'[x].from = request[x].from
    <3>1. CASE Evaluate(r)
      BY <1>1, <3>1 DEF Evaluate, Shape, RequestRec
    <3>2. CASE SaveBatch(r)
      BY <1>1, <3>2 DEF SaveBatch, Shape, RequestRec
    <3>3. CASE Saved(r)
      BY <1>1, <3>3 DEF Saved, Shape, RequestRec
    <3> QED BY <1>3, <3>1, <3>2, <3>3
  <2>3. Flushed
    BY <2>1, <2>2 DEF Flushed, Waiting
  <2> QED BY <1>1, <2>1, <2>3, AccountedSame, FlushKept
<1>4. ASSUME NEW r \in Requests, Finish(r) \/ ServerFails(r) \/ EvaluateFails(r)
      PROVE  FlushInv'
  <2>1. request' = [request EXCEPT ![r] = Free]
        /\ (UNCHANGED agent \/ (Waiting(r) /\ (PushDone(r) \/ PushFailed(r))))
    BY <1>4, Zenon DEF Finish, ServerFails, EvaluateFails, Answer, Waiting
  <2>2. ~Waiting(r)' /\ \A x \in Requests : x # r => request'[x] = request[x]
    BY <1>1, <2>1, FreeIs DEF Shape, Waiting
  <2> QED BY <1>1, <2>1, <2>2, FlushReturns, FlushKept
<1>5. ASSUME NEW r \in Requests, GiveUp(r) PROVE FlushInv'
  <2>1. ~Waiting(r)' /\ \A x \in Requests : x # r => request'[x] = request[x]
    BY <1>1, <1>5 DEF GiveUp, Shape, RequestRec, Waiting
  <2>2. Waiting(r) /\ PushFailed(r)
    BY <1>5 DEF GiveUp, Waiting
  <2> QED BY <1>1, <2>1, <2>2, FlushReturns, FlushKept, Zenon
<1> QED BY <1>1, <1>2, <1>3, <1>4, <1>5, FlushRoutine, FlushKept DEF Next, Handler

\* LostOnlyOnFailure for every value of the constants: when all is over, an
\* alert runOutput was given is acknowledged, unless its push failed while
\* outputsTomb was dying or its routine left with a postoverflow error.
THEOREM LostOnlyOnFailureHolds == Spec => []LostOnlyOnFailure
<1>1. Init => FlushInv
  BY FreeIs DEF Init, FlushInv, Waiting
<1>2. SingleOwner /\ FlushInv => LostOnlyOnFailure
  <2> SUFFICES ASSUME SingleOwner, FlushInv,
                      \A o \in Outputs : output[o] = "exited",
                      \A r \in Requests : ~Waiting(r),
                      NEW a \in Alerts, a \notin offered
               PROVE  a \in acked \/ a \in Excused
    BY DEF LostOnlyOnFailure, Excused
  <2>1. PICK p \in Places : At(a, p)
    BY DEF SingleOwner
  <2>2. \A o \in Outputs : At(a, <<"buffer", o>>) => a \in Excused
    BY AtBuffer, Zenon DEF FlushInv
  <2>3. \A r \in Requests : ~At(a, <<"flight", r>>)
    BY AtBuffer, Zenon
  <2>4. (At(a, <<"dropped", 0>>) => a \in Excused) /\ ~At(a, <<"offered", 0>>)
    BY AtBuffer, Zenon DEF FlushInv
  <2> QED BY <2>1, <2>2, <2>3, <2>4, Kinds, AtBuffer, Zenon
<1> QED BY <1>1, <1>2, FlushStep, OutputInvariant, PTL DEF Spec

=============================================================================
