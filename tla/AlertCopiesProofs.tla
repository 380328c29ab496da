-------------------------- MODULE AlertCopiesProofs --------------------------
(***************************************************************************)
(* Proof that an item is stored, announced and offered to the central API  *)
(* at most once more than pushes failed (CopiesBounded), from the          *)
(* invariants of AlertOutputProofs.                                        *)
(*                                                                         *)
(* CountInv adds to what was done with an item what the requests in flight *)
(* may still do with it, and the push that is still to come.               *)
(***************************************************************************)
EXTENDS AlertOutputProofs, FiniteSetTheorems

-----------------------------------------------------------------------------
(* How often an item is stored, offered to the central API and announced.  *)

One(b) == IF b THEN 1 ELSE 0

\* What the handler of request q may still do with item i: announce it for a
\* profile, store it, offer it, or offer it having stored it.
May(k, q, i) ==
  \/ k \in {"notify", "store", "offer"} /\ q.at = "received" /\ i[1] \in q.alerts
  \/ k = "store" /\ q.at = "saving" /\ i \in q.left
  \/ k = "offer" /\ q.at \in {"saving", "stamp"} /\ i \in q.kept
  \/ k = "forward" /\ q.at \in {"saving", "stamp"} /\ i \in q.kept /\ i \notin q.left

To(k, i) == Cardinality({r \in Requests : May(k, request[r], i)})

\* The alert of i may be sent once more.
Unsent(i) == ~cancelled /\ (i[1] \in offered \/ \E o \in Outputs : i[1] \in pending[o])

\* What was done (n times) and may still be done with an item, and the push
\* to come, is at most one more than the failures.
Budget(k, i, n) == n + To(k, i) + One(Unsent(i)) <= 1 + failures

\* An item that is not dropped for its decisions is offered after it is stored.
Forwarded(i) == i \notin Invalid => toCapi[i] + To("forward", i) <= stored[i]

CountInv ==
  /\ \A i \in Items : /\ Budget("store", i, stored[i])
                      /\ Budget("offer", i, toCapi[i])
                      /\ Forwarded(i)
  /\ \A n \in Matches : Budget("notify", n[1], notified[n])

\* The budget after a step.
BudgetNext(k, i, m) == m + To(k, i)' + One(Unsent(i)') <= 1 + failures'

\* Two sets of requests that differ at most in r.
LEMMA CardinalityOf ==
  ASSUME NEW S \in SUBSET Requests, NEW T \in SUBSET Requests, NEW r \in Requests,
         \A x \in Requests : x # r => (x \in S <=> x \in T)
  PROVE  /\ Cardinality(S) \in Nat /\ Cardinality(T) \in Nat
         /\ Cardinality(T) + One(r \in S) = Cardinality(S) + One(r \in T)
<1>1. IsFiniteSet(S) /\ IsFiniteSet(T)
  BY OutputAssumption, FS_Subset
<1>2. Cardinality(S) \in Nat /\ Cardinality(T) \in Nat
  BY <1>1, FS_CardinalityType
<1>3. S \ {r} = T \ {r}
  OBVIOUS
<1>4. Cardinality(S \ {r}) = IF r \in S THEN Cardinality(S) - 1 ELSE Cardinality(S)
  BY <1>1, FS_RemoveElement
<1>5. Cardinality(T \ {r}) = IF r \in T THEN Cardinality(T) - 1 ELSE Cardinality(T)
  BY <1>1, FS_RemoveElement
<1> QED BY <1>2, <1>3, <1>4, <1>5 DEF One

\* The counts are numbers.
LEMMA CountType ==
  ASSUME NEW k, NEW i
  PROVE  To(k, i) \in Nat
<1>1. \A S \in SUBSET Requests : Cardinality(S) \in Nat
  BY OutputAssumption, FS_Subset, FS_CardinalityType
<1> QED BY <1>1 DEF To

\* A request that becomes q counts as q does.
LEMMA CountOne ==
  ASSUME Shape, NEW r \in Requests, NEW q, request' = [request EXCEPT ![r] = q],
         NEW k, NEW i
  PROVE  /\ To(k, i)' + One(May(k, request[r], i)) = To(k, i) + One(May(k, q, i))
         /\ To(k, i)' \in Nat
<1>1. request'[r] = q /\ \A x \in Requests : x # r => request'[x] = request[x]
  BY DEF Shape
<1> DEFINE S == {x \in Requests : May(k, request[x], i)}
           T == {x \in Requests : May(k, request'[x], i)}
<1>2. To(k, i)' = Cardinality(T) /\ To(k, i) = Cardinality(S)
  BY DEF To, May
<1>3. /\ (r \in S <=> May(k, request[r], i)) /\ (r \in T <=> May(k, q, i))
      /\ \A x \in Requests : x # r => (x \in S <=> x \in T)
  BY <1>1
<1>4. S \in SUBSET Requests /\ T \in SUBSET Requests
  OBVIOUS
<1> HIDE DEF S, T
<1>5. /\ Cardinality(T) + One(r \in S) = Cardinality(S) + One(r \in T)
      /\ Cardinality(T) \in Nat
  BY <1>3, <1>4, CardinalityOf
<1> QED BY <1>2, <1>3, <1>5 DEF One

\* n things done become m: one more only if it was due and is not any more,
\* and nothing becomes due.
Due(k, i, r, q, n, m) ==
  /\ m = n \/ (m = n + 1 /\ May(k, request[r], i) /\ ~May(k, q, i))
  /\ May(k, q, i) => May(k, request[r], i)

\* An alert can be sent again only after one more failure.
Paid(i) ==
  \/ failures' = failures /\ (Unsent(i)' => Unsent(i))
  \/ failures' = failures + 1

\* A handler that does what was due keeps the budget.
LEMMA BudgetKept ==
  ASSUME Shape, failures \in Nat, NEW r \in Requests, NEW q,
         request' = [request EXCEPT ![r] = q], NEW k, NEW i, NEW n \in Nat, NEW m,
         Budget(k, i, n), Due(k, i, r, q, n, m), Paid(i)
  PROVE  BudgetNext(k, i, m)
<1>1. /\ To(k, i)' + One(May(k, request[r], i)) = To(k, i) + One(May(k, q, i))
      /\ To(k, i)' \in Nat
  BY CountOne, Zenon
<1>2. /\ One(May(k, q, i)) \in Nat /\ One(May(k, request[r], i)) \in Nat
      /\ One(Unsent(i)) \in Nat /\ One(Unsent(i)') \in Nat
  BY DEF One
<1>3. /\ m \in Nat
      /\ m + One(May(k, q, i)) <= n + One(May(k, request[r], i))
  BY DEF Due, One
<1>4. /\ failures' \in Nat
      /\ One(Unsent(i)') + failures <= One(Unsent(i)) + failures'
  BY DEF Paid, One
<1>5. n + To(k, i) + One(Unsent(i)) <= 1 + failures
  BY Zenon DEF Budget
<1>6. To(k, i) \in Nat
  BY CountType
<1>7. m + To(k, i)' + One(Unsent(i)') <= 1 + failures'
  BY <1>1, <1>2, <1>3, <1>4, <1>5, <1>6
<1> QED BY <1>7, Zenon DEF BudgetNext

\* CountInv after a step, told with BudgetNext.
LEMMA CountNext ==
  ASSUME \A i \in Items : /\ BudgetNext("store", i, stored'[i])
                          /\ BudgetNext("offer", i, toCapi'[i])
                          /\ i \notin Invalid => toCapi'[i] + To("forward", i)' <= stored'[i],
         \A n \in Matches : BudgetNext("notify", n[1], notified'[n])
  PROVE  CountInv'
<1>1. \A i : One(Unsent(i)') = One(Unsent(i))'
  BY Zenon DEF One
<1>2. \A i \in Items : Budget("store", i, stored[i])' /\ Budget("offer", i, toCapi[i])'
                       /\ Forwarded(i)'
  BY <1>1, Zenon DEF Budget, BudgetNext, Forwarded
<1>3. \A n \in Matches : Budget("notify", n[1], notified[n])'
  BY <1>1, Zenon DEF Budget, BudgetNext
<1> QED BY <1>2, <1>3, Zenon DEF CountInv

\* Offering follows storing.
Follows(i, r, q) ==
  toCapi'[i] + One(May("forward", q, i)) + stored[i]
    <= toCapi[i] + One(May("forward", request[r], i)) + stored'[i]

\* What a step of request r, which becomes q, must do to keep CountInv.
Careful(r, q) ==
  /\ \A i \in Items : /\ Due("store", i, r, q, stored[i], stored'[i])
                      /\ Due("offer", i, r, q, toCapi[i], toCapi'[i])
                      /\ i \notin Invalid => Follows(i, r, q)
  /\ \A n \in Matches : Due("notify", n[1], r, q, notified[n], notified'[n])

LEMMA CarefulKeeps ==
  ASSUME Shape, TableShape, Rest, TableShape', Rest', CountInv,
         NEW r \in Requests, NEW q, request' = [request EXCEPT ![r] = q],
         \A i : Paid(i), Careful(r, q)
  PROVE  CountInv'
<1>1. failures \in Nat /\ \A n \in Matches : notified[n] \in Nat
  BY DEF Rest
<1>2. \A i \in Items : /\ stored[i] \in Nat /\ toCapi[i] \in Nat
                       /\ stored'[i] \in Nat /\ toCapi'[i] \in Nat
  BY DEF TableShape, Rest
<1>3. ASSUME NEW i \in Items
      PROVE  BudgetNext("store", i, stored'[i]) /\ BudgetNext("offer", i, toCapi'[i])
  BY <1>1, <1>2, BudgetKept, Zenon DEF CountInv, Careful
<1>4. ASSUME NEW n \in Matches
      PROVE  BudgetNext("notify", n[1], notified'[n])
  BY <1>1, BudgetKept, Zenon DEF CountInv, Careful
<1>5. ASSUME NEW i \in Items, i \notin Invalid
      PROVE  toCapi'[i] + To("forward", i)' <= stored'[i]
  <2>1. /\ To("forward", i)' + One(May("forward", request[r], i))
             = To("forward", i) + One(May("forward", q, i))
        /\ To("forward", i)' \in Nat
    BY CountOne, Zenon
  <2>2. One(May("forward", request[r], i)) \in Nat /\ One(May("forward", q, i)) \in Nat
    BY DEF One
  <2>3. toCapi[i] + To("forward", i) <= stored[i]
    BY <1>5, Zenon DEF CountInv, Forwarded
  <2>4. toCapi'[i] + One(May("forward", q, i)) + stored[i]
          <= toCapi[i] + One(May("forward", request[r], i)) + stored'[i]
    BY <1>5, Zenon DEF Careful, Follows
  <2>5. To("forward", i) \in Nat
    BY CountType
  <2> QED BY <1>2, <2>1, <2>2, <2>3, <2>4, <2>5
<1> QED BY <1>3, <1>4, <1>5, CountNext, Zenon

\* A step away from the requests and the tables, that lets no alert be sent
\* again.
LEMMA CountQuiet ==
  ASSUME TableShape, Rest, UNCHANGED <<request, stored, notified, toCapi, failures>>,
         CountInv, \A i : Unsent(i)' => Unsent(i)
  PROVE  CountInv'
<1>1. \A k, i : To(k, i)' = To(k, i)
  BY DEF To, May
<1>2. ASSUME NEW k, NEW i, NEW n \in Nat, Budget(k, i, n)
      PROVE  BudgetNext(k, i, n)
  <2>1. One(Unsent(i)') \in Nat /\ One(Unsent(i)) \in Nat /\ One(Unsent(i)') <= One(Unsent(i))
    BY DEF One
  <2>2. To(k, i) \in Nat /\ failures \in Nat
    BY CountType DEF Rest
  <2>3. n + To(k, i) + One(Unsent(i)) <= 1 + failures
    BY <1>2, Zenon DEF Budget
  <2>4. n + To(k, i) + One(Unsent(i)') <= 1 + failures
    BY <2>1, <2>2, <2>3
  <2> QED BY <1>1, <2>4 DEF BudgetNext
<1>3. /\ \A i \in Items : stored[i] \in Nat /\ toCapi[i] \in Nat
      /\ \A n \in Matches : notified[n] \in Nat
  BY DEF TableShape, Rest
<1>4. \A i \in Items : /\ BudgetNext("store", i, stored'[i]) /\ BudgetNext("offer", i, toCapi'[i])
                       /\ i \notin Invalid => toCapi'[i] + To("forward", i)' <= stored'[i]
  BY <1>1, <1>2, <1>3 DEF CountInv, Forwarded
<1>5. \A n \in Matches : BudgetNext("notify", n[1], notified'[n])
  BY <1>2, <1>3 DEF CountInv
<1> QED BY <1>4, <1>5, CountNext, Zenon

\* takeAll and PushAlerts: the push to come becomes a request.
LEMMA CountSend ==
  ASSUME StoreInv, SingleOwner, Rest, TableShape', Rest', CountInv, NEW o \in Outputs,
         NEW r \in Requests, NEW final \in BOOLEAN, Send(o, r, final)
  PROVE  CountInv'
<1> DEFINE q == [at |-> "received", client |-> "waiting", final |-> final,
                 from |-> {o}, alerts |-> pending[o], kept |-> {}, left |-> {},
                 refused |-> {}]
<1>1. Shape /\ TableShape
  BY DEF StoreInv
<1>2. /\ request' = [request EXCEPT ![r] = q] /\ request[r].at = "free" /\ ~cancelled
      /\ UNCHANGED <<offered, cancelled, stored, notified, toCapi, failures>>
      /\ pending'[o] = {} /\ \A x \in Outputs : x # o => pending'[x] = pending[x]
      /\ pending[o] \subseteq Alerts
  BY <1>1, Zenon DEF Send, server, Shape
<1>3. q.at = "received" /\ q.alerts = pending[o]
  OBVIOUS
<1> HIDE DEF q
<1>4. ASSUME NEW k, NEW i, NEW n \in Nat, Budget(k, i, n) PROVE BudgetNext(k, i, n)
  <2>1. ~May(k, request[r], i) /\ (May(k, q, i) => i[1] \in pending[o])
    BY <1>2, <1>3, Zenon DEF May
  <2>2. i[1] \in pending[o] => i[1] \notin offered
                               /\ \A x \in Outputs : i[1] \in pending[x] => x = o
    BY <1>2, WhenPending DEF NotEnded
  <2>3. (Unsent(i)' => Unsent(i) /\ i[1] \notin pending[o]) /\ (i[1] \in pending[o] => Unsent(i))
    BY <1>2, <2>2 DEF Unsent
  <2>4. /\ One(May(k, request[r], i)) = 0 /\ One(May(k, q, i)) \in Nat
        /\ One(Unsent(i)) \in Nat /\ One(Unsent(i)') \in Nat
        /\ One(May(k, q, i)) + One(Unsent(i)') <= One(Unsent(i))
    BY <2>1, <2>3 DEF One
  <2>5. /\ To(k, i)' + One(May(k, request[r], i)) = To(k, i) + One(May(k, q, i))
        /\ To(k, i)' \in Nat
    BY <1>1, <1>2, CountOne, Zenon
  <2>6. To(k, i) \in Nat /\ failures \in Nat
    BY CountType DEF Rest
  <2>7. n + To(k, i) + One(Unsent(i)) <= 1 + failures
    BY <1>4, Zenon DEF Budget
  <2>8. n + To(k, i)' + One(Unsent(i)') <= 1 + failures
    BY <2>4, <2>5, <2>6, <2>7
  <2> QED BY <1>2, <2>8, Zenon DEF BudgetNext
<1>5. ASSUME NEW i PROVE To("forward", i)' = To("forward", i)
  <2>1. ~May("forward", request[r], i) /\ ~May("forward", q, i)
    BY <1>2, <1>3 DEF May
  <2>2. One(May("forward", request[r], i)) = 0 /\ One(May("forward", q, i)) = 0
    BY <2>1 DEF One
  <2>3. To("forward", i)' + One(May("forward", request[r], i))
          = To("forward", i) + One(May("forward", q, i))
        /\ To("forward", i)' \in Nat
    BY <1>1, <1>2, CountOne, Zenon
  <2>4. To("forward", i) \in Nat
    BY CountType
  <2> QED BY <2>2, <2>3, <2>4
<1>6. /\ \A i \in Items : stored[i] \in Nat /\ toCapi[i] \in Nat
      /\ \A n \in Matches : notified[n] \in Nat
  BY <1>1 DEF TableShape, Rest
<1>7. \A i \in Items : /\ BudgetNext("store", i, stored'[i]) /\ BudgetNext("offer", i, toCapi'[i])
                       /\ i \notin Invalid => toCapi'[i] + To("forward", i)' <= stored'[i]
  BY <1>2, <1>4, <1>5, <1>6 DEF CountInv, Forwarded
<1>8. \A n \in Matches : BudgetNext("notify", n[1], notified'[n])
  BY <1>2, <1>4, <1>6 DEF CountInv
<1> QED BY <1>7, <1>8, CountNext, Zenon

\* A step that stores and offers nothing, makes nothing due, and announces
\* only what was due.
LEMMA NoCopy ==
  ASSUME TableShape, Rest, NEW r \in Requests, NEW q, UNCHANGED <<stored, toCapi>>,
         \A k, i : May(k, q, i) => May(k, request[r], i),
         \A n \in Matches :
           \/ notified'[n] = notified[n]
           \/ /\ notified'[n] = notified[n] + 1
              /\ May("notify", request[r], n[1]) /\ ~May("notify", q, n[1])
  PROVE  Careful(r, q)
<1>1. \A n \in Matches : Due("notify", n[1], r, q, notified[n], notified'[n])
  BY Zenon DEF Due
<1>2. \A i \in Items : /\ Due("store", i, r, q, stored[i], stored'[i])
                       /\ Due("offer", i, r, q, toCapi[i], toCapi'[i])
  BY Zenon DEF Due
<1>3. ASSUME NEW i \in Items PROVE Follows(i, r, q)
  <2>1. stored[i] \in Nat /\ toCapi[i] \in Nat
    BY DEF TableShape, Rest
  <2>2. /\ One(May("forward", q, i)) <= One(May("forward", request[r], i))
        /\ One(May("forward", q, i)) \in Nat /\ One(May("forward", request[r], i)) \in Nat
    BY DEF One
  <2> QED BY <2>1, <2>2 DEF Follows
<1> QED BY <1>1, <1>2, <1>3, Zenon DEF Careful

\* A free slot has nothing left to do.
LEMMA FreeDoesNothing ==
  ASSUME NEW k, NEW i
  PROVE  ~May(k, Free, i)
BY DEF Free, May

\* What the loop over the profiles announces was due.
LEMMA NotifiedOnce ==
  ASSUME Rest, NEW r \in Requests, request[r].at = "received", NEW S,
         S \subseteq ProfileAlerts(dedupAlerts(request[r].alerts)), Notify(S),
         NEW n \in Matches
  PROVE  \/ notified'[n] = notified[n]
         \/ notified'[n] = notified[n] + 1 /\ May("notify", request[r], n[1])
<1>1. notified'[n] = IF n \in S THEN notified[n] + 1 ELSE notified[n]
  BY DEF Notify
<1>2. n \in S => n[1] \in dedupAlerts(request[r].alerts)
  BY DEF ProfileAlerts
<1>3. n \in S => n[1][1] \in request[r].alerts
  BY <1>2, DedupOf
<1>4. n \in S => May("notify", request[r], n[1])
  BY <1>3 DEF May
<1> QED BY <1>1, <1>4

\* The loop over the items.
LEMMA CountEvaluate ==
  ASSUME Shape, TableShape, Rest, NEW r \in Requests, Evaluate(r)
  PROVE  \E q : request' = [request EXCEPT ![r] = q] /\ Careful(r, q)
<1> DEFINE items == dedupAlerts(request[r].alerts)
<1>1. PICK listed \in SUBSET (items \cap Listable) :
        /\ \E S \in SUBSET ProfileAlerts(items \ listed) : Notify(S)
        /\ request' = [request EXCEPT ![r].at = "saving", ![r].kept = items \ listed,
                                      ![r].left = items \ listed, ![r].refused = listed]
  BY Zenon DEF Evaluate
<1>2. PICK S \in SUBSET ProfileAlerts(items \ listed) : Notify(S)
  BY <1>1
<1>3. request[r].at = "received" /\ UNCHANGED <<stored, toCapi>>
  BY Zenon DEF Evaluate
<1> DEFINE q == [request[r] EXCEPT !.at = "saving", !.kept = items \ listed,
                                   !.left = items \ listed, !.refused = listed]
<1>4. request' = [request EXCEPT ![r] = q]
  BY <1>1, Zenon
<1>5. q.at = "saving" /\ q.kept = items \ listed /\ q.left = items \ listed
  BY DEF Shape, RequestRec
<1>6. \A i \in items \ listed : i[1] \in request[r].alerts
  BY DedupOf
<1>7. S \subseteq ProfileAlerts(items)
  BY DEF ProfileAlerts
<1> HIDE DEF q
<1>8. \A k, i : May(k, q, i) => May(k, request[r], i)
  BY <1>3, <1>5, <1>6 DEF May
<1>9. \A i : ~May("notify", q, i)
  BY <1>5 DEF May
<1>10. \A n \in Matches :
         \/ notified'[n] = notified[n]
         \/ notified'[n] = notified[n] + 1 /\ May("notify", request[r], n[1])
  BY <1>2, <1>3, <1>7, NotifiedOnce
<1>11. Careful(r, q)
  BY <1>3, <1>8, <1>9, <1>10, NoCopy
<1> QED BY <1>4, <1>11, Zenon

\* The end of the loop over the batches.
LEMMA CountSaved ==
  ASSUME Shape, TableShape, Rest, NEW r \in Requests, Saved(r)
  PROVE  \E q : request' = [request EXCEPT ![r] = q] /\ Careful(r, q)
<1> DEFINE q == [request[r] EXCEPT !.at = "stamp"]
<1>1. q.at = "stamp" /\ q.kept = request[r].kept /\ q.left = request[r].left
  BY DEF Shape, RequestRec
<1>2. request' = [request EXCEPT ![r] = q] /\ request[r].at = "saving"
      /\ UNCHANGED <<stored, notified, toCapi>>
  BY DEF Saved, server
<1> HIDE DEF q
<1>3. \A k, i : May(k, q, i) => May(k, request[r], i)
  BY <1>1, <1>2 DEF May
<1>4. Careful(r, q)
  BY <1>2, <1>3, NoCopy
<1> QED BY <1>2, <1>4, Zenon

\* A committed batch: what may be stored is stored, and may be forwarded.
LEMMA CountSave ==
  ASSUME Shape, TableShape, Rest, NEW r \in Requests, SaveBatch(r)
  PROVE  \E q : request' = [request EXCEPT ![r] = q] /\ Careful(r, q)
<1>0. PICK S \in SUBSET request[r].left : \E discarded \in SUBSET (S \cap Invalid) :
        /\ stored' = Bump(stored, S \ discarded)
        /\ request' = [request EXCEPT ![r].left = @ \ S,
                                      ![r].refused = @ \cup discarded]
  BY Zenon DEF SaveBatch
<1>1. PICK discarded \in SUBSET (S \cap Invalid) :
        /\ stored' = Bump(stored, S \ discarded)
        /\ request' = [request EXCEPT ![r].left = @ \ S,
                                      ![r].refused = @ \cup discarded]
  BY <1>0, Zenon
<1> DEFINE q == [request[r] EXCEPT !.left = @ \ S, !.refused = @ \cup discarded]
<1>2. request[r].at = "saving" /\ UNCHANGED <<notified, toCapi>>
  BY DEF SaveBatch
<1>3. q.at = "saving" /\ q.kept = request[r].kept /\ q.left = request[r].left \ S
  BY <1>2 DEF Shape, RequestRec
<1>4. request' = [request EXCEPT ![r] = q]
  BY <1>1, Zenon
<1> HIDE DEF q
<1>5. \A i \in Items : stored'[i] = IF i \in S \ discarded THEN stored[i] + 1 ELSE stored[i]
  BY <1>1, BumpIs DEF TableShape
<1>6. \A i : /\ May("store", q, i) <=> May("store", request[r], i) /\ i \notin S
             /\ i \in S => May("store", request[r], i)
             /\ May("offer", q, i) <=> May("offer", request[r], i)
             /\ ~May("notify", q, i)
             /\ May("forward", q, i) => May("forward", request[r], i) \/ i \in S
  BY <1>2, <1>3 DEF May
<1>7. \A n \in Matches : Due("notify", n[1], r, q, notified[n], notified'[n])
  BY <1>2, <1>6, Zenon DEF Due
<1>8. \A i \in Items : Due("offer", i, r, q, toCapi[i], toCapi'[i])
  BY <1>2, <1>6, Zenon DEF Due
<1>9. ASSUME NEW i \in Items PROVE Due("store", i, r, q, stored[i], stored'[i])
  BY <1>5, <1>6 DEF Due
<1>10. ASSUME NEW i \in Items, i \notin Invalid PROVE Follows(i, r, q)
  <2>1. /\ stored[i] \in Nat /\ toCapi[i] \in Nat /\ toCapi'[i] = toCapi[i]
        /\ stored'[i] = IF i \in S THEN stored[i] + 1 ELSE stored[i]
    BY <1>2, <1>5, <1>10 DEF TableShape, Rest
  <2>2. stored'[i] = stored[i] + One(i \in S)
    BY <2>1 DEF One
  <2>3. /\ One(May("forward", q, i)) <= One(May("forward", request[r], i)) + One(i \in S)
        /\ One(May("forward", q, i)) \in Nat /\ One(May("forward", request[r], i)) \in Nat
        /\ One(i \in S) \in Nat
    BY <1>6 DEF One
  <2> QED BY <2>1, <2>2, <2>3 DEF Follows
<1>11. Careful(r, q)
  BY <1>7, <1>8, <1>9, <1>10, Zenon DEF Careful
<1> QED BY <1>4, <1>11, Zenon

\* The answer of a handler that saved everything: what may be offered is.
LEMMA CountFinish ==
  ASSUME Shape, TableShape, Rest, NEW r \in Requests,
         Progress(request[r], stored), Finish(r)
  PROVE  request' = [request EXCEPT ![r] = Free] /\ Careful(r, Free)
<1>1. request' = [request EXCEPT ![r] = Free] /\ UNCHANGED <<stored, notified>>
      /\ request[r].at = "stamp" /\ request[r].left = {}
  BY DEF Finish, Answer, Progress
<1>2. \A i : /\ i \in request[r].kept => May("offer", request[r], i)
             /\ i \in request[r].kept => May("forward", request[r], i)
  BY <1>1 DEF May
<1>3. \A i \in Items : /\ toCapi[i] \in Nat /\ stored[i] \in Nat
                       /\ \/ toCapi'[i] = toCapi[i]
                          \/ toCapi'[i] = toCapi[i] + 1 /\ i \in request[r].kept
  <2>1. toCapi \in [Items -> Nat] /\ stored \in [Items -> Nat]
    BY DEF Rest, TableShape
  <2>2. \A i \in Items : Bump(toCapi, request[r].kept)[i]
          = IF i \in request[r].kept THEN toCapi[i] + 1 ELSE toCapi[i]
    BY <2>1, BumpIs
  <2>3. toCapi' = Bump(toCapi, request[r].kept) \/ toCapi' = toCapi
    BY DEF Finish
  <2> QED BY <2>1, <2>2, <2>3
<1>4. \A n \in Matches : Due("notify", n[1], r, Free, notified[n], notified'[n])
  BY <1>1, FreeDoesNothing, Zenon DEF Due
<1>5. \A i \in Items : /\ Due("store", i, r, Free, stored[i], stored'[i])
                       /\ Due("offer", i, r, Free, toCapi[i], toCapi'[i])
  BY <1>1, <1>2, <1>3, FreeDoesNothing, Zenon DEF Due
<1>6. ASSUME NEW i \in Items PROVE Follows(i, r, Free)
  <2>1. One(May("forward", Free, i)) = 0
    BY FreeDoesNothing DEF One
  <2>2. /\ toCapi'[i] <= toCapi[i] + One(May("forward", request[r], i)) /\ toCapi'[i] \in Nat
        /\ One(May("forward", request[r], i)) \in Nat
    BY <1>2, <1>3 DEF One
  <2> QED BY <1>1, <1>3, <2>1, <2>2 DEF Follows
<1> QED BY <1>1, <1>4, <1>5, <1>6, Zenon DEF Careful

\* A handler that fails, and a sender that gives up, only announce.
LEMMA CountFails ==
  ASSUME Shape, TableShape, Rest, NEW r \in Requests,
         ServerFails(r) \/ EvaluateFails(r) \/ GiveUp(r)
  PROVE  \E q : request' = [request EXCEPT ![r] = q] /\ Careful(r, q)
<1>1. CASE ServerFails(r)
  <2>1. request' = [request EXCEPT ![r] = Free] /\ UNCHANGED <<stored, toCapi, notified>>
    BY <1>1 DEF ServerFails, Answer, server
  <2>2. Careful(r, Free)
    BY <2>1, FreeDoesNothing, NoCopy
  <2> QED BY <2>1, <2>2, Zenon
<1>2. CASE EvaluateFails(r)
  <2>1. request' = [request EXCEPT ![r] = Free] /\ UNCHANGED <<stored, toCapi>>
        /\ request[r].at = "received"
    BY <1>2, Zenon DEF EvaluateFails, Answer
  <2>2. PICK S \in SUBSET ProfileAlerts(dedupAlerts(request[r].alerts)) : Notify(S)
    BY <1>2 DEF EvaluateFails
  <2>3. \A n \in Matches :
          \/ notified'[n] = notified[n]
          \/ notified'[n] = notified[n] + 1 /\ May("notify", request[r], n[1])
    BY <2>1, <2>2, NotifiedOnce
  <2>4. Careful(r, Free)
    BY <2>1, <2>3, FreeDoesNothing, NoCopy
  <2> QED BY <2>1, <2>4, Zenon
<1>3. CASE GiveUp(r)
  <2> DEFINE q == [request[r] EXCEPT !.client = "gone"]
  <2>1. /\ q.at = request[r].at /\ q.alerts = request[r].alerts
        /\ q.kept = request[r].kept /\ q.left = request[r].left
    BY DEF Shape, RequestRec
  <2>2. request' = [request EXCEPT ![r] = q] /\ UNCHANGED <<stored, toCapi, notified>>
    BY <1>3 DEF GiveUp, server
  <2> HIDE DEF q
  <2>3. \A k, i : May(k, q, i) => May(k, request[r], i)
    BY <2>1 DEF May
  <2>4. Careful(r, q)
    BY <2>2, <2>3, NoCopy
  <2> QED BY <2>2, <2>4, Zenon
<1> QED BY <1>1, <1>2, <1>3

\* A push that fails may be sent again, and is one more failure unless
\* nothing is sent any more.
LEMMA FailurePays ==
  ASSUME Shape, NEW r \in Requests, NEW i,
         ServerFails(r) \/ EvaluateFails(r) \/ GiveUp(r)
  PROVE  Paid(i)
<1>1. CASE Failing(r) /\ Answer(r, FALSE)
  <2>1. CASE request[r].client = "gone"
    <3>1. UNCHANGED agent /\ failures' = failures
      BY <1>1, <2>1 DEF Failing, Answer
    <3> QED BY <3>1, Zenon DEF agent, Unsent, Paid
  <2>2. CASE request[r].client # "gone"
    BY <1>1, <2>2 DEF Failing, Paid
  <2> QED BY <2>1, <2>2
<1>2. CASE GiveUp(r)
  <2>1. CASE cancelled
    <3>1. cancelled'
      BY <1>2, <2>1 DEF GiveUp, PushFailed
    <3> QED BY <1>2, <2>1, <3>1 DEF GiveUp, Unsent, Paid
  <2>2. CASE ~cancelled
    BY <1>2, <2>2 DEF GiveUp, Paid
  <2> QED BY <2>1, <2>2
<1> QED BY <1>1, <1>2, Zenon DEF ServerFails, EvaluateFails

-----------------------------------------------------------------------------
(* The counts of an item at every step.                                    *)

\* Every step keeps the items counted.
LEMMA CountStep ==
  ASSUME StoreInv, SingleOwner, Rest, CountInv, [Next]_vars
  PROVE  CountInv'
<1>1. Shape /\ TableShape /\ TableShape' /\ Rest'
  BY OutputStep, RestStep DEF StoreInv
<1>2. CASE KillOutputs \/ Cancel \/ UNCHANGED vars
  <2>1. UNCHANGED <<request, stored, notified, toCapi, failures>>
    BY <1>2 DEF KillOutputs, Cancel, vars, server
  <2>2. \A i : Unsent(i)' => Unsent(i)
    BY <1>2 DEF KillOutputs, Cancel, vars, Unsent
  <2> QED BY <1>1, <2>1, <2>2, CountQuiet
<1>3. ASSUME NEW o \in Outputs, Routine(o) PROVE CountInv'
  <2>1. ASSUME NEW a \in Alerts, AddAlert(o, a) \/ PostOverflowFails(o, a) PROVE CountInv'
    <3>1. UNCHANGED <<request, stored, notified, toCapi, failures, cancelled>>
      BY <2>1 DEF AddAlert, PostOverflowFails, server
    <3>2. /\ offered' \subseteq offered /\ a \in offered
          /\ \A x \in Outputs : pending'[x] \subseteq pending[x] \cup {a}
      BY <1>1, <2>1 DEF AddAlert, PostOverflowFails, Shape
    <3>3. \A i : Unsent(i)' => Unsent(i)
      BY <3>1, <3>2 DEF Unsent
    <3> QED BY <1>1, <3>1, <3>3, CountQuiet
  <2>2. ASSUME NEW r \in Requests, TickerPush(o, r) \/ FinalPush(o, r) PROVE CountInv'
    <3>1. PICK final \in BOOLEAN : Send(o, r, final)
      BY <2>2, Zenon DEF TickerPush, FinalPush
    <3> QED BY <1>1, <3>1, CountSend
  <2>3. CASE NothingLeft(o) \/ FinalDrop(o)
    <3>1. UNCHANGED <<request, stored, notified, toCapi, failures>>
      BY <2>3 DEF NothingLeft, FinalDrop, server
    <3>2. \A i : Unsent(i)' => Unsent(i)
      BY <2>3 DEF NothingLeft, FinalDrop, Unsent
    <3> QED BY <1>1, <3>1, <3>2, CountQuiet
  <2> QED BY <1>3, <2>1, <2>2, <2>3 DEF Routine
<1>4. ASSUME NEW r \in Requests, Handler(r) PROVE CountInv'
  <2>1. \A i : Paid(i)
    BY <1>4, Zenon DEF Handler, Evaluate, SaveBatch, Saved, Finish, Answer, PushDone,
                agent, Paid, Unsent
  <2>2. Progress(request[r], stored)
    BY DEF StoreInv
  <2>3. \E q : request' = [request EXCEPT ![r] = q] /\ Careful(r, q)
    BY <1>1, <1>4, <2>2, CountEvaluate, CountSave, CountSaved, CountFinish, Zenon DEF Handler
  <2> QED BY <1>1, <2>1, <2>3, CarefulKeeps, Zenon
<1>5. ASSUME NEW r \in Requests, ServerFails(r) \/ EvaluateFails(r) \/ GiveUp(r)
      PROVE  CountInv'
  <2>1. \A i : Paid(i)
    BY <1>1, <1>5, FailurePays
  <2>2. \E q : request' = [request EXCEPT ![r] = q] /\ Careful(r, q)
    BY <1>1, <1>5, CountFails
  <2> QED BY <1>1, <2>1, <2>2, CarefulKeeps, Zenon
<1> QED BY <1>2, <1>3, <1>4, <1>5 DEF Next

\* Initially an item has a push to come and nothing else.
LEMMA CountStart ==
  ASSUME Init
  PROVE  CountInv
<1>1. \A r \in Requests : request[r] = Free
  BY DEF Init
<1>2. ASSUME NEW k, NEW i PROVE To(k, i) = 0 /\ One(Unsent(i)) \in {0, 1}
  <2>1. {r \in Requests : May(k, request[r], i)} = {}
    BY <1>1, FreeDoesNothing
  <2> QED BY <2>1, FS_EmptySet DEF To, One
<1>3. /\ \A i \in Items : stored[i] = 0 /\ toCapi[i] = 0
      /\ \A n \in Matches : notified[n] = 0
      /\ failures = 0
  BY DEF Init
<1>4. \A i \in Items : Budget("store", i, stored[i]) /\ Budget("offer", i, toCapi[i])
                       /\ Forwarded(i)
  BY <1>2, <1>3 DEF Budget, Forwarded
<1>5. \A n \in Matches : Budget("notify", n[1], notified[n])
  BY <1>2, <1>3 DEF Budget
<1> QED BY <1>4, <1>5 DEF CountInv

\* CopiesBounded for every value of the constants: CreateAlert, called again
\* after a failed push, repeats a row, an offer or the announcement for a
\* profile at most once for each failure, and offers nothing that is not
\* stored, but for items that were dropped for their decisions.
THEOREM CopiesBoundedHolds == Spec => []CopiesBounded
<1>1. StoreInv /\ Rest /\ CountInv => CopiesBounded
  <2> SUFFICES ASSUME StoreInv, Rest, CountInv
               PROVE  CopiesBounded
    OBVIOUS
  <2>1. ASSUME NEW k, NEW i, NEW n \in Nat, Budget(k, i, n) PROVE n <= 1 + failures
    <3>1. To(k, i) \in Nat /\ One(Unsent(i)) \in {0, 1} /\ failures \in Nat
      BY CountType DEF One, Rest
    <3> QED BY <2>1, <3>1 DEF Budget
  <2>2. /\ \A i \in Items : stored[i] \in Nat /\ toCapi[i] \in Nat
        /\ \A n \in Matches : notified[n] \in Nat
    BY DEF StoreInv, TableShape, Rest
  <2>3. \A i \in Items : stored[i] <= 1 + failures /\ toCapi[i] <= 1 + failures
    BY <2>1, <2>2, Zenon DEF CountInv
  <2>4. \A n \in Matches : notified[n] <= 1 + failures
    BY <2>1, <2>2, Zenon DEF CountInv
  <2>5. ASSUME NEW i \in Items, i \notin Invalid PROVE toCapi[i] <= stored[i]
    <3>1. To("forward", i) \in Nat
      BY CountType
    <3> QED BY <2>2, <2>5, <3>1 DEF CountInv, Forwarded
  <2> QED BY <2>3, <2>4, <2>5 DEF CopiesBounded
<1> QED BY <1>1, CountStart, CountStep, OutputInvariant, PTL DEF Spec

=============================================================================
