----------------------- MODULE StreamRefinementProofs -----------------------
(***************************************************************************)
(* What a bouncer knows, for every number of decisions, keys, pages and    *)
(* failures: nothing it has to block is missed (NothingMissed), nothing it *)
(* blocks was over long before its last pull (Cleared), and the stream     *)
(* with its history implements BouncerView (Implements).  The argument is  *)
(* the same in the three: of the rows of a key, the longest one is either  *)
(* behind the cursor of the query, and then its key is in the answer, or   *)
(* ahead of it.                                                            *)
(***************************************************************************)
EXTENDS DecisionStreamProofs

(* No active decision is missed.                                           *)

\* No row is simulated.
NoSim == \A d \in Ids : ~row[d].sim

Active(d) == d \in Table /\ row[d].until > clock

\* The query has a row of key k before it that is as long as any row of k
\* behind it.
Ahead(k) ==
  \E e \in Table :
    /\ row[e].key = k /\ e > pull.last
    /\ \A f \in Table : row[f].key = k /\ f <= pull.last => row[f].until <= row[e].until

\* Where the query of expired decisions starts.
Window(t) == IF t = Never THEN Never ELSE t - Overlap

\* The query of expired decisions will come to a row of key k that it reports
\* if it is over.
Due(k) ==
  \E e \in Table :
    /\ row[e].key = k /\ e > pull.last /\ row[e].until > Window(pull.since)
    /\ \A f \in Table : row[f].key = k /\ f <= pull.last => row[f].until <= row[e].until

\* The bouncer blocks the key of an active decision older than the last
\* recorded pull.
Seen ==
  ~fresh => \A d \in Ids : Active(d) /\ row[d].created <= lastPull => row[d].key \in view

\* The key of an active decision older than the pull in progress is blocked,
\* in the answer, or the query will come to it.
NewPaging ==
  pull.pc # "idle" =>
    \A d \in Ids :
      Active(d) /\ row[d].created <= pull.start =>
        \/ row[d].key \in pull.new
        \/ ~fresh /\ row[d].key \in view
        \/ pull.pc = "new" /\ Ahead(row[d].key)

MissInv == Seen /\ NewPaging

Unharmed == happened \subseteq {"flush", "delete", "past", "reexpire"}

\* Rows are simulated only with that fault.
LEMMA SimStep ==
  ASSUME BaseInv, NoSim, [Next]_vars, "sim" \notin happened'
  PROVE  NoSim'
<1>1. TypeOK
  BY DEF BaseInv
<1>2. CASE Waits \/ Restart \/ Begins \/ PagesNew \/ PagesDeleted \/ Ends
  <2>1. row' = row
    BY <1>2 DEF Waits, Restart, Begins, PagesNew, PagesDeleted, PagesThrough, Ends
  <2> QED BY <2>1 DEF NoSim
<1>3. ASSUME NEW d \in Ids, Inserts(d) \/ Commits(d) \/ Flushes(d) \/ Deletes(d) \/ Expires(d)
      PROVE  NoSim'
  <2>1. \A e \in Ids : e # d => row'[e] = row[e]
    BY <1>3 DEF Inserts, Commits, Flushes, Deletes, Expires, Writes
  <2>2. ~row'[d].sim
    BY <1>3 DEF Inserts, Commits, Flushes, Deletes, Expires, NoSim
  <2> QED BY <2>1, <2>2 DEF NoSim
<1>4. ASSUME NEW d \in Ids, NEW e \in Ids, Replaces(d, e) PROVE NoSim'
  BY <1>4 DEF Replaces, NoSim
<1> QED BY <1>1, <1>2, <1>3, <1>4, StepIs

\* Among the rows of a key there is a longest, and it is ahead if one is
\* that is as long as those behind.
LEMMA LongestAhead ==
  ASSUME TypeOK, NEW k, Ahead(k)
  PROVE  \E e \in Table :
           /\ row[e].key = k /\ e > pull.last /\ longestDecisionForScopeTypeValue(e)
           /\ \A f \in Table : row[f].key = k => row[f].until <= row[e].until
<1> DEFINE S == {f \in Table : row[f].key = k}
           w == [f \in S |-> row[f].until]
<1>1. S \in SUBSET Ids /\ S # {} /\ \A f \in S : w[f] = row[f].until
  BY DEF Ahead, Table
<1>2. \A f \in Ids : f \in Nat /\ row[f].until \in Nat
  BY Typed
<1>3. IsFiniteSet(S)
  BY <1>1, IdsFinite
<1>4. \A f \in S : w[f] \in Int
  BY <1>1, <1>2
<1>5. \E m \in S : \A f \in S : w[f] <= w[m]
  <2> HIDE DEF S, w
  <2> QED BY <1>1, <1>3, <1>4, Heaviest
<1>6. PICK m \in S : \A f \in S : row[f].until <= row[m].until
  BY <1>1, <1>5, Zenon
<1>7. PICK e \in Table : /\ row[e].key = k /\ e > pull.last
                         /\ \A f \in Table : row[f].key = k /\ f <= pull.last
                                               => row[f].until <= row[e].until
  BY DEF Ahead
<1>8. pull.last \in Nat /\ e \in Ids
  BY Typed DEF Table
<1>9. \E x \in S : x > pull.last /\ \A f \in S : row[f].until <= row[x].until
  <2>1. CASE m > pull.last
    BY <1>6, <2>1
  <2>2. CASE m <= pull.last
    <3>1. row[m].until <= row[e].until
      BY <1>6, <1>7, <2>2
    <3>2. \A f \in S : row[f].until <= row[e].until
      BY <1>1, <1>2, <1>6, <1>8, <3>1
    <3> QED BY <1>7, <3>2
  <2> QED BY <1>1, <1>2, <1>8, <2>1, <2>2
<1>10. PICK x \in S : x > pull.last /\ \A f \in S : row[f].until <= row[x].until
  BY <1>9
<1>11. longestDecisionForScopeTypeValue(x)
  <2> SUFFICES ASSUME NEW f \in Table, row[f].key = row[x].key, row[f].until > row[x].until
               PROVE  FALSE
    BY DEF longestDecisionForScopeTypeValue
  <2>1. f \in S /\ f \in Ids /\ x \in Ids
    BY <1>1, <1>10
  <2>2. row[f].until <= row[x].until
    BY <1>10, <2>1
  <2> QED BY <1>2, <2>1, <2>2
<1> QED BY <1>10, <1>11

\* The rows the query has passed were there before a row is inserted.
LEMMA InsertedAhead ==
  ASSUME BaseInv, NEW d \in Ids, row[d].state = "none"
  PROVE  ~(d <= pull.last)
<1>1. d \in Nat /\ pull.last \in Nat /\ d > 0
  BY Typed, StreamAssumption DEF BaseInv, Ids, StreamAssumption
<1>2. ASSUME d <= pull.last PROVE FALSE
  <2>1. PICK e \in Ids : e = pull.last /\ row[e].state # "none"
    BY <1>1, <1>2 DEF BaseInv, InOrder
  <2>2. e # d /\ d < e
    BY <1>1, <1>2, <2>1
  <2> QED BY <2>1, <2>2 DEF BaseInv, InOrder
<1> QED BY <1>2

\* An insert leaves what is ahead ahead.
LEMMA InsertBehind ==
  ASSUME BaseInv, NEW d \in Ids, Inserts(d), NEW k
  PROVE  (Ahead(k) => Ahead(k)') /\ (Due(k) => Due(k)')
<1>1. pull' = pull /\ row[d].state = "none" /\ \A e \in Ids : e # d => row'[e] = row[e]
  BY DEF Inserts, Writes
<1>2. /\ \A e \in Table : e \in Table' /\ row'[e] = row[e]
      /\ \A e \in Table' : e # d => e \in Table /\ row'[e] = row[e]
  BY <1>1 DEF Table
<1>3. ~(d <= pull.last)
  BY <1>1, InsertedAhead
<1>4. \A e \in Table :
        (\A f \in Table : row[f].key = k /\ f <= pull.last => row[f].until <= row[e].until)
        => \A f \in Table' : row'[f].key = k /\ f <= pull.last
                               => row'[f].until <= row'[e].until
  BY <1>2, <1>3
<1>5. Ahead(k) => Ahead(k)'
  BY <1>1, <1>2, <1>4 DEF Ahead
<1>6. Due(k) => Due(k)'
  BY <1>1, <1>2, <1>4 DEF Due, Window
<1> QED BY <1>5, <1>6

\* An insert into the table.
LEMMA MissInsert ==
  ASSUME BaseInv, MissInv, NEW d \in Ids, Inserts(d), "late" \notin happened'
  PROVE  MissInv'
<1>1. /\ UNCHANGED <<clock, pull, lastPull, view, fresh>> /\ clock < MaxTime
      /\ row[d].state = "none" /\ row'[d].state = "live" /\ row'[d].created = clock
      /\ \A e \in Ids : e # d => row'[e] = row[e]
  BY DEF Inserts, Writes
<1>2. clock \in Nat /\ lastPull \in Int /\ pull.start \in Nat /\ lastPull < clock
      /\ (pull.pc # "idle" => pull.start < clock)
  BY <1>1, Typed DEF BaseInv, Recorded, Younger
<1>3. Table' = Table \cup {d} /\ d \notin Table
  BY <1>1 DEF Table
<1>4. ASSUME NEW x \in Ids, Active(x)', x # d PROVE Active(x) /\ row'[x] = row[x]
  BY <1>1, <1>3, <1>4 DEF Active
<1>5. ASSUME NEW k, Ahead(k) PROVE Ahead(k)'
  BY <1>5, InsertBehind
<1>6. Seen'
  BY <1>1, <1>2, <1>4 DEF MissInv, Seen
<1>7. NewPaging'
  BY <1>1, <1>2, <1>4, <1>5 DEF MissInv, NewPaging
<1> QED BY <1>6, <1>7 DEF MissInv

\* A row that is over leaves the table.
LEMMA MissFlush ==
  ASSUME BaseInv, MissInv, NEW d \in Ids, Flushes(d)
  PROVE  MissInv'
<1>1. /\ UNCHANGED <<clock, pull, lastPull, view, fresh>>
      /\ row[d].state = "live" /\ row'[d].state = "gone" /\ row[d].until <= clock
      /\ \A e \in Ids : e # d => row'[e] = row[e]
  BY DEF Flushes, Writes
<1>2. clock \in Nat /\ pull.last \in Nat /\ \A e \in Ids : e \in Nat /\ row[e].until \in Nat
  BY Typed DEF BaseInv
<1>3. Table' = Table \ {d}
  BY <1>1 DEF Table
<1>4. ASSUME NEW x \in Ids, Active(x)' PROVE Active(x) /\ row'[x] = row[x] /\ x \in Table'
  BY <1>1, <1>3, <1>4 DEF Active
<1>5. ASSUME NEW x \in Ids, Active(x)', Ahead(row[x].key) PROVE Ahead(row[x].key)'
  <2>1. PICK e \in Table : /\ row[e].key = row[x].key /\ e > pull.last
                           /\ \A f \in Table : row[f].key = row[x].key /\ f <= pull.last
                                                 => row[f].until <= row[e].until
    BY <1>5 DEF Ahead
  <2>2. \A f \in Table' : f \in Table /\ f \in Ids /\ row'[f] = row[f]
    BY <1>1, <1>3 DEF Table
  <2>3. x \in Table' /\ x \in Table /\ row[x].until > clock /\ row'[x] = row[x]
    BY <1>4, <1>5 DEF Active
  <2>4. CASE e # d
    <3>1. e \in Table'
      BY <1>3, <2>4
    <3> QED BY <1>1, <2>1, <2>2, <2>3, <3>1 DEF Ahead
  <2>5. CASE e = d
    <3>1. x > pull.last
      BY <1>1, <1>2, <2>1, <2>3, <2>5
    <3>2. \A f \in Table' : row'[f].key = row'[x].key /\ f <= pull.last
                              => row'[f].until <= row'[x].until
      BY <1>1, <1>2, <2>1, <2>2, <2>3, <2>5
    <3> QED BY <1>1, <2>3, <3>1, <3>2 DEF Ahead
  <2> QED BY <2>4, <2>5
<1>6. Seen'
  BY <1>1, <1>4 DEF MissInv, Seen
<1>7. NewPaging'
  <2> SUFFICES ASSUME pull.pc # "idle", NEW x \in Ids, Active(x)',
                      row'[x].created <= pull.start
               PROVE  \/ row'[x].key \in pull.new
                      \/ ~fresh /\ row'[x].key \in view
                      \/ pull.pc = "new" /\ Ahead(row[x].key)'
    BY <1>1, <1>4 DEF NewPaging
  <2> QED BY <1>4, <1>5 DEF MissInv, NewPaging
<1> QED BY <1>6, <1>7 DEF MissInv

\* Rows are changed, but not between two pages of new decisions: what is
\* active was before or is new.
LEMMA MissChange ==
  ASSUME BaseInv, MissInv, UNCHANGED <<clock, pull, lastPull, view, fresh>>,
         ~(pull.pc = "new" /\ pull.last > 0),
         \A x \in Ids :
           Active(x)' => \/ Active(x) /\ row'[x] = row[x]
                         \/ clock < MaxTime /\ row'[x].created = clock
  PROVE  MissInv'
<1>1. /\ clock \in Nat /\ lastPull \in Int /\ pull.start \in Nat /\ pull.last \in Nat
      /\ clock < MaxTime => lastPull < clock /\ (pull.pc # "idle" => pull.start < clock)
      /\ \A e \in Ids : e \in Nat /\ e > 0
  BY Typed, StreamAssumption DEF BaseInv, Recorded, Younger, Ids, StreamAssumption
<1>2. ASSUME NEW x \in Ids, Active(x)', pull.pc = "new", NEW k, k = row'[x].key
      PROVE  Ahead(k)'
  <2>1. pull.last = 0 /\ x > pull.last /\ \A f \in Table' : ~(f <= pull.last)
    BY <1>1, <1>2 DEF Table
  <2>2. x \in Table'
    BY <1>2 DEF Active
  <2> QED BY <1>2, <2>1, <2>2 DEF Ahead
<1>3. Seen'
  BY <1>1 DEF MissInv, Seen
<1>4. ASSUME pull.pc # "idle", NEW x \in Ids, Active(x)', row'[x].created <= pull.start
      PROVE  Active(x) /\ row'[x] = row[x]
  BY <1>1, <1>4
<1>5. NewPaging'
  BY <1>2, <1>4 DEF MissInv, NewPaging
<1> QED BY <1>3, <1>5 DEF MissInv

\* A row that is expired, removed or replaced is active no more.
LEMMA MissExpire ==
  ASSUME BaseInv, MissInv, "midpage" \notin happened', "late" \notin happened',
         \/ \E d \in Ids : Expires(d) \/ Deletes(d)
         \/ \E d, e \in Ids : Replaces(d, e)
  PROVE  MissInv'
<1>1. /\ UNCHANGED <<clock, pull, lastPull, view, fresh>>
      /\ ~(pull.pc = "new" /\ pull.last > 0)
  BY DEF Expires, Deletes, Replaces, Writes
<1>2. clock \in Nat /\ expiring.at <= clock /\ expiring.at \in Nat
  BY Typed DEF BaseInv, Timely, TypeOK
<1>3. ASSUME NEW d \in Ids, Expires(d), NEW x \in Ids, Active(x)'
      PROVE  Active(x) /\ row'[x] = row[x]
  BY <1>1, <1>2, <1>3 DEF Expires, Writes, Active, Table
<1>4. ASSUME NEW d \in Ids, Deletes(d), NEW x \in Ids, Active(x)'
      PROVE  Active(x) /\ row'[x] = row[x]
  BY <1>1, <1>4 DEF Deletes, Writes, Active, Table
<1>5. ASSUME NEW d \in Ids, NEW e \in Ids, Replaces(d, e), NEW x \in Ids, Active(x)'
      PROVE  \/ Active(x) /\ row'[x] = row[x]
             \/ clock < MaxTime /\ row'[x].created = clock
  BY <1>1, <1>5 DEF Replaces, Active, Table
<1> QED BY <1>1, <1>3, <1>4, <1>5, MissChange

\* A page of new decisions: the longest row of a key is in it, still ahead,
\* or older than the last pull.
LEMMA PageReaches ==
  ASSUME BaseInv, NoSim, Seen, PagesNew, NEW x \in Ids, Active(x), Ahead(row[x].key)
  PROVE  \/ row[x].key \in pull'.new
         \/ ~fresh /\ row[x].key \in view
         \/ pull'.pc = "new" /\ Ahead(row[x].key)'
<1> DEFINE rows == Page(NewDecisions)
<1>1. /\ UNCHANGED row /\ pull.pc = "new" /\ pull'.new = pull.new \cup KeysOf(rows)
      /\ rows \subseteq NewDecisions
      /\ \/ pull'.pc = "deleted" /\ rows = NewDecisions
         \/ /\ pull'.pc = "new" /\ pull'.last \in rows
            /\ \A e \in NewDecisions : e <= pull'.last => e \in rows
  BY DEF PagesNew, PagesThrough
<1> HIDE DEF rows
<1>2. /\ pull.since = lastPull /\ (pull.startup <=> fresh) /\ pull.start <= clock
      /\ TypeOK
  BY <1>1 DEF BaseInv, Recorded, Younger
<1>3. /\ clock \in Nat /\ lastPull \in Int /\ pull.start \in Nat /\ Table' = Table
      /\ \A e \in Ids : e \in Nat /\ row[e].until \in Nat /\ row[e].created \in Nat
  BY <1>1, <1>2, Typed DEF Table
<1>4. PICK e \in Table :
        /\ row[e].key = row[x].key /\ e > pull.last /\ longestDecisionForScopeTypeValue(e)
        /\ \A f \in Table : row[f].key = row[x].key => row[f].until <= row[e].until
  BY <1>2, LongestAhead
<1>5. e \in Ids /\ x \in Table /\ row[x].until > clock
  BY DEF Table, Active
<1>6. row[e].until > clock /\ row[e].until > pull.start
  BY <1>2, <1>3, <1>4, <1>5
<1>7. CASE pull.startup \/ row[e].created > pull.since
  <2>1. e \in NewDecisions
    BY <1>4, <1>5, <1>6, <1>7 DEF NewDecisions, applyDecisionFilter, NoSim
  <2>2. CASE e \in rows
    BY <1>1, <1>4, <2>2 DEF KeysOf
  <2>3. CASE e \notin rows
    <3>1. pull'.pc = "new" /\ ~(e <= pull'.last) /\ pull'.last \in Ids
      BY <1>1, <2>1, <2>3 DEF NewDecisions, Table
    <3>2. e > pull'.last
      BY <1>3, <1>5, <3>1
    <3> QED BY <1>1, <1>3, <1>4, <3>1, <3>2 DEF Ahead
  <2> QED BY <2>2, <2>3
<1>8. CASE ~pull.startup /\ ~(row[e].created > pull.since)
  <2>1. ~fresh /\ Active(e) /\ row[e].created <= lastPull
    BY <1>2, <1>3, <1>5, <1>6, <1>8 DEF Active
  <2> QED BY <1>4, <1>5, <2>1 DEF Seen
<1> QED BY <1>7, <1>8

\* A page of new decisions.
LEMMA MissPage ==
  ASSUME BaseInv, NoSim, MissInv, PagesNew
  PROVE  MissInv'
<1>1. /\ UNCHANGED <<clock, row, lastPull, view, fresh>> /\ pull.pc = "new"
      /\ pull'.start = pull.start /\ pull.new \subseteq pull'.new
  BY DEF PagesNew, PagesThrough
<1>2. \A x \in Ids : Active(x)' <=> Active(x)
  BY <1>1 DEF Active, Table
<1>3. Seen'
  BY <1>1, <1>2 DEF MissInv, Seen
<1>4. NewPaging'
  <2> SUFFICES ASSUME NEW x \in Ids, Active(x), row[x].created <= pull.start
               PROVE  \/ row[x].key \in pull'.new
                      \/ ~fresh /\ row[x].key \in view
                      \/ pull'.pc = "new" /\ Ahead(row[x].key)'
    BY <1>1, <1>2 DEF NewPaging
  <2>1. \/ row[x].key \in pull.new
        \/ ~fresh /\ row[x].key \in view
        \/ Ahead(row[x].key)
    BY <1>1 DEF MissInv, NewPaging
  <2> QED BY <1>1, <2>1, PageReaches DEF MissInv
<1> QED BY <1>3, <1>4 DEF MissInv

\* A pull begins: everything is ahead.
LEMMA MissBegin ==
  ASSUME BaseInv, MissInv, Begins
  PROVE  MissInv'
<1>1. /\ UNCHANGED <<row, lastPull, view, fresh>> /\ pull'.pc = "new" /\ pull'.last = 0
      /\ clock' \in Nat /\ clock <= clock'
  BY StreamAssumption DEF Begins, StreamAssumption
<1>2. clock \in Nat /\ Table' = Table
      /\ \A e \in Ids : e \in Nat /\ e > 0 /\ row[e].until \in Nat
  BY <1>1, Typed, StreamAssumption DEF BaseInv, Table, Ids, StreamAssumption
<1>3. \A x \in Ids : Active(x)' => Active(x) /\ x \in Table
  BY <1>1, <1>2 DEF Active
<1>4. \A x \in Ids : x \in Table => Ahead(row[x].key)'
  BY <1>1, <1>2 DEF Ahead, Table
<1>5. Seen'
  BY <1>1, <1>3 DEF MissInv, Seen
<1>6. NewPaging'
  BY <1>1, <1>3, <1>4 DEF NewPaging
<1> QED BY <1>5, <1>6 DEF MissInv

\* The answer is applied: nothing it deletes is active.
LEMMA MissEnd ==
  ASSUME BaseInv, LiftInv, MissInv, Ends, "startup" \notin happened'
  PROVE  MissInv'
<1>1. pull'.pc = "idle" /\ UNCHANGED <<clock, row>> /\ pull.pc # "idle"
  BY IdleIs DEF Ends
<1>2. /\ (pull.startup <=> fresh) /\ lastPull <= pull.start
      /\ clock \in Nat /\ lastPull \in Int /\ pull.start \in Nat
      /\ \A e \in Ids : row[e].until \in Nat /\ row[e].created \in Nat
  BY <1>1, Typed DEF BaseInv, Recorded
<1>3. ASSUME NEW x \in Ids, Active(x), row[x].created <= pull.start
      PROVE  row[x].key \notin pull.deleted
  BY <1>1, <1>2, <1>3 DEF LiftInv, DeletedIsOver, Active, Table
<1>4. \A x \in Ids : Active(x)' <=> Active(x)
  BY <1>1 DEF Active, Table
<1>5. Seen'
  <2>1. CASE UNCHANGED <<view, fresh, lastPull>>
    BY <1>1, <1>4, <2>1 DEF MissInv, Seen
  <2>2. CASE /\ view' = (view \ pull.deleted) \cup pull.new
             /\ pull.pc = "sent" /\ (lastPull' = pull.start \/ lastPull' = lastPull)
    <3> SUFFICES ASSUME NEW x \in Ids, Active(x), row[x].created <= lastPull'
                 PROVE  row[x].key \in view'
      BY <1>1, <1>4 DEF Seen
    <3>1. row[x].created <= pull.start
      BY <1>2, <2>2
    <3>2. row[x].key \in pull.new \/ row[x].key \in view
      BY <2>2, <3>1 DEF MissInv, NewPaging
    <3> QED BY <1>3, <2>2, <3>1, <3>2
  <2>3. CASE /\ view' = (view \ pull.deleted) \cup pull.new
             /\ lastPull' = lastPull /\ ~pull.startup
    <3> SUFFICES ASSUME NEW x \in Ids, Active(x), row[x].created <= lastPull
                 PROVE  row[x].key \in view'
      BY <1>1, <1>4, <2>3 DEF Seen
    <3>1. row[x].created <= pull.start /\ ~fresh
      BY <1>2, <2>3
    <3>2. row[x].key \in view
      BY <3>1 DEF MissInv, Seen
    <3> QED BY <1>3, <2>3, <3>1, <3>2
  <2> QED BY <2>1, <2>2, <2>3 DEF Ends
<1>6. NewPaging'
  BY <1>1 DEF NewPaging
<1> QED BY <1>5, <1>6 DEF MissInv

\* Every step keeps what the bouncer has to block known to it.
LEMMA MissStep ==
  ASSUME BaseInv, LiftInv, NoSim, MissInv, [Next]_vars, Unharmed'
  PROVE  MissInv'
<1>1. TypeOK /\ "late" \notin happened' /\ "midpage" \notin happened'
      /\ "startup" \notin happened'
  BY DEF BaseInv, Unharmed
<1>2. CASE Waits
  <2>1. UNCHANGED <<row, pull, lastPull, view, fresh>> /\ clock' \in Nat /\ clock <= clock'
    BY <1>1, <1>2, Typed DEF Waits
  <2>2. clock \in Nat /\ Table' = Table /\ \A e \in Ids : row[e].until \in Nat
    BY <1>1, <2>1, Typed DEF Table
  <2>3. \A x \in Ids : Active(x)' => Active(x)
    BY <2>1, <2>2 DEF Active
  <2>4. \A k : Ahead(k)' <=> Ahead(k)
    BY <2>1, <2>2 DEF Ahead
  <2>5. Seen'
    BY <2>1, <2>3 DEF MissInv, Seen
  <2>6. NewPaging'
    BY <2>1, <2>3, <2>4 DEF MissInv, NewPaging
  <2> QED BY <2>5, <2>6 DEF MissInv
<1>3. CASE PagesDeleted
  <2>1. /\ UNCHANGED <<clock, row, lastPull, view, fresh>> /\ pull.pc = "deleted"
        /\ pull'.start = pull.start /\ pull'.new = pull.new
    BY <1>3 DEF PagesDeleted, PagesThrough
  <2>2. \A x \in Ids : Active(x)' <=> Active(x)
    BY <2>1 DEF Active, Table
  <2> QED BY <2>1, <2>2 DEF MissInv, Seen, NewPaging
<1>4. CASE Restart
  BY <1>4 DEF Restart, MissInv, Seen, NewPaging
<1>5. ASSUME NEW d \in Ids, Commits(d) PROVE FALSE
  BY <1>5 DEF Commits, LiftInv, NoneOpen
<1> QED
  BY <1>1, <1>2, <1>3, <1>4, <1>5, StepIs, MissInsert, MissFlush, MissExpire,
     MissPage, MissBegin, MissEnd

\* What has happened does not unhappen.
LEMMA HappenedStays ==
  ASSUME [Next]_vars
  PROVE  Unharmed' => Unharmed
BY Remembered, Zenon DEF Unharmed

\* Without late and simulated rows the two invariants hold.
LEMMA MissInvariant ==
  Spec => []( /\ BaseInv
              /\ "late" \in happened \/ LiftInv
              /\ "sim" \in happened \/ NoSim
              /\ Unharmed => MissInv)
<1>1. Init => NoSim
  BY NoRowIs DEF Init, NoSim
<1>2. Init => MissInv
  <2> SUFFICES ASSUME Init PROVE MissInv
    OBVIOUS
  <2>1. fresh /\ pull.pc = "idle"
    BY IdleIs DEF Init
  <2> QED BY <2>1 DEF MissInv, Seen, NewPaging
<1>3. BaseInv /\ ("sim" \in happened \/ NoSim) /\ [Next]_vars => ("sim" \in happened \/ NoSim)'
  BY SimStep, Remembered
<1>4. /\ BaseInv /\ ("late" \in happened \/ LiftInv) /\ ("sim" \in happened \/ NoSim)
      /\ (Unharmed => MissInv) /\ [Next]_vars
      => (Unharmed => MissInv)'
  <2> SUFFICES ASSUME BaseInv, "late" \in happened \/ LiftInv, "sim" \in happened \/ NoSim,
                      Unharmed => MissInv, [Next]_vars, Unharmed'
               PROVE  MissInv'
    OBVIOUS
  <2>1. Unharmed
    BY HappenedStays
  <2>2. LiftInv /\ NoSim
    BY <2>1 DEF Unharmed
  <2> QED BY <2>1, <2>2, MissStep
<1> QED BY <1>1, <1>2, <1>3, <1>4, BaseInvariant, LiftInvariant, PTL DEF Spec

\* NothingMissed for every value of the constants: whatever failed, expired,
\* was flushed, deleted with its alert or replaced, and however the pages of StreamDecision fell, the bouncer
\* blocks the key of every active decision older than its last_pull.
THEOREM NothingMissedHolds == Spec => []NothingMissed
<1>1. (Unharmed => MissInv) => NothingMissed
  BY DEF Unharmed, MissInv, Seen, Active, Wanted, NothingMissed
<1> QED BY <1>1, MissInvariant, PTL

-----------------------------------------------------------------------------
(* Cleared: what the bouncer blocks was wanted at the last pull.           *)

\* A decision of key k was active within the overlap before t.
Covered(k, t) == \E d \in Table : row[d].key = k /\ row[d].until > Window(t)

ViewCovered == \A k \in view : Covered(k, lastPull)

NewCovered == pull.pc # "idle" => \A k \in pull.new : Covered(k, pull.start)

DelPaging ==
  pull.pc \in {"deleted", "sent"} =>
    \A k \in view : \/ k \in pull.deleted \/ Covered(k, pull.start)
                    \/ pull.pc = "deleted" /\ Due(k)

ClearInv == ViewCovered /\ NewCovered /\ DelPaging

Calm == happened \cap {"flush", "delete", "late", "sim"} = {}

\* An earlier pull asks for no more.
LEMMA CoveredBefore ==
  ASSUME TypeOK, NEW k, NEW t \in Nat, Covered(k, t), lastPull <= t
  PROVE  Covered(k, lastPull)
<1>1. PICK d \in Table : row[d].key = k /\ row[d].until > Window(t)
  BY DEF Covered
<1>2. row[d].until \in Nat /\ lastPull \in Nat \cup {Never} /\ Overlap \in Nat
  BY Typed, StreamAssumption DEF Table, TypeOK, StreamAssumption
<1>3. row[d].until > Window(lastPull)
  BY <1>1, <1>2 DEF Window, Never
<1> QED BY <1>1, <1>3 DEF Covered

\* An insert takes nothing away.
LEMMA ClearInsert ==
  ASSUME BaseInv, ClearInv, NEW d \in Ids, Inserts(d)
  PROVE  ClearInv'
<1>1. /\ UNCHANGED <<pull, lastPull, view>> /\ row[d].state = "none"
      /\ \A e \in Ids : e # d => row'[e] = row[e]
  BY DEF Inserts, Writes
<1>2. /\ \A e \in Table : e \in Table' /\ row'[e] = row[e]
      /\ \A e \in Table' : e # d => e \in Table /\ row'[e] = row[e]
  BY <1>1 DEF Table
<1>3. ASSUME NEW k, NEW t, Covered(k, t) PROVE Covered(k, t)'
  BY <1>2, <1>3 DEF Covered
<1>4. ASSUME NEW k, Due(k) PROVE Due(k)'
  BY <1>4, InsertBehind
<1>5. ViewCovered'
  BY <1>1, <1>3 DEF ClearInv, ViewCovered
<1>6. NewCovered'
  BY <1>1, <1>3 DEF ClearInv, NewCovered
<1>7. DelPaging'
  BY <1>1, <1>3, <1>4 DEF ClearInv, DelPaging
<1> QED BY <1>5, <1>6, <1>7 DEF ClearInv

\* An expiry leaves a row that ends within the overlap before the pull.
LEMMA ClearExpire ==
  ASSUME BaseInv, ClearInv, NEW d \in Ids, Expires(d)
  PROVE  ClearInv'
<1>1. /\ UNCHANGED <<pull, lastPull, view>> /\ d \in expiring.ids
      /\ row'[d].state = row[d].state /\ row'[d].key = row[d].key
      /\ row[d].state = "live" => row'[d].until = expiring.at
      /\ \A e \in Ids : e # d => row'[e] = row[e]
  BY DEF Expires, Writes
<1>2. Table' = Table /\ Table \subseteq Ids
  BY <1>1 DEF Table
<1>3. /\ expiring.at \in Nat /\ Overlap \in Nat /\ pull.start \in Nat
      /\ lastPull \in Nat \cup {Never} /\ TypeOK
      /\ \A e \in Ids : e \in Nat /\ row[e].until \in Nat
  BY Typed, StreamAssumption DEF BaseInv, TypeOK, StreamAssumption
<1>4. /\ expiring.at > Window(lastPull)
      /\ pull.pc # "idle" => expiring.at > Window(pull.start)
  BY <1>1, <1>3 DEF BaseInv, Timely, Window, Never
<1>5. ASSUME NEW k, NEW t, expiring.at > Window(t), Covered(k, t) PROVE Covered(k, t)'
  <2>1. PICK e \in Table : row[e].key = k /\ row[e].until > Window(t)
    BY <1>5 DEF Covered
  <2>2. CASE e = d
    <3>1. row'[e].until = expiring.at /\ row'[e].key = k
      BY <1>1, <2>1, <2>2 DEF Table
    <3> QED BY <1>2, <1>5, <3>1 DEF Covered, Window
  <2>3. CASE e # d
    BY <1>1, <1>2, <2>1, <2>3 DEF Covered, Window
  <2> QED BY <2>2, <2>3
<1>6. ASSUME NEW k, d \in Table, row[d].key = k, pull.pc # "idle" PROVE Covered(k, pull.start)'
  <2>1. row'[d].until = expiring.at
    BY <1>1, <1>6 DEF Table
  <2> QED BY <1>1, <1>2, <1>4, <1>6, <2>1 DEF Covered, Window
<1>7. ASSUME NEW k, Due(k), pull.pc # "idle" PROVE Covered(k, pull.start)' \/ Due(k)'
  <2>1. CASE d \in Table /\ row[d].key = k
    BY <1>6, <1>7, <2>1
  <2>2. CASE ~(d \in Table /\ row[d].key = k)
    <3>1. \A e \in Table : row[e].key = k => row'[e] = row[e]
      BY <1>1, <1>2, <2>2
    <3>2. \A e \in Table : row'[e].key = k => row'[e] = row[e]
      BY <1>1, <1>2, <2>2
    <3> QED BY <1>1, <1>2, <1>7, <3>1, <3>2 DEF Due, Window
  <2> QED BY <2>1, <2>2
<1>8. ViewCovered'
  BY <1>1, <1>4, <1>5 DEF ClearInv, ViewCovered
<1>9. NewCovered'
  BY <1>1, <1>4, <1>5 DEF ClearInv, NewCovered
<1>10. DelPaging'
  BY <1>1, <1>4, <1>5, <1>7 DEF ClearInv, DelPaging
<1> QED BY <1>8, <1>9, <1>10 DEF ClearInv

\* A row that replaces another covers its key.
LEMMA ClearReplace ==
  ASSUME BaseInv, ClearInv, NEW d \in Ids, NEW e \in Ids, Replaces(d, e),
         "late" \notin happened'
  PROVE  ClearInv'
<1> SUFFICES ASSUME NEW k0, k0 = row[d].key PROVE ClearInv'
  OBVIOUS
<1>1. /\ UNCHANGED <<pull, lastPull, view>> /\ clock < MaxTime
      /\ row[d].state = "live" /\ row'[d].state = "gone" /\ row[e].state = "none"
      /\ row'[e].state = "live" /\ row'[e].key = k0 /\ row'[e].until > clock
      /\ \A f \in Ids : f # d /\ f # e => row'[f] = row[f]
  BY DEF Replaces
<1>2. /\ clock \in Nat /\ Overlap \in Nat /\ pull.start \in Nat
      /\ lastPull \in Nat \cup {Never} /\ row'[e].until \in Nat
      /\ lastPull < clock /\ (pull.pc # "idle" => pull.start < clock)
  BY <1>1, Typed, StreamAssumption
     DEF BaseInv, TypeOK, Recorded, Younger, Replaces, RowRec, StreamAssumption
<1>3. \A f : row[f].key # k0 /\ f \in Table => f \in Table' /\ row'[f] = row[f]
  BY <1>1 DEF Table
<1>4. \A f : row'[f].key # k0 /\ f \in Table' => f \in Table /\ row'[f] = row[f]
  BY <1>1 DEF Table
<1>5. /\ row'[e].until > Window(lastPull)
      /\ pull.pc # "idle" => row'[e].until > Window(pull.start)
  BY <1>1, <1>2 DEF Window, Never
<1>6. /\ Covered(k0, lastPull)'
      /\ pull.pc # "idle" => Covered(k0, pull.start)'
  <2>1. e \in Table'
    BY <1>1 DEF Table
  <2> QED BY <1>1, <1>5, <2>1 DEF Covered, Window
<1>7. ASSUME NEW k, NEW t, k # k0, Covered(k, t) PROVE Covered(k, t)'
  BY <1>3, <1>7 DEF Covered, Window
<1>8. ASSUME NEW k, k # k0, Due(k) PROVE Due(k)'
  <2>1. \A f : row[f].key = k /\ f \in Table => f \in Table' /\ row'[f] = row[f]
    BY <1>3, <1>8
  <2>2. \A f : row'[f].key = k /\ f \in Table' => f \in Table /\ row'[f] = row[f]
    BY <1>4, <1>8
  <2> QED BY <1>1, <1>8, <2>1, <2>2 DEF Due, Window
<1>9. ViewCovered'
  BY <1>1, <1>6, <1>7 DEF ClearInv, ViewCovered
<1>10. NewCovered'
  BY <1>1, <1>6, <1>7 DEF ClearInv, NewCovered
<1>11. DelPaging'
  BY <1>1, <1>6, <1>7, <1>8 DEF ClearInv, DelPaging
<1> QED BY <1>9, <1>10, <1>11 DEF ClearInv

\* When the query of expired decisions begins every row is ahead of it.
LEMMA DueAfterNew ==
  ASSUME BaseInv, ClearInv, PagesNew, pull'.pc = "deleted", NEW k \in view
  PROVE  Due(k)'
<1>1. UNCHANGED row /\ pull'.since = pull.since /\ pull'.last = 0 /\ pull.since = lastPull
  BY DEF PagesNew, PagesThrough, BaseInv, Recorded
<1>2. Table' = Table /\ \A e \in Table : e \in Nat /\ e > 0
  BY <1>1, Typed, StreamAssumption DEF BaseInv, Table, Ids, StreamAssumption
<1>3. PICK e \in Table : row[e].key = k /\ row[e].until > Window(lastPull)
  BY DEF ClearInv, ViewCovered, Covered
<1>4. e > pull'.last /\ \A f \in Table : ~(f <= pull'.last)
  BY <1>1, <1>2
<1> QED BY <1>1, <1>2, <1>3, <1>4 DEF Due, Window

\* A page of new decisions reports active rows; after the last page every row
\* is ahead of the other query.
LEMMA ClearPageNew ==
  ASSUME BaseInv, ClearInv, PagesNew
  PROVE  ClearInv'
<1> DEFINE rows == Page(NewDecisions)
<1>1. /\ UNCHANGED <<row, lastPull, view>> /\ pull.pc = "new"
      /\ pull'.start = pull.start /\ pull'.since = pull.since
      /\ pull'.new = pull.new \cup KeysOf(rows) /\ rows \subseteq NewDecisions
      /\ (pull'.pc = "deleted" /\ pull'.last = 0) \/ pull'.pc = "new"
  BY DEF PagesNew, PagesThrough
<1> HIDE DEF rows
<1>2. /\ pull.since = lastPull /\ pull.start \in Nat /\ Overlap \in Nat \ {0}
      /\ \A e \in Ids : e \in Nat /\ e > 0 /\ row[e].until \in Nat
  BY <1>1, Typed, StreamAssumption DEF BaseInv, Recorded, Ids, StreamAssumption
<1>3. Table' = Table /\ Table \subseteq Ids
  BY <1>1 DEF Table
<1>4. \A k, t : Covered(k, t)' <=> Covered(k, t)
  BY <1>1, <1>3 DEF Covered
<1>5. \A k \in KeysOf(rows) : Covered(k, pull.start)
  <2> SUFFICES ASSUME NEW e \in rows PROVE Covered(row[e].key, pull.start)
    BY DEF KeysOf
  <2>1. e \in Table /\ row[e].until > pull.start
    BY <1>1 DEF NewDecisions
  <2>2. row[e].until > Window(pull.start)
    BY <1>2, <1>3, <2>1 DEF Window, Never
  <2> QED BY <2>1, <2>2 DEF Covered
<1>6. ViewCovered'
  BY <1>1, <1>4 DEF ClearInv, ViewCovered
<1>7. NewCovered'
  BY <1>1, <1>4, <1>5 DEF ClearInv, NewCovered
<1>8. DelPaging'
  BY <1>1, DueAfterNew DEF DelPaging
<1> QED BY <1>6, <1>7, <1>8 DEF ClearInv

\* A page of expired decisions: the longest row of a key is in it, still
\* ahead, or was not over when the pull began.
LEMMA DuePage ==
  ASSUME BaseInv, NoSim, PagesDeleted, NEW k, Due(k)
  PROVE  \/ k \in pull'.deleted
         \/ \E e \in Table : row[e].key = k /\ row[e].until >= pull.start
         \/ pull'.pc = "deleted" /\ Due(k)'
<1> DEFINE rows == Page(ExpiredDecisions)
<1>1. /\ UNCHANGED row /\ pull'.since = pull.since
      /\ pull'.deleted = pull.deleted \cup KeysOf(rows) /\ rows \subseteq ExpiredDecisions
      /\ \/ pull'.pc = "sent" /\ rows = ExpiredDecisions
         \/ /\ pull'.pc = "deleted" /\ pull'.last \in rows
            /\ \A e \in ExpiredDecisions : e <= pull'.last => e \in rows
  BY DEF PagesDeleted, PagesThrough
<1> HIDE DEF rows
<1>2. /\ TypeOK /\ pull.start \in Nat /\ Overlap \in Nat
      /\ pull.since \in Nat \cup {Never}
      /\ \A e \in Ids : e \in Nat /\ row[e].until \in Nat
  BY Typed, StreamAssumption DEF BaseInv, TypeOK, StreamAssumption
<1>3. Table' = Table /\ Table \subseteq Ids
  BY <1>1 DEF Table
<1>4. PICK g \in Table : row[g].key = k /\ row[g].until > Window(pull.since)
  BY DEF Due
<1>5. Ahead(k)
  BY DEF Due, Ahead
<1>6. PICK e \in Table :
        /\ row[e].key = k /\ e > pull.last /\ longestDecisionForScopeTypeValue(e)
        /\ \A f \in Table : row[f].key = k => row[f].until <= row[e].until
  BY <1>2, <1>5, LongestAhead
<1>7. row[g].until <= row[e].until /\ Window(pull.since) \in Int
  BY <1>2, <1>4, <1>6 DEF Window, Never
<1>8. row[e].until > Window(pull.since) /\ e \in Ids
  BY <1>2, <1>3, <1>4, <1>7
<1>9. CASE row[e].until < pull.start
  <2>1. row[e].until > expiredSince
    BY <1>8 DEF expiredSince, Window
  <2>2. e \in ExpiredDecisions
    BY <1>6, <1>8, <1>9, <2>1 DEF ExpiredDecisions, applyDecisionFilter, NoSim
  <2>3. CASE e \in rows
    BY <1>1, <1>6, <2>3 DEF KeysOf
  <2>4. CASE e \notin rows
    <3>1. pull'.pc = "deleted" /\ ~(e <= pull'.last) /\ pull'.last \in Ids
      BY <1>1, <2>2, <2>4 DEF ExpiredDecisions, Table
    <3>2. e > pull'.last
      BY <1>2, <1>8, <3>1
    <3> QED BY <1>1, <1>3, <1>6, <1>8, <3>1, <3>2 DEF Due, Window
  <2> QED BY <2>3, <2>4
<1>10. CASE ~(row[e].until < pull.start)
  BY <1>2, <1>6, <1>8, <1>10
<1> QED BY <1>9, <1>10

\* A page of expired decisions.
LEMMA ClearPageDeleted ==
  ASSUME BaseInv, NoSim, ClearInv, PagesDeleted
  PROVE  ClearInv'
<1>1. /\ UNCHANGED <<row, lastPull, view>> /\ pull.pc = "deleted"
      /\ pull'.start = pull.start /\ pull'.new = pull.new /\ pull.deleted \subseteq pull'.deleted
      /\ pull'.pc \in {"deleted", "sent"}
  BY DEF PagesDeleted, PagesThrough
<1>2. /\ pull.start \in Nat /\ Overlap \in Nat \ {0}
      /\ \A e \in Table : row[e].until \in Nat
  BY Typed, StreamAssumption DEF BaseInv, StreamAssumption, Table
<1>3. \A k, t : Covered(k, t)' <=> Covered(k, t)
  BY <1>1 DEF Covered, Table
<1>4. \A k : (\E e \in Table : row[e].key = k /\ row[e].until >= pull.start)
               => Covered(k, pull.start)
  BY <1>2 DEF Covered, Window, Never
<1>5. ViewCovered'
  BY <1>1, <1>3 DEF ClearInv, ViewCovered
<1>6. NewCovered'
  BY <1>1, <1>3 DEF ClearInv, NewCovered
<1>7. DelPaging'
  <2> SUFFICES ASSUME NEW k \in view
               PROVE  \/ k \in pull'.deleted \/ Covered(k, pull.start)
                      \/ pull'.pc = "deleted" /\ Due(k)'
    BY <1>1, <1>3 DEF DelPaging
  <2>1. k \in pull.deleted \/ Covered(k, pull.start) \/ Due(k)
    BY <1>1 DEF ClearInv, DelPaging
  <2> QED BY <1>1, <1>4, <2>1, DuePage
<1> QED BY <1>5, <1>6, <1>7 DEF ClearInv

\* The answer is applied and, when it is complete, the pull recorded.
LEMMA ClearEnd ==
  ASSUME BaseInv, ClearInv, Ends
  PROVE  ClearInv'
<1>1. pull'.pc = "idle" /\ row' = row /\ pull.pc # "idle"
  BY IdleIs DEF Ends
<1>2. lastPull <= pull.start /\ pull.start \in Nat /\ TypeOK
  BY <1>1, Typed DEF BaseInv, Recorded
<1>3. \A k, t : Covered(k, t)' <=> Covered(k, t)
  BY <1>1 DEF Covered, Table
<1>4. \A k \in pull.new : Covered(k, pull.start) /\ Covered(k, lastPull)
  BY <1>1, <1>2, CoveredBefore DEF ClearInv, NewCovered
<1>5. \A k \in view : Covered(k, lastPull)
  BY DEF ClearInv, ViewCovered
<1>6. pull.pc = "sent" => \A k \in view \ pull.deleted : Covered(k, pull.start)
  BY DEF ClearInv, DelPaging
<1>7. \A k \in view' : Covered(k, lastPull')
  BY <1>4, <1>5, <1>6 DEF Ends
<1>8. ViewCovered'
  BY <1>3, <1>7 DEF ViewCovered
<1> QED BY <1>1, <1>8 DEF ClearInv, NewCovered, DelPaging

\* Every step keeps what the bouncer blocks covered.
LEMMA ClearStep ==
  ASSUME BaseInv, LiftInv, NoSim, ClearInv, [Next]_vars, Calm'
  PROVE  ClearInv'
<1>1. TypeOK /\ "flush" \notin happened' /\ "delete" \notin happened' /\ "late" \notin happened'
  BY DEF BaseInv, Calm
<1>2. CASE Waits
  <2>1. UNCHANGED <<row, pull, lastPull, view>>
    BY <1>2 DEF Waits
  <2> QED
    BY <2>1 DEF ClearInv, ViewCovered, NewCovered, DelPaging, Covered, Due, Table, Window
<1>3. CASE Begins
  <2>1. UNCHANGED <<row, lastPull, view>> /\ pull'.pc = "new" /\ pull'.new = {}
    BY <1>3 DEF Begins
  <2> QED BY <2>1 DEF ClearInv, ViewCovered, NewCovered, DelPaging, Covered, Table
<1>4. CASE Restart
  <2>1. pull.pc = "idle" /\ pull' = pull /\ view' = {}
    BY <1>4 DEF Restart
  <2> QED BY <2>1 DEF ClearInv, ViewCovered, NewCovered, DelPaging
<1>5. ASSUME NEW d \in Ids, Commits(d) PROVE FALSE
  BY <1>5 DEF Commits, LiftInv, NoneOpen
<1>6. ASSUME NEW d \in Ids, Flushes(d) \/ Deletes(d) PROVE FALSE
  BY <1>1, <1>6 DEF Flushes, Deletes
<1> QED
  BY <1>1, <1>2, <1>3, <1>4, <1>5, <1>6, StepIs, ClearInsert, ClearExpire, ClearReplace,
     ClearPageNew, ClearPageDeleted, ClearEnd

\* Without removed, late and simulated rows the invariant holds.
LEMMA ClearInvariant == Spec => [](BaseInv /\ ("sim" \in happened \/ NoSim) /\ (Calm => ClearInv))
<1>1. Init => ClearInv
  <2> SUFFICES ASSUME Init PROVE ClearInv
    OBVIOUS
  <2>1. view = {} /\ pull.pc = "idle"
    BY IdleIs DEF Init
  <2> QED BY <2>1 DEF ClearInv, ViewCovered, NewCovered, DelPaging
<1>2. /\ BaseInv /\ ("late" \in happened \/ LiftInv) /\ ("sim" \in happened \/ NoSim)
      /\ (Calm => ClearInv) /\ [Next]_vars
      => (Calm => ClearInv)'
  <2> SUFFICES ASSUME BaseInv, "late" \in happened \/ LiftInv, "sim" \in happened \/ NoSim,
                      Calm => ClearInv, [Next]_vars, Calm'
               PROVE  ClearInv'
    OBVIOUS
  <2>1. Calm
    BY Remembered DEF Calm
  <2>2. LiftInv /\ NoSim
    BY <2>1 DEF Calm
  <2> QED BY <2>1, <2>2, ClearStep
<1> QED BY <1>1, <1>2, MissInvariant, PTL DEF Spec

\* Cleared for every value of the constants: whatever failed, was expired
\* or replaced between two pages or pulled again, a key the bouncer blocks has a decision
\* that was active within the overlap before last_pull.
THEOREM ClearedHolds == Spec => []Cleared
<1>1. BaseInv /\ ("sim" \in happened \/ NoSim) /\ (Calm => ClearInv) => Cleared
  <2> SUFFICES ASSUME ("sim" \in happened \/ NoSim), Calm => ClearInv, Calm,
                      lastPull # Never, NEW k \in view
               PROVE  \E d \in Ids :
                        Wanted(d) /\ row[d].key = k /\ row[d].until > lastPull - Overlap
    BY DEF Cleared, Calm
  <2>1. NoSim /\ Covered(k, lastPull)
    BY DEF Calm, ClearInv, ViewCovered
  <2> QED BY <2>1 DEF NoSim, Covered, Window, Wanted, Table
<1> QED BY <1>1, ClearInvariant, PTL

-----------------------------------------------------------------------------
(* The refinement: the states a key had since the pull began.              *)

\* Whether key k is to be blocked now, and since the pull began.
On(k) == \E d \in Table : row[d].key = k /\ row[d].until >= clock
Off(k) == \A d \in Table : row[d].key = k => row[d].until <= clock
WasOn(k) == TRUE \in held[k]
WasOff(k) == FALSE \in held[k]

\* Without a pull nothing is held; with one, what is so now is.
HeldIdle == pull.pc = "idle" => held = [k \in Keys |-> {}]
NowHeld ==
  pull.pc # "idle" => \A k \in Keys : (On(k) => WasOn(k)) /\ (Off(k) => WasOff(k))

\* A key with a decision that was not over when the pull began was blocked.
ActiveHeld ==
  pull.pc # "idle" => \A d \in Table : row[d].until >= pull.start => WasOn(row[d].key)

\* What the answer says was so.
AnswerHeld ==
  pull.pc # "idle" => /\ \A k \in pull.new : WasOn(k)
                      /\ \A k \in pull.deleted : WasOff(k)

\* A blocked key was to be blocked, is deleted, or the query will come to it.
StaleHeld ==
  pull.pc \in {"deleted", "sent"} =>
    \A k \in view : k \in pull.deleted \/ WasOn(k) \/ (pull.pc = "deleted" /\ Due(k))

\* A key that had to be blocked all the time is, or is in the answer, or the
\* query will come to it.
FreshHeld ==
  pull.pc # "idle" =>
    \A k \in Keys : \/ WasOff(k) \/ k \in pull.new
                    \/ ~fresh /\ k \in view
                    \/ pull.pc = "new" /\ Ahead(k)

HeldInv == HeldIdle /\ NowHeld /\ ActiveHeld /\ AnswerHeld /\ StaleHeld /\ FreshHeld

\* The two verdicts on a key.
LEMMA TruthIs ==
  ASSUME NoSim, NEW k
  PROVE  /\ Truth(k) \subseteq BOOLEAN
         /\ TRUE \in Truth(k) <=> On(k)
         /\ FALSE \in Truth(k) <=> Off(k)
<1> DEFINE of == {d \in Ids : Wanted(d) /\ row[d].key = k}
<1>1. \A d : d \in of <=> d \in Table /\ row[d].key = k
  BY DEF NoSim, Wanted, Table
<1>2. Truth(k) = {b \in BOOLEAN : IF b THEN \E d \in of : row[d].until >= clock
                                       ELSE \A d \in of : row[d].until <= clock}
  BY DEF Truth
<1> HIDE DEF of
<1>3. TRUE \in Truth(k) <=> \E d \in of : row[d].until >= clock
  BY <1>2
<1>4. FALSE \in Truth(k) <=> \A d \in of : row[d].until <= clock
  BY <1>2
<1>5. (\E d \in of : row[d].until >= clock) <=> On(k)
  BY <1>1 DEF On
<1>6. (\A d \in of : row[d].until <= clock) <=> Off(k)
  BY <1>1 DEF Off
<1>7. Truth(k) \subseteq BOOLEAN
  BY <1>2
<1> QED BY <1>3, <1>4, <1>5, <1>6, <1>7, Zenon

\* One of them is right.
LEMMA OnOrOff ==
  ASSUME TypeOK, NEW k
  PROVE  On(k) \/ Off(k)
<1>1. clock \in Nat /\ \A d \in Table : row[d].until \in Nat
  BY Typed DEF Table
<1> QED BY <1>1 DEF On, Off

\* So there is always a verdict.
LEMMA TruthType ==
  ASSUME TypeOK, NoSim
  PROVE  truth \in [Keys -> BV!Verdicts]
<1>1. ASSUME NEW k \in Keys PROVE Truth(k) \in BV!Verdicts
  <2>1. TRUE \in Truth(k) \/ FALSE \in Truth(k)
    BY TruthIs, OnOrOff, Zenon
  <2>2. Truth(k) # {}
    BY <2>1, Zenon
  <2>3. Truth(k) \in SUBSET BOOLEAN
    BY TruthIs, Zenon
  <2> QED BY <2>2, <2>3, Zenon DEF BV!Verdicts
<1> QED BY <1>1 DEF truth

\* What a step adds to the history.
LEMMA HeldGrows ==
  ASSUME HNext, NoSim, NoSim', pull'.pc # "idle", NEW k \in Keys
  PROVE  /\ On(k)' => WasOn(k)'
         /\ Off(k)' => WasOff(k)'
         /\ pull.pc # "idle" => (WasOn(k) => WasOn(k)') /\ (WasOff(k) => WasOff(k)')
         /\ pull.pc = "idle" => (On(k) => WasOn(k)') /\ (Off(k) => WasOff(k)')
<1>1. held'[k] = (IF pull.pc = "idle" THEN truth[k] ELSE held[k]) \cup truth'[k]
  BY DEF HNext
<1>2. truth[k] = Truth(k) /\ truth'[k] = Truth(k)'
  BY DEF truth
<1>3. /\ TRUE \in Truth(k) <=> On(k)
      /\ FALSE \in Truth(k) <=> Off(k)
  BY TruthIs, Zenon
<1>4. /\ (TRUE \in Truth(k))' <=> On(k)'
      /\ (FALSE \in Truth(k))' <=> Off(k)'
  BY TruthIs, PTL
<1> QED BY <1>1, <1>2, <1>3, <1>4, Zenon DEF WasOn, WasOff

\* The keys the model speaks of.
LEMMA KeysAre ==
  ASSUME TypeOK
  PROVE  /\ \A d \in Table : row[d].key \in Keys
         /\ view \subseteq Keys /\ pull.new \subseteq Keys /\ pull.deleted \subseteq Keys
<1>1. \A d \in Table : row[d].key \in Keys
  BY Typed DEF Table
<1>2. view \subseteq Keys
  BY DEF TypeOK
<1>3. pull.new \subseteq Keys /\ pull.deleted \subseteq Keys
  BY Typed DEF PullRec
<1> QED BY <1>1, <1>2, <1>3

\* HNext clears the history with the pull, and records what is so.
LEMMA HeldNow ==
  ASSUME HNext, NoSim, NoSim'
  PROVE  HeldIdle' /\ NowHeld'
<1>1. HeldIdle'
  BY DEF HNext, HeldIdle
<1>2. NowHeld'
  BY HeldGrows DEF NowHeld
<1> QED BY <1>1, <1>2

\* Time passes, or nothing does.
LEMMA HeldWait ==
  ASSUME BaseInv, NoSim, NoSim', HeldInv, HNext, UNCHANGED <<row, pull, view, fresh>>
  PROVE  HeldInv'
<1>1. pull.pc # "idle" =>
        \A k \in Keys : (WasOn(k) => WasOn(k)') /\ (WasOff(k) => WasOff(k)')
  BY HeldGrows
<1>2. Table' = Table /\ \A k : (Due(k)' <=> Due(k)) /\ (Ahead(k)' <=> Ahead(k))
  BY DEF Table, Due, Ahead, Window
<1>3. /\ \A d \in Table : row[d].key \in Keys
      /\ view \subseteq Keys /\ pull.new \subseteq Keys /\ pull.deleted \subseteq Keys
  BY KeysAre DEF BaseInv
<1>4. ActiveHeld'
  BY <1>1, <1>2, <1>3 DEF HeldInv, ActiveHeld
<1>5. AnswerHeld'
  BY <1>1, <1>3 DEF HeldInv, AnswerHeld
<1>6. StaleHeld'
  BY <1>1, <1>2, <1>3 DEF HeldInv, StaleHeld
<1>7. FreshHeld'
  BY <1>1, <1>2 DEF HeldInv, FreshHeld
<1> QED BY <1>4, <1>5, <1>6, <1>7, HeldNow DEF HeldInv

\* A decision is inserted: its key is to be blocked.
LEMMA HeldInsert ==
  ASSUME BaseInv, TypeOK', NoSim, NoSim', HeldInv, HNext, NEW d \in Ids, Inserts(d),
         happened' = {}
  PROVE  HeldInv'
<1>1. /\ UNCHANGED <<clock, pull, view, fresh>> /\ row[d].state = "none"
      /\ row'[d].until > clock /\ \A e \in Ids : e # d => row'[e] = row[e]
  BY DEF Inserts, Writes
<1>2. pull.pc # "idle" =>
        \A k \in Keys : /\ (WasOn(k) => WasOn(k)') /\ (WasOff(k) => WasOff(k)')
                        /\ On(k)' => WasOn(k)'
  BY <1>1, HeldGrows
<1>3. /\ \A e \in Table : row[e].key \in Keys
      /\ view \subseteq Keys /\ pull.new \subseteq Keys /\ pull.deleted \subseteq Keys
  BY KeysAre DEF BaseInv
<1>4. \A e \in Table' : e # d => e \in Table /\ row'[e] = row[e]
  BY <1>1 DEF Table
<1>5. ASSUME NEW k, d \in Table', row'[d].key = k PROVE k \in Keys /\ On(k)'
  <2>1. clock \in Nat /\ row'[d].until \in Nat /\ row'[d].key \in Keys
    BY <1>1, Typed DEF BaseInv, Inserts, Writes, RowRec
  <2>2. row'[d].until >= clock'
    BY <1>1, <2>1
  <2> QED BY <1>5, <2>1, <2>2 DEF On
<1>6. ActiveHeld'
  BY <1>1, <1>2, <1>3, <1>4, <1>5 DEF HeldInv, ActiveHeld
<1>7. AnswerHeld'
  BY <1>1, <1>2, <1>3 DEF HeldInv, AnswerHeld
<1>8. StaleHeld'
  BY <1>1, <1>2, <1>3, InsertBehind DEF HeldInv, StaleHeld
<1>9. FreshHeld'
  BY <1>1, <1>2, InsertBehind DEF HeldInv, FreshHeld
<1> QED BY <1>6, <1>7, <1>8, <1>9, HeldNow DEF HeldInv

\* A decision is expired that was active, so its key was to be blocked.
LEMMA HeldExpire ==
  ASSUME BaseInv, NoSim, NoSim', HeldInv, HNext, NEW d \in Ids, Expires(d),
         happened' = {}
  PROVE  HeldInv'
<1>1. /\ UNCHANGED <<clock, pull, view, fresh>>
      /\ row'[d].state = row[d].state /\ row'[d].key = row[d].key
      /\ \A e \in Ids : e # d => row'[e] = row[e]
      /\ ~(pull.pc = "new" /\ pull.last > 0)
      /\ ~(row[d].state = "live" /\ row[d].until <= clock)
  BY DEF Expires, Writes
<1>2. pull.pc # "idle" =>
        \A k \in Keys : (WasOn(k) => WasOn(k)') /\ (WasOff(k) => WasOff(k)')
  BY <1>1, HeldGrows
<1>3. /\ \A e \in Table : row[e].key \in Keys
      /\ view \subseteq Keys /\ pull.new \subseteq Keys /\ pull.deleted \subseteq Keys
  BY KeysAre DEF BaseInv
<1>4. Table' = Table /\ Table \subseteq Ids /\ \A e \in Table : row'[e].key = row[e].key
  BY <1>1 DEF Table
<1>5. /\ pull.last \in Nat /\ clock \in Nat /\ pull.start \in Nat
      /\ \A e \in Ids : e \in Nat /\ e > 0 /\ row[e].until \in Nat
  BY Typed, StreamAssumption DEF BaseInv, Ids, StreamAssumption
<1>6. pull.pc # "idle" /\ d \in Table => WasOn(row[d].key)
  <2>1. pull.pc # "idle" /\ d \in Table => row[d].until >= pull.start
    BY <1>1, <1>5 DEF Table, BaseInv, Younger
  <2> QED BY <2>1 DEF HeldInv, ActiveHeld
<1>7. ActiveHeld'
  BY <1>1, <1>2, <1>3, <1>4, <1>6 DEF HeldInv, ActiveHeld
<1>8. AnswerHeld'
  BY <1>1, <1>2, <1>3 DEF HeldInv, AnswerHeld
<1>9. ASSUME NEW k, Due(k), ~(d \in Table /\ row[d].key = k) PROVE Due(k)'
  <2>1. \A e \in Table : row[e].key = k => row'[e] = row[e]
    BY <1>1, <1>4, <1>9
  <2> QED BY <1>1, <1>4, <1>9, <2>1 DEF Due, Window
<1>10. StaleHeld'
  BY <1>1, <1>2, <1>3, <1>6, <1>9 DEF HeldInv, StaleHeld
<1>11. ASSUME NEW k, Ahead(k), pull.pc = "new" PROVE Ahead(k)'
  <2>1. ~(pull.last > 0)
    BY <1>1, <1>11, Zenon
  <2>2. ASSUME NEW e \in Table PROVE ~(e <= pull.last)
    <3>1. e \in Nat /\ e > 0 /\ pull.last \in Nat
      BY <1>4, <1>5, Zenon
    <3> QED BY <2>1, <3>1
  <2> QED BY <1>1, <1>4, <1>11, <2>2 DEF Ahead
<1>12. FreshHeld'
  BY <1>1, <1>2, <1>11 DEF HeldInv, FreshHeld
<1> QED BY <1>7, <1>8, <1>10, <1>12, HeldNow DEF HeldInv

\* A row gives way to an active one: its key is to be blocked.
LEMMA HeldReplace ==
  ASSUME BaseInv, TypeOK', NoSim, NoSim', HeldInv, HNext,
         NEW d \in Ids, NEW e \in Ids, Replaces(d, e), happened' = {}
  PROVE  HeldInv'
<1> SUFFICES ASSUME NEW k0, k0 = row[d].key PROVE HeldInv'
  OBVIOUS
<1>1. /\ UNCHANGED <<clock, pull, view, fresh>> /\ ~(pull.pc = "new" /\ pull.last > 0)
      /\ row[d].state = "live" /\ row'[d].state = "gone" /\ row[e].state = "none"
      /\ row'[e].state = "live" /\ row'[e].key = k0 /\ row'[e].until > clock
      /\ \A f \in Ids : f # d /\ f # e => row'[f] = row[f]
  BY DEF Replaces
<1>2. pull.pc # "idle" =>
        \A k \in Keys : /\ (WasOn(k) => WasOn(k)') /\ (WasOff(k) => WasOff(k)')
                        /\ On(k)' => WasOn(k)'
  BY <1>1, HeldGrows
<1>3. /\ \A f \in Table : row[f].key \in Keys
      /\ view \subseteq Keys /\ pull.new \subseteq Keys /\ pull.deleted \subseteq Keys
  BY KeysAre DEF BaseInv
<1>4. /\ clock \in Nat /\ row'[e].until \in Nat /\ pull.last \in Nat
      /\ \A f \in Ids : f \in Nat /\ f > 0
  BY Typed, StreamAssumption DEF BaseInv, Replaces, RowRec, Ids, StreamAssumption
<1>5. e \in Table' /\ d \in Table /\ Table' \subseteq Ids
      /\ \A f \in Table' : f # e => f \in Table /\ row'[f] = row[f]
  BY <1>1 DEF Table
<1>6. k0 \in Keys /\ On(k0)'
  <2>1. row'[e].until >= clock'
    BY <1>1, <1>4
  <2> QED BY <1>1, <1>3, <1>5, <2>1 DEF On
<1>7. \A f : row[f].key # k0 /\ f \in Table => f \in Table' /\ row'[f] = row[f]
  BY <1>1 DEF Table
<1>8. \A f : row'[f].key # k0 /\ f \in Table' => f \in Table /\ row'[f] = row[f]
  BY <1>1 DEF Table
<1>9. ActiveHeld'
  BY <1>1, <1>2, <1>3, <1>5, <1>6 DEF HeldInv, ActiveHeld
<1>10. AnswerHeld'
  BY <1>1, <1>2, <1>3 DEF HeldInv, AnswerHeld
<1>11. ASSUME NEW k, k # k0, Due(k) PROVE Due(k)'
  <2>1. \A f : row[f].key = k /\ f \in Table => f \in Table' /\ row'[f] = row[f]
    BY <1>7, <1>11
  <2>2. \A f : row'[f].key = k /\ f \in Table' => f \in Table /\ row'[f] = row[f]
    BY <1>8, <1>11
  <2> QED BY <1>1, <1>11, <2>1, <2>2 DEF Due, Window
<1>12. StaleHeld'
  BY <1>1, <1>2, <1>3, <1>6, <1>11 DEF HeldInv, StaleHeld
<1>13. ASSUME NEW k, Ahead(k), pull.pc = "new" PROVE Ahead(k)'
  <2>1. pull.last = 0
    BY <1>1, <1>4, <1>13
  <2>2. \A f \in Table' : f > pull.last /\ ~(f <= pull.last)
    BY <1>4, <1>5, <2>1
  <2>3. \E f \in Table' : row'[f].key = k
    BY <1>1, <1>5, <1>7, <1>13 DEF Ahead
  <2> QED BY <1>1, <2>2, <2>3 DEF Ahead
<1>14. FreshHeld'
  BY <1>1, <1>2, <1>13 DEF HeldInv, FreshHeld
<1> QED BY <1>9, <1>10, <1>12, <1>14, HeldNow DEF HeldInv

\* A page of new decisions names keys that were to be blocked.
LEMMA HeldPageNew ==
  ASSUME BaseInv, NoSim, NoSim', Seen, ClearInv, HeldInv, HNext, PagesNew
  PROVE  HeldInv'
<1> DEFINE rows == Page(NewDecisions)
<1>1. /\ UNCHANGED <<clock, row, view, fresh>> /\ pull.pc = "new" /\ pull'.pc # "idle"
      /\ pull'.start = pull.start /\ pull'.deleted = pull.deleted
      /\ pull'.new = pull.new \cup KeysOf(rows) /\ rows \subseteq NewDecisions
      /\ pull'.pc \in {"new", "deleted"}
  BY DEF PagesNew, PagesThrough
<1> HIDE DEF rows
<1>2. \A k \in Keys : (WasOn(k) => WasOn(k)') /\ (WasOff(k) => WasOff(k)')
  BY <1>1, HeldGrows
<1>3. /\ \A e \in Table : row[e].key \in Keys
      /\ view \subseteq Keys /\ pull.new \subseteq Keys /\ pull.deleted \subseteq Keys
  BY KeysAre DEF BaseInv
<1>4. Table' = Table
  BY <1>1 DEF Table
<1>5. ActiveHeld'
  BY <1>1, <1>2, <1>3, <1>4 DEF HeldInv, ActiveHeld
<1>6. \A k \in KeysOf(rows) : k \in Keys /\ WasOn(k)
  <2> SUFFICES ASSUME NEW e \in rows PROVE row[e].key \in Keys /\ WasOn(row[e].key)
    BY DEF KeysOf
  <2>1. e \in Table /\ row[e].until > pull.start
    BY <1>1 DEF NewDecisions
  <2>2. row[e].until >= pull.start
    BY <2>1, Typed DEF BaseInv, Table
  <2> QED BY <1>1, <1>3, <2>1, <2>2 DEF HeldInv, ActiveHeld
<1>7. AnswerHeld'
  BY <1>1, <1>2, <1>3, <1>6 DEF HeldInv, AnswerHeld
<1>8. StaleHeld'
  BY <1>1, DueAfterNew DEF StaleHeld
<1>9. ASSUME NEW k \in Keys, ~WasOff(k)
      PROVE  k \in pull'.new \/ (~fresh /\ k \in view) \/ (pull'.pc = "new" /\ Ahead(k)')
  <2>1. ~Off(k)
    BY <1>1, <1>9 DEF HeldInv, NowHeld
  <2>2. PICK x \in Table : row[x].key = k /\ ~(row[x].until <= clock)
    BY <2>1 DEF Off
  <2>3. x \in Ids /\ Active(x)
    BY <2>2, Typed DEF BaseInv, Table, Active
  <2>4. k \in pull.new \/ (~fresh /\ k \in view) \/ Ahead(k)
    BY <1>1, <1>9 DEF HeldInv, FreshHeld
  <2> QED BY <1>1, <2>2, <2>3, <2>4, PageReaches
<1>10. FreshHeld'
  BY <1>1, <1>2, <1>9 DEF FreshHeld
<1> QED BY <1>5, <1>7, <1>8, <1>10, HeldNow DEF HeldInv

\* A page of expired decisions names keys that were not.
LEMMA HeldPageDeleted ==
  ASSUME BaseInv, NoSim, NoSim', HeldInv, HNext, PagesDeleted
  PROVE  HeldInv'
<1> DEFINE rows == Page(ExpiredDecisions)
<1>1. /\ UNCHANGED <<clock, row, view, fresh>> /\ pull.pc = "deleted" /\ pull'.pc # "idle"
      /\ pull'.start = pull.start /\ pull'.new = pull.new
      /\ pull'.deleted = pull.deleted \cup KeysOf(rows) /\ rows \subseteq ExpiredDecisions
      /\ pull'.pc \in {"deleted", "sent"}
  BY DEF PagesDeleted, PagesThrough
<1> HIDE DEF rows
<1>2. \A k \in Keys : (WasOn(k) => WasOn(k)') /\ (WasOff(k) => WasOff(k)')
  BY <1>1, HeldGrows
<1>3. /\ \A e \in Table : row[e].key \in Keys
      /\ view \subseteq Keys /\ pull.new \subseteq Keys /\ pull.deleted \subseteq Keys
  BY KeysAre DEF BaseInv
<1>4. Table' = Table
  BY <1>1 DEF Table
<1>5. ActiveHeld'
  BY <1>1, <1>2, <1>3, <1>4 DEF HeldInv, ActiveHeld
<1>6. \A k \in KeysOf(rows) : k \in Keys /\ WasOff(k)
  <2> SUFFICES ASSUME NEW e \in rows PROVE row[e].key \in Keys /\ WasOff(row[e].key)
    BY DEF KeysOf
  <2>1. /\ e \in Table /\ row[e].until < pull.start
        /\ ~ \E x \in Table : row[x].key = row[e].key /\ row[x].until > row[e].until
    BY <1>1 DEF ExpiredDecisions, longestDecisionForScopeTypeValue
  <2>2. /\ clock \in Nat /\ pull.start \in Nat /\ pull.start <= clock
        /\ \A x \in Table : row[x].until \in Nat
    BY <1>1, Typed DEF BaseInv, Younger, Table
  <2>3. \A x \in Table : row[x].key = row[e].key => row[x].until <= clock
    BY <2>1, <2>2
  <2>4. Off(row[e].key) /\ row[e].key \in Keys
    BY <1>3, <2>1, <2>3 DEF Off
  <2> QED BY <1>1, <2>4 DEF HeldInv, NowHeld
<1>7. AnswerHeld'
  BY <1>1, <1>2, <1>3, <1>6 DEF HeldInv, AnswerHeld
<1>8. StaleHeld'
  <2> SUFFICES ASSUME NEW k \in view
               PROVE  k \in pull'.deleted \/ WasOn(k)' \/ (pull'.pc = "deleted" /\ Due(k)')
    BY <1>1 DEF StaleHeld
  <2>1. k \in pull.deleted \/ WasOn(k) \/ Due(k)
    BY <1>1 DEF HeldInv, StaleHeld
  <2>2. (\E e \in Table : row[e].key = k /\ row[e].until >= pull.start) => WasOn(k)
    BY <1>1 DEF HeldInv, ActiveHeld
  <2> QED BY <1>1, <1>2, <1>3, <2>1, <2>2, DuePage
<1>9. FreshHeld'
  BY <1>1, <1>2 DEF HeldInv, FreshHeld
<1> QED BY <1>5, <1>7, <1>8, <1>9, HeldNow DEF HeldInv

\* A pull begins: what is so is held.
LEMMA HeldBegin ==
  ASSUME BaseInv, NoSim, NoSim', HNext, Begins
  PROVE  HeldInv'
<1>1. /\ UNCHANGED row /\ pull.pc = "idle" /\ pull'.pc = "new"
      /\ pull'.start = clock /\ pull'.last = 0 /\ pull'.new = {} /\ pull'.deleted = {}
  BY DEF Begins
<1>2. \A k \in Keys : (On(k) => WasOn(k)') /\ (Off(k) => WasOff(k)')
  BY <1>1, HeldGrows
<1>3. /\ Table' = Table /\ \A e \in Table : row[e].key \in Keys /\ e \in Nat /\ e > 0
  BY <1>1, Typed, StreamAssumption DEF BaseInv, Table, Ids, StreamAssumption
<1>4. ActiveHeld'
  <2> SUFFICES ASSUME NEW e \in Table, row[e].until >= clock, NEW k, row[e].key = k
               PROVE  WasOn(k)'
    BY <1>1, <1>3 DEF ActiveHeld
  <2> QED BY <1>2, <1>3 DEF On
<1>5. AnswerHeld' /\ StaleHeld'
  BY <1>1 DEF AnswerHeld, StaleHeld
<1>6. FreshHeld'
  <2> SUFFICES ASSUME NEW k \in Keys, ~Off(k) PROVE Ahead(k)'
    BY <1>1, <1>2 DEF FreshHeld
  <2>1. PICK e \in Table : row[e].key = k
    BY DEF Off
  <2>2. e > pull'.last /\ \A f \in Table : ~(f <= pull'.last)
    BY <1>1, <1>3
  <2> QED BY <1>1, <1>3, <2>1, <2>2 DEF Ahead
<1> QED BY <1>4, <1>5, <1>6, HeldNow DEF HeldInv

\* Every step that nothing excludes keeps the history true.
LEMMA HeldStep ==
  ASSUME BaseInv, BaseInv', LiftInv, NoSim, NoSim', MissInv, ClearInv, HeldInv, HNext,
         happened' = {}
  PROVE  HeldInv'
<1>1. TypeOK /\ TypeOK' /\ [Next]_vars
  BY DEF BaseInv, HNext
<1>2. CASE Waits
  BY <1>2, HeldWait DEF Waits
<1>3. CASE Ends \/ Restart
  <2>1. pull'.pc = "idle"
    BY <1>3, IdleIs DEF Ends, Restart
  <2> QED BY <2>1, HeldNow DEF HeldInv, ActiveHeld, AnswerHeld, StaleHeld, FreshHeld
<1>4. ASSUME NEW d \in Ids, Commits(d) \/ Flushes(d) \/ Deletes(d) PROVE FALSE
  BY <1>4 DEF Commits, Flushes, Deletes, LiftInv, NoneOpen
<1> QED
  BY <1>1, <1>2, <1>3, <1>4, StepIs, HeldInsert, HeldExpire, HeldReplace, HeldBegin,
     HeldPageNew, HeldPageDeleted DEF MissInv

\* A step that neither begins nor ends a pull is a Change.
LEMMA MapChange ==
  ASSUME HNext, HeldInv, TypeOK', NoSim', (pull'.pc = "idle") <=> (pull.pc = "idle"),
         pull'.start = pull.start, UNCHANGED <<view, lastPull>>
  PROVE  BV!Change
<1>1. (truth \in [Keys -> BV!Verdicts])'
  BY TruthType, PTL
<1>2. CASE pull.pc = "idle"
  <2>1. held' = held
    BY <1>2 DEF HNext, HeldInv, HeldIdle
  <2> QED BY <1>1, <1>2, <2>1 DEF BV!Change
<1>3. CASE pull.pc # "idle"
  <2>1. held' = [k \in Keys |-> held[k] \cup truth'[k]]
    BY <1>3 DEF HNext
  <2> QED BY <1>1, <1>3, <2>1 DEF BV!Change, BV!Both
<1> QED BY <1>2, <1>3

\* A pull that begins is a Begin.
LEMMA MapBegin ==
  ASSUME BaseInv, HNext, TypeOK', NoSim', Begins
  PROVE  BV!Begin
<1>1. (truth \in [Keys -> BV!Verdicts])'
  BY TruthType, PTL
<1>2. /\ pull.pc = "idle" /\ pull'.pc # "idle" /\ pull'.start = clock
      /\ UNCHANGED <<view, lastPull>>
  BY DEF Begins
<1>3. pull'.start >= lastPull
  BY <1>2, Typed DEF BaseInv, Recorded
<1>4. held' = [k \in Keys |-> truth[k] \cup truth'[k]]
  BY <1>2 DEF HNext
<1> QED BY <1>1, <1>2, <1>3, <1>4 DEF BV!Begin, BV!Both

\* An answer leaves each key as it was at some moment, or as it is when the
\* answer is not complete.
LEMMA MapEnd ==
  ASSUME BaseInv, HeldInv, HNext, Ends, happened' = {}
  PROVE  BV!Complete \/ BV!Fail
<1>1. pull.pc # "idle" /\ pull'.pc = "idle" /\ pull'.start = 0 /\ UNCHANGED <<clock, row>>
  BY IdleIs DEF Ends
<1>2. truth' = truth
  BY <1>1 DEF truth, Truth, Wanted, Table
<1>3. held' = [k \in Keys |-> {}]
  BY <1>1 DEF HNext
<1>4. view \subseteq Keys /\ pull.new \subseteq Keys
  BY KeysAre DEF BaseInv
<1>5. \A k \in pull.new : TRUE \in held[k]
  BY <1>1, Zenon DEF HeldInv, AnswerHeld, WasOn
<1>6. \A k \in pull.deleted : FALSE \in held[k]
  BY <1>1, Zenon DEF HeldInv, AnswerHeld, WasOff
<1> DEFINE Answered == (view \ pull.deleted) \cup pull.new
<1>7. ASSUME NEW A, \A k \in Keys : (k \in view') \in A[k], view' \in SUBSET Keys
      PROVE  BV!End(A)
  BY <1>1, <1>2, <1>3, <1>7 DEF BV!End, BV!Nothing
<1>8. ASSUME pull.pc = "sent", view' = Answered, NEW k \in Keys
      PROVE  (k \in view') \in held[k]
  <2>1. \A x \in view : x \in pull.deleted \/ TRUE \in held[x]
    BY <1>8, Zenon DEF HeldInv, StaleHeld, WasOn
  <2>2. FALSE \in held[k] \/ k \in pull.new \/ k \in view
    BY <1>8, Zenon DEF HeldInv, FreshHeld, WasOff
  <2>3. CASE k \in Answered
    <3>1. TRUE \in held[k]
      BY <1>5, <2>1, <2>3, Zenon
    <3>2. (k \in view') = TRUE
      BY <1>8, <2>3
    <3> QED BY <3>1, <3>2, Zenon
  <2>4. CASE k \notin Answered
    <3>1. FALSE \in held[k]
      BY <1>6, <2>2, <2>4, Zenon
    <3>2. (k \in view') = FALSE
      BY <1>8, <2>4
    <3> QED BY <3>1, <3>2, Zenon
  <2> QED BY <2>3, <2>4
<1> DEFINE Seed == [k \in Keys |-> {(k \in view)}]
           Allowed == BV!Both(held, Seed)
<1>9. ASSUME NEW k \in Keys PROVE Allowed[k] = held[k] \cup {(k \in view)}
  BY DEF BV!Both
<1>10. ASSUME view' = Answered \/ view' = view, NEW k \in Keys
       PROVE  (k \in view') \in Allowed[k]
  <2>1. CASE (k \in view') = (k \in view)
    <3>1. (k \in view') \in {(k \in view)}
      BY <2>1, Zenon
    <3> QED BY <1>9, <3>1, Zenon
  <2>2. CASE k \in view' /\ k \notin view
    <3>1. k \in pull.new
      BY <1>10, <2>2, Zenon
    <3>2. TRUE \in held[k]
      BY <1>5, <3>1, Zenon
    <3>3. (k \in view') = TRUE
      BY <2>2
    <3> QED BY <1>9, <3>2, <3>3, Zenon
  <2>3. CASE k \notin view' /\ k \in view
    <3>1. k \in pull.deleted
      BY <1>10, <2>3
    <3>2. FALSE \in held[k]
      BY <1>6, <3>1, Zenon
    <3>3. (k \in view') = FALSE
      BY <2>3
    <3> QED BY <1>9, <3>2, <3>3, Zenon
  <2> QED BY <2>1, <2>2, <2>3
<1>11. Answered \in SUBSET Keys /\ view \in SUBSET Keys
  BY <1>4
<1> HIDE DEF Answered, Allowed, Seed
<1>12. CASE view' = Answered /\ pull.pc = "sent" /\ lastPull' = pull.start
  <2>1. BV!End(held)
    BY <1>7, <1>8, <1>11, <1>12
  <2> QED BY <1>12, <2>1 DEF BV!Complete
<1>13. CASE (view' = Answered \/ view' = view) /\ lastPull' = lastPull
  <2>1. BV!End(Allowed)
    BY <1>7, <1>10, <1>11, <1>13
  <2> QED BY <1>13, <2>1 DEF BV!Fail, Allowed, Seed
<1>14. \/ view' = Answered /\ pull.pc = "sent" /\ lastPull' = pull.start
       \/ (view' = Answered \/ view' = view) /\ lastPull' = lastPull
  BY DEF Ends, Answered
<1> QED BY <1>12, <1>13, <1>14

\* Every step is a step of BouncerView.
LEMMA MapStep ==
  ASSUME BaseInv, TypeOK', LiftInv, NoSim', HeldInv, HNext, happened' = {}
  PROVE  BV!Next
<1>1. TypeOK /\ [Next]_vars
  BY DEF BaseInv, HNext
<1>2. CASE \/ Waits
           \/ \E d \in Ids : Inserts(d) \/ Expires(d)
           \/ \E d, e \in Ids : Replaces(d, e)
  <2>1. UNCHANGED <<pull, view, lastPull>>
    BY <1>2 DEF Waits, Inserts, Expires, Replaces, Writes
  <2> QED BY <2>1, MapChange DEF BV!Next
<1>3. CASE PagesNew \/ PagesDeleted
  <2>1. /\ pull.pc # "idle" /\ pull'.pc # "idle" /\ pull'.start = pull.start
        /\ UNCHANGED <<view, lastPull>>
    BY <1>3 DEF PagesNew, PagesDeleted, PagesThrough
  <2> QED BY <2>1, MapChange DEF BV!Next
<1>4. CASE Begins
  BY <1>4, MapBegin DEF BV!Next
<1>5. CASE Ends
  BY <1>5, MapEnd DEF BV!Next
<1>6. CASE Restart
  <2>1. pull.pc = "idle" /\ view' = {} /\ UNCHANGED <<clock, row, pull, lastPull>>
    BY <1>6 DEF Restart
  <2>2. truth' = truth
    BY <2>1 DEF truth, Truth, Wanted, Table
  <2>3. held' = held
    BY <2>1 DEF HNext, HeldInv, HeldIdle
  <2> QED BY <2>1, <2>2, <2>3 DEF BV!Next, BV!Restart
<1>7. ASSUME NEW d \in Ids, Commits(d) \/ Flushes(d) \/ Deletes(d) PROVE FALSE
  BY <1>7 DEF Commits, Flushes, Deletes, LiftInv, NoneOpen
<1> QED BY <1>1, <1>2, <1>3, <1>4, <1>5, <1>6, <1>7, StepIs

\* The initial states are initial states of BouncerView.
LEMMA MapInit ==
  ASSUME HInit
  PROVE  BV!Init
<1>1. /\ view = {} /\ lastPull = -1 /\ happened = {} /\ held = [k \in Keys |-> {}]
      /\ pull.pc = "idle" /\ pull.start = 0 /\ row = [d \in Ids |-> NoRow]
  BY IdleIs DEF HInit, Init, Never
<1>2. NoSim /\ \A k : Off(k) /\ ~On(k)
  BY <1>1, NoRowIs DEF NoSim, Table, On, Off
<1>3. ASSUME NEW k \in Keys PROVE Truth(k) = {FALSE}
  BY <1>2, TruthIs, Zenon
<1>4. truth = [k \in Keys |-> {FALSE}]
  BY <1>3, Zenon DEF truth
<1> QED BY <1>1, <1>4 DEF BV!Init

\* The invariants the refinement rests on, until something is excluded.
RefinementInv ==
  /\ BaseInv
  /\ happened = {} => LiftInv /\ NoSim /\ MissInv /\ ClearInv

\* They hold, with or without the history.
LEMMA RefinementInvariant == Spec => []RefinementInv
<1>1. /\ BaseInv /\ ("late" \in happened \/ LiftInv) /\ ("sim" \in happened \/ NoSim)
      /\ (Unharmed => MissInv) /\ (Calm => ClearInv)
      => RefinementInv
  BY DEF RefinementInv, Unharmed, Calm
<1> QED BY <1>1, MissInvariant, ClearInvariant, PTL

\* The history is true as long as nothing is excluded.
LEMMA HeldInvariant == HSpec => [](RefinementInv /\ (happened = {} => HeldInv))
<1>1. HSpec => Spec
  <2>1. HInit => Init
    BY DEF HInit
  <2>2. [HNext]_hvars => [Next]_vars
    BY DEF HNext, hvars
  <2> QED BY <2>1, <2>2, PTL DEF HSpec, Spec
<1>2. HInit => HeldInv
  <2> SUFFICES ASSUME HInit PROVE HeldInv
    OBVIOUS
  <2>1. pull.pc = "idle" /\ held = [k \in Keys |-> {}]
    BY IdleIs DEF HInit, Init
  <2> QED
    BY <2>1 DEF HeldInv, HeldIdle, NowHeld, ActiveHeld, AnswerHeld, StaleHeld, FreshHeld
<1>3. ASSUME RefinementInv, RefinementInv', happened = {} => HeldInv, [HNext]_hvars,
             happened' = {}
      PROVE  HeldInv'
  <2>1. CASE HNext
    <3>1. happened = {}
      BY <1>3, <2>1, Remembered DEF HNext
    <3> QED BY <1>3, <2>1, <3>1, HeldStep DEF RefinementInv
  <2>2. CASE UNCHANGED hvars
    <3>1. UNCHANGED <<clock, row, pull, view, fresh, held, happened>>
      BY <2>2 DEF hvars, vars
    <3>2. Table' = Table
      BY <3>1 DEF Table
    <3>3. \A k : /\ (On(k)' <=> On(k)) /\ (Off(k)' <=> Off(k))
                 /\ (Due(k)' <=> Due(k)) /\ (Ahead(k)' <=> Ahead(k))
      BY <3>1, <3>2 DEF On, Off, Due, Ahead, Window
    <3>4. \A k : (WasOn(k)' <=> WasOn(k)) /\ (WasOff(k)' <=> WasOff(k))
      BY <3>1 DEF WasOn, WasOff
    <3>5. HeldInv
      BY <1>3, <3>1
    <3> QED
      BY <3>1, <3>2, <3>3, <3>4, <3>5, Zenon DEF HeldInv, HeldIdle, NowHeld, ActiveHeld,
         AnswerHeld, StaleHeld, FreshHeld
  <2> QED BY <1>3, <2>1, <2>2
<1>4. RefinementInv /\ RefinementInv' /\ (happened = {} => HeldInv) /\ [HNext]_hvars
      => (happened = {} => HeldInv)'
  BY <1>3
<1> QED BY <1>1, <1>2, <1>4, RefinementInvariant, PTL DEF HSpec

\* Implements for every value of the constants: through any interleaving of
\* pages, inserts, expiries, replaced rows, failed pulls and restarts,
\* every answer leaves each key as it was at some moment since the pull began.
THEOREM ImplementsHolds == HSpec => Implements
<1>1. HInit => BV!Init
  BY MapInit
<1>2. ASSUME RefinementInv, RefinementInv', happened = {} => HeldInv, [HNext]_hvars
      PROVE  [BV!Next]_(BV!vars)
  <2>1. CASE HNext /\ happened' # {}
    BY <2>1 DEF BV!Next
  <2>2. CASE HNext /\ happened' = {}
    <3>1. happened = {}
      BY <2>2, Remembered DEF HNext
    <3> QED BY <1>2, <2>2, <3>1, MapStep DEF RefinementInv, BaseInv
  <2>3. CASE UNCHANGED hvars
    BY <2>3 DEF hvars, vars, BV!vars, truth, Truth, Wanted, Table
  <2> QED BY <1>2, <2>1, <2>2, <2>3
<1> QED BY <1>1, <1>2, HeldInvariant, PTL DEF HSpec, Implements, BV!Spec

=============================================================================
