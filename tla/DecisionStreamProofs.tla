------------------------ MODULE DecisionStreamProofs ------------------------
(***************************************************************************)
(* Proofs about the decision stream, for every number of decisions, keys,  *)
(* pages and failures. First, that no answer lifts a key that has an       *)
(* active decision older than the pull, as long as rows are visible when   *)
(* created (LiftInv). Then what the modules that go on from here need: the *)
(* pages of a query, the kinds of step (it waits, inserts, commits,        *)
(* expires, removes or replaces a row, begins a pull, pages through a      *)
(* query, ends the pull or restarts the bouncer), the order of the         *)
(* recorded times (BaseInv), and types.                                    *)
(***************************************************************************)
EXTENDS StreamRefinement, FiniteSetTheorems, TLAPS

(* Least and greatest elements, and the pages of a query.                  *)

\* A non-empty finite set has an element of the greatest weight w.
LEMMA Heaviest ==
  ASSUME NEW S, IsFiniteSet(S), S # {}, NEW w, \A x \in S : w[x] \in Int
  PROVE  \E m \in S : \A x \in S : w[x] <= w[m]
<1> DEFINE Bad == {T \in SUBSET S : T # {} /\ ~ \E m \in T : \A x \in T : w[x] <= w[m]}
<1> SUFFICES ASSUME Bad # {} PROVE FALSE
  OBVIOUS
<1>1. Bad \subseteq FiniteSubsetsOf(S)
  BY FS_FiniteSubsetsOfFinite
<1>2. PICK T \in Bad : \A U \in Bad : ~(<<U, T>> \in StrictSubsetOrdering(S))
  <2> HIDE DEF Bad
  <2> QED BY <1>1, FS_StrictSubsetOrderingWellFounded, WFMin
<1>3. PICK y \in T : TRUE
  BY <1>2
<1> DEFINE U == T \ {y}
<1>4. U \in SUBSET S /\ U \subseteq T /\ U # T /\ T \in SUBSET S
  BY <1>2, <1>3
<1>5. U \notin Bad
  <2>1. <<U, T>> \in StrictSubsetOrdering(S)
    BY <1>4 DEF StrictSubsetOrdering
  <2> HIDE DEF Bad, U
  <2> QED BY <1>2, <2>1
<1>6. CASE U = {}
  <2>1. T = {y} /\ w[y] \in Int
    BY <1>3, <1>4, <1>6
  <2> QED BY <1>2, <2>1
<1>7. CASE U # {}
  <2>1. PICK m \in U : \A x \in U : w[x] <= w[m]
    BY <1>4, <1>5, <1>7
  <2>2. w[m] \in Int /\ w[y] \in Int /\ m \in T /\ \A x \in T : x = y \/ x \in U
    BY <1>3, <1>4
  <2>3. \A x \in T : w[x] \in Int
    BY <1>4
  <2>4. CASE w[y] <= w[m]
    BY <1>2, <2>1, <2>2, <2>4
  <2>5. CASE w[m] <= w[y]
    <3>1. \A x \in T : w[x] <= w[y]
      BY <2>1, <2>2, <2>3, <2>5
    <3> QED BY <1>2, <1>3, <3>1
  <2> QED BY <2>2, <2>4, <2>5
<1> QED BY <1>6, <1>7

\* Sets of ids are finite and have a least and a greatest one.
LEMMA IdsFinite ==
  ASSUME NEW S \in SUBSET Ids
  PROVE  /\ IsFiniteSet(S) /\ Cardinality(S) \in Nat
         /\ S # {} => /\ Lowest(S) \in S /\ \A e \in S : Lowest(S) <= e
                      /\ Highest(S) \in S /\ \A e \in S : Highest(S) >= e
<1>1. IsFiniteSet(S) /\ Cardinality(S) \in Nat
  <2>1. IsFiniteSet(Ids)
    BY StreamAssumption, FS_Interval DEF Ids, StreamAssumption
  <2> QED BY <2>1, FS_Subset, FS_CardinalityType
<1>2. \A x \in S : x \in Nat
  BY StreamAssumption DEF Ids, StreamAssumption
<1>3. ASSUME S # {} PROVE Highest(S) \in S /\ \A e \in S : Highest(S) >= e
  <2> DEFINE w == [x \in S |-> x]
  <2>1. \A x \in S : w[x] = x /\ w[x] \in Int
    BY <1>2
  <2> HIDE DEF w
  <2>2. \E m \in S : \A x \in S : w[x] <= w[m]
    BY <1>1, <1>3, <2>1, Heaviest
  <2>3. \E m \in S : \A x \in S : m >= x
    BY <1>2, <2>1, <2>2
  <2> QED BY <2>3 DEF Highest
<1>4. ASSUME S # {} PROVE Lowest(S) \in S /\ \A e \in S : Lowest(S) <= e
  <2> DEFINE w == [x \in S |-> -x]
  <2>1. \A x \in S : w[x] = -x /\ w[x] \in Int
    BY <1>2
  <2> HIDE DEF w
  <2>2. \E m \in S : \A x \in S : w[x] <= w[m]
    BY <1>1, <1>4, <2>1, Heaviest
  <2>3. \E m \in S : \A x \in S : m <= x
    BY <1>2, <2>1, <2>2
  <2> QED BY <2>3 DEF Lowest
<1> QED BY <1>1, <1>3, <1>4

\* A page that is not full has all rows, a full one those up to its last.
LEMMA PageIs ==
  ASSUME NEW S \in SUBSET Ids
  PROVE  /\ Page(S) \subseteq S
         /\ Cardinality(Page(S)) \in Nat
         /\ Cardinality(Page(S)) < Limit => Page(S) = S
         /\ ~(Cardinality(Page(S)) < Limit) =>
               /\ Highest(Page(S)) \in Page(S)
               /\ \A e \in S : e <= Highest(Page(S)) => e \in Page(S)
<1> DEFINE Before(d) == {e \in S : e < d}
<1>1. Page(S) \subseteq S /\ Page(S) \in SUBSET Ids
      /\ \A d \in S : d \in Page(S) <=> Cardinality(Before(d)) < Limit
  BY DEF Page
<1>2. \A d \in S : Before(d) \in SUBSET Ids
  OBVIOUS
<1>3. \A x \in Ids : x \in Nat
  BY StreamAssumption DEF Ids, StreamAssumption
<1>4. Cardinality(Page(S)) \in Nat /\ IsFiniteSet(Page(S))
  BY <1>1, IdsFinite
<1>5. ASSUME Cardinality(Page(S)) < Limit PROVE Page(S) = S
  <2> SUFFICES ASSUME Page(S) # S PROVE FALSE
    OBVIOUS
  <2> DEFINE R == S \ Page(S)
             d == Lowest(R)
  <2>1. R # {} /\ R \in SUBSET Ids
    BY <1>1
  <2>2. d \in R /\ \A e \in R : d <= e
    BY <2>1, IdsFinite
  <2> HIDE DEF d
  <2>3. Before(d) \subseteq Page(S)
    BY <1>3, <2>2
  <2>4. Cardinality(Before(d)) <= Cardinality(Page(S)) /\ Cardinality(Before(d)) \in Nat
    BY <1>2, <1>4, <2>2, <2>3, FS_Subset, IdsFinite
  <2>5. ~(Cardinality(Before(d)) < Limit)
    BY <1>1, <2>2
  <2> QED BY <1>4, <1>5, <2>4, <2>5, StreamAssumption DEF StreamAssumption
<1>6. ASSUME ~(Cardinality(Page(S)) < Limit)
      PROVE  /\ Highest(Page(S)) \in Page(S)
             /\ \A e \in S : e <= Highest(Page(S)) => e \in Page(S)
  <2>1. Page(S) # {}
    BY <1>6, FS_EmptySet, StreamAssumption DEF StreamAssumption
  <2>2. Highest(Page(S)) \in Page(S)
    BY <1>1, <2>1, IdsFinite
  <2> SUFFICES ASSUME NEW e \in S, e <= Highest(Page(S)) PROVE e \in Page(S)
    BY <2>2
  <2> DEFINE h == Highest(Page(S))
  <2>3. h \in S /\ Cardinality(Before(h)) < Limit
    BY <1>1, <2>2
  <2> HIDE DEF h
  <2>4. Before(e) \subseteq Before(h)
    <3>1. e <= h
      BY DEF h
    <3> QED BY <1>3, <2>3, <3>1
  <2>5. Cardinality(Before(e)) <= Cardinality(Before(h)) /\ Cardinality(Before(e)) \in Nat
        /\ Cardinality(Before(h)) \in Nat
    BY <1>2, <2>3, <2>4, FS_Subset, IdsFinite
  <2> QED BY <1>1, <2>3, <2>5, StreamAssumption DEF StreamAssumption
<1> QED BY <1>1, <1>4, <1>5, <1>6

-----------------------------------------------------------------------------
(* No answer lifts a key that is to be blocked.                            *)

RowRec == [state : {"none", "open", "live", "gone"}, key : Keys,
           created : Nat, until : Nat, sim : BOOLEAN]

PullFields ==
  {"pc", "startup", "start", "since", "last", "sim", "new", "deleted"}

Shape ==
  /\ clock \in Nat
  /\ row \in [Ids -> RowRec]
  /\ expiring \in [ids : SUBSET Ids, at : Nat] /\ expiring.at <= clock
  /\ DOMAIN pull = PullFields /\ pull.start \in Nat

\* What is created during a pull is younger than it.
Younger ==
  pull.pc # "idle" => pull.start <= clock /\ (clock < MaxTime => pull.start < clock)

\* A decision older than the pull whose key the answer deletes is over.
DeletedIsOver ==
  pull.pc # "idle" =>
    \A d \in Ids :
      /\ row[d].state = "live" /\ row[d].key \in pull.deleted
      /\ row[d].created <= pull.start
      => row[d].until <= clock

NoneOpen == \A d \in Ids : row[d].state # "open"

LiftInv == Shape /\ Younger /\ NoneOpen /\ DeletedIsOver

\* A free row and a removed one.
LEMMA NoRowIs ==
  /\ NoRow \in RowRec /\ NoRow.state = "none"
  /\ Gone \in RowRec /\ Gone.state = "gone"
  /\ NoRow.sim = FALSE /\ Gone.sim = FALSE
BY StreamAssumption, Zenon DEF NoRow, Gone, RowRec, StreamAssumption

\* The id of a new row is free, and those before it are not.
LEMMA FirstFree ==
  ASSUME Free # {}
  PROVE  /\ Lowest(Free) \in Ids /\ row[Lowest(Free)].state = "none"
         /\ \A e \in Ids : e < Lowest(Free) => row[e].state # "none"
<1>1. Free \in SUBSET Ids /\ \A e \in Ids : e \in Int
  BY StreamAssumption DEF Free, Ids, StreamAssumption
<1>2. Lowest(Free) \in Free /\ \A e \in Free : Lowest(Free) <= e
  BY <1>1, IdsFinite
<1> DEFINE d == Lowest(Free)
<1> HIDE DEF d
<1>3. d \in Free /\ \A e \in Free : d <= e
  BY <1>2 DEF d
<1>4. d \in Ids /\ row[d].state = "none" /\ \A e \in Ids : e < d => row[e].state # "none"
  BY <1>1, <1>3 DEF Free
<1> QED BY <1>4 DEF d

\* A row that a handler writes: the other rows are as they were.
LEMMA OneRow ==
  ASSUME Shape, NEW d \in Ids, NEW r \in RowRec, row' = [row EXCEPT ![d] = r]
  PROVE  /\ row' \in [Ids -> RowRec]
         /\ row'[d] = r
         /\ \A e \in Ids : e # d => row'[e] = row[e]
BY DEF Shape

\* Only what a handler changes can disturb the invariant: a step that keeps
\* the table and the pull and does not turn the clock back.
LEMMA Untouched ==
  ASSUME LiftInv, UNCHANGED <<row, pull>>, clock' \in Nat, clock' >= clock,
         expiring' \in [ids : SUBSET Ids, at : Nat], expiring'.at <= clock'
  PROVE  LiftInv'
<1>1. Shape' /\ NoneOpen'
  BY DEF LiftInv, Shape, NoneOpen
<1>2. Younger'
  BY StreamAssumption DEF LiftInv, Shape, Younger, StreamAssumption
<1>3. DeletedIsOver'
  <2> SUFFICES ASSUME pull.pc # "idle", NEW d \in Ids, row[d].state = "live",
                      row[d].key \in pull.deleted, row[d].created <= pull.start
               PROVE  row[d].until <= clock'
    BY DEF DeletedIsOver
  <2>1. row[d].until <= clock
    BY DEF LiftInv, DeletedIsOver
  <2>2. row[d].until \in Nat
    BY DEF LiftInv, Shape, RowRec
  <2> QED BY <2>1, <2>2 DEF LiftInv, Shape
<1> QED BY <1>1, <1>2, <1>3 DEF LiftInv

\* A step of the pull that ends it or leaves its answer as it was.
LEMMA Answering ==
  ASSUME LiftInv, UNCHANGED <<row, expiring, clock>>,
         pull' = Idle \/ (/\ DOMAIN pull' = PullFields
                          /\ pull'.start = pull.start /\ pull.pc # "idle"
                          /\ \A d \in Ids : /\ row[d].state = "live"
                                            /\ row[d].key \in pull'.deleted
                                            /\ row[d].created <= pull.start
                                            => row[d].until <= clock)
  PROVE  LiftInv'
<1>1. CASE pull' = Idle
  <2>1. DOMAIN pull' = PullFields /\ pull'.start = 0 /\ pull'.pc = "idle"
    BY <1>1 DEF Idle, PullFields
  <2> QED BY <2>1 DEF LiftInv, Shape, Younger, NoneOpen, DeletedIsOver
<1>2. CASE pull' # Idle
  BY <1>2 DEF LiftInv, Shape, Younger, NoneOpen, DeletedIsOver
<1> QED BY <1>1, <1>2

\* Initially nothing is pulled.
LEMMA LiftInit ==
  ASSUME Init
  PROVE  LiftInv
<1>1. NoRow \in RowRec
  BY StreamAssumption DEF NoRow, RowRec, StreamAssumption
<1>2. DOMAIN Idle = PullFields /\ Idle.start = 0 /\ Idle.pc = "idle"
  BY DEF Idle, PullFields
<1>3. Shape
  BY <1>1, <1>2 DEF Init, Shape, NotExpiring
<1>4. NoneOpen
  BY DEF Init, NoneOpen, NoRow
<1> QED BY <1>2, <1>3, <1>4 DEF Init, LiftInv, Younger, DeletedIsOver

\* The table is written by inserts, expiries and removals.
LEMMA TableStep ==
  ASSUME LiftInv, row' \in [Ids -> RowRec], UNCHANGED <<clock, pull>>,
         expiring' \in [ids : SUBSET Ids, at : Nat], expiring'.at <= clock,
         \A e \in Ids : \/ row'[e] = row[e]
                        \/ row'[e].state = "gone"
                        \/ /\ row'[e].state # "open"
                           /\ \/ clock < MaxTime /\ row'[e].created = clock
                              \/ row'[e].until <= clock
  PROVE  LiftInv'
<1>1. Shape' /\ NoneOpen' /\ Younger'
  BY DEF LiftInv, Shape, NoneOpen, Younger
<1>2. DeletedIsOver'
  <2> SUFFICES ASSUME pull.pc # "idle", NEW e \in Ids, row'[e].state = "live",
                      row'[e].key \in pull.deleted,
                      row'[e].created <= pull.start
               PROVE  row'[e].until <= clock
    BY DEF DeletedIsOver
  <2>1. CASE row'[e] = row[e]
    BY <2>1 DEF LiftInv, DeletedIsOver
  <2>2. CASE clock < MaxTime /\ row'[e].created = clock
    BY <2>2 DEF LiftInv, Younger, Shape
  <2> QED BY <2>1, <2>2
<1> QED BY <1>1, <1>2 DEF LiftInv

\* An insert.
LEMMA CreateStep ==
  ASSUME LiftInv, "late" \notin happened',
         NEW k \in Keys, NEW n \in Durations, NEW sim \in BOOLEAN, CreateDecision(k, n, sim)
  PROVE  LiftInv'
<1>1. Shape
  BY DEF LiftInv
<1>2. /\ Free # {} /\ clock < MaxTime /\ UNCHANGED <<clock, pull, expiring>>
      /\ \E stop \in 0 .. clock :
           row' = [row EXCEPT ![Lowest(Free)] =
                     [state |-> "live", key |-> k, created |-> clock,
                      until |-> stop + n, sim |-> sim]]
  BY Zenon DEF CreateDecision, Note, If
<1>3. PICK stop \in 0 .. clock :
        row' = [row EXCEPT ![Lowest(Free)] =
                  [state |-> "live", key |-> k, created |-> clock,
                   until |-> stop + n, sim |-> sim]]
  BY <1>2
<1> DEFINE d == Lowest(Free)
           r == [state |-> "live", key |-> k, created |-> clock,
                 until |-> stop + n, sim |-> sim]
<1>4. r \in RowRec /\ r.state # "open" /\ r.created = clock
  BY <1>1, StreamAssumption DEF Shape, RowRec, StreamAssumption
<1>5. d \in Ids /\ row' = [row EXCEPT ![d] = r]
  BY <1>2, <1>3, FirstFree
<1> HIDE DEF d, r
<1>6. row' \in [Ids -> RowRec] /\ row'[d] = r /\ \A e \in Ids : e # d => row'[e] = row[e]
  BY <1>1, <1>4, <1>5, OneRow
<1>7. \A e \in Ids : row'[e] = row[e] \/ (row'[e].state # "open" /\ row'[e].created = clock)
  BY <1>4, <1>6
<1> QED BY <1>1, <1>2, <1>6, <1>7, TableStep DEF Shape

\* A row is removed, with its alert or by the next community blocklist.
LEMMA RemoveStep ==
  ASSUME LiftInv, NEW d \in Ids, FlushRow(d) \/ DeleteRow(d)
  PROVE  LiftInv'
<1>1. Shape
  BY DEF LiftInv
<1>2. row' = [row EXCEPT ![d] = Gone] /\ UNCHANGED <<clock, pull, expiring>>
  BY DEF FlushRow, DeleteRow
<1>3. row' \in [Ids -> RowRec] /\ row'[d] = Gone /\ \A e \in Ids : e # d => row'[e] = row[e]
  BY <1>1, <1>2, NoRowIs, OneRow
<1>4. \A e \in Ids : row'[e] = row[e] \/ row'[e].state = "gone"
  BY <1>3, NoRowIs
<1> QED BY <1>1, <1>2, <1>3, <1>4, TableStep DEF Shape

\* What UpdateCommunityBlocklist writes.
LEMMA TwoRows ==
  ASSUME row \in [Ids -> RowRec], clock \in Nat, NEW d \in Ids, NEW n \in Durations,
         UpdateCommunityBlocklist(d, n)
  PROVE  LET e == Lowest(Free) IN
         /\ e \in Ids /\ e # d /\ row[d].state = "live" /\ row[e].state = "none"
         /\ \A f \in Ids : f < e => row[f].state # "none"
         /\ row' \in [Ids -> RowRec] /\ row'[d] = Gone
         /\ row'[e].state = "live" /\ row'[e].key = row[d].key /\ row'[e].sim = FALSE
         /\ \/ "late" \in happened'
            \/ row'[e].created = clock /\ row'[e].until > clock
         /\ \A f \in Ids : f # d /\ f # e => row'[f] = row[f]
<1> DEFINE e == Lowest(Free)
<1>1. Free # {} /\ row[d].state = "live"
  BY DEF UpdateCommunityBlocklist, Table
<1>2. e \in Ids /\ row[e].state = "none" /\ \A f \in Ids : f < e => row[f].state # "none"
  BY <1>1, FirstFree
<1>3. PICK stop \in 0 .. clock :
        /\ stop < clock => "late" \in happened'
        /\ row' = [row EXCEPT ![d] = Gone, ![e] =
                     [state |-> "live", key |-> row[d].key, created |-> stop,
                      until |-> stop + n, sim |-> FALSE]]
  BY Zenon DEF UpdateCommunityBlocklist, Note, If
<1> DEFINE r == [state |-> "live", key |-> row[d].key, created |-> stop,
                 until |-> stop + n, sim |-> FALSE]
<1>4. stop \in Nat /\ stop <= clock /\ n \in Nat /\ n > 0 /\ row[d].key \in Keys
  BY <1>3, StreamAssumption DEF RowRec, StreamAssumption
<1>5. /\ r \in RowRec /\ r.state = "live" /\ r.key = row[d].key /\ r.sim = FALSE
      /\ r.created = stop /\ r.until = stop + n
  BY <1>4 DEF RowRec
<1>6. row' = [row EXCEPT ![d] = Gone, ![e] = r]
  BY <1>3
<1> HIDE DEF e, r
<1>7. e # d
  BY <1>1, <1>2
<1>8. /\ row' \in [Ids -> RowRec] /\ row'[d] = Gone /\ row'[e] = r
      /\ \A f \in Ids : f # d /\ f # e => row'[f] = row[f]
  BY <1>2, <1>5, <1>6, <1>7, NoRowIs
<1>9. "late" \in happened' \/ (r.created = clock /\ r.until > clock)
  BY <1>3, <1>4, <1>5
<1>10. /\ e \in Ids /\ e # d /\ row[d].state = "live" /\ row[e].state = "none"
       /\ \A f \in Ids : f < e => row[f].state # "none"
       /\ row' \in [Ids -> RowRec] /\ row'[d] = Gone
       /\ row'[e].state = "live" /\ row'[e].key = row[d].key /\ row'[e].sim = FALSE
       /\ \/ "late" \in happened'
          \/ row'[e].created = clock /\ row'[e].until > clock
       /\ \A f \in Ids : f # d /\ f # e => row'[f] = row[f]
  BY <1>1, <1>2, <1>5, <1>7, <1>8, <1>9
<1> QED BY <1>10 DEF e

\* A row is replaced by the next community blocklist.
LEMMA ReplaceStep ==
  ASSUME LiftInv, "late" \notin happened',
         NEW d \in Ids, NEW n \in Durations, UpdateCommunityBlocklist(d, n)
  PROVE  LiftInv'
<1> DEFINE e == Lowest(Free)
<1>1. Shape /\ clock < MaxTime /\ UNCHANGED <<clock, pull, expiring>>
  BY DEF LiftInv, UpdateCommunityBlocklist
<1>2. /\ row' \in [Ids -> RowRec] /\ row'[d] = Gone /\ row'[e].state = "live"
      /\ row'[e].created = clock /\ \A f \in Ids : f # d /\ f # e => row'[f] = row[f]
  BY <1>1, TwoRows DEF Shape
<1> HIDE DEF e
<1>3. \A f \in Ids : \/ row'[f] = row[f] \/ row'[f].state = "gone"
                     \/ row'[f].state # "open" /\ row'[f].created = clock
  BY <1>2, NoRowIs
<1> QED BY <1>1, <1>2, <1>3, TableStep DEF Shape

\* What the other handlers write keeps the invariant.
LEMMA WriteStep ==
  ASSUME LiftInv, "late" \notin happened',
         \/ \E k \in Keys, n \in Durations, sim \in BOOLEAN : CreateDecision(k, n, sim)
         \/ \E d \in Ids : Commit(d) \/ FlushRow(d) \/ DeleteRow(d)
         \/ \E d \in Ids, n \in Durations : UpdateCommunityBlocklist(d, n)
         \/ ExpireBatch
  PROVE  LiftInv'
<1>1. Shape
  BY DEF LiftInv
<1> USE <1>1
<1>3. ASSUME NEW d \in Ids, Commit(d)
      PROVE  LiftInv'
  BY <1>3 DEF Commit, LiftInv, NoneOpen
<1>5. ASSUME ExpireBatch
      PROVE  LiftInv'
  <2> DEFINE d == Lowest(expiring.ids)
             r == [row[d] EXCEPT !.until =
                     IF row[d].state = "live" THEN expiring.at ELSE @]
  <2>1. /\ row' = [row EXCEPT ![d] = r] /\ UNCHANGED <<clock, pull>>
        /\ expiring' = IF expiring.ids = {d} THEN NotExpiring
                       ELSE [expiring EXCEPT !.ids = @ \ {d}]
    BY <1>5 DEF ExpireBatch, Shape
  <2>2. expiring' \in [ids : SUBSET Ids, at : Nat] /\ expiring'.at <= clock
    <3> HIDE DEF d
    <3> QED BY <2>1 DEF Shape, NotExpiring
  <2>3. d \in Ids
    BY <1>5, IdsFinite DEF ExpireBatch, Shape
  <2> HIDE DEF d
  <2>4. row[d] \in RowRec /\ expiring.at \in Nat /\ expiring.at <= clock
    BY <2>3 DEF Shape
  <2>5. /\ r \in RowRec /\ r.state = row[d].state
        /\ row[d].state = "live" => r.until <= clock
        /\ row[d].state # "live" => r = row[d]
    BY <2>4 DEF RowRec
  <2>6. r.state # "open"
    BY <2>3, <2>5 DEF LiftInv, NoneOpen
  <2> HIDE DEF r
  <2>7. row' \in [Ids -> RowRec] /\ row'[d] = r /\ \A e \in Ids : e # d => row'[e] = row[e]
    BY <2>1, <2>3, <2>5, OneRow
  <2>8. \A e \in Ids : row'[e] = row[e] \/ (row'[e].state # "open" /\ row'[e].until <= clock)
    BY <2>5, <2>6, <2>7
  <2> QED BY <2>1, <2>2, <2>7, <2>8, TableStep
<1> QED BY <1>3, <1>5, CreateStep, RemoveStep, ReplaceStep

\* A page of expired decisions: the key of an expired row is over, because
\* the row it comes from is the longest of its key.
LEMMA PageStep ==
  ASSUME LiftInv, QueryDeleted
  PROVE  LiftInv'
<1> DEFINE rows == Page(ExpiredDecisions)
<1>1. Shape /\ pull.pc = "deleted"
  BY DEF LiftInv, QueryDeleted
<1>2. /\ DOMAIN pull' = PullFields /\ pull'.start = pull.start
      /\ pull'.deleted = pull.deleted \cup KeysOf(rows)
  <2> HIDE DEF rows
  <2> QED BY <1>1 DEF QueryDeleted, rows, AfterPage, Shape, PullFields
<1>3. \A d \in Ids :
        /\ row[d].state = "live" /\ row[d].key \in pull'.deleted
        /\ row[d].created <= pull.start
        => row[d].until <= clock
  <2> SUFFICES ASSUME NEW d \in Ids, row[d].state = "live",
                      row[d].key \in pull'.deleted, row[d].created <= pull.start
               PROVE  row[d].until <= clock
    OBVIOUS
  <2>1. CASE row[d].key \in pull.deleted
    BY <2>1, <1>1 DEF LiftInv, DeletedIsOver
  <2>2. CASE row[d].key \in KeysOf(rows)
    <3>1. PICK e \in rows : row[e].key = row[d].key
      BY <2>2 DEF KeysOf
    <3>2. e \in Table /\ row[e].until < pull.start
      BY <3>1 DEF Page, ExpiredDecisions
    <3>3. longestDecisionForScopeTypeValue(e)
      BY <3>1 DEF Page, ExpiredDecisions
    <3>4. ~(row[d].until > row[e].until)
      BY <3>1, <3>3 DEF longestDecisionForScopeTypeValue, Table
    <3>5. row[d].until \in Nat /\ row[e].until \in Nat
      BY <3>2, <1>1 DEF Table, Shape, RowRec
    <3>6. pull.start <= clock /\ pull.start \in Nat /\ clock \in Nat
      BY <1>1 DEF LiftInv, Younger, Shape
    <3> HIDE DEF rows
    <3> QED BY <3>2, <3>4, <3>5, <3>6
  <2> HIDE DEF rows
  <2> QED BY <1>2, <2>1, <2>2
<1> HIDE DEF rows
<1> QED BY <1>1, <1>2, <1>3, Answering DEF QueryDeleted

\* Every step keeps the invariant.
LEMMA LiftStep ==
  ASSUME LiftInv, [Next]_vars, "late" \notin happened'
  PROVE  LiftInv'
<1>1. Shape
  BY DEF LiftInv
<1> USE <1>1
<1>2. CASE UNCHANGED vars
  BY <1>2, Untouched DEF vars, Shape
<1>3. CASE Tick
  BY <1>3, Untouched DEF Tick, Shape
<1>4. ASSUME NEW k \in Keys, ExpireWithFilter(k)
      PROVE  LiftInv'
  BY <1>4, Untouched DEF ExpireWithFilter, Shape, Table
<1>5. ASSUME NEW d \in Ids, ExpireByID(d)
      PROVE  LiftInv'
  BY <1>5, Untouched DEF ExpireByID, Shape
<1>6. CASE ExpireFails
  BY <1>6, Untouched DEF ExpireFails, Shape, NotExpiring
<1>7. CASE Restart
  BY <1>7, Untouched DEF Restart, Shape
<1>8. CASE BeginPull
  <2>1. /\ DOMAIN pull' = PullFields /\ pull'.start = clock
        /\ pull'.deleted = {} /\ clock' = Later
        /\ UNCHANGED <<row, expiring>>
    BY <1>8 DEF BeginPull, Idle, PullFields
  <2>2. clock' \in Nat /\ clock <= clock' /\ (clock' < MaxTime => clock < clock')
    BY <2>1, StreamAssumption DEF Later, Shape, StreamAssumption
  <2> QED BY <2>1, <2>2 DEF LiftInv, Shape, Younger, NoneOpen, DeletedIsOver
<1>9. CASE QueryNew
  <2> DEFINE rows == Page(NewDecisions)
  <2>1. /\ DOMAIN pull' = PullFields /\ pull'.start = pull.start
        /\ pull'.deleted = pull.deleted /\ pull.pc # "idle"
        /\ UNCHANGED <<row, expiring, clock>>
    <3> HIDE DEF rows
    <3> QED BY <1>9 DEF QueryNew, rows, AfterPage, Shape, PullFields
  <2>2. \A d \in Ids :
          /\ row[d].state = "live" /\ row[d].key \in pull'.deleted
          /\ row[d].created <= pull.start
          => row[d].until <= clock
    BY <2>1 DEF LiftInv, DeletedIsOver
  <2> QED BY <2>1, <2>2, Answering
<1>10. CASE FinishPull \/ UpdateFails \/ QueryFails \/ WriteFails
  BY <1>10, Answering
     DEF FinishPull, UpdateFails, QueryFails, WriteFails, Failing, Deliver
<1> QED
  BY <1>2, <1>3, <1>4, <1>5, <1>6, <1>7, <1>8, <1>9, <1>10, WriteStep, PageStep
     DEF Next, Pull, Environment

\* What has happened stays so.
LEMMA Remembered ==
  ASSUME [Next]_vars
  PROVE  happened \subseteq happened'
BY Zenon DEF Next, Pull, Environment, vars, Tick, CreateDecision, Commit, Note,
       ExpireByID, FlushRow, DeleteRow, UpdateCommunityBlocklist, ExpireWithFilter, ExpireBatch, ExpireFails,
       Restart, UpdateFails, QueryFails, WriteFails, Failing, BeginPull,
       QueryNew, QueryDeleted, FinishPull

\* The invariant holds until a row commits late.
LEMMA LiftInvariant == Spec => []("late" \in happened \/ LiftInv)
<1>1. Init => "late" \in happened \/ LiftInv
  BY LiftInit
<1>2. ("late" \in happened \/ LiftInv) /\ [Next]_vars
        => ("late" \in happened \/ LiftInv)'
  BY LiftStep, Remembered
<1> QED BY <1>1, <1>2, PTL DEF Spec

\* NeverLifted for every value of the constants: as long as every row was
\* visible when its created_at was taken, StreamDecision never reports as deleted
\* a key that an active decision older than the pull still covers.
THEOREM NeverLiftedHolds == Spec => NeverLifted
<1> DEFINE Kept ==
      "late" \notin happened => \A d \in Ids :
        /\ Wanted(d) /\ row[d].until > clock /\ row[d].created <= pull.start
        /\ row[d].key \in view /\ pull.pc # "idle"
        => row[d].key \in view'
<1>1. ("late" \in happened \/ LiftInv) /\ [Next]_vars => [Kept]_vars
  <2> SUFFICES ASSUME LiftInv, [Next]_vars, NEW d \in Ids,
                      Wanted(d), row[d].until > clock,
                      row[d].created <= pull.start,
                      row[d].key \in view, pull.pc # "idle"
               PROVE  row[d].key \in view'
    OBVIOUS
  <2>1. row[d].key \notin pull.deleted
    <3>1. row[d].until \in Nat /\ clock \in Nat
      BY DEF LiftInv, Shape, RowRec
    <3> QED BY <3>1 DEF LiftInv, DeletedIsOver, Wanted, Table
  <2>2. CASE Deliver
    BY <2>1, <2>2 DEF Deliver
  <2>3. CASE view' = view
    BY <2>3
  <2>4. Deliver \/ view' = view
    BY Zenon DEF Next, Pull, Environment, vars, Tick, CreateDecision, Commit,
           ExpireByID, FlushRow, DeleteRow, UpdateCommunityBlocklist, ExpireWithFilter, ExpireBatch, ExpireFails,
           Restart, UpdateFails, QueryFails, WriteFails, BeginPull, QueryNew,
           QueryDeleted, FinishPull
  <2> QED BY <2>2, <2>3, <2>4
<1> QED BY <1>1, LiftInvariant, PTL DEF Spec, NeverLifted

-----------------------------------------------------------------------------
(* Types, and the order of times and ids.                                  *)

PullRec ==
  [pc : {"idle", "new", "deleted", "sent"}, startup : BOOLEAN, start : Nat,
   since : Nat \cup {Never}, last : Nat, sim : BOOLEAN, new : SUBSET Keys,
   deleted : SUBSET Keys]

\* The last recorded pull began before now; a pull in progress knows it.
Recorded ==
  /\ lastPull <= clock /\ (clock < MaxTime => lastPull < clock)
  /\ pull.pc # "idle" => pull.since = lastPull /\ lastPull <= pull.start
  /\ pull.pc # "idle" => (pull.startup <=> fresh)
  /\ fresh => view = {}

\* Ids are given in order, and the cursor of a query has passed given ones.
InOrder ==
  /\ \A d, e \in Ids : d < e /\ row[e].state # "none" => row[d].state # "none"
  /\ pull.last > 0 => \E d \in Ids : d = pull.last /\ row[d].state # "none"

\* An expiry is not older than a pull by more than the overlap.
Timely ==
  /\ expiring.at <= clock
  /\ expiring.ids # {} =>
       /\ expiring.at + Overlap > lastPull
       /\ pull.pc # "idle" => expiring.at + Overlap > pull.start

BaseInv == TypeOK /\ Younger /\ Recorded /\ InOrder /\ Timely

\* The rows and the pull are records.
LEMMA Typed ==
  ASSUME TypeOK
  PROVE  /\ row \in [Ids -> RowRec] /\ pull \in PullRec /\ clock \in Nat
         /\ pull.start \in Nat /\ pull.last \in Nat /\ lastPull \in Int
         /\ \A d \in Ids : /\ d \in Nat /\ row[d] \in RowRec /\ row[d].until \in Nat
                           /\ row[d].created \in Nat /\ row[d].key \in Keys
<1>1. row \in [Ids -> RowRec] /\ pull \in PullRec
  BY DEF TypeOK, RowRec, PullRec
<1>2. clock \in Nat /\ lastPull \in Int
  BY StreamAssumption DEF TypeOK, StreamAssumption, Never
<1>3. pull.start \in Nat /\ pull.last \in Nat
  BY <1>1 DEF PullRec
<1>4. \A d \in Ids : d \in Nat
  BY StreamAssumption DEF Ids, StreamAssumption
<1>5. \A d \in Ids : /\ row[d] \in RowRec /\ row[d].until \in Nat
                     /\ row[d].created \in Nat /\ row[d].key \in Keys
  BY <1>1 DEF RowRec
<1> QED BY <1>1, <1>2, <1>3, <1>4, <1>5

\* No pull.
LEMMA IdleIs ==
  /\ Idle \in PullRec /\ Idle.pc = "idle" /\ Idle.start = 0 /\ Idle.last = 0
  /\ Idle.new = {} /\ Idle.deleted = {}
BY DEF Idle, PullRec, Never

\* What a page of rows, of those in S, makes of the pull.
PagesThrough(S, rows, next) ==
  /\ rows \subseteq S /\ pull' \in PullRec
  /\ UNCHANGED <<clock, row, expiring, lastPull, view, fresh, failures, happened>>
  /\ pull'.startup = pull.startup /\ pull'.start = pull.start /\ pull'.since = pull.since
  /\ \/ pull'.pc = next /\ pull'.last = 0 /\ rows = S
     \/ /\ pull'.pc = pull.pc /\ pull'.last \in rows
        /\ \A e \in S : e <= pull'.last => e \in rows

PagesNew ==
  /\ pull.pc = "new" /\ PagesThrough(NewDecisions, Page(NewDecisions), "deleted")
  /\ pull'.new = pull.new \cup KeysOf(Page(NewDecisions)) /\ pull'.deleted = pull.deleted

PagesDeleted ==
  /\ pull.pc = "deleted" /\ PagesThrough(ExpiredDecisions, Page(ExpiredDecisions), "sent")
  /\ pull'.deleted = pull.deleted \cup KeysOf(Page(ExpiredDecisions))
  /\ pull'.new = pull.new

\* QueryNew is such a step.
LEMMA QueryNewIs ==
  ASSUME TypeOK, QueryNew
  PROVE  PagesNew
<1> DEFINE S == NewDecisions
           rows == Page(S)
<1>1. S \in SUBSET Ids
  BY DEF NewDecisions, Table
<1> HIDE DEF S
<1>2. /\ rows \subseteq S /\ Cardinality(rows) \in Nat
      /\ Cardinality(rows) < Limit => rows = S
      /\ ~(Cardinality(rows) < Limit) =>
           Highest(rows) \in rows /\ \A e \in S : e <= Highest(rows) => e \in rows
  BY <1>1, PageIs
<1> HIDE DEF rows
<1>3. KeysOf(rows) \subseteq Keys
  BY <1>1, <1>2, Typed DEF KeysOf
<1>4. Highest(rows) \in rows => Highest(rows) \in Nat
  BY <1>1, <1>2, Typed
<1>5. /\ pull.pc = "new" /\ pull \in PullRec
      /\ pull' = [AfterPage(pull, rows, "deleted") EXCEPT !.new = @ \cup KeysOf(rows)]
      /\ UNCHANGED <<clock, row, expiring, lastPull, view, fresh, failures, happened>>
  BY Typed DEF QueryNew, rows, S
<1>6. /\ pull'.startup = pull.startup /\ pull'.start = pull.start
      /\ pull'.since = pull.since /\ pull'.deleted = pull.deleted
      /\ pull'.new = pull.new \cup KeysOf(rows)
      /\ pull'.pc = IF Cardinality(rows) < Limit THEN "deleted" ELSE "new"
      /\ pull'.last = IF Cardinality(rows) < Limit THEN 0 ELSE Highest(rows)
  BY <1>5 DEF AfterPage, PullRec
<1>7. pull' \in PullRec
  <2>1. pull'.last \in Nat
    BY <1>2, <1>4, <1>6
  <2>2. pull'.new \in SUBSET Keys
    BY <1>3, <1>5, <1>6 DEF PullRec
  <2>3. pull' = [pc |-> pull'.pc, startup |-> pull'.startup, start |-> pull'.start,
                 since |-> pull'.since, last |-> pull'.last, sim |-> FALSE,
                 new |-> pull'.new, deleted |-> pull'.deleted]
    BY <1>5, Zenon DEF AfterPage, PullRec
  <2> QED BY <1>5, <1>6, <2>1, <2>2, <2>3, Zenon DEF PullRec
<1>8. PagesThrough(S, rows, "deleted")
  BY <1>2, <1>5, <1>6, <1>7 DEF PagesThrough
<1> QED BY <1>5, <1>6, <1>8 DEF rows, S, PagesNew

\* QueryDeleted is such a step.
LEMMA QueryDeletedIs ==
  ASSUME TypeOK, QueryDeleted
  PROVE  PagesDeleted
<1> DEFINE S == ExpiredDecisions
           rows == Page(S)
<1>1. S \in SUBSET Ids
  BY DEF ExpiredDecisions, Table
<1> HIDE DEF S
<1>2. /\ rows \subseteq S /\ Cardinality(rows) \in Nat
      /\ Cardinality(rows) < Limit => rows = S
      /\ ~(Cardinality(rows) < Limit) =>
           Highest(rows) \in rows /\ \A e \in S : e <= Highest(rows) => e \in rows
  BY <1>1, PageIs
<1> HIDE DEF rows
<1>3. KeysOf(rows) \subseteq Keys
  BY <1>1, <1>2, Typed DEF KeysOf
<1>4. Highest(rows) \in rows => Highest(rows) \in Nat
  BY <1>1, <1>2, Typed
<1>5. /\ pull.pc = "deleted" /\ pull \in PullRec
      /\ pull' = [AfterPage(pull, rows, "sent") EXCEPT !.deleted = @ \cup KeysOf(rows)]
      /\ UNCHANGED <<clock, row, expiring, lastPull, view, fresh, failures, happened>>
  BY Typed DEF QueryDeleted, rows, S
<1>6. /\ pull'.startup = pull.startup /\ pull'.start = pull.start
      /\ pull'.since = pull.since /\ pull'.new = pull.new
      /\ pull'.deleted = pull.deleted \cup KeysOf(rows)
      /\ pull'.pc = IF Cardinality(rows) < Limit THEN "sent" ELSE "deleted"
      /\ pull'.last = IF Cardinality(rows) < Limit THEN 0 ELSE Highest(rows)
  BY <1>5 DEF AfterPage, PullRec
<1>7. pull' \in PullRec
  <2>1. pull'.last \in Nat
    BY <1>2, <1>4, <1>6
  <2>2. pull'.deleted \in SUBSET Keys
    BY <1>3, <1>5, <1>6 DEF PullRec
  <2>3. pull' = [pc |-> pull'.pc, startup |-> pull'.startup, start |-> pull'.start,
                 since |-> pull'.since, last |-> pull'.last, sim |-> FALSE,
                 new |-> pull'.new, deleted |-> pull'.deleted]
    BY <1>5, Zenon DEF AfterPage, PullRec
  <2> QED BY <1>5, <1>6, <2>1, <2>2, <2>3, Zenon DEF PullRec
<1>8. PagesThrough(S, rows, "sent")
  BY <1>2, <1>5, <1>6, <1>7 DEF PagesThrough
<1> QED BY <1>5, <1>6, <1>8 DEF rows, S, PagesDeleted

\* A step that writes row d of the table and no other.
Writes(d) ==
  /\ row' \in [Ids -> RowRec]
  /\ \A e \in Ids : e # d => row'[e] = row[e]
  /\ UNCHANGED <<clock, pull, lastPull, view, fresh>>

\* An insert takes the first free id.
Inserts(d) ==
  /\ Writes(d) /\ UNCHANGED <<expiring, failures>> /\ clock < MaxTime
  /\ row[d].state = "none" /\ \A e \in Ids : e < d => row[e].state # "none"
  /\ row'[d].state \in {"live", "open"}
  /\ row'[d].created = clock
  /\ row'[d].until > clock \/ "past" \in happened'
  /\ row'[d].state = "open" => "late" \in happened'
  /\ row'[d].sim => "sim" \in happened'
  /\ happened \subseteq happened' /\ happened' \subseteq FaultKinds

\* CreateDecision is such an insert.
LEMMA InsertIs ==
  ASSUME TypeOK, NEW k \in Keys, NEW n \in Durations, NEW sim \in BOOLEAN,
         CreateDecision(k, n, sim)
  PROVE  \E d \in Ids : Inserts(d)
<1> DEFINE d == Lowest(Free)
<1>1. PICK x \in {"live", "open"}, stop \in 0 .. clock :
        /\ Note(If("sim", sim) \cup If("late", x = "open") \cup If("past", stop + n <= clock))
        /\ row' = [row EXCEPT ![d] = [state |-> x, key |-> k, created |-> clock,
                                      until |-> stop + n, sim |-> sim]]
  BY Zenon DEF CreateDecision
<1> DEFINE r == [state |-> x, key |-> k, created |-> clock, until |-> stop + n, sim |-> sim]
<1>2. Free # {} /\ clock < MaxTime
      /\ UNCHANGED <<clock, expiring, pull, lastPull, view, fresh, failures>>
  BY DEF CreateDecision
<1>3. clock \in Nat /\ n \in Nat /\ stop \in Nat /\ row \in [Ids -> RowRec]
  BY Typed, StreamAssumption DEF StreamAssumption
<1>4. r \in RowRec /\ r.state = x /\ r.created = clock /\ r.until = stop + n /\ r.sim = sim
  BY <1>3 DEF RowRec
<1>5. row[d].state = "none" /\ d \in Ids /\ \A e \in Ids : e < d => row[e].state # "none"
  BY <1>2, FirstFree
<1>6. /\ sim => "sim" \in happened'
      /\ x = "open" => "late" \in happened'
      /\ stop + n <= clock => "past" \in happened'
      /\ happened \subseteq happened' /\ happened' \subseteq FaultKinds
  BY <1>1 DEF Note, If, TypeOK, FaultKinds
<1>7. stop + n > clock \/ "past" \in happened'
  BY <1>3, <1>6
<1>8. row' = [row EXCEPT ![d] = r]
  BY <1>1
<1> HIDE DEF d, r
<1>9. row' \in [Ids -> RowRec] /\ row'[d] = r /\ \A e \in Ids : e # d => row'[e] = row[e]
  BY <1>3, <1>4, <1>5, <1>8
<1> d \in Ids
  BY <1>5
<1> WITNESS d \in Ids
<1> QED BY <1>2, <1>4, <1>5, <1>6, <1>7, <1>9 DEF Writes, Inserts

\* A late commit makes a row visible.
Commits(d) ==
  /\ Writes(d) /\ UNCHANGED <<expiring, failures, happened>>
  /\ row[d].state = "open" /\ row'[d].state = "live"
  /\ row'[d].sim = row[d].sim

\* Commit is such a step.
LEMMA CommitIs ==
  ASSUME TypeOK, NEW d \in Ids, Commit(d)
  PROVE  Commits(d)
<1>1. row[d] \in RowRec /\ row \in [Ids -> RowRec]
  BY Typed
<1>2. row' = [row EXCEPT ![d] = [row[d] EXCEPT !.state = "live"]]
  BY DEF Commit
<1>3. [row[d] EXCEPT !.state = "live"] \in RowRec
  BY <1>1 DEF RowRec
<1>4. row'[d] = [row[d] EXCEPT !.state = "live"]
  BY <1>1, <1>2
<1>5. row'[d].state = "live" /\ row'[d].sim = row[d].sim
  BY <1>1, <1>4 DEF RowRec
<1> QED BY <1>1, <1>2, <1>3, <1>5 DEF Commit, Commits, Writes

\* One UPDATE of an expiry.
Expires(d) ==
  /\ Writes(d) /\ UNCHANGED failures /\ d \in expiring.ids
  /\ row'[d].state = row[d].state /\ row'[d].key = row[d].key
  /\ row'[d].created = row[d].created /\ row'[d].sim = row[d].sim
  /\ row[d].state = "live" => row'[d].until = expiring.at
  /\ expiring' \in [ids : SUBSET Ids, at : Nat]
  /\ expiring' = NotExpiring \/ expiring'.at = expiring.at
  /\ pull.pc = "new" /\ pull.last > 0 => "midpage" \in happened'
  /\ row[d].state = "live" /\ row[d].until <= clock => "reexpire" \in happened'
  /\ happened \subseteq happened' /\ happened' \subseteq FaultKinds

\* ExpireBatch is such a step.
LEMMA ExpireIs ==
  ASSUME TypeOK, ExpireBatch
  PROVE  \E d \in Ids : Expires(d)
<1> DEFINE d == Lowest(expiring.ids)
           r == [row[d] EXCEPT !.until = IF row[d].state = "live" THEN expiring.at ELSE @]
<1>1. expiring \in [ids : SUBSET Ids, at : Nat] /\ expiring.ids # {} /\ expiring.at \in Nat
  BY DEF TypeOK, ExpireBatch
<1>2. d \in expiring.ids /\ d \in Ids
  BY <1>1, IdsFinite
<1>3. /\ row' = [row EXCEPT ![d] = r]
      /\ expiring' = IF expiring.ids = {d} THEN NotExpiring
                     ELSE [expiring EXCEPT !.ids = @ \ {d}]
      /\ UNCHANGED <<clock, pull, lastPull, view, fresh, failures>>
  BY DEF ExpireBatch
<1>4. /\ pull.pc = "new" /\ pull.last > 0 => "midpage" \in happened'
      /\ row[d].state = "live" /\ row[d].until <= clock => "reexpire" \in happened'
      /\ happened \subseteq happened' /\ happened' \subseteq FaultKinds
  BY DEF ExpireBatch, MidPage, If, TypeOK, FaultKinds
<1> HIDE DEF d
<1>5. row[d] \in RowRec /\ row \in [Ids -> RowRec]
  BY <1>2, Typed
<1>6. r \in RowRec
  BY <1>1, <1>5 DEF RowRec
<1>7. /\ r.state = row[d].state /\ r.key = row[d].key
      /\ r.created = row[d].created /\ r.sim = row[d].sim
      /\ row[d].state = "live" => r.until = expiring.at
  BY <1>5 DEF RowRec
<1> HIDE DEF r
<1>8. row' \in [Ids -> RowRec] /\ row'[d] = r /\ \A e \in Ids : e # d => row'[e] = row[e]
  BY <1>2, <1>3, <1>5, <1>6
<1>9. expiring' \in [ids : SUBSET Ids, at : Nat]
      /\ (expiring' = NotExpiring \/ expiring'.at = expiring.at)
  BY <1>1, <1>3 DEF NotExpiring
<1> d \in Ids
  BY <1>2
<1> WITNESS d \in Ids
<1> QED BY <1>2, <1>3, <1>4, <1>7, <1>8, <1>9 DEF Writes, Expires

\* A row that is flushed was over.
Flushes(d) ==
  /\ Writes(d) /\ UNCHANGED <<expiring, failures>>
  /\ row[d].state = "live" /\ row[d].until <= clock
  /\ row'[d].state = "gone" /\ row'[d].sim = FALSE
  /\ "flush" \in happened'
  /\ happened \subseteq happened' /\ happened' \subseteq FaultKinds

\* A row that is deleted may be active.
Deletes(d) ==
  /\ Writes(d) /\ UNCHANGED <<expiring, failures>>
  /\ row[d].state = "live" /\ row'[d].state = "gone" /\ row'[d].sim = FALSE
  /\ "delete" \in happened'
  /\ pull.pc = "new" /\ pull.last > 0 => "midpage" \in happened'
  /\ happened \subseteq happened' /\ happened' \subseteq FaultKinds

\* FlushRow and DeleteRow are such steps.
LEMMA RemoveIs ==
  ASSUME TypeOK, NEW d \in Ids, FlushRow(d) \/ DeleteRow(d)
  PROVE  Flushes(d) \/ Deletes(d)
<1>1. row \in [Ids -> RowRec]
  BY Typed
<1>2. row' = [row EXCEPT ![d] = Gone] /\ d \in Table
  BY DEF FlushRow, DeleteRow
<1>3. /\ row' \in [Ids -> RowRec] /\ row'[d] = Gone
      /\ \A e \in Ids : e # d => row'[e] = row[e]
  BY <1>1, <1>2, NoRowIs
<1>4. happened \subseteq happened' /\ happened' \subseteq FaultKinds
  BY DEF FlushRow, DeleteRow, MidPage, If, Note, TypeOK, FaultKinds
<1>5. CASE FlushRow(d)
  BY <1>2, <1>3, <1>4, <1>5, NoRowIs DEF FlushRow, Note, Flushes, Writes, Table
<1>6. CASE DeleteRow(d)
  <2>1. "delete" \in happened' /\ (pull.pc = "new" /\ pull.last > 0 => "midpage" \in happened')
    BY <1>6 DEF DeleteRow, MidPage, If, Note
  <2> QED BY <1>2, <1>3, <1>4, <1>6, <2>1, NoRowIs DEF DeleteRow, Deletes, Writes, Table
<1> QED BY <1>5, <1>6

\* A row gives way to a new one of its key.
Replaces(d, e) ==
  /\ row' \in [Ids -> RowRec]
  /\ \A f \in Ids : f # d /\ f # e => row'[f] = row[f]
  /\ UNCHANGED <<clock, pull, lastPull, view, fresh, expiring, failures>>
  /\ clock < MaxTime /\ d # e
  /\ row[d].state = "live" /\ row'[d].state = "gone" /\ row'[d].sim = FALSE
  /\ row[e].state = "none" /\ \A f \in Ids : f < e => row[f].state # "none"
  /\ row'[e].state = "live" /\ row'[e].key = row[d].key /\ row'[e].sim = FALSE
  /\ \/ "late" \in happened'
     \/ row'[e].created = clock /\ row'[e].until > clock
  /\ pull.pc = "new" /\ pull.last > 0 => "midpage" \in happened'
  /\ happened \subseteq happened' /\ happened' \subseteq FaultKinds

\* UpdateCommunityBlocklist is such a step.
LEMMA ReplaceIs ==
  ASSUME TypeOK, NEW d \in Ids, NEW n \in Durations, UpdateCommunityBlocklist(d, n)
  PROVE  \E e \in Ids : Replaces(d, e)
<1> DEFINE e == Lowest(Free)
<1>1. row \in [Ids -> RowRec] /\ clock \in Nat
  BY Typed
<1>2. /\ e \in Ids /\ e # d /\ row[d].state = "live" /\ row[e].state = "none"
      /\ \A f \in Ids : f < e => row[f].state # "none"
      /\ row' \in [Ids -> RowRec] /\ row'[d] = Gone
      /\ row'[e].state = "live" /\ row'[e].key = row[d].key /\ row'[e].sim = FALSE
      /\ \/ "late" \in happened'
         \/ row'[e].created = clock /\ row'[e].until > clock
      /\ \A f \in Ids : f # d /\ f # e => row'[f] = row[f]
  BY <1>1, TwoRows, Zenon
<1>3. /\ clock < MaxTime
      /\ UNCHANGED <<clock, pull, lastPull, view, fresh, expiring, failures>>
  BY DEF UpdateCommunityBlocklist
<1>4. PICK stop \in 0 .. clock : Note(MidPage \cup If("late", stop < clock))
  BY DEF UpdateCommunityBlocklist
<1>5. /\ pull.pc = "new" /\ pull.last > 0 => "midpage" \in happened'
      /\ happened \subseteq happened' /\ happened' \subseteq FaultKinds
  BY <1>4 DEF MidPage, If, Note, TypeOK, FaultKinds
<1> HIDE DEF e
<1>6. Replaces(d, e)
  BY <1>2, <1>3, <1>5, NoRowIs DEF Replaces
<1> QED BY <1>2, <1>6

\* What has happened can be counted.
LEMMA Countable ==
  ASSUME NEW H, H \subseteq FaultKinds
  PROVE  Cardinality(H) \in Nat
<1>1. IsFiniteSet({"startup"})
  BY FS_Singleton, Zenon
<1>2. IsFiniteSet({"startup"} \cup {"late"})
  BY <1>1, FS_AddElement
<1>3. IsFiniteSet({"startup"} \cup {"late"} \cup {"midpage"})
  BY <1>2, FS_AddElement
<1>4. IsFiniteSet({"startup"} \cup {"late"} \cup {"midpage"} \cup {"flush"})
  BY <1>3, FS_AddElement
<1>5. IsFiniteSet({"startup"} \cup {"late"} \cup {"midpage"} \cup {"flush"} \cup {"sim"})
  BY <1>4, FS_AddElement
<1>6. IsFiniteSet({"startup"} \cup {"late"} \cup {"midpage"} \cup {"flush"} \cup {"sim"}
                  \cup {"reexpire"})
  BY <1>5, FS_AddElement
<1>7. IsFiniteSet({"startup"} \cup {"late"} \cup {"midpage"} \cup {"flush"} \cup {"sim"}
                  \cup {"reexpire"} \cup {"delete"})
  BY <1>6, FS_AddElement
<1>8. IsFiniteSet({"startup"} \cup {"late"} \cup {"midpage"} \cup {"flush"} \cup {"sim"}
                  \cup {"reexpire"} \cup {"delete"} \cup {"past"})
  BY <1>7, FS_AddElement
<1>9. FaultKinds = {"startup"} \cup {"late"} \cup {"midpage"} \cup {"flush"} \cup {"sim"}
                   \cup {"reexpire"} \cup {"delete"} \cup {"past"}
  BY DEF FaultKinds
<1> QED BY <1>8, <1>9, FS_Subset, FS_CardinalityType, Zenon

\* What ends a pull.
Ends ==
  /\ pull.pc # "idle" /\ pull' = Idle
  /\ UNCHANGED <<clock, row, expiring>>
  /\ happened \subseteq happened' /\ happened' \subseteq FaultKinds
  /\ \/ /\ view' = (view \ pull.deleted) \cup pull.new /\ fresh' = FALSE
        /\ \/ pull.pc = "sent" /\ lastPull' = pull.start
           \/ pull.pc = "sent" /\ lastPull' = lastPull
           \/ lastPull' = lastPull /\ (~pull.startup \/ "startup" \in happened')
     \/ UNCHANGED <<view, fresh, lastPull>>

\* The four ways a pull ends.
LEMMA EndIs ==
  ASSUME TypeOK, FinishPull \/ UpdateFails \/ QueryFails \/ WriteFails
  PROVE  Ends /\ failures' \in 0 .. MaxFaults
<1>1. failures \in Nat /\ failures <= MaxFaults /\ Cardinality(happened) \in Nat
      /\ happened \subseteq FaultKinds /\ MaxFaults \in Nat
  BY Countable, StreamAssumption DEF TypeOK, StreamAssumption
<1>2. ASSUME Failing PROVE failures' \in 0 .. MaxFaults
  BY <1>1, <1>2 DEF Failing
<1>3. CASE FinishPull
  BY <1>1, <1>3 DEF FinishPull, Deliver, Ends
<1>4. CASE UpdateFails
  BY <1>1, <1>2, <1>4 DEF UpdateFails, Deliver, Failing, Ends
<1>5. CASE QueryFails
  <2>1. pull.pc # "idle" /\ Deliver /\ UNCHANGED <<clock, row, expiring, lastPull>>
    BY <1>5 DEF QueryFails
  <2>2. CASE ~pull.startup /\ Failing
    BY <1>1, <1>2, <2>1, <2>2 DEF Deliver, Failing, Ends
  <2>3. CASE pull.startup /\ Note({"startup"}) /\ UNCHANGED failures
    <3>1. "startup" \in happened' /\ happened \subseteq happened' /\ happened' \subseteq FaultKinds
      BY <1>1, <2>3 DEF Note, FaultKinds
    <3> QED BY <1>1, <2>1, <2>3, <3>1 DEF Deliver, Ends
  <2> QED BY <1>5, <2>2, <2>3 DEF QueryFails
<1>6. CASE WriteFails
  BY <1>1, <1>2, <1>6 DEF WriteFails, Failing, Ends
<1> QED BY <1>3, <1>4, <1>5, <1>6

\* A step of the clock or of the choice of rows to expire.
Waits ==
  /\ UNCHANGED <<row, pull, lastPull, view, fresh, failures>>
  /\ clock' \in {clock, clock + 1} /\ clock' \in 0 .. MaxTime
  /\ expiring' \in [ids : SUBSET Ids, at : Nat]
  /\ expiring' \in {expiring, NotExpiring} \/ (expiring'.at = clock /\ clock' = clock)
  /\ happened \subseteq happened' /\ happened' \subseteq FaultKinds

\* Waiting, ticking, choosing what to expire and giving up are such steps.
LEMMA WaitIs ==
  ASSUME TypeOK,
         \/ UNCHANGED vars \/ Tick \/ ExpireFails
         \/ (\E d \in Ids : ExpireByID(d)) \/ (\E k \in Keys : ExpireWithFilter(k))
  PROVE  Waits
<1>1. clock \in 0 .. MaxTime /\ expiring \in [ids : SUBSET Ids, at : Nat]
      /\ happened \subseteq FaultKinds /\ clock \in Nat /\ MaxTime \in Nat
  BY StreamAssumption DEF TypeOK, StreamAssumption
<1>2. CASE UNCHANGED vars
  BY <1>1, <1>2 DEF vars, Waits
<1>3. CASE Tick
  BY <1>1, <1>3 DEF Tick, Waits
<1>4. CASE ExpireFails
  BY <1>1, <1>4 DEF ExpireFails, Waits, NotExpiring
<1>5. ASSUME NEW d \in Ids, ExpireByID(d) PROVE Waits
  BY <1>1, <1>5 DEF ExpireByID, Waits, Note, FaultKinds
<1>6. ASSUME NEW k \in Keys, ExpireWithFilter(k) PROVE Waits
  BY <1>1, <1>6, Zenon DEF ExpireWithFilter, Waits, Table
<1> QED BY <1>2, <1>3, <1>4, <1>5, <1>6

\* A pull begins.
Begins ==
  /\ pull.pc = "idle" /\ pull' \in PullRec
  /\ pull'.pc = "new" /\ (pull'.startup <=> fresh) /\ pull'.start = clock
  /\ pull'.since = lastPull /\ pull'.last = 0 /\ pull'.new = {} /\ pull'.deleted = {}
  /\ clock' \in 0 .. MaxTime /\ clock <= clock' /\ (clock' < MaxTime => clock < clock')
  /\ expiring.ids # {} => clock < expiring.at + Overlap
  /\ UNCHANGED <<row, expiring, lastPull, view, fresh, failures, happened>>

\* BeginPull is such a step.
LEMMA BeginIs ==
  ASSUME TypeOK, BeginPull
  PROVE  Begins
<1>1. clock \in 0 .. MaxTime /\ clock \in Nat /\ MaxTime \in Nat
      /\ lastPull \in Nat \cup {Never} /\ fresh \in BOOLEAN /\ WantSim \in BOOLEAN
  BY StreamAssumption DEF TypeOK, StreamAssumption
<1>2. /\ pull' = [Idle EXCEPT !.pc = "new", !.startup = fresh, !.start = clock,
                              !.since = lastPull, !.sim = WantSim]
      /\ pull.pc = "idle" /\ clock' = Later /\ MayAdvance
      /\ UNCHANGED <<row, expiring, lastPull, view, fresh, failures, happened>>
  BY DEF BeginPull
<1>3. /\ pull'.pc = "new" /\ pull'.startup = fresh /\ pull'.start = clock
      /\ pull'.since = lastPull /\ pull'.last = 0 /\ pull'.new = {} /\ pull'.deleted = {}
      /\ pull' = [pc |-> "new", startup |-> fresh, start |-> clock, since |-> lastPull,
                  last |-> 0, sim |-> WantSim, new |-> {}, deleted |-> {}]
  BY <1>2, Zenon DEF Idle
<1>4. pull' \in PullRec
  BY <1>1, <1>3 DEF PullRec
<1>5. clock' \in 0 .. MaxTime /\ clock <= clock' /\ (clock' < MaxTime => clock < clock')
  BY <1>1, <1>2 DEF Later
<1> QED BY <1>2, <1>3, <1>4, <1>5 DEF Begins, MayAdvance

\* A step is one of those.
LEMMA StepIs ==
  ASSUME TypeOK, [Next]_vars
  PROVE  \/ Waits \/ Begins \/ PagesNew \/ PagesDeleted \/ Restart
         \/ Ends /\ failures' \in 0 .. MaxFaults
         \/ \E d \in Ids : Inserts(d) \/ Commits(d) \/ Flushes(d) \/ Deletes(d) \/ Expires(d)
         \/ \E d, e \in Ids : Replaces(d, e)
<1>1. CASE Pull
  BY <1>1, BeginIs, QueryNewIs, QueryDeletedIs, EndIs DEF Pull
<1>2. CASE Environment
  BY <1>2, WaitIs, InsertIs, CommitIs, RemoveIs, ReplaceIs, ExpireIs, EndIs
     DEF Environment
<1> QED BY <1>1, <1>2, WaitIs DEF Next

\* Types for every value of the constants, step by step.
LEMMA TypeStep ==
  ASSUME TypeOK, [Next]_vars
  PROVE  TypeOK'
<1> DEFINE Rows == [Ids -> RowRec]
<1>1. ASSUME clock' \in 0 .. MaxTime, row' \in Rows,
             expiring' \in [ids : SUBSET Ids, at : Nat], pull' \in PullRec,
             lastPull' \in Nat \cup {Never}, view' \subseteq Keys, fresh' \in BOOLEAN,
             failures' \in 0 .. MaxFaults, happened' \subseteq FaultKinds
      PROVE  TypeOK'
  BY <1>1 DEF TypeOK, RowRec, PullRec
<1>2. /\ clock \in 0 .. MaxTime /\ row \in Rows
      /\ expiring \in [ids : SUBSET Ids, at : Nat] /\ pull \in PullRec
      /\ lastPull \in Nat \cup {Never} /\ view \subseteq Keys
      /\ failures \in 0 .. MaxFaults /\ happened \subseteq FaultKinds
  BY DEF TypeOK, RowRec, PullRec
<1>3. fresh \in BOOLEAN
  BY DEF TypeOK
<1> HIDE DEF Rows
<1>4. ASSUME Waits PROVE TypeOK'
  BY <1>1, <1>2, <1>3, <1>4 DEF Waits
<1>5. ASSUME NEW d \in Ids, Writes(d), failures' = failures, happened' \subseteq FaultKinds,
             expiring' \in [ids : SUBSET Ids, at : Nat]
      PROVE  TypeOK'
  BY <1>1, <1>2, <1>3, <1>5 DEF Writes, Rows
<1>6. CASE Ends /\ failures' \in 0 .. MaxFaults
  <2>1. pull.start \in Nat /\ pull.new \subseteq Keys
    BY <1>2 DEF PullRec
  <2>2. fresh' \in BOOLEAN /\ view' \subseteq Keys /\ lastPull' \in Nat \cup {Never}
    BY <1>2, <1>3, <1>6, <2>1, Zenon DEF Ends
  <2> QED BY <1>1, <1>2, <1>6, <2>2, IdleIs DEF Ends
<1>7. CASE Begins
  BY <1>1, <1>2, <1>3, <1>7 DEF Begins
<1>8. CASE PagesNew \/ PagesDeleted
  BY <1>1, <1>2, <1>3, <1>8, Zenon DEF PagesNew, PagesDeleted, PagesThrough
<1>9. CASE Restart
  BY <1>1, <1>2, <1>9 DEF Restart
<1>10. ASSUME NEW d \in Ids, Inserts(d) \/ Commits(d) \/ Flushes(d) \/ Deletes(d) \/ Expires(d)
       PROVE  TypeOK'
  BY <1>2, <1>5, <1>10, Zenon DEF Inserts, Commits, Flushes, Deletes, Expires
<1>11. ASSUME NEW d \in Ids, NEW e \in Ids, Replaces(d, e)
       PROVE  TypeOK'
  BY <1>1, <1>2, <1>3, <1>11 DEF Replaces, Rows
<1> QED BY <1>4, <1>6, <1>7, <1>8, <1>9, <1>10, <1>11, StepIs

\* A step that writes rows writes nothing else the pull knows of.
LEMMA WritingStep ==
  ASSUME \/ \E d \in Ids : Inserts(d) \/ Commits(d) \/ Flushes(d) \/ Deletes(d) \/ Expires(d)
         \/ \E d, e \in Ids : Replaces(d, e)
  PROVE  UNCHANGED <<clock, pull, lastPull, view, fresh>>
BY Zenon DEF Inserts, Commits, Flushes, Deletes, Expires, Replaces, Writes

\* A pull is older than what happens after its time was taken.
LEMMA YoungerStep ==
  ASSUME BaseInv, [Next]_vars
  PROVE  Younger'
<1>1. TypeOK /\ Younger /\ clock \in Nat /\ MaxTime \in Nat
  BY Typed, StreamAssumption DEF BaseInv, StreamAssumption
<1>2. CASE Waits
  BY <1>1, <1>2, Typed DEF Waits, Younger
<1>3. CASE Begins
  BY <1>1, <1>3 DEF Begins, Younger
<1>4. CASE PagesNew \/ PagesDeleted
  BY <1>1, <1>4 DEF PagesNew, PagesDeleted, PagesThrough, Younger
<1>5. CASE Restart
  BY <1>1, <1>5 DEF Restart, Younger
<1>6. CASE Ends
  BY <1>6, IdleIs DEF Ends, Younger
<1>7. ASSUME UNCHANGED <<clock, pull>> PROVE Younger'
  BY <1>1, <1>7 DEF Younger
<1> QED BY <1>1, <1>2, <1>3, <1>4, <1>5, <1>6, <1>7, StepIs, WritingStep

\* The last recorded pull is known to the pull in progress.
LEMMA RecordedStep ==
  ASSUME BaseInv, [Next]_vars
  PROVE  Recorded'
<1>1. TypeOK /\ Younger /\ clock \in Nat /\ MaxTime \in Nat /\ lastPull \in Int
      /\ pull.start \in Nat
  BY Typed, StreamAssumption DEF BaseInv, StreamAssumption
<1>2. /\ lastPull <= clock /\ (clock < MaxTime => lastPull < clock)
      /\ pull.pc # "idle" => pull.since = lastPull /\ lastPull <= pull.start
      /\ pull.pc # "idle" => (pull.startup <=> fresh)
      /\ fresh => view = {}
  BY DEF BaseInv, Recorded
<1>3. CASE Waits
  BY <1>1, <1>2, <1>3 DEF Waits, Recorded
<1>4. CASE Begins
  <2>1. (pull'.startup <=> fresh') /\ (fresh' => view' = {})
    BY <1>2, <1>4 DEF Begins
  <2>2. pull'.since = lastPull' /\ lastPull' <= pull'.start
    BY <1>2, <1>4 DEF Begins
  <2>3. lastPull' <= clock' /\ (clock' < MaxTime => lastPull' < clock')
    BY <1>1, <1>2, <1>4 DEF Begins
  <2> QED BY <2>1, <2>2, <2>3 DEF Recorded
<1>5. CASE PagesNew \/ PagesDeleted
  <2>1. /\ UNCHANGED <<clock, lastPull, view, fresh>> /\ pull.pc # "idle"
        /\ pull'.startup = pull.startup /\ pull'.start = pull.start /\ pull'.since = pull.since
    BY <1>5, Zenon DEF PagesNew, PagesDeleted, PagesThrough
  <2> QED BY <1>2, <2>1 DEF Recorded
<1>6. CASE Restart
  BY <1>2, <1>6 DEF Restart, Recorded
<1>7. CASE Ends
  <2>1. pull'.pc = "idle" /\ clock' = clock /\ pull.pc # "idle"
    BY <1>7, IdleIs DEF Ends
  <2>2. lastPull' = pull.start \/ lastPull' = lastPull
    BY <1>7 DEF Ends
  <2>3. lastPull' <= clock' /\ (clock' < MaxTime => lastPull' < clock')
    BY <1>1, <1>2, <2>1, <2>2 DEF Younger
  <2>4. fresh' => view' = {}
    BY <1>2, <1>7, Zenon DEF Ends
  <2> QED BY <2>1, <2>3, <2>4 DEF Recorded
<1>8. ASSUME UNCHANGED <<clock, pull, lastPull, view, fresh>> PROVE Recorded'
  BY <1>2, <1>8 DEF Recorded
<1> QED BY <1>1, <1>3, <1>4, <1>5, <1>6, <1>7, <1>8, StepIs, WritingStep

\* Ids are given in order.
LEMMA InOrderStep ==
  ASSUME BaseInv, [Next]_vars
  PROVE  InOrder'
<1>1. TypeOK /\ \A d \in Ids : d \in Nat
  BY Typed DEF BaseInv
<1>2. /\ \A d, e \in Ids : d < e /\ row[e].state # "none" => row[d].state # "none"
      /\ pull.last > 0 => \E d \in Ids : d = pull.last /\ row[d].state # "none"
  BY DEF BaseInv, InOrder
<1>3. CASE Waits \/ Restart
  BY <1>2, <1>3, Zenon DEF Waits, Restart, InOrder
<1>4. CASE Begins
  BY <1>2, <1>4 DEF Begins, InOrder
<1>5. CASE PagesNew \/ PagesDeleted
  <2>1. row' = row
    BY <1>5, Zenon DEF PagesNew, PagesDeleted, PagesThrough
  <2>2. pull'.last = 0 \/ pull'.last \in Table
    BY <1>5, Zenon DEF PagesNew, PagesDeleted, PagesThrough, NewDecisions, ExpiredDecisions
  <2> QED BY <1>2, <2>1, <2>2 DEF InOrder, Table
<1>6. CASE Ends
  BY <1>2, <1>6, IdleIs DEF Ends, InOrder
<1>7. ASSUME NEW d \in Ids, Inserts(d) PROVE InOrder'
  <2>1. /\ pull' = pull /\ row'[d].state # "none" /\ row[d].state = "none"
        /\ \A e \in Ids : e # d => row'[e] = row[e]
        /\ \A e \in Ids : e < d => row[e].state # "none"
    BY <1>7, Zenon DEF Inserts, Writes
  <2>2. ASSUME NEW a \in Ids, NEW b \in Ids, a < b, row'[b].state # "none"
        PROVE  row'[a].state # "none"
    BY <1>1, <1>2, <2>1, <2>2
  <2>3. pull'.last > 0 => \E e \in Ids : e = pull'.last /\ row'[e].state # "none"
    BY <1>2, <2>1
  <2> QED BY <2>2, <2>3 DEF InOrder
<1>8. ASSUME NEW d \in Ids, Commits(d) \/ Flushes(d) \/ Deletes(d) \/ Expires(d)
      PROVE  InOrder'
  <2>1. /\ pull' = pull /\ \A e \in Ids : e # d => row'[e] = row[e]
        /\ row'[d].state # "none" <=> row[d].state # "none"
    BY <1>8, Zenon DEF Commits, Flushes, Deletes, Expires, Writes
  <2>2. \A e \in Ids : row'[e].state # "none" <=> row[e].state # "none"
    BY <2>1
  <2> QED BY <1>2, <2>1, <2>2 DEF InOrder
<1>9. ASSUME NEW d \in Ids, NEW e \in Ids, Replaces(d, e) PROVE InOrder'
  <2>1. /\ pull' = pull /\ row'[e].state # "none" /\ row'[d].state # "none"
        /\ row[d].state # "none" /\ \A f \in Ids : f # d /\ f # e => row'[f] = row[f]
        /\ \A f \in Ids : f < e => row[f].state # "none"
    BY <1>9 DEF Replaces
  <2>2. \A f \in Ids : f # e => (row'[f].state # "none" <=> row[f].state # "none")
    BY <2>1
  <2>3. ASSUME NEW a \in Ids, NEW b \in Ids, a < b, row'[b].state # "none"
        PROVE  row'[a].state # "none"
    BY <1>1, <1>2, <2>1, <2>2, <2>3
  <2>4. pull'.last > 0 => \E f \in Ids : f = pull'.last /\ row'[f].state # "none"
    BY <1>2, <2>1, <2>2
  <2> QED BY <2>3, <2>4 DEF InOrder
<1> QED BY <1>1, <1>3, <1>4, <1>5, <1>6, <1>7, <1>8, <1>9, StepIs

\* Expiries are applied in time.
LEMMA TimelyStep ==
  ASSUME BaseInv, [Next]_vars
  PROVE  Timely'
<1>1. TypeOK /\ Younger /\ clock \in Nat /\ lastPull \in Int
      /\ pull.start \in Nat /\ Overlap \in Nat /\ Overlap > 0 /\ expiring.at \in Nat
      /\ lastPull <= clock
  BY Typed, StreamAssumption DEF BaseInv, StreamAssumption, TypeOK, Recorded
<1>2. /\ expiring.at <= clock
      /\ expiring.ids # {} =>
           /\ expiring.at + Overlap > lastPull
           /\ pull.pc # "idle" => expiring.at + Overlap > pull.start
  BY DEF BaseInv, Timely
<1>3. NotExpiring.ids = {} /\ NotExpiring.at = 0
  BY DEF NotExpiring
<1>4. CASE Waits
  <2>1. UNCHANGED <<pull, lastPull>> /\ clock' \in Nat /\ clock <= clock'
    BY <1>1, <1>4 DEF Waits
  <2>2. expiring' = expiring \/ expiring' = NotExpiring \/ expiring'.at = clock
    BY <1>4 DEF Waits
  <2>3. expiring'.at <= clock'
    BY <1>1, <1>2, <1>3, <2>1, <2>2
  <2>4. ASSUME expiring'.ids # {} PROVE expiring'.at + Overlap > lastPull
    BY <1>1, <1>2, <1>3, <2>2, <2>4
  <2>5. ASSUME expiring'.ids # {}, pull.pc # "idle" PROVE expiring'.at + Overlap > pull.start
    BY <1>1, <1>2, <1>3, <2>2, <2>5 DEF Younger
  <2> QED BY <2>1, <2>3, <2>4, <2>5 DEF Timely
<1>5. CASE Begins
  BY <1>1, <1>2, <1>5 DEF Begins, Timely
<1>6. CASE PagesNew \/ PagesDeleted
  <2>1. UNCHANGED <<clock, expiring, lastPull>> /\ pull.pc # "idle" /\ pull'.start = pull.start
    BY <1>6, Zenon DEF PagesNew, PagesDeleted, PagesThrough
  <2> QED BY <1>2, <2>1 DEF Timely
<1>7. CASE Restart
  BY <1>2, <1>7, Zenon DEF Restart, Timely
<1>8. CASE Ends
  <2>1. UNCHANGED <<clock, expiring>> /\ pull'.pc = "idle" /\ pull.pc # "idle"
        /\ (lastPull' = pull.start \/ lastPull' = lastPull)
    BY <1>8, IdleIs, Zenon DEF Ends
  <2> QED BY <1>2, <2>1, Zenon DEF Timely
<1>9. CASE \/ \E d \in Ids : Inserts(d) \/ Commits(d) \/ Flushes(d) \/ Deletes(d)
           \/ \E d, e \in Ids : Replaces(d, e)
  <2>1. UNCHANGED <<clock, pull, lastPull, expiring>>
    BY <1>9, Zenon DEF Inserts, Commits, Flushes, Deletes, Replaces, Writes
  <2> QED BY <1>2, <2>1 DEF Timely
<1>10. ASSUME NEW d \in Ids, Expires(d)
       PROVE  Timely'
  <2>1. UNCHANGED <<clock, pull, lastPull>> /\ expiring.ids # {}
        /\ (expiring' = NotExpiring \/ expiring'.at = expiring.at)
    BY <1>10, Zenon DEF Expires, Writes
  <2> QED BY <1>1, <1>2, <1>3, <2>1 DEF Timely
<1> QED BY <1>1, <1>4, <1>5, <1>6, <1>7, <1>8, <1>9, <1>10, StepIs

\* All of these are invariants.
LEMMA BaseInvariant == Spec => []BaseInv
<1>1. Init => BaseInv
  <2> SUFFICES ASSUME Init PROVE BaseInv
    OBVIOUS
  <2>1. TypeOK
    <3>1. row \in [Ids -> RowRec] /\ pull \in PullRec
      BY NoRowIs, IdleIs DEF Init
    <3>2. clock \in 0 .. MaxTime /\ failures \in 0 .. MaxFaults
      BY StreamAssumption DEF Init, StreamAssumption
    <3>3. fresh \in BOOLEAN
      BY DEF Init
    <3>4. expiring \in [ids : SUBSET Ids, at : Nat] /\ lastPull \in Nat \cup {Never}
          /\ view \subseteq Keys /\ happened \subseteq FaultKinds
      BY DEF Init, NotExpiring
    <3> QED BY <3>1, <3>2, <3>3, <3>4 DEF TypeOK, RowRec, PullRec
  <2>2. Younger /\ Recorded
    BY IdleIs DEF Init, Younger, Recorded, Never
  <2>3. InOrder
    BY IdleIs, NoRowIs DEF Init, InOrder
  <2>4. Timely
    BY DEF Init, Timely, NotExpiring
  <2> QED BY <2>1, <2>2, <2>3, <2>4 DEF BaseInv
<1>2. BaseInv /\ [Next]_vars => BaseInv'
  <2> SUFFICES ASSUME BaseInv, [Next]_vars PROVE BaseInv'
    OBVIOUS
  <2>1. TypeOK'
    BY TypeStep DEF BaseInv
  <2> QED BY <2>1, YoungerStep, RecordedStep, InOrderStep, TimelyStep DEF BaseInv
<1> QED BY <1>1, <1>2, PTL DEF Spec

\* Types for every value of the constants.
THEOREM TypeCorrect == Spec => []TypeOK
<1>1. BaseInv => TypeOK
  BY DEF BaseInv
<1> QED BY <1>1, BaseInvariant, PTL

=============================================================================
