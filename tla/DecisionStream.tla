--------------------------- MODULE DecisionStream ---------------------------
(***************************************************************************)
(* GET /decisions/stream: how a remediation component (bouncer) keeps the  *)
(* set of keys it blocks in step with the decisions table.                 *)
(*                                                                         *)
(* A pull is one StreamDecision handler.  It reads the time once, queries  *)
(* the new decisions and then the expired ones, each in pages that are     *)
(* separate SQL statements, and stores the time it read as the bouncer's   *)
(* last_pull.  Decisions are inserted and expired by other handlers        *)
(* between any two of its statements.  A key stands for the (scope, type,  *)
(* value) triple of a decision.  The bouncer leaves the answers            *)
(* deduplicated: one that asks with dedup=false gets every row and has to  *)
(* keep the rows apart, which a set of keys does not describe.             *)
(***************************************************************************)
EXTENDS Integers, FiniteSets

CONSTANTS
  MaxId,      \* bound on the decisions of a behaviour; ids are 1 .. MaxId
  Keys,       \* (scope, type, value) triples
  MaxTime,    \* bound on the clock
  Durations,  \* ticks a decision may last
  Overlap,    \* the two seconds subtracted from last_pull for expired rows
  Limit,      \* rows of a page (30000)
  WantSim,    \* the bouncer asks with simulated=true
  MaxFaults   \* bound on failed pulls and FaultKinds in one behaviour

\* Events the handler does not guard against.
\* startup: a query of a startup pull fails after the 200 was sent;
\* late: a row becomes visible some time after its created_at was taken;
\* midpage: decisions are expired, replaced or removed between two pages of
\*   new decisions;
\* flush: rows of expired decisions are removed with their alert;
\* delete: an alert is deleted with decisions that may be active;
\* past: a decision is over when its row is inserted;
\* sim: a decision is simulated;
\* reexpire: an expiry is asked for, or applied to, a decision that is over.
FaultKinds ==
  {"startup", "late", "midpage", "flush", "delete", "past", "sim", "reexpire"}

ASSUME StreamAssumption ==
  /\ Keys # {} /\ MaxId \in Nat /\ MaxTime \in Nat
  /\ Overlap \in Nat \ {0} /\ Limit \in Nat \ {0}
  /\ Durations \subseteq Nat \ {0}
  /\ WantSim \in BOOLEAN /\ MaxFaults \in Nat

Ids == 1 .. MaxId

\* last_pull of a bouncer that never pulled is NULL: no lower bound.
Never == -1

VARIABLES
  clock,     \* time.Now().UTC()
  row,       \* the decisions table
  expiring,  \* ExpireDecisions in progress: the rows left and its now
  pull,      \* the StreamDecision handler in progress
  lastPull,  \* the bouncer's last_pull column
  view,      \* the keys the bouncer blocks
  fresh,     \* the bouncer has had no answer since it started
  failures,  \* how many pulls failed
  happened   \* history: the FaultKinds that have happened

vars == <<clock, row, expiring, pull, lastPull, view, fresh, failures, happened>>

NotExpiring == [ids |-> {}, at |-> 0]

NoRow == [state |-> "none", key |-> CHOOSE k \in Keys : TRUE,
          created |-> 0, until |-> 0, sim |-> FALSE]

Idle == [pc |-> "idle", startup |-> FALSE, start |-> 0, since |-> Never,
         last |-> 0, sim |-> FALSE, new |-> {}, deleted |-> {}]

Init ==
  /\ clock = 0
  /\ row = [d \in Ids |-> NoRow]
  /\ expiring = NotExpiring
  /\ pull = Idle
  /\ lastPull = Never
  /\ view = {}
  /\ fresh = TRUE
  /\ failures = 0
  /\ happened = {}

Note(S) ==
  /\ happened' = happened \cup S
  /\ failures + Cardinality(happened') <= MaxFaults

Lowest(S) == CHOOSE d \in S : \A e \in S : d <= e
Highest(S) == CHOOSE d \in S : \A e \in S : d >= e
KeysOf(S) == {row[d].key : d \in S}
Table == {d \in Ids : row[d].state = "live"}

-----------------------------------------------------------------------------
(* Time and the other handlers.                                            *)

\* An expiry statement is applied at most Overlap after ExpireDecisions took
\* its time: the assumption the overlap of streamDecisions rests on.
MayAdvance == expiring.ids # {} => clock < expiring.at + Overlap

Later == IF clock < MaxTime THEN clock + 1 ELSE clock

Tick ==
  /\ clock < MaxTime /\ MayAdvance
  /\ clock' = clock + 1
  /\ UNCHANGED <<row, expiring, pull, lastPull, view, fresh, failures, happened>>

Free == {d \in Ids : row[d].state = "none"}
If(kind, condition) == IF condition THEN {kind} ELSE {}

\* A decision is inserted by buildDecisions or createDecisionBatch and lasts
\* from the stop_at of its alert, which may be well past.  Its created_at is
\* taken by the process, its row is visible at the commit.
CreateDecision(k, n, sim) ==
  /\ clock < MaxTime /\ Free # {}
  /\ \E s \in {"live", "open"}, stop \in 0 .. clock :
       /\ Note(If("sim", sim) \cup If("late", s = "open") \cup If("past", stop + n <= clock))
       /\ row' = [row EXCEPT ![Lowest(Free)] =
                    [state |-> s, key |-> k, created |-> clock,
                     until |-> stop + n, sim |-> sim]]
  /\ UNCHANGED <<clock, expiring, pull, lastPull, view, fresh, failures>>

\* The transaction of createAlertBatch commits.
Commit(d) ==
  /\ row[d].state = "open"
  /\ row' = [row EXCEPT ![d].state = "live"]
  /\ UNCHANGED <<clock, expiring, pull, lastPull, view, fresh, failures, happened>>

\* ExpireDecisionsWithFilter selects active rows of a key, ExpireDecisionByID
\* any single row; ExpireDecisions then takes the time.
ExpireWithFilter(k) ==
  LET active == {d \in Table : row[d].key = k /\ row[d].until > clock} IN
  /\ clock < MaxTime /\ expiring.ids = {} /\ active # {}
  /\ expiring' = [ids |-> active, at |-> clock]
  /\ UNCHANGED <<clock, row, pull, lastPull, view, fresh, failures, happened>>

ExpireByID(d) ==
  /\ clock < MaxTime /\ expiring.ids = {} /\ d \in Table
  /\ Note(IF row[d].until > clock THEN {} ELSE {"reexpire"})
  /\ expiring' = [ids |-> {d}, at |-> clock]
  /\ UNCHANGED <<clock, row, pull, lastPull, view, fresh, failures>>

\* Defect: the rows are expired some time before now.
ExpireBatchEarly ==
  LET d == Lowest(expiring.ids) IN
  /\ expiring.ids # {}
  /\ row' = [row EXCEPT ![d].until = expiring.at - Overlap]
  /\ expiring' = IF expiring.ids = {d} THEN NotExpiring
                 ELSE [expiring EXCEPT !.ids = @ \ {d}]
  /\ UNCHANGED <<clock, pull, lastPull, view, fresh, failures, happened>>

\* A query of new decisions has read a page and will read another.
MidPage == If("midpage", pull.pc = "new" /\ pull.last > 0)

\* One UPDATE of expireDecisionBatch (batches of one row).
ExpireBatch ==
  LET d == Lowest(expiring.ids) IN
  /\ expiring.ids # {}
  /\ happened' = happened \cup MidPage
                   \cup If("reexpire", row[d].state = "live" /\ row[d].until <= clock)
  /\ MidPage # {} => failures + Cardinality(happened \cup MidPage) <= MaxFaults
  /\ row' = [row EXCEPT ![d].until =
               IF row[d].state = "live" THEN expiring.at ELSE @]
  /\ expiring' = IF expiring.ids = {d} THEN NotExpiring
                 ELSE [expiring EXCEPT !.ids = @ \ {d}]
  /\ UNCHANGED <<clock, pull, lastPull, view, fresh, failures>>

\* A batch fails: the ones before it stay applied, the others are dropped.
ExpireFails ==
  /\ expiring.ids # {}
  /\ expiring' = NotExpiring
  /\ UNCHANGED <<clock, row, pull, lastPull, view, fresh, failures, happened>>

Gone == [NoRow EXCEPT !.state = "gone"]

\* FlushAlerts removes an alert that has no active decision, and its row.
FlushRow(d) ==
  /\ Note({"flush"})
  /\ d \in Table /\ row[d].until <= clock
  /\ row' = [row EXCEPT ![d] = Gone]
  /\ UNCHANGED <<clock, expiring, pull, lastPull, view, fresh, failures>>

\* DELETE /alerts removes an alert, and its row, active or not.
DeleteRow(d) ==
  /\ Note({"delete"} \cup MidPage)
  /\ d \in Table
  /\ row' = [row EXCEPT ![d] = Gone]
  /\ UNCHANGED <<clock, expiring, pull, lastPull, view, fresh, failures>>

\* UpdateCommunityBlocklist, for a value that is on the list again: one
\* transaction removes the row of the earlier list and inserts a new one,
\* whose time was taken before the commit.
UpdateCommunityBlocklist(d, n) ==
  /\ clock < MaxTime /\ Free # {} /\ d \in Table
  /\ \E stop \in 0 .. clock :
       /\ Note(MidPage \cup If("late", stop < clock))
       /\ row' = [row EXCEPT ![d] = Gone, ![Lowest(Free)] =
                    [state |-> "live", key |-> row[d].key, created |-> stop,
                     until |-> stop + n, sim |-> FALSE]]
  /\ UNCHANGED <<clock, expiring, pull, lastPull, view, fresh, failures>>

-----------------------------------------------------------------------------
(* The queries.                                                            *)

\* Defect: the join looks only at the decisions the filter lets through.
longestDecisionFiltered(d) ==
  ~ \E e \in Table : /\ row[e].key = row[d].key /\ row[e].until > row[d].until
                     /\ pull.sim \/ ~row[e].sim

\* The left join compares with the whole table, filtered rows included.
longestDecisionForScopeTypeValue(d) ==
  ~ \E e \in Table : row[e].key = row[d].key /\ row[e].until > row[d].until

\* The simulated filter; the id_gt cursor of the page.
applyDecisionFilter(d) == (pull.sim \/ ~row[d].sim) /\ d > pull.last

\* Defect: a delta does not look at until.
NewDecisionsOver ==
  {d \in Table : /\ pull.startup => row[d].until > pull.start
                 /\ pull.startup \/ row[d].created > pull.since
                 /\ longestDecisionForScopeTypeValue(d)
                 /\ applyDecisionFilter(d)}

\* QueryAllDecisionsWithFilters and QueryNewDecisionsSinceWithFilters.
NewDecisions ==
  {d \in Table : /\ row[d].until > pull.start
                 /\ pull.startup \/ row[d].created > pull.since
                 /\ longestDecisionForScopeTypeValue(d)
                 /\ applyDecisionFilter(d)}

\* Defect: no overlap.
expiredSinceExact == pull.since

expiredSince == IF pull.since = Never THEN Never ELSE pull.since - Overlap

\* QueryExpiredDecisionsWithFilters, QueryExpiredDecisionsSinceWithFilters.
ExpiredDecisions ==
  {d \in Table : /\ row[d].until < pull.start
                 /\ pull.startup \/ row[d].until > expiredSince
                 /\ longestDecisionForScopeTypeValue(d)
                 /\ applyDecisionFilter(d)}

\* ORDER BY id LIMIT limit.
Page(S) == {d \in S : Cardinality({e \in S : e < d}) < Limit}

-----------------------------------------------------------------------------
(* The StreamDecision handler and its client.                              *)

\* The bouncer restarts: it blocks nothing and will ask with startup=true.
Restart ==
  /\ pull.pc = "idle" /\ ~fresh /\ clock < MaxTime
  /\ fresh' = TRUE /\ view' = {}
  /\ UNCHANGED <<clock, row, expiring, pull, lastPull, failures, happened>>

\* The handler takes streamStartTime and the bouncer's row.  Whatever happens
\* afterwards has a later time stamp.
BeginPull ==
  /\ pull.pc = "idle" /\ MayAdvance
  /\ pull' = [Idle EXCEPT !.pc = "new", !.startup = fresh, !.start = clock,
                          !.since = lastPull, !.sim = WantSim]
  /\ clock' = Later
  /\ UNCHANGED <<row, expiring, lastPull, view, fresh, failures, happened>>

\* Defect: the cursor does not move.
AfterPageSame(p, rows, next) ==
  [p EXCEPT !.sim = FALSE,
            !.pc = IF Cardinality(rows) < Limit THEN next ELSE @]

\* One query of the loop of writeStartupDecisions or writeDeltaDecisions.
\* The filter map is shared: applyDecisionFilter removes "simulated" from it.
AfterPage(p, rows, next) ==
  [p EXCEPT !.sim = FALSE,
            !.pc = IF Cardinality(rows) < Limit THEN next ELSE @,
            !.last = IF Cardinality(rows) < Limit THEN 0 ELSE Highest(rows)]

QueryNew ==
  LET rows == Page(NewDecisions) IN
  /\ pull.pc = "new"
  /\ pull' = [AfterPage(pull, rows, "deleted") EXCEPT !.new = @ \cup KeysOf(rows)]
  /\ UNCHANGED <<clock, row, expiring, lastPull, view, fresh, failures, happened>>

QueryDeleted ==
  LET rows == Page(ExpiredDecisions) IN
  /\ pull.pc = "deleted"
  /\ pull' = [AfterPage(pull, rows, "sent") EXCEPT !.deleted = @ \cup KeysOf(rows)]
  /\ UNCHANGED <<clock, row, expiring, lastPull, view, fresh, failures, happened>>

\* The bouncer applies an answer: deletions first, then additions.
Deliver ==
  /\ view' = (view \ pull.deleted) \cup pull.new
  /\ fresh' = FALSE
  /\ pull' = Idle

\* UpdateBouncerLastPull, after the answer was written.
FinishPull ==
  /\ pull.pc = "sent"
  /\ Deliver
  /\ lastPull' = pull.start
  /\ UNCHANGED <<clock, row, expiring, failures, happened>>

\* A failure that costs nothing but another pull.
Failing ==
  /\ failures + Cardinality(happened) < MaxFaults
  /\ failures' = failures + 1
  /\ UNCHANGED happened

\* UpdateBouncerLastPull fails: it is only logged.
UpdateFails ==
  /\ Failing
  /\ pull.pc = "sent"
  /\ Deliver
  /\ UNCHANGED <<clock, row, expiring, lastPull>>

\* Defect: last_pull is updated although the answer is incomplete.
QueryFailsRecorded ==
  /\ pull.pc \in {"new", "deleted"}
  /\ \/ ~pull.startup /\ Failing
     \/ pull.startup /\ Note({"startup"}) /\ UNCHANGED failures
  /\ Deliver
  /\ lastPull' = pull.start
  /\ UNCHANGED <<clock, row, expiring>>

\* A query fails: the answer is closed as valid JSON and the bouncer gets
\* what was written so far with status 200; last_pull is not updated.
QueryFails ==
  /\ pull.pc \in {"new", "deleted"}
  /\ \/ ~pull.startup /\ Failing
     \/ pull.startup /\ Note({"startup"}) /\ UNCHANGED failures
  /\ Deliver
  /\ UNCHANGED <<clock, row, expiring, lastPull>>

\* The client is gone: writing to it fails.
WriteFails ==
  /\ Failing
  /\ pull.pc \in {"new", "deleted"}
  /\ pull' = Idle
  /\ UNCHANGED <<clock, row, expiring, lastPull, view, fresh>>

Pull == BeginPull \/ QueryNew \/ QueryDeleted \/ FinishPull

Environment ==
  \/ Tick
  \/ \E k \in Keys, n \in Durations, sim \in BOOLEAN : CreateDecision(k, n, sim)
  \/ \E d \in Ids : Commit(d) \/ ExpireByID(d) \/ FlushRow(d) \/ DeleteRow(d)
  \/ \E d \in Ids, n \in Durations : UpdateCommunityBlocklist(d, n)
  \/ \E k \in Keys : ExpireWithFilter(k)
  \/ ExpireBatch \/ ExpireFails
  \/ Restart
  \/ UpdateFails \/ QueryFails \/ WriteFails

Next == Pull \/ Environment

Spec == Init /\ [][Next]_vars

\* A bouncer polls for ever and its requests are handled; time passes, and a
\* running ExpireDecisions makes progress.
Fairness == WF_vars(Pull) /\ WF_vars(Tick) /\ WF_vars(ExpireBatch)

FairSpec == Spec /\ Fairness

-----------------------------------------------------------------------------
(* Properties.                                                             *)

TypeOK ==
  /\ clock \in 0 .. MaxTime
  /\ row \in [Ids -> [state : {"none", "open", "live", "gone"}, key : Keys,
                      created : Nat, until : Nat, sim : BOOLEAN]]
  /\ expiring \in [ids : SUBSET Ids, at : Nat]
  /\ pull \in [pc : {"idle", "new", "deleted", "sent"}, startup : BOOLEAN,
               start : Nat, since : Nat \cup {Never}, last : Nat,
               sim : BOOLEAN, new : SUBSET Keys, deleted : SUBSET Keys]
  /\ lastPull \in Nat \cup {Never}
  /\ view \subseteq Keys
  /\ fresh \in BOOLEAN
  /\ failures \in 0 .. MaxFaults
  /\ happened \subseteq FaultKinds

\* The decisions this bouncer asked for: simulated ones on request only.
Wanted(d) == d \in Table /\ (WantSim \/ ~row[d].sim)

\* StreamDecision updates last_pull only on success "to avoid missing
\* decisions": a decision created before the last recorded pull that is
\* active and asked for is blocked by the bouncer, whatever failed, expired,
\* was flushed, deleted, replaced or inserted since and however the pages fell,
\* as long as no startup answer was cut short, no row committed late, none was
\* expired, replaced or deleted between two pages and none is simulated.
NothingMissed ==
  happened \subseteq {"flush", "delete", "past", "reexpire"} /\ pull.pc = "idle" /\ ~fresh =>
    \A d \in Ids :
      Wanted(d) /\ row[d].until > clock /\ row[d].created <= lastPull
        => row[d].key \in view

\* The overlap of streamDecisions is there "to avoid missing decisions that
\* expired around the last pull time": a key the bouncer still blocks has a
\* decision that is active or that ended within the overlap before the last
\* recorded pull, so that the next one reports it.  Excepted are rows that
\* were flushed before the pull, deleted with their alert, commit late or are
\* simulated.
Cleared ==
  happened \cap {"flush", "delete", "late", "sim"} = {} /\ pull.pc = "idle" /\ lastPull # Never =>
    \A k \in view :
      \E d \in Ids :
        Wanted(d) /\ row[d].key = k /\ row[d].until > lastPull - Overlap

\* No answer lifts a key that has an active decision older than the pull:
\* the dedup join keeps an expired decision out of "deleted" while a longer
\* one of the key runs, even if that one was expired between the queries.
\* Rows that commit late are excepted.
NeverLifted ==
  []["late" \notin happened => \A d \in Ids :
       /\ Wanted(d) /\ row[d].until > clock /\ row[d].created <= pull.start
       /\ row[d].key \in view /\ pull.pc # "idle"
       => row[d].key \in view']_vars

\* When the decisions stop changing the bouncer ends up blocking exactly the
\* keys with an active decision, after any bounded number of failed pulls,
\* unless something happened that the stream cannot make up for.
Converges ==
  <>[](happened \subseteq {"past", "reexpire"} =>
       /\ \A d \in Ids : Wanted(d) /\ row[d].until > clock => row[d].key \in view
       /\ \A k \in view : \E d \in Ids :
            Wanted(d) /\ row[d].key = k /\ row[d].until >= clock)
=============================================================================
