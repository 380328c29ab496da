------------------------------ MODULE AlertStore ------------------------------
(***************************************************************************)
(* The alerts table of the local API (pkg/database/alerts.go, flush.go,    *)
(* database.go): alerts are created, a list of decisions is imported in    *)
(* several transactions, the flush job removes alerts by age and by        *)
(* number, a client deletes an alert, and a query reads the table page by  *)
(* page, all at the same time.                                             *)
(*                                                                         *)
(* An alert is its id, the time it was created, the time the last of its   *)
(* decisions ends (0: it has none) and the import it belongs to.  A        *)
(* statement and a transaction are atomic; a handler that runs several is  *)
(* several steps.                                                          *)
(***************************************************************************)
EXTENDS Integers, FiniteSets, Sequences, SequencesExt, FiniteSetsExt

CONSTANTS
    Importers,   \* requests that import a list
    Parts,       \* transactions of an import
    Lives,       \* how long the decisions of an alert last, 0 for no decision
    MaxAge,      \* flush.max_age, 0 if not set
    MaxItems,    \* flush.max_items, 0 if not set
    PageSize,    \* paginationSize
    Limits,      \* the limits clients ask for
    MaxId, MaxClock, MaxErrors, MaxDeletes, MaxLists   \* bounds

\* What the constants must satisfy.
StoreAssumption ==
    /\ {Parts, PageSize} \subseteq Nat \ {0}
    /\ {MaxAge, MaxItems} \subseteq Nat
    /\ Lives \subseteq Nat /\ Limits \subseteq Nat

VARIABLES
    clock,
    alerts,      \* the rows of the table
    lastId,      \* the auto-increment of its id
    left,        \* for each import: the transactions to come, or where it stands
    flush,       \* the flush job: its place and the id it computed
    list,        \* the query under way
    stable,      \* observer: the table has not changed since the query began
    errors, deletes, lists       \* how often these have happened

vars == <<clock, alerts, lastId, left, flush, list, stable, errors, deletes, lists>>

Nobody == "nobody"
Waiting == Parts + 1            \* an import that has not begun
Reading == {i \in Importers : left[i] \in 1..Parts}   \* those that hold the read lock
Locked  == flush.at # "idle"                          \* the flush job holds the lock

Resting == [at |-> "idle", maxid |-> 0]
NoList  == [at |-> "idle", limit |-> 0, offset |-> 0, ret |-> <<>>]

Init ==
    /\ clock = 1
    /\ alerts = {}
    /\ lastId = 0
    /\ left = [i \in Importers |-> Waiting]
    /\ flush = Resting
    /\ list = NoList
    /\ stable = TRUE
    /\ errors = 0
    /\ deletes = 0
    /\ lists = 0

-----------------------------------------------------------------------------
Tick ==
    /\ clock < MaxClock
    /\ clock' = clock + 1
    /\ UNCHANGED <<alerts, lastId, left, flush, list, stable, errors, deletes, lists>>

(* A transaction of createAlertBatch: the alert with all its decisions. *)
Store(who) ==
    /\ lastId < MaxId
    /\ lastId' = lastId + 1
    /\ \E l \in Lives :
         alerts' = alerts \cup {[id |-> lastId + 1, at |-> clock, by |-> who,
                                 until |-> IF l = 0 THEN 0 ELSE clock + l]}
    /\ stable' = FALSE

(* The handler of an ordinary alert takes no lock. *)
CreateAlert ==
    /\ Store(Nobody)
    /\ UNCHANGED <<clock, left, flush, list, errors, deletes, lists>>

(* PauseFlush: RLock waits for the flush job. *)
MayPause == ~Locked

PauseFlush(i) ==
    /\ left[i] = Waiting
    /\ MayPause
    /\ left' = [left EXCEPT ![i] = Parts]
    /\ UNCHANGED <<clock, alerts, lastId, flush, list, stable, errors, deletes, lists>>

(* One transaction; the deferred resumeFlush runs after the last one, or *)
(* after one that failed.                                                *)
ImportPart(i) ==
    /\ i \in Reading
    /\ \/ /\ Store(i)
          /\ left' = [left EXCEPT ![i] = @ - 1]
          /\ UNCHANGED errors
       \/ /\ errors < MaxErrors \/ lastId = MaxId
          /\ errors' = Min({errors + 1, MaxErrors})
          /\ left' = [left EXCEPT ![i] = 0]
          /\ UNCHANGED <<alerts, lastId, stable>>
    /\ UNCHANGED <<clock, flush, list, deletes, lists>>

(* DeleteAlertGraph: the decisions first, the alert in a second statement, *)
(* which may fail.                                                         *)
DeleteAlert ==
    /\ deletes < MaxDeletes
    /\ deletes' = deletes + 1
    /\ \E a \in alerts :
         \/ alerts' = alerts \ {a} /\ UNCHANGED errors
         \/ /\ errors < MaxErrors
            /\ errors' = errors + 1
            /\ alerts' = (alerts \ {a}) \cup {[a EXCEPT !.until = 0]}
    /\ stable' = FALSE
    /\ UNCHANGED <<clock, lastId, left, flush, list, lists>>

-----------------------------------------------------------------------------
(* FlushAlerts. *)

Active(a, now) == a.until >= now

(* alertWithoutActiveDecision *)
Flushable(a, now) == ~Active(a, now)

(* TryFlushLock fails while an import holds the read lock; the job then waits *)
(* for its next turn.                                                         *)
TryFlushLock == ~Locked /\ Reading = {}

FlushStart ==
    /\ TryFlushLock
    /\ flush' = [Resting EXCEPT !.at = "age"]
    /\ UNCHANGED <<clock, alerts, lastId, left, list, stable, errors, deletes, lists>>

(* What the statement under way removes; an error ends the job. *)
Expunge(S, next) ==
    \/ /\ alerts' = alerts \ S
       /\ stable' = (stable /\ S = {})
       /\ flush' = next
       /\ UNCHANGED errors
    \/ /\ errors < MaxErrors
       /\ errors' = errors + 1
       /\ flush' = Resting
       /\ UNCHANGED <<alerts, stable>>

Old(a) == MaxAge # 0 /\ a.at + MaxAge <= clock

FlushByAge ==
    /\ flush.at = "age"
    /\ Expunge({a \in alerts : Old(a) /\ Flushable(a, clock)},
              IF MaxItems = 0 THEN Resting ELSE [flush EXCEPT !.at = "count"])
    /\ UNCHANGED <<clock, lastId, left, list, deletes, lists>>

(* Newest first, by the time of creation and the id. *)
Newest(S) == SetToSortSeq(S, LAMBDA a, b : a.at > b.at \/ (a.at = b.at /\ a.id > b.id))

(* "the oldest alert that we want to keep" *)
OldestKept(last) == last - MaxItems

LastAlert ==
    /\ flush.at = "count"
    /\ \/ /\ flush' = IF alerts = {} \/ OldestKept(Newest(alerts)[1].id) <= 0
                        THEN Resting
                        ELSE [at |-> "trim", maxid |-> OldestKept(Newest(alerts)[1].id)]
          /\ UNCHANGED errors
       \/ /\ errors < MaxErrors
          /\ errors' = errors + 1
          /\ flush' = Resting
    /\ UNCHANGED <<clock, alerts, lastId, left, list, stable, deletes, lists>>

Beyond(a) == a.id < flush.maxid

FlushByCount ==
    /\ flush.at = "trim"
    /\ Expunge({a \in alerts : Beyond(a) /\ Flushable(a, clock)}, Resting)
    /\ UNCHANGED <<clock, lastId, left, list, deletes, lists>>

Flush == FlushStart \/ FlushByAge \/ LastAlert \/ FlushByCount

-----------------------------------------------------------------------------
(* QueryAlertWithFilter. *)

QueryAlerts ==
    /\ list.at = "idle"
    /\ lists < MaxLists
    /\ lists' = lists + 1
    /\ \E l \in Limits : list' = [NoList EXCEPT !.at = "page", !.limit = l]
    /\ stable' = TRUE
    /\ UNCHANGED <<clock, alerts, lastId, left, flush, errors, deletes>>

Ids(s) == [k \in 1..Len(s) |-> s[k].id]

Page(offset) ==
    LET s == Ids(Newest(alerts))
    IN SubSeq(s, offset + 1, Min({offset + PageSize, Len(s)}))

NextOffset(offset) == offset + PageSize

(* One turn of the loop; a limit of 0 becomes the number of rows. *)
QueryPage ==
    LET limit == IF list.limit = 0 THEN Cardinality(alerts) ELSE list.limit
        rows  == Page(list.offset)
        room  == limit - Len(list.ret)
        ret   == list.ret \o (IF room < PageSize /\ Len(rows) >= room THEN SubSeq(rows, 1, room) ELSE rows)
        ended == \/ rows = <<>>
                 \/ room < PageSize /\ Len(rows) < room
                 \/ Len(ret) = limit
                 \/ Len(rows) < PageSize
    IN /\ list.at = "page"
       /\ list' = [at |-> IF ended THEN "done" ELSE "page", limit |-> limit,
                   offset |-> NextOffset(list.offset), ret |-> ret]
       /\ UNCHANGED <<clock, alerts, lastId, left, flush, stable, errors, deletes, lists>>

Answer ==
    /\ list.at = "done"
    /\ list' = NoList
    /\ UNCHANGED <<clock, alerts, lastId, left, flush, stable, errors, deletes, lists>>

Query == QueryAlerts \/ QueryPage \/ Answer

Next ==
    \/ Tick \/ CreateAlert \/ DeleteAlert \/ Flush \/ Query
    \/ \E i \in Importers : PauseFlush(i) \/ ImportPart(i)

Spec == Init /\ [][Next]_vars

(* Time passes, imports and the flush job run on, and the job gets its turn *)
(* when no import is under way.                                             *)
FairSpec ==
    /\ Spec
    /\ WF_vars(Tick) /\ WF_vars(Flush)
    /\ \A i \in Importers : WF_vars(ImportPart(i))
-----------------------------------------------------------------------------
(* Every variable has its type, and ids are unique. *)
TypeOK ==
    /\ StoreAssumption
    /\ clock \in 1..MaxClock
    /\ lastId \in 0..MaxId
    /\ \A a \in alerts : /\ a.id \in 1..lastId /\ a.at \in 1..clock /\ a.until \in Nat
                         /\ a.by \in Importers \cup {Nobody}
    /\ \A a, b \in alerts : a.id = b.id => a = b
    /\ left \in [Importers -> 0..Waiting]
    /\ flush.at \in {"idle", "age", "count", "trim"}
    /\ list.at \in {"idle", "page", "done"}
    /\ stable \in BOOLEAN

(* "flushing must never remove an alert that still carries an active decision" *)
(* (alertWithoutActiveDecision), by age or by number.                          *)
ActiveKept ==
    [][flush' # flush => \A a \in alerts \ alerts' : ~Active(a, clock)]_vars

(* "don't let the flush job trim the batch mid-import" (CreateAlert): no alert *)
(* of an import that is under way is flushed, whatever its decisions.          *)
ImportSpared ==
    [][flush' # flush => \A a \in alerts \ alerts' : a.by \notin Reading]_vars

(* A flush by number leaves at most MaxItems + 1 of the alerts it could remove *)
(* among those that were there when it looked for the last one.                *)
Trimmed ==
    [][flush.at = "trim" /\ flush'.at = "idle" /\ errors' = errors =>
         Cardinality({a \in alerts' : ~Active(a, clock) /\ a.id <= flush.maxid + MaxItems})
           <= MaxItems + 1]_vars

(* A query during which the table did not change returns the newest alerts, as *)
(* many as its limit (all for 0), each once, however limit, page size and      *)
(* number of rows fall together.                                               *)
ListExact ==
    list.at = "done" /\ stable =>
        list.ret = SubSeq(Ids(Newest(alerts)), 1, Min({list.limit, Cardinality(alerts)}))

(* An alert older than MaxAge whose decisions have ended is removed in the end: *)
(* imports, errors and alerts created meanwhile put the flush off, not away.    *)
OldGone ==
    \A n \in 1..MaxId :
       (\E a \in alerts : a.id = n /\ Old(a) /\ ~Active(a, clock))
          ~> ~(\E a \in alerts : a.id = n)

-----------------------------------------------------------------------------
(* What the repository says and the code does not keep: TLC finds a        *)
(* behaviour against each of these, which the README describes.            *)

(* cscli alerts flush --max-items: "Maximum number of alert items to keep in   *)
(* the database": once trimmed, no more than MaxItems of the alerts it could   *)
(* remove are left.                                                            *)
AtMostMaxItems ==
    [][flush.at = "trim" /\ flush'.at = "idle" /\ errors' = errors =>
         Cardinality({a \in alerts' : ~Active(a, clock) /\ a.id <= flush.maxid + MaxItems})
           <= MaxItems]_vars
=============================================================================
