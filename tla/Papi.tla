-------------------------------- MODULE Papi --------------------------------
(***************************************************************************)
(* The polling API client of the local API (pkg/apiserver/papi.go and      *)
(* papi_cmd.go, pkg/longpollclient/client.go): the console issues orders,  *)
(* the long polling goroutine receives them newest first and hands them    *)
(* one by one to Papi.Pull, which applies each to the database and saves   *)
(* the time it received it; that time is where a restarted client resumes. *)
(* `cscli papi sync` runs PullOnce on the same database from a second      *)
(* process.                                                                *)
(*                                                                         *)
(* An "add" order is an alert with its decisions, a "delete" order names   *)
(* decisions to expire, an "other" order has an operation nobody knows.    *)
(* The decisions' uuids are numbers, because CreateOrUpdateAlert sorts     *)
(* them.  The console and the server share one clock.                      *)
(***************************************************************************)
EXTENDS Integers, FiniteSets, Sequences, SequencesExt, FiniteSetsExt

CONSTANTS
    Orders,      \* what the console issues, in order: [op, uuids]
    MaxClock,    \* bound on the clock
    Second,      \* clock units in a second: Start resumes at a whole second
    Spaced,      \* TRUE: no two orders are under way together
    MaxCrashes, MaxErrors, MaxSyncs, MaxAllow,    \* bounds on the faults
    MaxSubs                                       \* bound on subscription changes

Ids   == 1..Len(Orders)
Uuids == UNION {Orders[i].uuids : i \in Ids}
Procs == {"lapi", "cli"}

\* What the constants must satisfy.
OrdersAssumption ==
    /\ \A i \in Ids : Orders[i].op \in {"add", "delete", "other"}
    /\ \A i, j \in Ids : i # j /\ Orders[i].op = "add" /\ Orders[j].op = "add"
                           => Orders[i].uuids \cap Orders[j].uuids = {}
    /\ Second \in Nat \ {0}

VARIABLES
    clock,
    stamp,       \* when each order was issued, 0 before
    allow,       \* the decisions whose value is on an allowlist
    rows,        \* alert rows stored for each add order
    live, dead,  \* decision rows of each uuid, in force and expired
    saved,       \* the config item papi:last_pull
    up,          \* the local API runs
    mem,         \* lastTimestamp, Pull's local copy
    sub,         \* the subscription Pull last saw
    poller,      \* the polling goroutine: off, query or send
    since,       \* where its next request starts
    queue,       \* the events of the answer being handed over
    job,         \* what each process is doing with an order
    todo,        \* the orders PullOnce still has to handle
    crashes, errors, syncs, allows, subs,     \* faults so far
    base,        \* observer: since when the client was last started
    received,    \* observer: orders Pull has received
    twice,       \* observer: an order reached Pull twice from one Start
    got,         \* observer: orders received since Start
    applied      \* observer: orders that were carried out

db     == <<allow, rows, live, dead, saved>>
client == <<mem, sub, poller, since, queue>>
faults == <<crashes, errors, syncs, allows, subs>>
seen   == <<base, received, twice, got, applied>>
vars   == <<clock, stamp, db, up, client, job, todo, faults, seen>>

Idle == [at |-> "idle", order |-> 0, time |-> 0, kept |-> {}, found |-> 0, have |-> <<>>]

Issued == {i \in Ids : stamp[i] > 0}

Init ==
    /\ clock = 0
    /\ stamp = [i \in Ids |-> 0]
    /\ allow = {}
    /\ rows = [i \in Ids |-> 0]
    /\ live = [u \in Uuids |-> 0]
    /\ dead = [u \in Uuids |-> 0]
    /\ saved = 0
    /\ up = FALSE
    /\ mem = 0
    /\ sub = "none"
    /\ poller = "off"
    /\ since = 0
    /\ queue = <<>>
    /\ job = [p \in Procs |-> Idle]
    /\ todo = <<>>
    /\ crashes = 0
    /\ errors = 0
    /\ syncs = 0
    /\ allows = 0
    /\ subs = 0
    /\ base = 0
    /\ received = {}
    /\ twice = FALSE
    /\ got = {}
    /\ applied = {}

-----------------------------------------------------------------------------
(* The outside: time, the console and the allowlists. *)

Tick ==
    /\ clock < MaxClock
    /\ clock' = clock + 1
    /\ UNCHANGED <<stamp, db, up, client, job, todo, faults, seen>>

(* The server has received and carried out all that was issued, and a second *)
(* has passed.                                                               *)
Settled ==
    /\ up
    /\ job["lapi"].at = "idle"
    /\ \A i \in Issued : /\ i \in applied
                        /\ stamp[i] <= since
                        /\ stamp[i] + Second <= clock
    /\ queue = <<>>

Issue ==
    /\ clock < MaxClock
    /\ Issued # Ids
    /\ Spaced => Settled
    /\ clock' = clock + 1
    /\ stamp' = [stamp EXCEPT ![Cardinality(Issued) + 1] = clock + 1]
    /\ UNCHANGED <<db, up, client, job, todo, faults, seen>>

ChangeAllowlist ==
    /\ allows < MaxAllow
    /\ allows' = allows + 1
    /\ \E u \in Uuids : allow' = IF u \in allow THEN allow \ {u} ELSE allow \cup {u}
    /\ UNCHANGED <<clock, stamp, rows, live, dead, saved, up, client, job, todo,
                   crashes, errors, syncs, subs, seen>>

-----------------------------------------------------------------------------
(* The long polling client (client.go). *)

WholeSecond(t) == (t \div Second) * Second

(* Start and Stop, with the subscription that called for them; a queue that *)
(* Pull no longer reads is left to a goroutine that blocks on it for good.  *)
ClientStart(t) ==
    /\ since' = WholeSecond(t)
    /\ base' = WholeSecond(t)
    /\ got' = {}
    /\ poller' = "query"
    /\ queue' = <<>>

ClientStop ==
    /\ poller' = "off"
    /\ queue' = <<>>
    /\ UNCHANGED <<since, base, got>>

(* The server answers with what was issued after since, newest first. *)
Newer == {i \in Issued : stamp[i] > since}

Poll ==
    /\ poller = "query"
    /\ Newer # {}
    /\ queue' = SetToSortSeq(Newer, LAMBDA i, j : stamp[i] > stamp[j])
    /\ poller' = "send"
    /\ UNCHANGED <<clock, stamp, db, up, mem, sub, since, job, todo, faults, seen>>

(* An answer without events that carries the server's time. *)
PollTimestamp ==
    /\ poller = "query"
    /\ Newer = {}
    /\ since < clock
    /\ since' = clock
    /\ UNCHANGED <<clock, stamp, db, up, mem, sub, poller, queue, job, todo, faults, seen>>

(* 402: the goroutine closes the channel and ends; Pull stops reading it. *)
PaymentRequired ==
    /\ poller = "query"
    /\ errors < MaxErrors
    /\ errors' = errors + 1
    /\ job["lapi"].at = "idle"
    /\ poller' = "off"
    /\ UNCHANGED <<clock, stamp, db, up, mem, sub, since, queue, job, todo,
                   crashes, syncs, allows, subs, seen>>

(* poll, after it handed event i over. *)
Advance(i) == since' = Max({since, stamp[i]})

-----------------------------------------------------------------------------
(* Papi.Pull: its start, and its loop. *)

Subscriptions == {"papi", "none"}

PullStart ==
    /\ ~up
    /\ up' = TRUE
    /\ mem' = saved
    /\ \E s \in IF MaxSubs = 0 THEN {"papi"} ELSE Subscriptions :
         /\ sub' = s
         /\ IF s = "papi" THEN ClientStart(saved) ELSE ClientStop
    /\ UNCHANGED <<clock, stamp, db, job, todo, faults, received, twice, applied>>

(* A refreshed token brings another subscription. *)
TokenRefresh ==
    /\ up
    /\ job["lapi"].at = "idle"
    /\ subs < MaxSubs
    /\ subs' = subs + 1
    /\ \E s \in Subscriptions \ {sub} :
         /\ sub' = s
         /\ IF s = "papi" THEN ClientStart(mem) ELSE ClientStop
    /\ UNCHANGED <<clock, stamp, db, up, mem, job, todo, crashes, errors, syncs, allows,
                   received, twice, applied>>

(* The goroutine's send meets Pull's select. *)
ReceiveEvent ==
    /\ poller = "send"
    /\ job["lapi"].at = "idle"
    /\ LET i == Head(queue) IN
         /\ job' = [job EXCEPT !["lapi"] = [Idle EXCEPT !.at = "handle", !.order = i,
                                                        !.time = clock]]
         /\ mem' = clock
         /\ Advance(i)
         /\ queue' = Tail(queue)
         /\ poller' = IF Len(queue) = 1 THEN "query" ELSE "send"
         /\ received' = received \cup {i}
         /\ twice' = (twice \/ i \in got)
         /\ got' = got \cup {i}
    /\ UNCHANGED <<clock, stamp, db, up, sub, todo, faults, base, applied>>
-----------------------------------------------------------------------------
(* handleEvent and the commands it calls, in either process. *)

Done(p)   == job' = [job EXCEPT ![p].at = "stamp"]
Failed(p) == job' = [job EXCEPT ![p] = Idle]

Carried(p) == applied' = applied \cup {job[p].order}

(* An operation that is not in operationMap. *)
UnknownCmd(p) ==
    /\ Orders[job[p].order].op = "other"
    /\ Failed(p)
    /\ Carried(p)
    /\ UNCHANGED <<live, dead, errors>>

(* ExpireDecisionsWithFilter by uuid, or its error. *)
DecisionCmd(p) ==
    LET U == Orders[job[p].order].uuids IN
    /\ Orders[job[p].order].op = "delete"
    /\ \/ /\ dead' = [u \in Uuids |-> dead[u] + IF u \in U THEN live[u] ELSE 0]
          /\ live' = [u \in Uuids |-> IF u \in U THEN 0 ELSE live[u]]
          /\ Done(p)
          /\ Carried(p)
          /\ UNCHANGED errors
       \/ /\ errors < MaxErrors
          /\ errors' = errors + 1
          /\ Failed(p)
          /\ UNCHANGED <<live, dead, applied>>

(* AlertCmd drops the allowlisted decisions, those it could check, and the *)
(* alert with them when none is left.                                      *)
AlertCmd(p) ==
    /\ Orders[job[p].order].op = "add"
    /\ \E kept \in SUBSET Orders[job[p].order].uuids :
         /\ Orders[job[p].order].uuids \ allow \subseteq kept
         /\ \/ kept \cap allow = {} /\ UNCHANGED errors
            \/ kept \cap allow # {} /\ errors < MaxErrors /\ errors' = errors + 1
         /\ IF kept = {}
              THEN Done(p) /\ Carried(p)
              ELSE /\ job' = [job EXCEPT ![p].at = "lookup", ![p].kept = kept]
                   /\ UNCHANGED applied
    /\ UNCHANGED <<live, dead>>

HandleEvent(p) ==
    /\ job[p].at = "handle"
    /\ UnknownCmd(p) \/ DecisionCmd(p) \/ AlertCmd(p)
    /\ UNCHANGED <<clock, stamp, allow, rows, saved, up, client, todo,
                   crashes, syncs, allows, subs, base, received, twice, got>>

(* CreateOrUpdateAlert begins with a query by the alert's uuid, whose decisions *)
(* are counted whether they have expired or not.                                *)
StoredRows(i) == [u \in Orders[i].uuids |-> live[u] + dead[u]]

FindAlert(p) ==
    /\ job[p].at = "lookup"
    /\ job' = [job EXCEPT ![p].at = "write", ![p].found = rows[job[p].order],
                          ![p].have = StoredRows(job[p].order)]
    /\ UNCHANGED <<clock, stamp, db, up, client, todo, faults, seen>>

Sorted(S) == SetToSortSeq(S, <)

(* The uuids of the stored decisions, one for each row, in order. *)
FoundUuids(have) ==
    LET us == Sorted(DOMAIN have)
    IN FlattenSeq([k \in 1..Len(us) |-> [n \in 1..have[us[k]] |-> us[k]]])

(* The two sorted lists are compared place by place. *)
MissingUuids(kept, have) ==
    LET new == Sorted(kept)  found == FoundUuids(have)
    IN {new[k] : k \in {x \in 1..Len(new) : Len(found) < x \/ new[x] # found[x]}}

(* What a write adds: the whole alert, in one transaction, or the decisions  *)
(* an alert lacks; several alerts with the uuid are an error.                *)
ToInsert(j) ==
    CASE j.found = 0 -> j.kept
      [] j.found = 1 -> MissingUuids(j.kept, j.have)
      [] OTHER       -> {}

(* A failed write is logged and the order counts as handled. *)
SaveAlert(p) ==
    /\ job[p].at = "write"
    /\ Done(p)
    /\ \/ /\ rows' = [rows EXCEPT ![job[p].order] = @ + IF job[p].found = 0 THEN 1 ELSE 0]
          /\ live' = [u \in Uuids |-> live[u] + IF u \in ToInsert(job[p]) THEN 1 ELSE 0]
          /\ Carried(p)
          /\ UNCHANGED errors
       \/ /\ errors < MaxErrors
          /\ errors' = errors + 1
          /\ UNCHANGED <<rows, live, applied>>
    /\ UNCHANGED <<clock, stamp, allow, dead, saved, up, client, todo,
                   crashes, syncs, allows, subs, base, received, twice, got>>

(* Pull saves the time of receipt; PullOnce saves nothing, as a running Pull *)
(* resumes from it.                                                          *)
SavedTime(p) == IF p = "lapi" THEN job[p].time ELSE saved

(* An error here is only logged. *)
SetTimestamp(p) ==
    /\ job[p].at = "stamp"
    /\ Failed(p)
    /\ \/ /\ saved' = SavedTime(p)
          /\ UNCHANGED errors
       \/ /\ p = "lapi" /\ errors < MaxErrors
          /\ errors' = errors + 1
          /\ UNCHANGED saved
    /\ UNCHANGED <<clock, stamp, allow, rows, live, dead, up, client, todo,
                   crashes, syncs, allows, subs, seen>>

-----------------------------------------------------------------------------
(* The process ends (a crash, or a shutdown: nothing waits for Pull). *)

Crash ==
    /\ up
    /\ crashes < MaxCrashes
    /\ crashes' = crashes + 1
    /\ up' = FALSE
    /\ poller' = "off"
    /\ queue' = <<>>
    /\ job' = [job EXCEPT !["lapi"] = Idle]
    /\ UNCHANGED <<clock, stamp, db, mem, sub, since, todo, errors, syncs, allows, subs, seen>>

(* cscli papi sync: PullOnce asks for everything and restores the order. *)
PullOnce ==
    /\ syncs < MaxSyncs
    /\ job["cli"].at = "idle"
    /\ todo = <<>>
    /\ syncs' = syncs + 1
    /\ todo' = SetToSortSeq(Issued, LAMBDA i, j : stamp[i] < stamp[j])
    /\ UNCHANGED <<clock, stamp, db, up, client, job, crashes, errors, allows, subs, seen>>

PullOnceNext ==
    /\ job["cli"].at = "idle"
    /\ todo # <<>>
    /\ job' = [job EXCEPT !["cli"] = [Idle EXCEPT !.at = "handle", !.order = Head(todo)]]
    /\ todo' = Tail(todo)
    /\ UNCHANGED <<clock, stamp, db, up, client, faults, seen>>

Work(p) == HandleEvent(p) \/ FindAlert(p) \/ SaveAlert(p) \/ SetTimestamp(p)

Next ==
    \/ Tick \/ Issue \/ ChangeAllowlist
    \/ Poll \/ PollTimestamp \/ PaymentRequired
    \/ PullStart \/ TokenRefresh \/ ReceiveEvent \/ Crash
    \/ PullOnce \/ PullOnceNext
    \/ \E p \in Procs : Work(p)

Spec == Init /\ [][Next]_vars

(* The server restarts, its goroutines run, and the console answers a request *)
(* that waits for an order.                                                   *)
FairSpec ==
    /\ Spec
    /\ WF_vars(PullStart) /\ WF_vars(Poll) /\ WF_vars(ReceiveEvent)
    /\ WF_vars(Work("lapi"))

-----------------------------------------------------------------------------
Places == {"idle", "handle", "lookup", "write", "stamp"}

(* Every variable has its type. *)
TypeOK ==
    /\ OrdersAssumption
    /\ clock \in 0..MaxClock
    /\ stamp \in [Ids -> 0..MaxClock]
    /\ allow \subseteq Uuids
    /\ rows \in [Ids -> Nat]
    /\ live \in [Uuids -> Nat]
    /\ dead \in [Uuids -> Nat]
    /\ {saved, mem, since, base} \subseteq 0..MaxClock
    /\ up \in BOOLEAN
    /\ sub \in Subscriptions
    /\ poller \in {"off", "query", "send"}
    /\ Range(queue) \cup Range(todo) \cup received \cup got \cup applied \subseteq Ids
    /\ \A p \in Procs : job[p].at \in Places /\ job[p].kept \subseteq Uuids
    /\ poller = "send" <=> queue # <<>>

(* While the client polls, an order is lost only to its start: one that Pull *)
(* never received and that no answer under way holds will be in the next     *)
(* answer, unless the client was started from a time after it was issued.    *)
(* (poll advances `since` by the events it has handed over, newest first,    *)
(* while older ones wait.)                                                   *)
NoneSkipped ==
    poller # "off" => \A i \in Issued :
       \/ i \in received
       \/ \E k \in 1..Len(queue) : queue[k] = i
       \/ stamp[i] > since
       \/ stamp[i] <= base

(* Pull receives an order once for each start of the client. *)
ReceivedOnce == ~twice

(* However often an order is delivered again, after crashes and failed       *)
(* writes, each of its decisions is stored once (CreateOrUpdateAlert), and   *)
(* so one that was deleted is not revived, as long as no allowlist changes   *)
(* and no second process applies orders.                                     *)
StoredOnce == \A u \in Uuids : live[u] + dead[u] <= 1

(* Orders that come a second apart, with no other order under way, are all   *)
(* carried out, even across crashes in the middle of one: Pull saves a time  *)
(* only once the order received then is handled, and cscli saves none.       *)
EveryOrderDone == \A i \in Ids : stamp[i] > 0 ~> i \in applied

-----------------------------------------------------------------------------
(* What the repository says and the code does not keep: TLC finds a        *)
(* behaviour against each of these, which the README describes.            *)

(* papi.go: the reverse order "is not an issue when pulling them in real     *)
(* time": once everything issued is carried out, what was deleted last is    *)
(* not in force.                                                             *)
LastOrderWins ==
    (\A i \in Ids : i \in applied) /\ (\A p \in Procs : job[p].at = "idle") =>
        \A i \in Ids : Orders[i].op = "delete" => \A u \in Orders[i].uuids : live[u] = 0

(* papi.go: "crowdsec will receive a few duplicated events and will discard  *)
(* them": an order delivered again leaves no second row of a decision        *)
(* (where the alert itself is there once).                                   *)
DuplicatesDiscarded ==
    \A i \in Ids : Orders[i].op = "add" /\ rows[i] = 1 =>
        \A u \in Orders[i].uuids : live[u] + dead[u] <= 1

(* alerts.go, on several alerts with one uuid: "this should never happen".   *)
OneAlert == \A i \in Ids : rows[i] <= 1
=============================================================================
