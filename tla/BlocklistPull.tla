---------------------------- MODULE BlocklistPull ----------------------------
(***************************************************************************)
(* How the third-party blocklists a machine is subscribed to are kept in   *)
(* the local database: updateBlocklist and ShouldForcePullBlocklist        *)
(* (pkg/apiserver/apic.go), the conditional download                       *)
(* (pkg/apiclient/decisions_service.go) and UpdateCommunityBlocklist       *)
(* (pkg/database/alerts.go).  The periodic pull and the console's commands *)
(* run concurrently: PullBlocklist takes neither isPulling nor the lock.   *)
(*                                                                         *)
(* A list is a set of values.  Time is kept as what is left of a           *)
(* decision's duration and as saturating ages, so behaviours are infinite. *)
(***************************************************************************)
EXTENDS Integers, FiniteSets

CONSTANTS
    Lists, Values,
    Duration,   \* Duration[l]: the duration of the list's decisions
    Interval,   \* a.pullInterval
    Margin,     \* the 15 minutes of ShouldForcePullBlocklist
    MaxOn,      \* the observers' ages above this one are not told apart
    MaxErrors,  \* bound: calls that fail, and processes that die
    Faults      \* a subset of FaultKinds

\* shared: a value may be on several lists.  command: force_pull of one list
\* and blocklist_unsubscribe come from the console.
FaultKinds == {"shared", "command"}

\* What the constants must satisfy.
Bounds ==
    /\ Duration \in [Lists -> Nat \ {0}]
    /\ Interval \in Nat \ {0} /\ Margin \in Nat \ {0}
    /\ MaxOn \in Nat /\ MaxErrors \in Nat
    /\ Faults \subseteq FaultKinds

VARIABLES
    upstream,   \* upstream[l]: the list as its provider serves it
    subscribed, \* the lists the central API links to
    stamp,      \* stamp[l]: the config item blocklist:<l>:last_pull, see StampStates
    row,        \* row[v]: the decision of origin "lists" for the value v
    newest,     \* newest[l]: which puller saved the newest alert of the list
    pull,       \* pull[p]: where puller p is, and its local variables
    timer,      \* clock units until the periodic pull
    onlist,     \* onlist[l][v]: how long v has been on the subscribed list l and
                \* no call failed (an observer)
    off,        \* off[l]: how long l has been unsubscribed (an observer)
    errors

vars == <<upstream, subscribed, stamp, row, newest, pull, timer, onlist, off, errors>>

\* The periodic PullTop and the console's force_pull of one list.
Pullers == {"top", "papi"}

\* none: no config item.  now: written in this clock unit.  current: not older
\* than the list.  older: the list was modified after it.
StampStates == {"none", "now", "current", "older"}

\* A row belongs to the newest alert of its list or to an older one.  A row
\* with nothing left is expired; the table keeps it.
NoRow == [list |-> "none", left |-> 0, newest |-> FALSE]
Active(v) == row[v].left > 0

Idle == [at |-> "idle", list |-> "none", force |-> FALSE, todo |-> {}, got |-> {}]

NotYet == [l \in Lists |-> [v \in Values |-> 0]]

TypeOK ==
    /\ Bounds
    /\ upstream \in [Lists -> SUBSET Values] /\ subscribed \subseteq Lists
    /\ stamp \in [Lists -> StampStates]
    /\ \A v \in Values : row[v] = NoRow \/
           (newest[row[v].list] # "none" /\ row[v].left \in 0..Duration[row[v].list])
    /\ \A p \in Pullers : pull[p] = Idle \/
           /\ pull[p].at \in {"next", "stamp", "alert", "commit"}
           /\ pull[p].list \in Lists \cup {"none"} /\ pull[p].got \subseteq Values
    /\ newest \in [Lists -> Pullers \cup {"none"}]
    /\ timer \in 0..Interval /\ errors \in 0..MaxErrors

\* A machine that is subscribed to every list and has pulled nothing yet.
Init ==
    /\ upstream \in [Lists -> SUBSET Values]
    /\ "shared" \notin Faults =>
           \A l, k \in Lists : l # k => upstream[l] \cap upstream[k] = {}
    /\ subscribed = Lists
    /\ stamp = [l \in Lists |-> "none"]
    /\ row = [v \in Values |-> NoRow]
    /\ newest = [l \in Lists |-> "none"]
    /\ pull = [p \in Pullers |-> Idle]
    /\ timer = 0
    /\ onlist = NotYet
    /\ off = [l \in Lists |-> 0]
    /\ errors = 0

-----------------------------------------------------------------------------
(* The provider *)

\* The provider adds a value or removes one.  The modification has the clock's
\* precision: one made in the unit of the last pull is not newer than it.
Modify(l, v) ==
    /\ upstream' = [upstream EXCEPT ![l] = IF v \in @ THEN @ \ {v} ELSE @ \cup {v}]
    /\ "shared" \notin Faults => \A k \in Lists \ {l} : v \notin upstream[k]
    /\ stamp' = [stamp EXCEPT ![l] = IF @ = "current" THEN "older" ELSE @]
    /\ onlist' = [onlist EXCEPT ![l][v] = 0]
    /\ UNCHANGED <<subscribed, row, newest, pull, timer, off, errors>>

-----------------------------------------------------------------------------
(* The pull of one list after another *)

\* PullTop with the links the central API sent (not forced).
StartTop ==
    /\ pull["top"] = Idle /\ timer = 0
    /\ timer' = Interval
    /\ pull' = [pull EXCEPT !["top"] = [Idle EXCEPT !.at = "next", !.todo = subscribed]]
    /\ UNCHANGED <<upstream, subscribed, stamp, row, newest, onlist, off, errors>>

\* ManagementCmd "force_pull" of one list: PullBlocklist, forced.
ForcePull(l) ==
    /\ "command" \in Faults /\ l \in subscribed
    /\ pull["papi"] = Idle
    /\ pull' = [pull EXCEPT !["papi"] =
                    [Idle EXCEPT !.at = "next", !.todo = {l}, !.force = TRUE]]
    /\ UNCHANGED <<upstream, subscribed, stamp, row, newest, timer, onlist, off, errors>>

\* ManagementCmd "blocklist_unsubscribe": the active decisions of the list,
\* told by their scenario, expire now.
Unsubscribe(l) ==
    /\ "command" \in Faults /\ l \in subscribed
    /\ pull["papi"] = Idle
    /\ subscribed' = subscribed \ {l}
    /\ row' = [v \in Values |-> IF row[v].list = l THEN [row[v] EXCEPT !.left = 0] ELSE row[v]]
    /\ onlist' = [onlist EXCEPT ![l] = [v \in Values |-> 0]]
    /\ UNCHANGED <<upstream, stamp, newest, pull, timer, off, errors>>

\* The rows of the newest alert of the list.
NewestRows(l) == {v \in Values : row[v].list = l /\ row[v].newest}

\* What ShouldForcePullBlocklist may answer: it looks at one of the rows of
\* the newest alert, in no particular order.
ShouldForce(l) ==
    IF newest[l] = "none" \/ NewestRows(l) = {} THEN {TRUE}
    ELSE {row[v].left < Interval + Margin : v \in NewestRows(l)}

\* The list is done; the loop of UpdateBlocklists goes on with the next one.
NextList(p) == IF pull[p].todo = {} THEN Idle ELSE [pull[p] EXCEPT !.at = "next", !.list = "none", !.got = {}]

\* updateBlocklist up to the download: an unforced pull reads the timestamp
\* and sends it as If-Modified-Since; without one the answer is the list.
Download(p) ==
    /\ pull[p].at = "next"
    /\ \E l \in pull[p].todo : \E should \in ShouldForce(l) :
         LET forced == pull[p].force \/ should
             rest == [pull[p] EXCEPT !.todo = @ \ {l}]
         IN pull' = [pull EXCEPT ![p] =
                IF forced \/ stamp[l] \in {"none", "older"}
                THEN [rest EXCEPT !.at = "stamp", !.list = l, !.got = upstream[l]]
                ELSE IF rest.todo = {} THEN Idle ELSE rest]
    /\ UNCHANGED <<upstream, subscribed, stamp, row, newest, timer, onlist, off, errors>>

\* A pull with nothing left to download (no links).
NoLinks(p) ==
    /\ pull[p].at = "next" /\ pull[p].todo = {}
    /\ pull' = [pull EXCEPT ![p] = Idle]
    /\ UNCHANGED <<upstream, subscribed, stamp, row, newest, timer, onlist, off, errors>>

\* SetConfigItem with the present time, which is later than the download.  A
\* list without decisions is done.
SetLastPull(p) ==
    /\ pull[p].at = "stamp"
    /\ stamp' = [stamp EXCEPT ![pull[p].list] = "now"]
    /\ pull' = [pull EXCEPT ![p] = IF pull[p].got = {} THEN NextList(p) ELSE [@ EXCEPT !.at = "alert"]]
    /\ UNCHANGED <<upstream, subscribed, row, newest, timer, onlist, off, errors>>

\* UpdateCommunityBlocklist saves the alert, outside the transaction.
SaveAlert(p) ==
    LET l == pull[p].list IN
    /\ pull[p].at = "alert"
    /\ newest' = [newest EXCEPT ![l] = p]
    /\ row' = [v \in Values |-> IF row[v].list = l THEN [row[v] EXCEPT !.newest = FALSE] ELSE row[v]]
    /\ pull' = [pull EXCEPT ![p].at = "commit"]
    /\ UNCHANGED <<upstream, subscribed, stamp, timer, onlist, off, errors>>

\* The rows after the transaction: the older rows of the same values and the
\* origin "lists" are deleted, whichever list they come from, and the new ones
\* inserted.  The other puller may have saved a newer alert in the meantime.
Replaced(p) ==
    LET l == pull[p].list IN
    [v \in Values |-> IF v \in pull[p].got
                      THEN [list |-> l, left |-> Duration[l], newest |-> newest[l] = p]
                      ELSE row[v]]

Commit(p) ==
    /\ pull[p].at = "commit"
    /\ row' = Replaced(p)
    /\ pull' = [pull EXCEPT ![p] = NextList(p)]
    /\ UNCHANGED <<upstream, subscribed, stamp, newest, timer, onlist, off, errors>>

\* A call fails: updateBlocklist returns the error and UpdateBlocklists does
\* not go on to the remaining lists.  What was written stays.
Fail(p) ==
    /\ pull[p] # Idle /\ errors < MaxErrors
    /\ errors' = errors + 1
    /\ pull' = [pull EXCEPT ![p] = Idle]
    /\ onlist' = NotYet
    /\ UNCHANGED <<upstream, subscribed, stamp, row, newest, timer, off>>

\* The process dies and starts again; the next pull is up to an interval away.
Restart ==
    /\ errors < MaxErrors
    /\ errors' = errors + 1
    /\ pull' = [p \in Pullers |-> Idle]
    /\ timer' \in 0..Interval
    /\ onlist' = NotYet
    /\ UNCHANGED <<upstream, subscribed, stamp, row, newest, off>>

Puller(p) == Download(p) \/ NoLinks(p) \/ SetLastPull(p) \/ SaveAlert(p) \/ Commit(p)

\* The clock.  Pulls take minutes and the unit is a fraction of the interval,
\* which is hours: a pull ends in the unit it starts in.
Tick ==
    /\ timer > 0 /\ \A p \in Pullers : pull[p] = Idle
    /\ timer' = timer - 1
    /\ row' = [v \in Values |-> IF Active(v) THEN [row[v] EXCEPT !.left = @ - 1] ELSE row[v]]
    /\ stamp' = [l \in Lists |-> IF stamp[l] = "now" THEN "current" ELSE stamp[l]]
    /\ onlist' = [l \in Lists |-> [v \in Values |->
           IF v \in upstream[l] /\ l \in subscribed /\ onlist[l][v] < MaxOn
           THEN onlist[l][v] + 1 ELSE onlist[l][v]]]
    /\ off' = [l \in Lists |-> IF l \notin subscribed /\ off[l] < MaxOn THEN off[l] + 1 ELSE off[l]]
    /\ UNCHANGED <<upstream, subscribed, newest, pull, errors>>

Next ==
    \/ \E l \in Lists, v \in Values : Modify(l, v)
    \/ StartTop
    \/ \E l \in Lists : ForcePull(l) \/ Unsubscribe(l)
    \/ \E p \in Pullers : Puller(p) \/ Fail(p)
    \/ Restart
    \/ Tick

Spec == Init /\ [][Next]_vars

\* Time passes, the ticker's pull starts, and a pull that was started goes on.
FairSpec ==
    /\ Spec
    /\ SF_vars(Tick) /\ WF_vars(StartTop)
    /\ \A p \in Pullers : WF_vars(Puller(p))

-----------------------------------------------------------------------------
(* Properties *)

\* A value that has been on a subscribed list for the duration of its decisions
\* is blocked, and stays so as long as it is listed: ShouldForcePullBlocklist
\* refreshes decisions before they expire although the list is not modified,
\* and makes up for a value added between the download and the timestamp that
\* is meant to stand for it, or saved by a pull that failed after the timestamp.
CoveredWithin ==
    \A l \in Lists, v \in Values : onlist[l][v] > Duration[l] => Active(v)

\* A list that was unsubscribed is not enforced any longer than its duration,
\* also if a pull that had already downloaded it saved it afterwards.
GoneWithin ==
    \A l \in Lists, v \in Values : off[l] > Duration[l] => ~(row[v].list = l /\ Active(v))

\* A value that stays on a subscribed list is blocked again and again, however
\* pulls failed, whatever the console asked for, and also when another list
\* takes the row over and then drops the value or is unsubscribed.
Heals ==
    \A l \in Lists, v \in Values :
        <>[](v \in upstream[l] /\ l \in subscribed) => []<>Active(v)
=============================================================================
