------------------------------- MODULE FileTail -------------------------------
(***************************************************************************)
(* Which files the file data source follows                                *)
(* (pkg/acquisition/modules/file/run.go).  Two goroutines set tails up:    *)
(* StreamingAcquisition for the files found at startup, monitorNewFiles    *)
(* for files that are created and, if discovery polling is enabled, for    *)
(* whatever exists.  The tails map says what is followed; it is read when  *)
(* a set up begins, written when the tail is there, and a tail that dies   *)
(* removes its entry.  All files match the patterns of the source.         *)
(***************************************************************************)
EXTENDS Integers, Sequences, FiniteSets

CONSTANTS
    Files,
    Initial,     \* the files found when the source was configured
    Polling,     \* DiscoveryPollEnable
    None,
    MaxCreated,  \* bound on creations
    MaxFaults    \* bound on tails that die or fail to start and on lost events

\* What the constants must satisfy.
TailAssumption ==
    /\ IsFiniteSet(Files)
    /\ Initial \subseteq Files
    /\ Polling \in BOOLEAN
    /\ None \notin Files

VARIABLES
    exists,      \* files there are
    events,      \* creations the watcher has yet to report
    tails,       \* files the map says are followed
    live,        \* of each file: the tails that follow it
    doomed,      \* and the ones that died but are in the map
    todo,        \* of each goroutine: files to check
    at,          \* the file it is setting up
    dying,       \* the tomb of the acquisition
    created, faults,
    renewed      \* observer: files created again while their dead tail was in the map

fs   == <<exists, events, created, renewed>>
map  == <<tails, live, doomed>>
work == <<todo, at>>
vars == <<fs, map, work, dying, faults>>

Actors == {"main", "monitor"}

Init ==
    /\ exists = Initial
    /\ events = <<>>
    /\ tails = {}
    /\ live = [f \in Files |-> 0]
    /\ doomed = [f \in Files |-> 0]
    /\ todo = [a \in Actors |-> IF a = "main" THEN Initial ELSE {}]
    /\ at = [a \in Actors |-> None]
    /\ dying = FALSE
    /\ created = 0
    /\ faults = 0
    /\ renewed = {}

-----------------------------------------------------------------------------
(* Programs that write and rotate logs. *)

Create(f) ==
    /\ f \notin exists
    /\ created < MaxCreated
    /\ created' = created + 1
    /\ exists' = exists \cup {f}
    /\ events' = Append(events, f)
    /\ renewed' = IF doomed[f] > 0 THEN renewed \cup {f} ELSE renewed
    /\ UNCHANGED <<map, work, dying, faults>>

Delete(f) ==
    /\ f \in exists
    /\ exists' = exists \ {f}
    /\ renewed' = renewed \ {f}
    /\ UNCHANGED <<events, created, map, work, dying, faults>>

-----------------------------------------------------------------------------
(* monitorNewFiles. *)

Idle(a) == todo[a] = {} /\ at[a] = None

Watch ==
    /\ ~dying
    /\ Idle("monitor")
    /\ events # <<>>
    /\ events' = Tail(events)
    /\ todo' = [todo EXCEPT !["monitor"] = {Head(events)}]
    /\ UNCHANGED <<exists, created, renewed, map, at, dying, faults>>

(* The watcher reports an error instead of events it has dropped. *)
WatchError ==
    /\ ~dying
    /\ Idle("monitor")
    /\ events # <<>>
    /\ faults < MaxFaults
    /\ faults' = faults + 1
    /\ events' = <<>>
    /\ UNCHANGED <<exists, created, renewed, map, work, dying>>

Poll ==
    /\ ~dying
    /\ Polling
    /\ Idle("monitor")
    /\ exists # {}
    /\ todo' = [todo EXCEPT !["monitor"] = exists]
    /\ UNCHANGED <<fs, map, at, dying, faults>>

-----------------------------------------------------------------------------
(* setupTailForFile, in the two steps between which others run. *)

Needed(f) == f \in exists /\ f \notin tails

Check(a) ==
    /\ at[a] = None
    /\ \E f \in todo[a] :
         /\ todo' = [todo EXCEPT ![a] = @ \ {f}]
         /\ at' = [at EXCEPT ![a] = IF Needed(f) THEN f ELSE None]
    /\ UNCHANGED <<fs, map, dying, faults>>

Follow(a) ==
    /\ at[a] # None
    /\ tails' = tails \cup {at[a]}
    /\ live' = [live EXCEPT ![at[a]] = @ + 1]
    /\ at' = [at EXCEPT ![a] = None]
    /\ UNCHANGED <<fs, doomed, todo, dying, faults>>

(* The file is gone or cannot be opened. *)
FollowFails(a) ==
    /\ at[a] # None
    /\ at[a] \in exists => faults < MaxFaults
    /\ faults' = IF at[a] \in exists THEN faults + 1 ELSE faults
    /\ at' = [at EXCEPT ![a] = None]
    /\ UNCHANGED <<fs, map, todo, dying>>

-----------------------------------------------------------------------------
(* tailFile. *)

(* The library's tail gives up, as when it cannot reopen a rotated file. *)
TailDies(f) ==
    /\ live[f] > 0
    /\ faults < MaxFaults
    /\ faults' = faults + 1
    /\ live' = [live EXCEPT ![f] = @ - 1]
    /\ doomed' = [doomed EXCEPT ![f] = @ + 1]
    /\ UNCHANGED <<fs, tails, work, dying>>

Forget(f) ==
    /\ doomed[f] > 0
    /\ doomed' = [doomed EXCEPT ![f] = @ - 1]
    /\ tails' = tails \ {f}
    /\ UNCHANGED <<fs, live, work, dying, faults>>

(* A line comes with an error: the goroutine returns it, which kills the tomb. *)
FetchError(f) ==
    /\ live[f] > 0
    /\ faults < MaxFaults
    /\ faults' = faults + 1
    /\ live' = [live EXCEPT ![f] = @ - 1]
    /\ dying' = TRUE
    /\ UNCHANGED <<fs, tails, doomed, work>>

Stop(f) ==
    /\ dying
    /\ live[f] > 0
    /\ live' = [live EXCEPT ![f] = @ - 1]
    /\ UNCHANGED <<fs, tails, doomed, work, dying, faults>>

-----------------------------------------------------------------------------
Setup(a) == Check(a) \/ Follow(a)

Next ==
    \/ \E f \in Files : Create(f) \/ Delete(f) \/ TailDies(f) \/ Forget(f) \/ FetchError(f) \/ Stop(f)
    \/ \E a \in Actors : Setup(a) \/ FollowFails(a)
    \/ Watch \/ WatchError \/ Poll

Spec == Init /\ [][Next]_vars

(* The goroutines run, events are delivered and the ticker ticks. *)
FairSpec ==
    /\ Spec
    /\ \A a \in Actors : WF_vars(Setup(a))
    /\ \A f \in Files : WF_vars(Forget(f)) /\ WF_vars(Stop(f))
    /\ WF_vars(Watch) /\ WF_vars(Poll)

-----------------------------------------------------------------------------
(* Every variable has its type. *)
TypeOK ==
    /\ TailAssumption
    /\ exists \subseteq Files
    /\ events \in Seq(Files)
    /\ tails \subseteq Files
    /\ live \in [Files -> Nat]
    /\ doomed \in [Files -> Nat]
    /\ todo \in [Actors -> SUBSET Files]
    /\ at \in [Actors -> Files \cup {None}]

(* With nothing to set up at startup the map is exact: a file is in it if and  *)
(* only if it has one tail, alive or about to be removed.  New files may be    *)
(* reported, polled, deleted and created again in any order.                   *)
MapIsExact ==
    ~dying => \A f \in Files : live[f] + doomed[f] = IF f \in tails THEN 1 ELSE 0

(* With discovery polling, a file that is there is followed in the end, even   *)
(* if its creation was not reported, its set up failed or its tail died.       *)
ExistingIsFollowed ==
    \A f \in Files : f \in exists ~> f \notin exists \/ live[f] > 0 \/ dying

-----------------------------------------------------------------------------
(* What the repository says and the code does not keep: TLC finds a        *)
(* behaviour against each of these, which the README describes.            *)

(* setupTailForFile: "Already tailing file, not creating a new tail". *)
FollowedOnce == \A f \in Files : live[f] <= 1

(* tailFile, when a tail is dead: "monitorNewFiles will pick up the file again *)
(* if it's recreated", with or without polling.                                *)
RecreatedIsFollowed ==
    \A f \in Files : f \in renewed ~> f \notin renewed \/ live[f] > 0 \/ dying
=============================================================================
