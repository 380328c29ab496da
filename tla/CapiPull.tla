------------------------------ MODULE CapiPull ------------------------------
(***************************************************************************)
(* The periodic pull of the community blocklist (pkg/apiserver/apic.go) by *)
(* several local API servers that share one database.  Within one process  *)
(* the channel isPulling keeps the ticker's pull and a pull forced through *)
(* the console (PAPI) apart; between processes the row "pullCAPI" of the   *)
(* locks table does (pkg/database/lock.go).  A pull is a sequence of       *)
(* database and network calls, each of them a step here, and a process can *)
(* die between any two of them.                                            *)
(*                                                                         *)
(* Time is kept as saturating ages and countdowns, so that behaviours are  *)
(* infinite and the state space is finite.                                 *)
(***************************************************************************)
EXTENDS Integers, FiniteSets

CONSTANTS
    Servers,       \* local API processes sharing the database
    PullInterval,  \* pullIntervalDefault, in clock units
    OldAfter,      \* the 1h30 of CAPIPullIsOld
    LockTimeout,   \* CAPIPullLockTimeout
    MaxGap,        \* times without a pull above this one are not told apart
    MaxFaults      \* bound: the FaultKinds one behaviour sees

\* crash: a process dies.  error: a call to the central API fails.  slow: pulls
\* outlast the lock's timeout.  unlocked: inserting the lock fails for another
\* reason than its presence.  dberror: another statement of a pull fails, the
\* query for the last alert or the removal of a lock.  allowlisted: every new
\* decision of a pull is on an allowlist.  All but slow pulls happen once.
FaultKinds == {"crash", "error", "slow", "unlocked", "dberror", "allowlisted"}

ASSUME Bounds ==
    /\ IsFiniteSet(Servers) /\ Servers # {}
    /\ {PullInterval, OldAfter} \subseteq Nat \ {0} /\ LockTimeout \in Nat
    /\ MaxGap \in Nat /\ MaxGap > OldAfter + PullInterval + 2 * LockTimeout
    /\ MaxFaults \in Nat

VARIABLES
    up,        \* the processes that run
    pc,        \* pc[t]: where thread t is in PullTop, or between two pulls
    pulling,   \* the processes whose isPulling channel holds its token
    timer,     \* timer[s]: clock units until the ticker fires; 0 is a tick waiting,
               \* NoTicker that Pull has not created the ticker yet
    lock,      \* the row of the locks table, with the thread that inserted it
    alertAge,  \* age of the newest alert that has CAPI decisions
    pulledAge, \* age of the newest answer of the central API (an observer)
    forced,    \* the processes that got a force_pull in this clock unit (a bound)
    happened   \* history: the FaultKinds that have happened

vars == <<up, pc, pulling, timer, lock, alertAge, pulledAge, forced, happened>>

\* Each process has the ticker loop of Pull and the PAPI command handler.
Threads == Servers \X {"tick", "papi"}
Server(t) == t[1]
NoTicker == PullInterval + 2
NoLock == [by |-> <<"nobody", "none">>, age |-> 0]

InPull(t) == pc[t] \in {"stream", "save", "release", "panic"}
BeforeLock(t) == pc[t] \in {"check", "expire", "insert"}

Places == {"down", "boot", "idle", "check", "expire", "insert",
           "stream", "save", "release", "panic"}

TypeOK ==
    /\ up \subseteq Servers /\ pulling \subseteq up
    /\ pc \in [Threads -> Places]
    /\ timer \in [Servers -> 0..NoTicker]
    /\ lock = NoLock \/ (lock.by \in Threads /\ lock.age \in 0..LockTimeout + 1)
    /\ alertAge \in 0..OldAfter + 1 /\ pulledAge \in 0..MaxGap
    /\ forced \subseteq Servers
    /\ happened \subseteq FaultKinds
    /\ \A s \in Servers : s \in pulling <=>
           \E t \in Threads : Server(t) = s /\ (BeforeLock(t) \/ InPull(t))

Booted(t) == IF t[2] = "tick" THEN "boot" ELSE "idle"

\* A new installation: no lock, no alert, every process just started.
Init ==
    /\ up = Servers /\ pulling = {}
    /\ pc = [t \in Threads |-> Booted(t)]
    /\ timer = [s \in Servers |-> NoTicker]
    /\ lock = NoLock
    /\ alertAge = OldAfter + 1 /\ pulledAge = 0
    /\ forced = {} /\ happened = {}

Note(S) ==
    /\ happened' = happened \cup S
    /\ Cardinality(happened') <= MaxFaults

Fault(f) == f \notin happened /\ Note({f})

\* initAPIC and the head of Pull: the process starts, with an empty isPulling.
Start(s) ==
    /\ s \notin up
    /\ up' = up \cup {s}
    /\ pc' = [t \in Threads |-> IF Server(t) = s THEN Booted(t) ELSE pc[t]]
    /\ UNCHANGED <<pulling, timer, lock, alertAge, pulledAge, forced, happened>>

\* The process dies, its ticker with it; what it had inserted in the database
\* stays.
Crash(s) ==
    /\ s \in up /\ Fault("crash")
    /\ up' = up \ {s} /\ pulling' = pulling \ {s}
    /\ pc' = [t \in Threads |-> IF Server(t) = s THEN "down" ELSE pc[t]]
    /\ timer' = [timer EXCEPT ![s] = NoTicker]
    /\ UNCHANGED <<lock, alertAge, pulledAge, forced>>

-----------------------------------------------------------------------------
(* PullTop, step by step *)

\* PullTop returns.  When Pull gets back from its first pull, however that
\* ended, it creates the ticker, with an interval drawn around PullInterval.
Return(t) ==
    /\ pc' = [pc EXCEPT ![t] = "idle"]
    /\ IF t[2] = "tick" /\ timer[Server(t)] = NoTicker
       THEN \E d \in {PullInterval - 1, PullInterval, PullInterval + 1} :
                timer' = [timer EXCEPT ![Server(t)] = d]
       ELSE timer' = timer

\* The select on isPulling, with the token free.
Enter(t, first) ==
    /\ Server(t) \notin pulling
    /\ pc' = [pc EXCEPT ![t] = first]
    /\ pulling' = pulling \cup {Server(t)}

\* With the token taken: "pull already in progress".
Refused(t) == Server(t) \in pulling /\ pulling' = pulling

\* Defect: the token stays in isPulling when the pull is skipped.
LeaveUnlockedTokenKept(t) == Return(t) /\ pulling' = pulling

\* Return without the lock: only the deferred read of isPulling runs.
LeaveUnlocked(t) == Return(t) /\ pulling' = pulling \ {Server(t)}

\* Pull: the pull at start-up, once the scenarios are known.
FirstPull(s) ==
    LET t == <<s, "tick">> IN
    /\ pc[t] = "boot"
    /\ (Enter(t, "check") /\ timer' = timer) \/ (Refused(t) /\ Return(t))
    /\ UNCHANGED <<up, lock, alertAge, pulledAge, forced, happened>>

\* Pull: the ticker fired; it is reset before the pull.
TickerPull(s) ==
    LET t == <<s, "tick">> IN
    /\ pc[t] = "idle" /\ timer[s] = 0
    /\ timer' = [timer EXCEPT ![s] = PullInterval]
    /\ Enter(t, "check") \/ (Refused(t) /\ pc' = pc)
    /\ UNCHANGED <<up, lock, alertAge, pulledAge, forced, happened>>

\* ManagementCmd "force_pull": PullTop with forcePull, which skips the check.
\* Commands come through one long poll: at most one in a clock unit.
ForcePull(s) ==
    /\ pc[<<s, "papi">>] = "idle" /\ s \notin forced
    /\ forced' = forced \cup {s}
    /\ Enter(<<s, "papi">>, "expire") \/ (Refused(<<s, "papi">>) /\ pc' = pc)
    /\ UNCHANGED <<up, timer, lock, alertAge, pulledAge, happened>>

\* Defect: the answer of the query is inverted.
CAPIPullIsRecent == alertAge <= OldAfter

\* An alert with CAPI decisions created at or after now - 1h30 ends the pull.
CAPIPullIsOld == alertAge > OldAfter

\* The query may fail as well: PullTop returns the error.
CheckOld(t) ==
    /\ pc[t] = "check"
    /\ \/ /\ CAPIPullIsOld
          /\ pc' = [pc EXCEPT ![t] = "expire"]
          /\ UNCHANGED <<pulling, timer, happened>>
       \/ ~CAPIPullIsOld /\ LeaveUnlocked(t) /\ UNCHANGED happened
       \/ Fault("dberror") /\ LeaveUnlocked(t)
    /\ UNCHANGED <<up, lock, alertAge, pulledAge, forced>>

\* Defect: the lock of a process that died is never removed.
WithoutStaleLockNever == lock

\* Defect: the timeout is not looked at.
WithoutStaleLockAlways == NoLock

\* The lock ReleaseLockWithTimeout leaves behind.
WithoutStaleLock == IF lock # NoLock /\ lock.age > LockTimeout THEN NoLock ELSE lock

\* A removal that fails is logged, here and in ReleaseLock.
ReleaseStale(t) ==
    /\ pc[t] = "expire"
    /\ \/ lock' = WithoutStaleLock /\ UNCHANGED happened
       \/ Fault("dberror") /\ UNCHANGED lock
    /\ pc' = [pc EXCEPT ![t] = "insert"]
    /\ UNCHANGED <<up, pulling, timer, alertAge, pulledAge, forced>>

\* AcquireLock: the name is unique, so inserting an existing row is a
\* constraint error and the pull is skipped.  PullTop looks at no other error.
AcquireLock(t) ==
    /\ pc[t] = "insert"
    /\ \/ /\ lock = NoLock
          /\ lock' = [by |-> t, age |-> 0]
          /\ pc' = [pc EXCEPT ![t] = "stream"] /\ UNCHANGED <<pulling, timer, happened>>
       \/ /\ lock # NoLock
          /\ LeaveUnlocked(t) /\ UNCHANGED <<lock, happened>>
       \/ /\ Fault("unlocked")
          /\ pc' = [pc EXCEPT ![t] = "stream"] /\ UNCHANGED <<pulling, timer, lock>>
    /\ UNCHANGED <<up, alertAge, pulledAge, forced>>

\* GetStreamV3: an error ends the pull through the deferred release.
GetStream(t) ==
    /\ pc[t] = "stream"
    /\ \/ /\ Fault("error")
          /\ pc' = [pc EXCEPT ![t] = "release"]
          /\ UNCHANGED pulledAge
       \/ /\ pulledAge' = 0
          /\ pc' = [pc EXCEPT ![t] = "save"]
          /\ UNCHANGED happened
    /\ UNCHANGED <<up, pulling, timer, lock, alertAge, forced>>

\* The rest of PullTop: deletions, allowlists, the new decisions saved with
\* their alert, blocklists.  Nothing new, or an error (which is only logged),
\* leaves no alert.  createAlertForDecision takes the first of the decisions
\* ApplyApicWhitelists left, and there may be none: the index panics, with the
\* community's decisions before anything is saved, with a blocklist's after.
SavePull(t) ==
    /\ pc[t] = "save"
    /\ alertAge' \in {0, alertAge}
    /\ \/ pc' = [pc EXCEPT ![t] = "release"] /\ UNCHANGED happened
       \/ pc' = [pc EXCEPT ![t] = "panic"] /\ Fault("allowlisted")
    /\ UNCHANGED <<up, pulling, timer, lock, pulledAge, forced>>

\* The row goes by its name.
RemoveLock ==
    \/ lock' = NoLock /\ UNCHANGED happened
    \/ Fault("dberror") /\ UNCHANGED lock

\* The deferred functions: the row, then the token.
ReleaseLock(t) ==
    /\ pc[t] = "release"
    /\ RemoveLock
    /\ LeaveUnlocked(t)
    /\ UNCHANGED <<up, alertAge, pulledAge, forced>>

\* A panic runs the deferred functions and then ends the process.
Panic(t) ==
    /\ pc[t] = "panic"
    /\ RemoveLock
    /\ up' = up \ {Server(t)} /\ pulling' = pulling \ {Server(t)}
    /\ pc' = [u \in Threads |-> IF Server(u) = Server(t) THEN "down" ELSE pc[u]]
    /\ timer' = [timer EXCEPT ![Server(t)] = NoTicker]
    /\ UNCHANGED <<alertAge, pulledAge, forced>>

Step(t) ==
    \/ CheckOld(t) \/ ReleaseStale(t) \/ AcquireLock(t) \/ GetStream(t)
    \/ SavePull(t) \/ ReleaseLock(t) \/ Panic(t)

-----------------------------------------------------------------------------
\* Ages beyond the last one that is looked at are not told apart.
Older(age, most) == IF age < most THEN age + 1 ELSE age

\* A pull has lasted for as long as its lock is safe.
Overdue(t) == InPull(t) /\ ~(lock.by = t /\ lock.age < LockTimeout)

\* The clock.  A waiting tick is served, and the calls before the lock return,
\* within the clock's unit; a pull that holds the lock may take several units,
\* up to the lock's timeout unless pulls may be slow.
Tick ==
    /\ \A t \in Threads :
           ~BeforeLock(t) /\ pc[t] # "boot" /\ pc[t] # "panic"
    /\ Note(IF \E t \in Threads : Overdue(t) THEN {"slow"} ELSE {})
    /\ \A s \in up : timer[s] = 0 => pc[<<s, "tick">>] # "idle"
    /\ timer' = [s \in Servers |-> IF timer[s] \in 1..PullInterval + 1 THEN timer[s] - 1 ELSE timer[s]]
    /\ lock' = IF lock = NoLock THEN lock ELSE [lock EXCEPT !.age = Older(@, LockTimeout + 1)]
    /\ alertAge' = Older(alertAge, OldAfter + 1)
    /\ pulledAge' = Older(pulledAge, MaxGap)
    /\ forced' = {}
    /\ UNCHANGED <<up, pc, pulling>>

Next ==
    \/ \E s \in Servers : Start(s) \/ Crash(s) \/ FirstPull(s) \/ TickerPull(s) \/ ForcePull(s)
    \/ \E t \in Threads : Step(t)
    \/ Tick

Spec == Init /\ [][Next]_vars

\* The goroutines of a running process are scheduled and time passes.  A
\* forced pull, a start and a crash are the environment's choice; a pull
\* saved with something new is not assumed either.
Fairness ==
    /\ WF_vars(Tick)
    /\ \A s \in Servers : WF_vars(FirstPull(s)) /\ WF_vars(TickerPull(s))
    /\ \A t \in Threads : WF_vars(Step(t))

FairSpec == Spec /\ Fairness

-----------------------------------------------------------------------------
(* Properties *)

\* Two pulls never run at the same time, in one process (isPulling) or in two
\* (the lock row), also after a process died holding the lock or could not
\* remove it, as long as pulls end in time and the lock is inserted unless it
\* is there.
ExclusivePull ==
    happened \cap {"slow", "unlocked"} = {} =>
        \A t, u \in Threads : InPull(t) /\ InPull(u) => t = u

\* While every process is up and its calls succeed, the central API answers at
\* least once every OldAfter + PullInterval and the time of two pulls (one
\* until its alert is saved, one until the next answer): a tick that
\* CAPIPullIsOld skips because another server pulled, or because a forced pull
\* came in between, is made up for by the next one.
GapBounded ==
    happened = {} => pulledAge <= OldAfter + PullInterval + 2 * LockTimeout

\* As long as one process stays up, the central API is asked again and again:
\* no row that is left in the locks table, by a process that died or by a
\* removal that failed, and no call that failed stops the pulls for good.
PullsForever ==
    \A s \in Servers : <>[](s \in up) => []<>(pulledAge = 0)
=============================================================================
