--------------------------- MODULE CapiPullProofs ---------------------------
(***************************************************************************)
(* Pulls of the community blocklist, for any number of servers, crashes    *)
(* and failed calls: they exclude each other as long as a pull ends before *)
(* its lock times out and inserting the lock fails only for its presence   *)
(* (ExclusivePull), and without faults the time between two answers of the *)
(* central API is bounded (GapBounded).                                    *)
(***************************************************************************)
EXTENDS CapiPull, TLAPS

LockTable == [by : Threads \cup {<<"nobody", "none">>}, age : 0..LockTimeout + 1]

\* A pull past AcquireLock is the one that inserted the row, and the row is
\* too young for ReleaseLockWithTimeout.
PullHoldsLock ==
    \A t \in Threads : InPull(t) => lock.by = t /\ lock.age <= LockTimeout

InTime == happened \cap {"slow", "unlocked"} = {}

LockInv ==
    /\ pc \in [Threads -> Places]
    /\ lock \in LockTable
    /\ PullHoldsLock

\* No thread is the owner the model writes for the absent row.
LEMMA NobodyIsNoThread == <<"nobody", "none">> \notin Threads
  BY DEF Threads

\* The absent row is a value of the lock table.
LEMMA NoLockTyped == NoLock \in LockTable /\ LockTimeout \in Nat
  BY Bounds DEF NoLock, LockTable

\* A server starts with no pull under way.
LEMMA InitLockInv == Init => LockInv
  <1> SUFFICES ASSUME Init PROVE LockInv
    OBVIOUS
  <1>1. pc \in [Threads -> Places]
    BY DEF Init, Booted, Places
  <1>2. PullHoldsLock
    BY DEF Init, Booted, PullHoldsLock, InPull
  <1>. QED
    BY <1>1, <1>2, NoLockTyped DEF Init, LockInv

\* A step that leaves the lock alone and puts no thread into a pull, like a
\* crash, a start, a skipped pull or a pull that is let in, keeps the invariant.
LEMMA NoNewPull ==
  ASSUME LockInv, lock' = lock, pc' \in [Threads -> Places],
         \A t \in Threads : InPull(t)' => InPull(t)
  PROVE  LockInv'
  BY DEF LockInv, PullHoldsLock

\* The same for a step that removes the row while nobody pulls any more.
LEMMA RowGone ==
  ASSUME LockInv, lock' = NoLock, pc' \in [Threads -> Places],
         \A t \in Threads : ~InPull(t)'
  PROVE  LockInv'
  BY NoLockTyped DEF LockInv, PullHoldsLock

\* PullTop's select on isPulling lets a thread in before the lock, never past it.
LEMMA EnterKeeps ==
  ASSUME LockInv, NEW t \in Threads, NEW first \in {"check", "expire"},
         Enter(t, first) \/ Return(t) \/ pc' = pc, lock' = lock
  PROVE  LockInv'
  <1>1. pc' \in [Threads -> Places]
    BY DEF LockInv, Enter, Return, Places
  <1>2. \A u \in Threads : InPull(u)' => InPull(u)
    BY DEF LockInv, Enter, Return, InPull
  <1>. QED
    BY <1>1, <1>2, NoNewPull

\* Every step keeps the lock with the pull that inserted it.
LEMMA NextLockInv ==
  ASSUME InTime', LockInv, [Next]_vars
  PROVE  LockInv'
  <1>1. CASE UNCHANGED vars
    BY <1>1 DEF LockInv, PullHoldsLock, InPull, vars
  <1>2. ASSUME NEW s \in Servers, Start(s) PROVE LockInv'
    <2>1. pc' \in [Threads -> Places]
      BY <1>2 DEF Start, Booted, LockInv, Places
    <2>2. \A t \in Threads : InPull(t)' => InPull(t)
      BY <1>2 DEF Start, Booted, LockInv, InPull
    <2>. QED
      BY <1>2, <2>1, <2>2, NoNewPull DEF Start
  <1>3. ASSUME NEW s \in Servers, Crash(s) PROVE LockInv'
    <2>1. pc' \in [Threads -> Places]
      BY <1>3 DEF Crash, LockInv, Places
    <2>2. \A t \in Threads : InPull(t)' => InPull(t)
      BY <1>3 DEF Crash, LockInv, InPull
    <2>. QED
      BY <1>3, <2>1, <2>2, NoNewPull DEF Crash
  <1>4. ASSUME NEW s \in Servers, FirstPull(s) \/ TickerPull(s) PROVE LockInv'
    <2>1. <<s, "tick">> \in Threads
      BY DEF Threads
    <2>2. (Enter(<<s, "tick">>, "check") \/ Return(<<s, "tick">>) \/ pc' = pc) /\ lock' = lock
      BY <1>4, Zenon DEF FirstPull, TickerPull
    <2>. QED
      BY <2>1, <2>2, EnterKeeps
  <1>5. ASSUME NEW s \in Servers, ForcePull(s) PROVE LockInv'
    <2>1. <<s, "papi">> \in Threads
      BY DEF Threads
    <2>2. (Enter(<<s, "papi">>, "expire") \/ pc' = pc) /\ lock' = lock
      BY <1>5, Zenon DEF ForcePull
    <2>. QED
      BY <2>1, <2>2, EnterKeeps
  <1>6. ASSUME NEW t \in Threads, Step(t) PROVE LockInv'
    <2>1. CASE CheckOld(t)
      <3>1. pc' \in [Threads -> Places]
        BY <2>1 DEF CheckOld, LeaveUnlocked, Return, LockInv, Places
      <3>2. \A u \in Threads : InPull(u)' => InPull(u)
        BY <2>1 DEF CheckOld, LeaveUnlocked, Return, LockInv, InPull
      <3>. QED
        BY <2>1, <3>1, <3>2, NoNewPull DEF CheckOld
    <2>2. CASE ReleaseStale(t)
      <3>1. pc' \in [Threads -> Places]
        BY <2>2 DEF ReleaseStale, LockInv, Places
      <3>2. \A u \in Threads : InPull(u)' => InPull(u)
        BY <2>2 DEF ReleaseStale, LockInv, InPull
      <3>3. CASE lock' = lock
        BY <3>1, <3>2, <3>3, NoNewPull
      <3>4. CASE lock' # lock
        <4>1. lock' = NoLock /\ lock.age > LockTimeout
          BY <2>2, <3>4 DEF ReleaseStale, WithoutStaleLock
        <4>2. \A u \in Threads : ~InPull(u)
          BY <4>1, NoLockTyped DEF LockInv, PullHoldsLock, LockTable
        <4>. QED
          BY <3>1, <3>2, <4>1, <4>2, RowGone
      <3>. QED
        BY <3>3, <3>4
    <2>3. CASE AcquireLock(t)
      <3>1. pc' \in [Threads -> Places]
        BY <2>3 DEF AcquireLock, LeaveUnlocked, Return, LockInv, Places
      <3>2. CASE lock # NoLock
        <4>1. lock' = lock /\ \A u \in Threads : InPull(u)' => InPull(u)
          BY <2>3, <3>2 DEF AcquireLock, LeaveUnlocked, Return, LockInv, InPull, InTime, Fault, Note
        <4>. QED
          BY <3>1, <4>1, NoNewPull
      <3>3. CASE lock = NoLock
        <4>1. \A u \in Threads : ~InPull(u)
          BY <3>3, NobodyIsNoThread DEF LockInv, PullHoldsLock, NoLock
        <4>2. lock' = [by |-> t, age |-> 0]
          BY <2>3, <3>3 DEF AcquireLock, InTime, Fault, Note
        <4>3. \A u \in Threads : InPull(u)' => u = t
          BY <2>3, <3>3, <4>1 DEF AcquireLock, LockInv, InPull
        <4>4. lock' \in LockTable
          BY <4>2, NoLockTyped DEF LockTable
        <4>. QED
          BY <3>1, <4>2, <4>3, <4>4, NoLockTyped DEF LockInv, PullHoldsLock
      <3>. QED
        BY <3>2, <3>3
    <2>4. CASE GetStream(t)
      <3>1. pc' \in [Threads -> Places]
        BY <2>4 DEF GetStream, LockInv, Places
      <3>2. \A u \in Threads : InPull(u)' => InPull(u)
        BY <2>4 DEF GetStream, LockInv, InPull
      <3>. QED
        BY <2>4, <3>1, <3>2, NoNewPull DEF GetStream
    <2>5. CASE SavePull(t)
      <3>1. pc' \in [Threads -> Places]
        BY <2>5 DEF SavePull, LockInv, Places
      <3>2. \A u \in Threads : InPull(u)' => InPull(u)
        BY <2>5 DEF SavePull, LockInv, InPull
      <3>. QED
        BY <2>5, <3>1, <3>2, NoNewPull DEF SavePull
    <2>6. CASE ReleaseLock(t)
      <3>1. pc' \in [Threads -> Places]
        BY <2>6 DEF ReleaseLock, LeaveUnlocked, Return, LockInv, Places
      <3>2. \A u \in Threads : InPull(u) => u = t
        BY <2>6 DEF ReleaseLock, LockInv, PullHoldsLock, InPull
      <3>3. \A u \in Threads : ~InPull(u)'
        BY <2>6, <3>2 DEF ReleaseLock, LeaveUnlocked, Return, LockInv, InPull
      <3>. QED
        BY <2>6, <3>1, <3>3, RowGone, NoNewPull DEF ReleaseLock, RemoveLock
    <2>7. CASE Panic(t)
      <3>1. pc' \in [Threads -> Places]
        BY <2>7 DEF Panic, LockInv, Places
      <3>2. \A u \in Threads : InPull(u) => u = t
        BY <2>7 DEF Panic, LockInv, PullHoldsLock, InPull
      <3>3. \A u \in Threads : ~InPull(u)'
        BY <2>7, <3>2 DEF Panic, LockInv, InPull
      <3>. QED
        BY <2>7, <3>1, <3>3, RowGone, NoNewPull DEF Panic, RemoveLock
    <2>. QED
      BY <1>6, <2>1, <2>2, <2>3, <2>4, <2>5, <2>6, <2>7 DEF Step
  <1>7. CASE Tick
    <2>1. pc' = pc
      BY <1>7 DEF Tick
    <2>2. lock' \in LockTable
      BY <1>7, NoLockTyped DEF Tick, LockInv, LockTable, Older
    <2>3. ASSUME NEW t \in Threads, InPull(t)' PROVE lock'.by = t /\ lock'.age <= LockTimeout
      <3>1. InPull(t)
        BY <2>1, <2>3 DEF InPull
      <3>2. lock.by = t /\ lock.age < LockTimeout
        BY <1>7, <3>1 DEF Tick, Overdue, InTime, Note
      <3>3. lock # NoLock
        BY <3>2, NobodyIsNoThread DEF NoLock
      <3>4. lock' = [lock EXCEPT !.age = Older(lock.age, LockTimeout + 1)]
        BY <1>7, <3>3 DEF Tick
      <3>5. lock.age \in Nat /\ lock'.by = lock.by /\ lock'.age = Older(lock.age, LockTimeout + 1)
        BY <3>4, NoLockTyped DEF LockInv, LockTable
      <3>. QED
        BY <3>2, <3>5, NoLockTyped DEF Older
    <2>. QED
      BY <2>1, <2>2, <2>3 DEF LockInv, PullHoldsLock
  <1>. QED
    BY <1>1, <1>2, <1>3, <1>4, <1>5, <1>6, <1>7 DEF Next

\* What has happened stays so.
LEMMA Remembered ==
  ASSUME [Next]_vars
  PROVE  happened \subseteq happened'
  BY Zenon DEF Next, vars, Start, Crash, FirstPull, TickerPull, ForcePull, Step, CheckOld,
         ReleaseStale, AcquireLock, GetStream, SavePull, ReleaseLock, Panic, RemoveLock,
         Tick, Fault, Note

\* Two pulls never run at once, in one process or in several sharing the
\* database, as long as pulls end within CAPIPullLockTimeout and AcquireLock
\* has no other error than the constraint's: the row belongs to the running
\* pull, or was left by one that is over.
THEOREM ExclusivePullHolds == Spec => []ExclusivePull
  <1>1. Init => ~InTime \/ LockInv
    BY InitLockInv
  <1>2. (~InTime \/ LockInv) /\ [Next]_vars => (~InTime \/ LockInv)'
    <2>1. ASSUME [Next]_vars, InTime' PROVE InTime
      BY <2>1, Remembered DEF InTime
    <2>. QED
      BY <2>1, NextLockInv
  <1>3. ~InTime \/ LockInv => ExclusivePull
    BY DEF InTime, LockInv, PullHoldsLock, ExclusivePull
  <1>. QED
    BY <1>1, <1>2, <1>3, PTL DEF Spec

-----------------------------------------------------------------------------
(* Types, and the token of isPulling.                                      *)

Busy(t) == BeforeLock(t) \/ InPull(t)

\* The values the variables range over.
Values ==
    /\ pc \in [Threads -> Places]
    /\ timer \in [Servers -> 0..NoTicker]
    /\ lock \in LockTable /\ (lock = NoLock \/ lock.by \in Threads)
    /\ alertAge \in 0..OldAfter + 1 /\ pulledAge \in 0..MaxGap
    /\ forced \subseteq Servers
    /\ happened \subseteq FaultKinds

\* The threads of a process are down with it, at most one of them is in
\* PullTop, and then isPulling holds the token.
Tokens ==
    /\ up \subseteq Servers /\ pulling \subseteq Servers
    /\ \A t \in Threads : pc[t] = "down" <=> Server(t) \notin up
    /\ \A t, u \in Threads : Busy(t) /\ Busy(u) /\ Server(t) = Server(u) => t = u
    /\ \A s \in Servers : s \in pulling <=> \E t \in Threads : Server(t) = s /\ Busy(t)

\* The two threads of a process.
LEMMA ThreadsOf ==
  /\ \A t \in Threads : Server(t) \in Servers
  /\ \A s \in Servers : <<s, "tick">> \in Threads /\ Server(<<s, "tick">>) = s
  /\ \A s \in Servers : <<s, "papi">> \in Threads /\ Server(<<s, "papi">>) = s
  /\ \A t \in Threads : t = <<Server(t), "tick">> \/ t = <<Server(t), "papi">>
  BY DEF Threads, Server

\* The invariant implies the types the runs check.
LEMMA TypedTokens == Values /\ Tokens => TypeOK
  <1> SUFFICES ASSUME Values, Tokens PROVE TypeOK
    OBVIOUS
  <1>1. pulling \subseteq up
    <2> SUFFICES ASSUME NEW s \in pulling PROVE s \in up
      OBVIOUS
    <2>1. PICK t \in Threads : Server(t) = s /\ Busy(t)
      BY DEF Tokens
    <2>. QED
      BY <2>1 DEF Tokens, Busy, BeforeLock, InPull
  <1>2. lock = NoLock \/ (lock.by \in Threads /\ lock.age \in 0..LockTimeout + 1)
    BY DEF Values, LockTable
  <1>3. \A s \in Servers : s \in pulling <=>
           \E t \in Threads : Server(t) = s /\ (BeforeLock(t) \/ InPull(t))
    BY DEF Tokens, Busy
  <1>. QED
    BY <1>1, <1>2, <1>3 DEF TypeOK, Values, Tokens

\* A pull that goes from one of its calls to the next.
LEMMA TokenStays ==
  ASSUME Values, Tokens, NEW t \in Threads, Busy(t), NEW p \in Places,
         p \in {"expire", "insert", "stream", "save", "release", "panic"},
         pc' = [pc EXCEPT ![t] = p], UNCHANGED <<up, pulling>>
  PROVE  Tokens'
  <1>1. pc'[t] = p /\ \A u \in Threads : u # t => pc'[u] = pc[u]
    BY DEF Values
  <1>2. \A u \in Threads : Busy(u)' <=> Busy(u)
    BY <1>1 DEF Busy, BeforeLock, InPull
  <1>3. \A u \in Threads : pc'[u] = "down" <=> pc[u] = "down"
    BY <1>1 DEF Busy, BeforeLock, InPull
  <1>. QED
    BY <1>2, <1>3 DEF Tokens

\* A pull that ends, here without the process.
LEMMA TokenLeaves ==
  ASSUME Values, Tokens, NEW t \in Threads, Busy(t), LeaveUnlocked(t), up' = up
  PROVE  Tokens'
  <1>1. pc'[t] = "idle" /\ \A u \in Threads : u # t => pc'[u] = pc[u]
    BY DEF Values, LeaveUnlocked, Return
  <1>2. \A u \in Threads : Busy(u)' <=> Busy(u) /\ u # t
    BY <1>1 DEF Busy, BeforeLock, InPull
  <1>3. \A u \in Threads : pc'[u] = "down" <=> pc[u] = "down"
    BY <1>1 DEF Busy, BeforeLock, InPull
  <1>4. pulling' = pulling \ {Server(t)}
    BY DEF LeaveUnlocked
  <1>5. \A s \in Servers : s \in pulling' <=> \E u \in Threads : Server(u) = s /\ Busy(u)'
    BY <1>2, <1>4 DEF Tokens
  <1>. QED
    BY <1>2, <1>3, <1>4, <1>5 DEF Tokens

\* A pull that starts, or finds the token taken.
LEMMA TokenEnters ==
  ASSUME Values, Tokens, NEW t \in Threads, pc[t] \in {"boot", "idle"}, up' = up,
         NEW first \in {"check", "expire"},
         Enter(t, first) \/ (Refused(t) /\ (Return(t) \/ pc' = pc))
  PROVE  Tokens'
  <1>1. CASE Server(t) \in pulling
    <2>1. pc'[t] \in {"boot", "idle"} /\ \A u \in Threads : u # t => pc'[u] = pc[u]
      BY <1>1 DEF Values, Enter, Return
    <2>2. \A u \in Threads : Busy(u)' <=> Busy(u)
      BY <2>1 DEF Busy, BeforeLock, InPull
    <2>3. \A u \in Threads : pc'[u] = "down" <=> pc[u] = "down"
      BY <2>1
    <2>. QED
      BY <1>1, <2>2, <2>3 DEF Tokens, Enter, Refused
  <1>2. CASE Server(t) \notin pulling
    <2>1. pc'[t] = first /\ \A u \in Threads : u # t => pc'[u] = pc[u]
      BY <1>2 DEF Values, Enter, Refused
    <2>2. \A u \in Threads : Busy(u)' <=> Busy(u) \/ u = t
      BY <2>1 DEF Busy, BeforeLock, InPull
    <2>3. \A u \in Threads : pc'[u] = "down" <=> pc[u] = "down"
      BY <2>1
    <2>4. pulling' = pulling \cup {Server(t)} /\ Server(t) \in Servers
      BY <1>2, ThreadsOf DEF Enter, Refused
    <2>5. \A u \in Threads : Busy(u) => Server(u) # Server(t)
      BY <1>2, <2>4 DEF Tokens
    <2>6. \A s \in Servers : s \in pulling' <=> \E u \in Threads : Server(u) = s /\ Busy(u)'
      BY <2>2, <2>4 DEF Tokens
    <2>. QED
      BY <2>2, <2>3, <2>4, <2>5, <2>6 DEF Tokens
  <1>. QED
    BY <1>1, <1>2

\* A process that dies, with both its threads.
LEMMA TokenDies ==
  ASSUME Values, Tokens, NEW s \in Servers,
         up' = up \ {s}, pulling' = pulling \ {s},
         pc' = [t \in Threads |-> IF Server(t) = s THEN "down" ELSE pc[t]]
  PROVE  Tokens'
  <1>1. \A t \in Threads : pc'[t] = IF Server(t) = s THEN "down" ELSE pc[t]
    OBVIOUS
  <1>2. \A t \in Threads : Busy(t)' <=> Busy(t) /\ Server(t) # s
    BY <1>1 DEF Busy, BeforeLock, InPull
  <1>3. \A r \in Servers : r \in pulling' <=> \E t \in Threads : Server(t) = r /\ Busy(t)'
    BY <1>2 DEF Tokens
  <1>4. \A t \in Threads : pc'[t] = "down" <=> Server(t) \notin up'
    BY <1>1 DEF Tokens
  <1>. QED
    BY <1>2, <1>3, <1>4 DEF Tokens

\* A process that starts.
LEMMA TokenStarts ==
  ASSUME Values, Tokens, NEW s \in Servers, Start(s)
  PROVE  Tokens'
  <1>1. \A t \in Threads : pc'[t] = IF Server(t) = s THEN Booted(t) ELSE pc[t]
    BY DEF Start
  <1>2. \A t \in Threads : Server(t) = s => pc[t] = "down"
    BY DEF Start, Tokens
  <1>3. \A t \in Threads : Busy(t)' <=> Busy(t)
    BY <1>1, <1>2 DEF Busy, BeforeLock, InPull, Booted
  <1>4. \A t \in Threads : pc'[t] = "down" <=> Server(t) \notin up'
    BY <1>1 DEF Tokens, Booted, Start
  <1>. QED
    BY <1>3, <1>4 DEF Tokens, Start

\* Every step keeps the token with the pull that put it into isPulling.
LEMMA TokensNext ==
  ASSUME Values, Tokens, [Next]_vars
  PROVE  Tokens'
  <1>1. CASE UNCHANGED vars
    BY <1>1 DEF Tokens, Busy, BeforeLock, InPull, vars
  <1>2. CASE \E s \in Servers : Start(s)
    BY <1>2, TokenStarts
  <1>3. CASE \E s \in Servers : Crash(s)
    BY <1>3, TokenDies DEF Crash
  <1>4. ASSUME NEW s \in Servers, FirstPull(s) \/ TickerPull(s) \/ ForcePull(s)
        PROVE  Tokens'
    <2>1. <<s, "tick">> \in Threads /\ <<s, "papi">> \in Threads
      BY ThreadsOf
    <2>. QED
      BY <1>4, <2>1, TokenEnters, Zenon DEF FirstPull, TickerPull, ForcePull
  <1>5. ASSUME NEW t \in Threads, Step(t) PROVE Tokens'
    <2>1. Busy(t)
      BY <1>5 DEF Step, CheckOld, ReleaseStale, AcquireLock, GetStream, SavePull,
                  ReleaseLock, Panic, Busy, BeforeLock, InPull
    <2>2. CASE LeaveUnlocked(t) /\ up' = up
      BY <2>1, <2>2, TokenLeaves
    <2>3. CASE Panic(t)
      BY <2>3, TokenDies, ThreadsOf DEF Panic
    <2>4. CASE ~LeaveUnlocked(t) /\ ~Panic(t)
      <3>1. PICK p \in {"expire", "insert", "stream", "save", "release", "panic"} :
                pc' = [pc EXCEPT ![t] = p] /\ UNCHANGED <<up, pulling>>
        BY <1>5, <2>4 DEF Step, CheckOld, ReleaseStale, AcquireLock, GetStream,
                          SavePull, ReleaseLock
      <3>2. p \in Places
        BY <3>1 DEF Places
      <3>. QED
        BY <2>1, <3>1, <3>2, TokenStays, Zenon
    <2>. QED
      BY <1>5, <2>2, <2>3, <2>4
         DEF Step, CheckOld, ReleaseStale, AcquireLock, GetStream, SavePull, ReleaseLock
  <1>6. CASE Tick
    BY <1>6 DEF Tokens, Busy, BeforeLock, InPull, Tick
  <1>. QED
    BY <1>1, <1>2, <1>3, <1>4, <1>5, <1>6 DEF Next

\* Faults are noted by their kind.
LEMMA Noted ==
  ASSUME Values, [Next]_vars
  PROVE  happened' \subseteq FaultKinds
  BY Zenon DEF Values, Next, vars, Start, Crash, FirstPull, TickerPull, ForcePull, Step,
         CheckOld, ReleaseStale, AcquireLock, GetStream, SavePull, ReleaseLock, Panic,
         RemoveLock, Tick, Fault, Note, FaultKinds

\* Every thread is at one of the places of PullTop, or between two pulls.
LEMMA PlacesNext ==
  ASSUME Values, [Next]_vars
  PROVE  pc' \in [Threads -> Places]
  <1>1. CASE UNCHANGED vars \/ Tick
    BY <1>1 DEF Values, vars, Tick
  <1>2. CASE \E s \in Servers : Start(s) \/ Crash(s)
    BY <1>2 DEF Values, Start, Crash, Booted, Places
  <1>3. ASSUME NEW s \in Servers, FirstPull(s) \/ TickerPull(s) \/ ForcePull(s)
        PROVE  pc' \in [Threads -> Places]
    BY <1>3 DEF Values, FirstPull, TickerPull, ForcePull, Enter, Return, Places
  <1>4. ASSUME NEW t \in Threads, Step(t) PROVE pc' \in [Threads -> Places]
    BY <1>4 DEF Values, Step, CheckOld, ReleaseStale, AcquireLock, GetStream, SavePull,
                ReleaseLock, Panic, LeaveUnlocked, Return, Places
  <1>. QED
    BY <1>1, <1>2, <1>3, <1>4 DEF Next

\* PullTop returns to a ticker that runs, or that is created now.
LEMMA Returned ==
  ASSUME Values, NEW t \in Threads, Return(t)
  PROVE  /\ timer' \in [Servers -> 0..NoTicker]
         /\ \A s \in Servers : <<s, "tick">> = t => timer'[s] # NoTicker
         /\ \A s \in Servers : \/ timer'[s] = timer[s]
                                \/ /\ timer[s] = NoTicker /\ <<s, "tick">> = t
                                   /\ timer'[s] \in 0..PullInterval + 1
  <1>1. PullInterval \in Nat \ {0} /\ NoTicker = PullInterval + 2
    BY Bounds DEF NoTicker
  <1>2. CASE t[2] = "tick" /\ timer[Server(t)] = NoTicker
    <2>1. PICK d \in 0..PullInterval + 1 : timer' = [timer EXCEPT ![Server(t)] = d]
      BY <1>1, <1>2 DEF Return
    <2>2. \A s \in Servers : timer'[s] = IF s = Server(t) THEN d ELSE timer[s]
      BY <2>1 DEF Values
    <2>3. t = <<Server(t), "tick">> /\ Server(t) \in Servers
      BY <1>2 DEF Threads, Server
    <2>4. \A s \in Servers : <<s, "tick">> = t <=> s = Server(t)
      <3>1. \A s \in Servers : <<s, "tick">> = <<Server(t), "tick">> <=> s = Server(t)
        OBVIOUS
      <3>. QED
        BY <2>3, <3>1, Zenon
    <2>5. timer' \in [Servers -> 0..NoTicker] /\ d # NoTicker
      <3>1. d \in 0..NoTicker /\ d # NoTicker
        BY <1>1
      <3>2. timer \in [Servers -> 0..NoTicker]
        BY DEF Values
      <3>. QED
        BY <2>1, <3>1, <3>2, Zenon
    <2>6. \A s \in Servers : s # Server(t) => timer'[s] = timer[s]
      BY <2>2
    <2>7. timer'[Server(t)] = d
      BY <2>2, <2>3
    <2>. QED
      BY <1>2, <2>4, <2>5, <2>6, <2>7
  <1>3. CASE ~(t[2] = "tick" /\ timer[Server(t)] = NoTicker)
    <2>1. timer' = timer
      BY <1>3 DEF Return
    <2>2. \A s \in Servers : <<s, "tick">> = t => timer[s] # NoTicker
      BY <1>3 DEF Server
    <2>. QED
      BY <2>1, <2>2 DEF Values
  <1>. QED
    BY <1>2, <1>3

\* The tickers count down from an interval around PullInterval.
LEMMA TimersNext ==
  ASSUME Values, [Next]_vars
  PROVE  timer' \in [Servers -> 0..NoTicker]
  <1>1. PullInterval \in Nat \ {0} /\ NoTicker = PullInterval + 2
    BY Bounds DEF NoTicker
  <1>2. CASE \E s \in Servers : \E d \in {PullInterval, NoTicker} : timer' = [timer EXCEPT ![s] = d]
    BY <1>1, <1>2 DEF Values
  <1>3. CASE Tick
    BY <1>1, <1>3 DEF Values, Tick
  <1>4. CASE UNCHANGED timer
    BY <1>4 DEF Values
  <1>5. CASE \E t \in Threads : Return(t)
    BY <1>5, Returned
  <1>6. ASSUME NEW s \in Servers, FirstPull(s) \/ TickerPull(s) PROVE timer' \in [Servers -> 0..NoTicker]
    BY <1>2, <1>4, <1>5, <1>6, ThreadsOf, Zenon DEF FirstPull, TickerPull
  <1>7. ASSUME NEW t \in Threads, Step(t) PROVE timer' \in [Servers -> 0..NoTicker]
    BY <1>2, <1>4, <1>5, <1>7, ThreadsOf, Zenon
       DEF Step, CheckOld, ReleaseStale, AcquireLock, GetStream, SavePull, ReleaseLock,
           Panic, LeaveUnlocked
  <1>. QED
    BY <1>2, <1>3, <1>4, <1>6, <1>7, Zenon DEF Next, vars, Start, Crash, ForcePull

\* The lock is absent or a thread's.
LEMMA LockNext ==
  ASSUME Values, [Next]_vars
  PROVE  lock' \in LockTable /\ (lock' = NoLock \/ lock'.by \in Threads)
  <1>1. CASE UNCHANGED lock \/ lock' = NoLock
    BY <1>1, NoLockTyped DEF Values
  <1>2. CASE \E t \in Threads : lock' = [by |-> t, age |-> 0]
    BY <1>2, NoLockTyped DEF LockTable
  <1>3. CASE lock # NoLock /\ lock' = [lock EXCEPT !.age = Older(@, LockTimeout + 1)]
    <2>1. lock.age \in 0..LockTimeout + 1 /\ lock.by \in Threads /\ lock \in LockTable
      BY <1>3 DEF Values, LockTable
    <2>2. Older(lock.age, LockTimeout + 1) \in 0..LockTimeout + 1
      BY <2>1, NoLockTyped DEF Older
    <2>. QED
      BY <1>3, <2>1, <2>2 DEF LockTable
  <1>4. CASE Tick
    BY <1>1, <1>3, <1>4 DEF Tick
  <1>. QED
    BY <1>1, <1>2, <1>4, Zenon
       DEF Next, vars, Start, Crash, FirstPull, TickerPull, ForcePull, Step, CheckOld,
           ReleaseStale, WithoutStaleLock, AcquireLock, GetStream, SavePull,
           ReleaseLock, Panic, RemoveLock

\* Every step keeps the values in their types.
LEMMA ValuesNext ==
  ASSUME Values, [Next]_vars
  PROVE  Values'
  <1>1. alertAge' \in 0..OldAfter + 1 /\ pulledAge' \in 0..MaxGap
    <2>1. OldAfter \in Nat /\ MaxGap \in Nat
      BY Bounds
    <2>2. alertAge' \in {0, alertAge, Older(alertAge, OldAfter + 1)}
          /\ pulledAge' \in {0, pulledAge, Older(pulledAge, MaxGap)}
      BY Zenon DEF Next, vars, Start, Crash, FirstPull, TickerPull, ForcePull, Step, CheckOld,
             ReleaseStale, AcquireLock, GetStream, SavePull, ReleaseLock, Panic, Tick
    <2>. QED
      BY <2>1, <2>2 DEF Values, Older
  <1>2. forced' \subseteq Servers
    BY Zenon DEF Values, Next, vars, Start, Crash, FirstPull, TickerPull, ForcePull, Step,
           CheckOld, ReleaseStale, AcquireLock, GetStream, SavePull, ReleaseLock, Panic,
           Tick
  <1>. QED
    BY <1>1, <1>2, PlacesNext, TimersNext, LockNext, Noted DEF Values

\* A new installation has the types, and no token.
LEMMA InitTokens == Init => Values /\ Tokens
  <1> SUFFICES ASSUME Init PROVE Values /\ Tokens
    OBVIOUS
  <1>1. Values
    BY Bounds, NoLockTyped DEF Init, Values, Booted, Places, NoTicker
  <1>2. \A t \in Threads : pc[t] = Booted(t) /\ ~Busy(t)
    BY DEF Init, Booted, Busy, BeforeLock, InPull
  <1>. QED
    BY <1>1, <1>2, ThreadsOf DEF Init, Tokens, Booted

\* The types and the token are invariant.
LEMMA TokenInvariant == Spec => [](Values /\ Tokens)
  BY InitTokens, ValuesNext, TokensNext, PTL DEF Spec

\* Every variable has its type, and isPulling holds its token exactly while a
\* thread of the process is in PullTop: a pull that is skipped, that fails or
\* that panics gives it back.
THEOREM TypeCorrect == Spec => []TypeOK
  BY TokenInvariant, TypedTokens, PTL

-----------------------------------------------------------------------------
(* The gap between two answers of the central API.                         *)

\* The longest gap when a tick finds that it has to pull.
Settled == OldAfter + PullInterval + LockTimeout

\* A pull that the check does not stop any more, and is not answered yet.
Asking(t) ==
    \/ pc[t] \in {"expire", "insert", "stream"}
    \/ pc[t] = "check" /\ CAPIPullIsOld
Asked == \E t \in Threads : Asking(t)

\* The next tick of s comes in time, or an answer is on its way.
Covered(s) ==
    \/ timer[s] = NoTicker
    \/ timer[s] + pulledAge <= Settled
    \/ Asked

\* The first pull of s is still to come or under way; before it has the lock
\* no time passes.
FirstPulls(s) ==
    \/ pc[<<s, "tick">>] \in {"boot", "check", "expire", "insert"} /\ pulledAge = 0
    \/ pc[<<s, "tick">>] \in {"stream", "save", "release"}

\* Without faults every process is up, the lock is a running pull's, the answer
\* of a pull that has one is no older than its lock, and an alert that lets
\* ticks be skipped was saved at most LockTimeout after its answer.
CalmInv ==
    /\ up = Servers /\ \A t \in Threads : pc[t] # "panic"
    /\ lock # NoLock => InPull(lock.by)
    /\ \A t \in Threads : pc[t] \in {"save", "release"} => pulledAge <= lock.age
    /\ \A s \in Servers : timer[s] = NoTicker => FirstPulls(s)
    /\ alertAge <= OldAfter => pulledAge <= alertAge + LockTimeout
    /\ \/ pulledAge <= Settled
       \/ \E t \in Threads : pc[t] = "stream" /\ pulledAge <= Settled + lock.age
    /\ \A s \in Servers : Covered(s)

\* A gap that a ticker with d units to go makes up for in time.
LEMMA ShortGap ==
  ASSUME Values, NEW d \in 0..PullInterval + 1
  PROVE  /\ pulledAge <= LockTimeout => d + pulledAge <= Settled
         /\ d <= PullInterval /\ pulledAge <= OldAfter + LockTimeout
              => d + pulledAge <= Settled
         /\ pulledAge = 0 => d + pulledAge <= Settled
  BY Bounds DEF Values, Settled

\* A ticker that exists has at most PullInterval + 1 units to go.
LEMMA Ticking ==
  ASSUME Values, NEW s \in Servers
  PROVE  timer[s] = NoTicker \/ timer[s] \in 0..PullInterval + 1
  BY Bounds DEF Values, NoTicker

\* The place of one thread changes.
LEMMA OneMoves ==
  ASSUME Values, NEW t \in Threads, NEW p, pc' = [pc EXCEPT ![t] = p]
  PROVE  pc'[t] = p /\ \A u \in Threads : u # t => pc'[u] = pc[u]
  BY DEF Values

\* CalmInv survives a thread that moves before the lock, or leaves from there,
\* if the tickers stay covered.
LEMMA CalmBefore ==
  ASSUME Values, CalmInv, NEW t \in Threads,
         pc[t] \in {"boot", "idle", "check", "expire", "insert"},
         NEW p \in {"idle", "check", "expire", "insert"},
         pc' = [pc EXCEPT ![t] = p], UNCHANGED <<up, lock, alertAge, pulledAge>>,
         \A s \in Servers : timer'[s] = NoTicker =>
             timer[s] = NoTicker /\ (<<s, "tick">> = t => p # "idle"),
         \A s \in Servers : Covered(s)'
  PROVE  CalmInv'
  <1>1. pc'[t] = p /\ \A u \in Threads : u # t => pc'[u] = pc[u]
    BY OneMoves, Zenon
  <1>2. \A u \in Threads : InPull(u)' <=> InPull(u)
    BY <1>1 DEF InPull
  <1>3. lock' # NoLock => InPull(lock.by)'
    BY <1>2 DEF CalmInv, Values
  <1>4. \A u \in Threads : pc'[u] \in {"save", "release"} => pulledAge <= lock.age
    BY <1>1 DEF CalmInv
  <1>5. \A u \in Threads : pc'[u] # "panic"
    BY <1>1 DEF CalmInv
  <1>7. ASSUME NEW s \in Servers, timer'[s] = NoTicker PROVE FirstPulls(s)'
    <2>1. FirstPulls(s) /\ <<s, "tick">> \in Threads
      BY <1>7, ThreadsOf DEF CalmInv
    <2>2. CASE <<s, "tick">> = t
      BY <1>1, <1>7, <2>1, <2>2 DEF FirstPulls
    <2>3. CASE <<s, "tick">> # t
      BY <1>1, <2>1, <2>3 DEF FirstPulls
    <2>. QED
      BY <2>2, <2>3
  <1>6. \/ pulledAge <= Settled
        \/ \E u \in Threads : pc'[u] = "stream" /\ pulledAge <= Settled + lock.age
    BY <1>1 DEF CalmInv
  <1>. QED
    BY <1>3, <1>4, <1>5, <1>6, <1>7 DEF CalmInv

\* Who holds the token of isPulling has an answer already, is about to skip its
\* pull for a recent one, or asks.
LEMMA TokenAsks ==
  ASSUME Values, Tokens, LockInv, CalmInv, NEW t \in Threads, Busy(t)
  PROVE  pulledAge <= OldAfter + LockTimeout \/ Asking(t)
  <1>1. CASE pc[t] \in {"save", "release"}
    <2>1. pulledAge <= lock.age /\ lock.age <= LockTimeout
      BY <1>1 DEF CalmInv, LockInv, PullHoldsLock, InPull
    <2>2. lock.age \in Nat /\ pulledAge \in Nat /\ OldAfter \in Nat /\ LockTimeout \in Nat
      BY Bounds DEF Values, LockTable
    <2>. QED
      BY <2>1, <2>2
  <1>2. CASE pc[t] = "check" /\ ~CAPIPullIsOld
    <2>1. alertAge \in Nat /\ pulledAge \in Nat /\ OldAfter \in Nat /\ LockTimeout \in Nat
      BY Bounds DEF Values
    <2>2. alertAge <= OldAfter
      BY <1>2, <2>1 DEF CAPIPullIsOld
    <2>. QED
      BY <2>1, <2>2 DEF CalmInv
  <1>. QED
    BY <1>1, <1>2 DEF CalmInv, Busy, BeforeLock, InPull, Asking

\* A ticker that is not touched stays covered while nobody stops asking.
LEMMA CoveredStays ==
  ASSUME Values, CalmInv, NEW t \in Threads, NEW p, pc' = [pc EXCEPT ![t] = p],
         Asking(t) => Asking(t)', pulledAge' = pulledAge, alertAge' = alertAge,
         NEW r \in Servers, timer'[r] = timer[r]
  PROVE  Covered(r)'
  <1>1. pc'[t] = p /\ \A u \in Threads : u # t => pc'[u] = pc[u]
    BY OneMoves, Zenon
  <1>2. \A u \in Threads : Asking(u) => Asking(u)'
    BY <1>1 DEF Asking, CAPIPullIsOld
  <1>. QED
    BY <1>2 DEF CalmInv, Covered, Asked

\* A pull that ends before it has the lock: it did not ask, another one asks,
\* or the last answer is recent.  A ticker that is created now comes after a
\* first pull during which no time passed.
LEMMA CalmReturn ==
  ASSUME Values, CalmInv, NEW t \in Threads, Return(t),
         pc[t] \in {"boot", "check", "insert"},
         UNCHANGED <<up, lock, alertAge, pulledAge>>,
         ~Asking(t) \/ Asked' \/ pulledAge <= LockTimeout
  PROVE  CalmInv'
  <1>1. pc' = [pc EXCEPT ![t] = "idle"]
    BY DEF Return
  <1>2. \A s \in Servers : <<s, "tick">> = t => timer'[s] # NoTicker
    BY Returned
  <1>3. ASSUME NEW s \in Servers PROVE Covered(s)'
    <2>1. CASE timer'[s] = timer[s] /\ ~Asking(t)
      BY <1>1, <2>1, CoveredStays, Zenon
    <2>2. CASE timer'[s] = timer[s] /\ pulledAge <= LockTimeout
      BY <2>2, Ticking, ShortGap DEF Covered
    <2>3. CASE timer[s] = NoTicker /\ <<s, "tick">> = t /\ timer'[s] \in 0..PullInterval + 1
      <3>1. pulledAge = 0
        BY <2>3 DEF CalmInv, FirstPulls
      <3>. QED
        BY <2>3, <3>1, ShortGap DEF Covered
    <2>. QED
      BY <2>1, <2>2, <2>3, Returned DEF Covered
  <1>4. \A s \in Servers : timer'[s] = NoTicker => timer[s] = NoTicker
    BY Returned
  <1>. QED
    BY <1>1, <1>2, <1>3, <1>4, CalmBefore, Zenon

\* The pull at start-up: it goes on to the check, or finds the token taken.
LEMMA CalmFirst ==
  ASSUME Values, CalmInv, NEW s \in Servers, FirstPull(s)
  PROVE  CalmInv'
  <1> DEFINE t == <<s, "tick">>
  <1>1. t \in Threads /\ pc[t] = "boot" /\ ~Asking(t)
        /\ UNCHANGED <<up, lock, alertAge, pulledAge>>
    BY ThreadsOf DEF FirstPull, Asking
  <1>2. CASE Return(t)
    BY <1>1, <1>2, CalmReturn
  <1>3. CASE pc' = [pc EXCEPT ![t] = "check"] /\ timer' = timer
    <2>1. \A r \in Servers : Covered(r)'
      BY <1>1, <1>3, CoveredStays, Zenon
    <2>. QED
      BY <1>1, <1>3, <2>1, CalmBefore, Zenon
  <1>. QED
    BY <1>2, <1>3, Zenon DEF FirstPull, Enter

\* PullTop's select on isPulling, in place of the pull of a tick: the tick is
\* covered by the pull it starts or by the one it finds.
LEMMA CalmTick ==
  ASSUME Values, Tokens, LockInv, CalmInv, NEW s \in Servers, TickerPull(s)
  PROVE  CalmInv'
  <1> DEFINE t == <<s, "tick">>
  <1>1. t \in Threads /\ Server(t) = s
    BY ThreadsOf
  <1>2. /\ pc[t] = "idle" /\ UNCHANGED <<up, lock, alertAge, pulledAge>>
        /\ timer'[s] = PullInterval /\ \A r \in Servers : r # s => timer'[r] = timer[r]
    BY DEF TickerPull, Values
  <1>3. PullInterval # NoTicker /\ PullInterval \in 0..PullInterval + 1
        /\ PullInterval <= PullInterval
    BY Bounds DEF NoTicker
  <1>4. PICK p \in {"idle", "check"} : pc' = [pc EXCEPT ![t] = p]
    <2>1. [pc EXCEPT ![t] = "idle"] = pc
      BY <1>1, <1>2 DEF Values
    <2>. QED
      BY <2>1, Zenon DEF TickerPull, Enter
  <1>5. pc'[t] = p /\ \A u \in Threads : u # t => pc'[u] = pc[u]
    BY <1>1, <1>4, OneMoves, Zenon
  <1>6. \A u \in Threads : u # t => (Asking(u)' <=> Asking(u))
    BY <1>2, <1>5 DEF Asking, CAPIPullIsOld
  <1>7. pulledAge <= OldAfter + LockTimeout \/ Asked'
    <2>1. CASE s \in pulling
      <3>1. PICK u \in Threads : Server(u) = s /\ Busy(u)
        BY <2>1 DEF Tokens
      <3>2. u # t
        BY <1>2, <3>1 DEF Busy, BeforeLock, InPull
      <3>. QED
        BY <1>6, <3>1, <3>2, TokenAsks DEF Asked
    <2>2. CASE s \notin pulling
      <3>1. pc'[t] = "check"
        BY <1>1, <2>2 DEF TickerPull, Enter, Refused, Values
      <3>2. CASE CAPIPullIsOld
        BY <1>1, <1>2, <3>1, <3>2 DEF Asked, Asking, CAPIPullIsOld
      <3>3. CASE ~CAPIPullIsOld
        <4>1. alertAge <= OldAfter /\ alertAge \in Nat /\ pulledAge \in Nat
              /\ LockTimeout \in Nat /\ OldAfter \in Nat
          BY <3>3, Bounds DEF CAPIPullIsOld, Values
        <4>. QED
          BY <4>1 DEF CalmInv
      <3>. QED
        BY <3>2, <3>3
    <2>. QED
      BY <2>1, <2>2
  <1>8. Covered(s)'
    BY <1>2, <1>3, <1>7, ShortGap DEF Covered
  <1>9. ASSUME NEW r \in Servers, r # s PROVE Covered(r)'
    <2>1. ~Asking(t) /\ timer'[r] = timer[r]
      BY <1>2, <1>9 DEF Asking
    <2>. QED
      BY <1>1, <1>2, <1>4, <2>1, CoveredStays, Zenon
  <1>10. \A r \in Servers : timer'[r] = NoTicker =>
             timer[r] = NoTicker /\ (<<r, "tick">> = t => p # "idle")
    <2>1. \A r \in Servers : timer'[r] = NoTicker => r # s
      BY <1>2, <1>3
    <2>2. \A r \in Servers : r # s => <<r, "tick">> # t
      OBVIOUS
    <2>. QED
      BY <1>2, <2>1, <2>2
  <1>11. \A r \in Servers : Covered(r)'
    BY <1>8, <1>9, Zenon
  <1>. QED
    BY <1>1, <1>2, <1>4, <1>10, <1>11, CalmBefore, Zenon

\* A forced pull starts to ask, or finds the token taken.
LEMMA CalmForced ==
  ASSUME Values, CalmInv, NEW s \in Servers, ForcePull(s)
  PROVE  CalmInv'
  <1> DEFINE t == <<s, "papi">>
  <1>1. t \in Threads /\ pc[t] = "idle"
    BY ThreadsOf DEF ForcePull
  <1>2. PICK p \in {"idle", "expire"} : pc' = [pc EXCEPT ![t] = p]
    <2>1. [pc EXCEPT ![t] = "idle"] = pc
      BY <1>1 DEF Values
    <2>. QED
      BY <2>1, Zenon DEF ForcePull, Enter
  <1>3. UNCHANGED <<up, timer, lock, alertAge, pulledAge>> /\ ~Asking(t)
    BY <1>1 DEF ForcePull, Asking
  <1>4. \A r \in Servers : Covered(r)'
    BY <1>1, <1>2, <1>3, CoveredStays, Zenon
  <1>5. \A r \in Servers : <<r, "tick">> # t
    OBVIOUS
  <1>. QED
    BY <1>1, <1>2, <1>3, <1>4, <1>5, CalmBefore, Zenon

\* CAPIPullIsOld lets a pull ask, or ends one that did not ask.
LEMMA CalmCheck ==
  ASSUME Values, CalmInv, NEW t \in Threads, CheckOld(t), happened' = {}
  PROVE  CalmInv'
  <1>1. pc[t] = "check" /\ UNCHANGED <<up, lock, alertAge, pulledAge>>
    BY DEF CheckOld
  <1>2. CASE ~CAPIPullIsOld /\ Return(t)
    BY <1>1, <1>2, CalmReturn DEF Asking
  <1>3. CASE pc' = [pc EXCEPT ![t] = "expire"] /\ timer' = timer
    <2>1. pc'[t] = "expire"
      BY <1>3, OneMoves, Zenon
    <2>2. Asking(t)'
      BY <2>1 DEF Asking
    <2>3. \A r \in Servers : Covered(r)'
      BY <1>1, <1>3, <2>2, CoveredStays, Zenon
    <2>. QED
      BY <1>1, <1>3, <2>3, CalmBefore, Zenon
  <1>. QED
    BY <1>2, <1>3 DEF CheckOld, LeaveUnlocked, Fault, Note

\* ReleaseLockWithTimeout finds no lock to remove.
LEMMA CalmStale ==
  ASSUME Values, LockInv, CalmInv, NEW t \in Threads, ReleaseStale(t), happened' = {}
  PROVE  CalmInv'
  <1>1. pc[t] = "expire" /\ pc' = [pc EXCEPT ![t] = "insert"]
        /\ UNCHANGED <<up, timer, alertAge, pulledAge>>
    BY DEF ReleaseStale
  <1>2. lock' = lock
    <2>1. lock # NoLock => lock.age <= LockTimeout
      BY DEF CalmInv, LockInv, PullHoldsLock, Values
    <2>2. lock.age \in Nat /\ LockTimeout \in Nat
      BY Bounds DEF Values, LockTable
    <2>. QED
      BY <2>1, <2>2 DEF ReleaseStale, WithoutStaleLock
  <1>3. pc'[t] = "insert"
    BY <1>1, OneMoves, Zenon
  <1>4. Asking(t)'
    BY <1>3 DEF Asking
  <1>5. \A r \in Servers : Covered(r)'
    BY <1>1, <1>4, CoveredStays, Zenon
  <1>. QED
    BY <1>1, <1>2, <1>5, CalmBefore, Zenon

\* Inserting the lock: the pull that gets it asks, the pull that does not is
\* covered by the one that has it.
LEMMA CalmAcquire ==
  ASSUME Values, LockInv, CalmInv, NEW t \in Threads, AcquireLock(t), happened' = {}
  PROVE  CalmInv'
  <1>1. pc[t] = "insert" /\ UNCHANGED <<up, alertAge, pulledAge>>
    BY DEF AcquireLock
  <1>2. CASE lock # NoLock
    <2>1. Return(t) /\ lock' = lock
      BY <1>2 DEF AcquireLock, LeaveUnlocked, Fault, Note
    <2>2. \A u \in Threads : u # t => pc'[u] = pc[u]
      BY <2>1 DEF Values, Return
    <2>3. PICK u \in Threads : u = lock.by /\ InPull(u) /\ lock.age <= LockTimeout
      BY <1>2 DEF CalmInv, Values, LockInv, PullHoldsLock
    <2>4. u # t
      BY <1>1, <2>3 DEF InPull
    <2>5. CASE pc[u] = "stream"
      <3>1. Asked'
        BY <2>2, <2>4, <2>5 DEF Asked, Asking
      <3>. QED
        BY <1>1, <2>1, <3>1, CalmReturn
    <2>6. CASE pc[u] \in {"save", "release"}
      <3>1. pulledAge <= lock.age /\ lock.age \in Nat /\ pulledAge \in Nat /\ LockTimeout \in Nat
        BY <2>6, Bounds DEF CalmInv, Values, LockTable
      <3>2. pulledAge <= LockTimeout
        BY <2>3, <3>1
      <3>. QED
        BY <1>1, <2>1, <3>2, CalmReturn
    <2>. QED
      BY <2>3, <2>5, <2>6 DEF InPull, CalmInv
  <1>3. CASE lock = NoLock
    <2>1. pc' = [pc EXCEPT ![t] = "stream"] /\ lock' = [by |-> t, age |-> 0] /\ timer' = timer
      BY <1>3 DEF AcquireLock, Fault, Note
    <2>2. pc'[t] = "stream" /\ \A u \in Threads : u # t => pc'[u] = pc[u]
      BY <2>1, OneMoves, Zenon
    <2>3. \A u \in Threads : ~InPull(u)
      BY <1>3, NobodyIsNoThread DEF LockInv, PullHoldsLock, NoLock
    <2>4. pulledAge <= Settled
      BY <2>3 DEF CalmInv, InPull
    <2>5. Asked' /\ InPull(t)'
      BY <2>2 DEF Asked, Asking, InPull
    <2>6. \A u \in Threads : pc'[u] \notin {"panic", "save", "release"}
      BY <2>2, <2>3 DEF InPull
    <2>7. \A s \in Servers : timer[s] = NoTicker => FirstPulls(s)'
      BY <1>1, <2>2, ThreadsOf DEF CalmInv, FirstPulls
    <2>. QED
      BY <1>1, <2>1, <2>4, <2>5, <2>6, <2>7 DEF CalmInv, Covered
  <1>. QED
    BY <1>2, <1>3

\* A first pull that goes on with the lock is still the first.
LEMMA FirstStays ==
  ASSUME Values, CalmInv, NEW t \in Threads, NEW p \in {"save", "release"},
         pc[t] \in {"stream", "save"}, pc' = [pc EXCEPT ![t] = p],
         timer' = timer, pulledAge' \in {0, pulledAge}
  PROVE  \A s \in Servers : timer'[s] = NoTicker => FirstPulls(s)'
  <1>1. pc'[t] = p /\ \A u \in Threads : u # t => pc'[u] = pc[u]
    BY OneMoves, Zenon
  <1>. QED
    BY <1>1, ThreadsOf DEF CalmInv, FirstPulls

\* An answer: nothing is older than it.
LEMMA CalmAnswer ==
  ASSUME Values, LockInv, CalmInv, NEW t \in Threads, GetStream(t), happened' = {}
  PROVE  CalmInv'
  <1>1. /\ pc[t] = "stream" /\ pc' = [pc EXCEPT ![t] = "save"] /\ pulledAge' = 0
        /\ UNCHANGED <<up, timer, lock, alertAge>>
    BY DEF GetStream, Fault, Note
  <1>2. pc'[t] = "save" /\ \A u \in Threads : u # t => pc'[u] = pc[u]
    BY <1>1, OneMoves, Zenon
  <1>3. \A u \in Threads : InPull(u)' <=> InPull(u)
    BY <1>1, <1>2 DEF InPull
  <1>4. lock' # NoLock => InPull(lock.by)'
    BY <1>1, <1>3 DEF CalmInv, Values
  <1>5. \A u \in Threads : pc'[u] # "panic"
    BY <1>2 DEF CalmInv
  <1>6. LockTimeout \in Nat /\ OldAfter \in Nat \ {0} /\ PullInterval \in Nat
        /\ lock.age \in Nat /\ alertAge \in Nat
    BY Bounds DEF Values, LockTable
  <1>7. 0 <= Settled /\ \A s \in Servers : timer[s] = NoTicker \/ timer[s] + 0 <= Settled
    BY <1>6, Ticking DEF Settled
  <1>8. \A s \in Servers : timer'[s] = NoTicker => FirstPulls(s)'
    BY <1>1, FirstStays, Zenon
  <1>. QED
    BY <1>1, <1>4, <1>5, <1>6, <1>7, <1>8 DEF CalmInv, Covered

\* The end of a pull: its alert, if it saves one, is younger than its lock.
LEMMA CalmSave ==
  ASSUME Values, LockInv, CalmInv, NEW t \in Threads, SavePull(t), happened' = {}
  PROVE  CalmInv'
  <1>1. /\ pc[t] = "save" /\ pc' = [pc EXCEPT ![t] = "release"]
        /\ alertAge' \in {0, alertAge} /\ UNCHANGED <<up, timer, lock, pulledAge>>
    BY DEF SavePull, Fault, Note
  <1>2. pc'[t] = "release" /\ \A u \in Threads : u # t => pc'[u] = pc[u]
    BY <1>1, OneMoves, Zenon
  <1>3. \A u \in Threads : InPull(u)' <=> InPull(u)
    BY <1>1, <1>2 DEF InPull
  <1>4. lock' # NoLock => InPull(lock.by)'
    BY <1>1, <1>3 DEF CalmInv, Values
  <1>5. /\ \A u \in Threads : pc'[u] # "panic"
        /\ \A s \in Servers : timer'[s] = NoTicker => FirstPulls(s)'
    BY <1>1, <1>2, FirstStays, Zenon DEF CalmInv
  <1>6. pulledAge <= lock.age /\ lock.age <= LockTimeout /\ InPull(t)
    BY <1>1 DEF CalmInv, LockInv, PullHoldsLock, InPull
  <1>7. LockTimeout \in Nat /\ OldAfter \in Nat /\ PullInterval \in Nat
        /\ lock.age \in Nat /\ pulledAge \in Nat /\ alertAge \in Nat
    BY Bounds DEF Values, LockTable
  <1>8. pulledAge <= LockTimeout /\ pulledAge <= Settled
    BY <1>6, <1>7 DEF Settled
  <1>9. \A u \in Threads : pc'[u] \in {"save", "release"} => pulledAge <= lock.age
    BY <1>6
  <1>10. alertAge' <= OldAfter => pulledAge <= alertAge' + LockTimeout
    <2>1. alertAge' \in Nat
      BY <1>1, <1>7
    <2>2. pulledAge <= LockTimeout
      BY <1>8
    <2>3. \A a \in Nat : pulledAge <= a + LockTimeout
      BY <1>7, <2>2
    <2>. QED
      BY <2>1, <2>3
  <1>11. \A s \in Servers : timer[s] = NoTicker \/ timer[s] + pulledAge <= Settled
    BY <1>8, Ticking, ShortGap
  <1>12. \A s \in Servers : Covered(s)'
    BY <1>1, <1>11 DEF Covered
  <1>. QED
    BY <1>1, <1>4, <1>5, <1>8, <1>9, <1>10, <1>12 DEF CalmInv

\* The lock goes with the pull that held it.
LEMMA CalmRelease ==
  ASSUME Values, LockInv, CalmInv, NEW t \in Threads, ReleaseLock(t), happened' = {}
  PROVE  CalmInv'
  <1>1. /\ pc[t] = "release" /\ Return(t) /\ lock' = NoLock
        /\ UNCHANGED <<up, alertAge, pulledAge>>
    BY DEF ReleaseLock, RemoveLock, LeaveUnlocked, Fault, Note
  <1>2. pc'[t] = "idle" /\ \A u \in Threads : u # t => pc'[u] = pc[u]
    BY <1>1 DEF Values, Return
  <1>3. \A u \in Threads : ~InPull(u)'
    BY <1>1, <1>2 DEF LockInv, PullHoldsLock, InPull
  <1>4. \A u \in Threads : pc'[u] \notin {"panic", "save", "release"}
    BY <1>3, Zenon DEF InPull
  <1>5. \A s \in Servers : timer'[s] = NoTicker => FirstPulls(s)'
    <2>1. \A s \in Servers : timer'[s] = NoTicker => timer[s] = NoTicker /\ <<s, "tick">> # t
      BY <1>1, Returned
    <2>. QED
      BY <1>1, <1>2, <2>1, ThreadsOf, Zenon DEF CalmInv, FirstPulls
  <1>6. pulledAge <= LockTimeout /\ pulledAge <= Settled
    <2>1. pulledAge <= lock.age /\ lock.age <= LockTimeout
      BY <1>1 DEF CalmInv, LockInv, PullHoldsLock, InPull
    <2>2. LockTimeout \in Nat /\ OldAfter \in Nat /\ PullInterval \in Nat
          /\ lock.age \in Nat /\ pulledAge \in Nat
      BY Bounds DEF Values, LockTable
    <2>. QED
      BY <2>1, <2>2 DEF Settled
  <1>7. \A s \in Servers : timer'[s] = NoTicker \/ timer'[s] \in 0..PullInterval + 1
    BY <1>1, Returned, Ticking
  <1>8. \A s \in Servers : Covered(s)'
    BY <1>1, <1>6, <1>7, ShortGap DEF Covered
  <1>. QED
    BY <1>1, <1>4, <1>5, <1>6, <1>8 DEF CalmInv

\* The clock: only a pull that waits for its answer lets the gap grow past
\* Settled, and its lock grows old with it.
LEMMA CalmClock ==
  ASSUME Values, Tokens, LockInv, CalmInv, Tick, happened' = {}
  PROVE  CalmInv'
  <1>1. /\ \A t \in Threads : ~BeforeLock(t) /\ pc[t] # "boot" /\ ~Overdue(t)
        /\ UNCHANGED <<up, pc, pulling>>
    BY DEF Tick, Note
  <1>2. LockTimeout \in Nat /\ OldAfter \in Nat \ {0} /\ PullInterval \in Nat
        /\ lock.age \in Nat /\ pulledAge \in Nat /\ alertAge \in Nat
        /\ \A s \in Servers : timer[s] \in Nat
    BY Bounds DEF Values, LockTable
  <1>3. /\ pulledAge' \in Nat /\ pulledAge' <= pulledAge + 1
        /\ alertAge' = IF alertAge < OldAfter + 1 THEN alertAge + 1 ELSE alertAge
    BY <1>2 DEF Tick, Older
  <1>4. ASSUME NEW t \in Threads, InPull(t)
        PROVE  lock.age < LockTimeout /\ lock'.age = lock.age + 1
    <2>1. lock.by = t /\ lock.age < LockTimeout
      BY <1>1, <1>4 DEF Overdue
    <2>2. lock # NoLock
      BY <2>1, NobodyIsNoThread DEF NoLock
    <2>3. lock' = [lock EXCEPT !.age = Older(lock.age, LockTimeout + 1)]
      BY <2>2 DEF Tick
    <2>4. lock'.age = Older(lock.age, LockTimeout + 1)
      BY <2>3 DEF Values, LockTable
    <2>. QED
      BY <1>2, <2>1, <2>4 DEF Older
  <1>5. lock' # NoLock => InPull(lock.by)'
    <2>1. lock' # NoLock => lock # NoLock /\ lock'.by = lock.by
      BY DEF Tick, Values, LockTable
    <2>. QED
      BY <1>1, <2>1 DEF CalmInv, InPull
  <1>6. \A t \in Threads : pc'[t] \in {"save", "release"} => pulledAge' <= lock'.age
    BY <1>1, <1>2, <1>3, <1>4 DEF CalmInv, InPull
  <1>7. alertAge' <= OldAfter => pulledAge' <= alertAge' + LockTimeout
    <2>1. alertAge' <= OldAfter => alertAge <= OldAfter /\ alertAge' = alertAge + 1
      BY <1>2, <1>3
    <2>. QED
      BY <1>2, <1>3, <2>1 DEF CalmInv
  <1>10. \A s \in Servers : /\ timer'[s] = NoTicker <=> timer[s] = NoTicker
                            /\ timer'[s] = NoTicker => FirstPulls(s)'
    <2>1. \A s \in Servers : timer'[s] = NoTicker <=> timer[s] = NoTicker
      BY Bounds, Ticking DEF Tick, NoTicker
    <2>2. \A s \in Servers : timer[s] = NoTicker => FirstPulls(s)'
      BY <1>1, ThreadsOf, Zenon DEF CalmInv, FirstPulls, BeforeLock
    <2>. QED
      BY <2>1, <2>2
  <1>8. CASE \E t \in Threads : pc[t] = "stream"
    <2>1. PICK t \in Threads : pc[t] = "stream"
      BY <1>8
    <2>2. lock'.age = lock.age + 1
      BY <1>4, <2>1 DEF InPull
    <2>3. pulledAge <= Settled + lock.age /\ Settled \in Nat
      BY <1>2 DEF CalmInv, Settled
    <2>4. pc'[t] = "stream" /\ pulledAge' <= Settled + lock'.age
      BY <1>1, <1>2, <1>3, <2>1, <2>2, <2>3
    <2>5. Asked'
      BY <2>4 DEF Asked, Asking
    <2>. QED
      BY <1>1, <1>5, <1>6, <1>7, <1>10, <2>4, <2>5 DEF CalmInv, Covered
  <1>9. CASE \A t \in Threads : pc[t] # "stream"
    <2>1. ~Asked
      BY <1>1, <1>9 DEF Asked, Asking, BeforeLock
    <2>2. ASSUME NEW s \in Servers, <<s, "tick">> \in Threads,
                 pc[<<s, "tick">>] \in {"save", "release"}
          PROVE  pulledAge' <= LockTimeout
      <3>1. pulledAge <= lock.age /\ lock.age < LockTimeout
        BY <1>4, <2>2 DEF CalmInv, InPull
      <3>. QED
        BY <1>2, <1>3, <3>1
    <2>5. \A g \in Nat : g <= LockTimeout => g <= Settled /\ 0 + g <= Settled
      BY <1>2 DEF Settled
    <2>3. ASSUME NEW s \in Servers
          PROVE  /\ pulledAge' <= Settled
                 /\ timer'[s] = NoTicker \/ timer'[s] + pulledAge' <= Settled
      <3> DEFINE t == <<s, "tick">>
      <3>1. t \in Threads /\ Server(t) = s /\ s \in up
        BY ThreadsOf DEF CalmInv
      <3>2. CASE timer[s] = NoTicker
        <4>1. pc[t] \in {"save", "release"}
          BY <1>1, <1>9, <3>1, <3>2 DEF CalmInv, FirstPulls, BeforeLock
        <4>2. pulledAge' <= LockTimeout
          BY <2>2, <3>1, <4>1
        <4>. QED
          BY <1>2, <1>3, <1>10, <3>2, <4>2 DEF Settled
      <3>3. CASE timer[s] \in 1..PullInterval + 1
        <4>1. timer'[s] = timer[s] - 1
          BY <3>3 DEF Tick
        <4>2. timer[s] # NoTicker
          BY <1>2, <3>3 DEF NoTicker
        <4>3. timer[s] + pulledAge <= Settled
          BY <2>1, <4>2 DEF CalmInv, Covered
        <4>. QED
          BY <1>2, <1>3, <3>3, <4>1, <4>3 DEF Settled
      <3>4. CASE timer[s] = 0
        <4>1. pc[t] # "idle" /\ pc[t] # "down"
          BY <3>1, <3>4 DEF Tick, Tokens
        <4>2. pc[t] \in {"save", "release"}
          BY <1>1, <1>9, <3>1, <4>1 DEF Values, Places, BeforeLock, CalmInv
        <4>3. pulledAge' <= LockTimeout
          BY <2>2, <3>1, <4>2
        <4>4. timer'[s] = 0
          BY <3>4 DEF Tick
        <4>5. pulledAge' <= Settled /\ 0 + pulledAge' <= Settled
          BY <1>3, <2>5, <4>3, Zenon
        <4>. QED
          BY <4>4, <4>5, Zenon
      <3>. QED
        BY <1>2, <3>2, <3>3, <3>4, Ticking
    <2>4. pulledAge' <= Settled
      BY <2>3, Bounds
    <2>. QED
      BY <1>1, <1>5, <1>6, <1>7, <1>10, <2>3, <2>4 DEF CalmInv, Covered
  <1>. QED
    BY <1>8, <1>9

\* While nothing fails, CalmInv is inductive relative to the types, the token
\* and the lock.
LEMMA CalmNext ==
  ASSUME Values, Tokens, LockInv, CalmInv, [Next]_vars, happened' = {}
  PROVE  CalmInv'
  <1>1. CASE UNCHANGED vars
    BY <1>1 DEF vars, CalmInv, Covered, FirstPulls, Asked, Asking, CAPIPullIsOld, InPull
  <1>2. CASE \E s \in Servers : Start(s) \/ Crash(s)
    BY <1>2 DEF Start, Crash, CalmInv, Fault, Note
  <1>3. CASE \E t \in Threads : Panic(t)
    BY <1>3 DEF Panic, CalmInv
  <1>. QED
    BY <1>1, <1>2, <1>3, CalmFirst, CalmTick, CalmForced, CalmCheck, CalmStale, CalmAcquire,
       CalmAnswer, CalmSave, CalmRelease, CalmClock DEF Next, Step

\* While every process is up and no call fails, the ticker, the check for a
\* recent alert and the lock leave no gap between two answers longer than
\* OldAfter + PullInterval + 2 * LockTimeout, with any number of servers.
THEOREM GapBoundedHolds == Spec => []GapBounded
  <1> DEFINE Calm == happened = {} => LockInv /\ CalmInv
  <1>1. Init => Calm
    <2> SUFFICES ASSUME Init PROVE LockInv /\ CalmInv
      OBVIOUS
    <2>1. \A t \in Threads : pc[t] = Booted(t)
      BY DEF Init
    <2>2. \A s \in Servers : pc[<<s, "tick">>] = "boot"
      BY <2>1, ThreadsOf, Zenon DEF Booted
    <2>3. LockTimeout \in Nat /\ OldAfter \in Nat /\ PullInterval \in Nat
      BY Bounds
    <2>. QED
      BY <2>1, <2>2, <2>3, InitLockInv DEF Init, Booted, CalmInv, Covered, FirstPulls, Settled
  <1>2. Values /\ Tokens /\ Calm /\ [Next]_vars => Calm'
    <2> SUFFICES ASSUME Values, Tokens, Calm, [Next]_vars, happened' = {}
                 PROVE  LockInv' /\ CalmInv'
      OBVIOUS
    <2>1. happened = {} /\ InTime'
      BY Remembered DEF InTime
    <2>. QED
      BY <2>1, NextLockInv, CalmNext
  <1>3. Values /\ Calm => GapBounded
    <2> SUFFICES ASSUME Values, LockInv, CalmInv
                 PROVE  pulledAge <= OldAfter + PullInterval + 2 * LockTimeout
      BY DEF GapBounded
    <2>1. LockTimeout \in Nat /\ OldAfter \in Nat /\ PullInterval \in Nat
          /\ lock.age \in Nat /\ pulledAge \in Nat
      BY Bounds DEF Values, LockTable
    <2>2. (\E t \in Threads : pc[t] = "stream") => lock.age <= LockTimeout
      BY DEF LockInv, PullHoldsLock, InPull
    <2>3. pulledAge <= Settled \/ (pulledAge <= Settled + lock.age /\ lock.age <= LockTimeout)
      BY <2>2 DEF CalmInv
    <2>. QED
      BY <2>1, <2>3 DEF Settled
  <1>. QED
    BY <1>1, <1>2, <1>3, TokenInvariant, PTL DEF Spec

=============================================================================
