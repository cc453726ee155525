-------------------------- MODULE C11ThreadsProofs --------------------------
(***************************************************************************)
(* Theorems about C11Threads, for any number of threads, programs,         *)
(* deadlines and spurious wake-ups.                                        *)
(***************************************************************************)
EXTENDS C11Threads, TLAPS

Labels == Creating \cup Starting \cup Elsewhere
Spawns == [child : Threads \cup {None}, consumed : BOOLEAN, srw : Threads \cup {None}]

\* What thrd_create and the trampoline work on is of the right kind.
SpawnTyped ==
  /\ pc \in [Threads -> Labels]
  /\ spawn \in [Threads -> Spawns]
  /\ maker \in [Threads -> Threads \cup {None}]
  /\ arg \in [Threads -> Threads \cup {None}]

\* While the trampoline of c looks at its Spawn, the thread that made it is
\* inside thrd_create, for c and before it has seen that c is done; and while
\* the trampoline holds the lock, nobody else does.
InHandshake(c) ==
  pc[c] \in Starting =>
    /\ maker[c] \in Threads
    /\ spawn[maker[c]].child = c
    /\ pc[maker[c]] \in {"acquire", "test", "asleep"}
    /\ spawn[maker[c]].consumed => pc[c] \in {"wake", "release"}
    /\ pc[c] \in {"consume", "wake", "release"} => spawn[maker[c]].srw = c

TestsLocked(t) == pc[t] = "test" => spawn[t].srw = t

HasArgument(c) == pc[c] \notin {"unborn", "born"} => arg[c] = c

Handshake ==
  /\ SpawnTyped
  /\ \A t \in Threads : InHandshake(t) /\ TestsLocked(t) /\ HasArgument(t)

-----------------------------------------------------------------------------
(***************************************************************************)
(* What a thread does outside the handshake leaves the handshake alone.    *)
(***************************************************************************)
Busy == Elsewhere \ {"unborn"}

LEMMA OthersKeep ==
  ASSUME Handshake, UNCHANGED spawnVars, pc' \in [Threads -> Labels],
         \A t \in Threads : pc'[t] = pc[t] \/ (pc[t] \in Busy /\ pc'[t] \in Busy)
  PROVE  Handshake'
<1>1. SpawnTyped'
  BY DEF Handshake, SpawnTyped, spawnVars
<1>2. ASSUME NEW t \in Threads
      PROVE  InHandshake(t)' /\ TestsLocked(t)' /\ HasArgument(t)'
  <2>1. InHandshake(t) /\ TestsLocked(t) /\ HasArgument(t)
    BY DEF Handshake
  <2>2. InHandshake(t)'
    <3>1. CASE pc'[t] = pc[t]
      BY <2>1, <3>1 DEF InHandshake, Starting, Busy, Elsewhere, spawnVars
    <3>2. CASE pc'[t] \in Busy
      BY <3>2 DEF InHandshake, Starting, Busy, Elsewhere
    <3> QED
      BY <3>1, <3>2
  <2>3. TestsLocked(t)'
    BY <2>1 DEF TestsLocked, Busy, Elsewhere, spawnVars
  <2>4. HasArgument(t)'
    BY <2>1 DEF HasArgument, Busy, Elsewhere, spawnVars
  <2> QED
    BY <2>2, <2>3, <2>4
<1> QED
  BY <1>1, <1>2 DEF Handshake

(***************************************************************************)
(* The beginning: nobody creates a thread.                                 *)
(***************************************************************************)
LEMMA HandshakeInit == Init => Handshake
BY ThreadsAreThreads DEF Init, Handshake, SpawnTyped, Spawns, NoSpawn, Labels, Elsewhere,
   Creating, Starting, InHandshake, TestsLocked, HasArgument, Begun

(***************************************************************************)
(* A new thread is one that nobody has started, and its maker is inside no  *)
(* other call.                                                             *)
(***************************************************************************)
LEMMA CreateKeeps ==
  ASSUME Handshake, NEW t \in Threads, NEW c \in Threads, CreateThread(t, c)
  PROVE  Handshake'
<1>1. pc[t] = "run" /\ pc[c] = "unborn" /\ t # c
  BY DEF CreateThread, Calls, At
<1>2. SpawnTyped'
  BY <1>1 DEF Handshake, SpawnTyped, CreateThread, Labels, Creating, Starting, Spawns
<1>3. ASSUME NEW u \in Threads
      PROVE  InHandshake(u)' /\ TestsLocked(u)' /\ HasArgument(u)'
  <2>1. InHandshake(u) /\ TestsLocked(u) /\ HasArgument(u)
    BY DEF Handshake
  <2> QED
    BY <1>1, <2>1 DEF Handshake, SpawnTyped, Spawns, CreateThread, InHandshake, TestsLocked,
       HasArgument, Starting
<1> QED
  BY <1>2, <1>3 DEF Handshake

-----------------------------------------------------------------------------
(***************************************************************************)
(* The steps of thrd_create.  Only a creator that holds the lock leaves,   *)
(* and then the trampoline is past its last look at the Spawn.             *)
(***************************************************************************)
LEMMA CreatorKeeps ==
  ASSUME Handshake, NEW t \in Threads, Creator(t)
  PROVE  Handshake'
<1>1. SpawnTyped'
  <2> USE DEF At, Goto, Labels, Creating, Elsewhere
  <2>1. spawn[t] \in Spawns /\ SpawnTyped
    BY DEF Handshake, SpawnTyped
  <2>2. CASE Acquire(t)
    BY <2>1, <2>2 DEF SpawnTyped, Spawns, Acquire
  <2>3. CASE Sleep(t)
    BY <2>1, <2>3 DEF SpawnTyped, Spawns, Sleep
  <2>4. CASE Release(t)
    BY <2>1, <2>4 DEF SpawnTyped, Spawns, Release
  <2>5. CASE Leave(t)
    BY <2>1, <2>5 DEF SpawnTyped, Spawns, Leave, NoSpawn
  <2> QED
    BY <2>2, <2>3, <2>4, <2>5 DEF Creator
<1>2. ASSUME NEW u \in Threads
      PROVE  InHandshake(u)' /\ TestsLocked(u)' /\ HasArgument(u)'
  <2>1. /\ InHandshake(u) /\ TestsLocked(u) /\ HasArgument(u)
        /\ InHandshake(t) /\ TestsLocked(t) /\ HasArgument(t)
    BY DEF Handshake
  <2>2. CASE Acquire(t)
    BY <2>1, <2>2, ThreadsAreThreads DEF Handshake, SpawnTyped, Spawns, Acquire, At, Goto,
       InHandshake, TestsLocked, HasArgument, Starting
  <2>3. CASE Sleep(t)
    BY <2>1, <2>3, ThreadsAreThreads DEF Handshake, SpawnTyped, Spawns, Sleep, At, Goto,
       InHandshake, TestsLocked, HasArgument, Starting
  <2>4. CASE Release(t)
    BY <2>1, <2>4, ThreadsAreThreads DEF Handshake, SpawnTyped, Spawns, Release, At, Goto,
       InHandshake, TestsLocked, HasArgument, Starting
  <2>5. CASE Leave(t)
    BY <2>1, <2>5, ThreadsAreThreads DEF Handshake, SpawnTyped, Spawns, Leave, At, Goto,
       NoSpawn, InHandshake, TestsLocked, HasArgument, Starting
  <2> QED
    BY <2>2, <2>3, <2>4, <2>5 DEF Creator
<1> QED
  BY <1>1, <1>2 DEF Handshake

(***************************************************************************)
(* The steps of the trampoline.                                            *)
(***************************************************************************)
LEMMA TrampolineKeeps ==
  ASSUME Handshake, NEW c \in Threads, Trampoline(c)
  PROVE  Handshake'
<1> DEFINE m == maker[c]
<1>1. /\ pc[c] \in Starting /\ InHandshake(c) /\ m \in Threads /\ m # c
      /\ spawn[m].child = c
  BY DEF Handshake, Trampoline, ReadSpawn, Enter, Consume, Wake, Start, At, InHandshake, Starting
<1>2. SpawnTyped'
  <2> USE DEF At, Goto, Labels, Creating, Starting, Elsewhere
  <2>1. spawn[m] \in Spawns /\ SpawnTyped
    BY <1>1 DEF Handshake, SpawnTyped
  <2>2. CASE ReadSpawn(c)
    BY <1>1, <2>1, <2>2 DEF SpawnTyped, Spawns, ReadSpawn
  <2>3. CASE Enter(c)
    BY <1>1, <2>1, <2>3 DEF SpawnTyped, Spawns, Enter
  <2>4. CASE Consume(c)
    BY <1>1, <2>1, <2>4 DEF SpawnTyped, Spawns, Consume
  <2>5. CASE Wake(c)
    BY <1>1, <2>1, <2>5 DEF SpawnTyped, Wake, spawnVars
  <2>6. CASE Start(c)
    BY <1>1, <2>1, <2>6 DEF SpawnTyped, Spawns, Start
  <2> QED
    BY <2>2, <2>3, <2>4, <2>5, <2>6 DEF Trampoline
<1>3. ASSUME NEW u \in Threads
      PROVE  InHandshake(u)' /\ TestsLocked(u)' /\ HasArgument(u)'
  <2>1. /\ InHandshake(u) /\ TestsLocked(u) /\ HasArgument(u) /\ TestsLocked(m)
        /\ HasArgument(c)
    BY <1>1 DEF Handshake
  <2>2. CASE ReadSpawn(c)
    BY <1>1, <2>1, <2>2, ThreadsAreThreads DEF Handshake, SpawnTyped, Spawns, ReadSpawn, At,
       Goto, InHandshake, TestsLocked, HasArgument, Starting
  <2>3. CASE Enter(c)
    BY <1>1, <2>1, <2>3, ThreadsAreThreads DEF Handshake, SpawnTyped, Spawns, Enter, At,
       Goto, InHandshake, TestsLocked, HasArgument, Starting
  <2>4. CASE Consume(c)
    BY <1>1, <2>1, <2>4, ThreadsAreThreads DEF Handshake, SpawnTyped, Spawns, Consume, At,
       Goto, InHandshake, TestsLocked, HasArgument, Starting
  <2>5. CASE Wake(c)
    BY <1>1, <2>1, <2>5, ThreadsAreThreads DEF Handshake, SpawnTyped, Spawns, Wake, At,
       Goto, InHandshake, TestsLocked, HasArgument, Starting, spawnVars
  <2>6. CASE Start(c)
    BY <1>1, <2>1, <2>6, ThreadsAreThreads DEF Handshake, SpawnTyped, Spawns, Start, At,
       Goto, InHandshake, TestsLocked, HasArgument, Starting
  <2> QED
    BY <2>2, <2>3, <2>4, <2>5, <2>6 DEF Trampoline
<1> QED
  BY <1>2, <1>3 DEF Handshake

-----------------------------------------------------------------------------
(***************************************************************************)
(* A wake-up nobody asked for sends a creator back to test what it waits   *)
(* for.                                                                    *)
(***************************************************************************)
LEMMA SpuriousKeeps ==
  ASSUME Handshake, NEW t \in Threads, SpuriousWake(t)
  PROVE  Handshake'
<1>1. SpawnTyped'
  BY DEF Handshake, SpawnTyped, SpuriousWake, At, Goto, Labels, Creating, spawnVars
<1>2. ASSUME NEW u \in Threads
      PROVE  InHandshake(u)' /\ TestsLocked(u)' /\ HasArgument(u)'
  <2>1. InHandshake(u) /\ TestsLocked(u) /\ HasArgument(u) /\ HasArgument(t)
    BY DEF Handshake
  <2> QED
    BY <2>1 DEF Handshake, SpawnTyped, SpuriousWake, At, Goto, spawnVars,
       InHandshake, TestsLocked, HasArgument, Starting
<1> QED
  BY <1>1, <1>2 DEF Handshake

(***************************************************************************)
(* All other calls are made by threads that run, on what is not a Spawn.   *)
(***************************************************************************)
LEMMA CallsKeep ==
  ASSUME Handshake, NEW t \in Threads, Live(t) \/ Synchronise(t)
  PROVE  Handshake'
<1> USE DEF At, Goto, Calls, Labels, Elsewhere, Busy, Handshake, SpawnTyped
<1>1. UNCHANGED spawnVars
  BY DEF Live, Exit, Detach, Join, Joined, Synchronise, Lock, Locked, TryLock, Unlock, Wait,
     Measure, TimedWait, Sleeping, Signal, Broadcast, SpuriousReturn, Woken, Expire, CallOnce,
     OnceReturns, TssSet, TssDelete
<1>2. CASE Live(t)
  BY <1>1, <1>2, OthersKeep DEF Live, Exit, Detach, Join, Joined
<1>3. ASSUME NEW woken \in SUBSET Waiting, Woken(woken) PROVE Handshake'
  BY <1>1, <1>3, OthersKeep DEF Woken, Waiting
<1>4. CASE Signal(t) \/ Broadcast(t) \/ SpuriousReturn(t)
  BY <1>3, <1>4 DEF Signal, Broadcast, SpuriousReturn, Waiting
<1>5. CASE Lock(t) \/ Locked(t) \/ TryLock(t) \/ Unlock(t)
  BY <1>1, <1>5, OthersKeep DEF Lock, Locked, TryLock, Unlock
<1>6. CASE Wait(t) \/ (\E d \in Deadlines : Measure(t, d)) \/ TimedWait(t) \/ Expire(t)
  BY <1>1, <1>6, OthersKeep DEF Wait, Measure, TimedWait, Sleeping, Expire, Due
<1>7. CASE CallOnce(t) \/ TssSet(t) \/ TssDelete(t)
  BY <1>1, <1>7, OthersKeep DEF CallOnce, TssSet, TssDelete
<1>8. CASE OnceReturns(t)
  BY <1>1, <1>8, OthersKeep DEF OnceReturns
<1> QED
  BY <1>2, <1>4, <1>5, <1>6, <1>7, <1>8 DEF Synchronise

LEMMA HandshakeStep == Handshake /\ [Next]_vars => Handshake'
<1> SUFFICES ASSUME Handshake, [Next]_vars
             PROVE  Handshake'
  OBVIOUS
<1>1. ASSUME UNCHANGED <<spawnVars, pc>> PROVE Handshake'
  BY <1>1, OthersKeep DEF Handshake, SpawnTyped
<1>2. CASE Tick
  BY <1>1, <1>2 DEF Tick
<1>3. CASE UNCHANGED vars
  BY <1>1, <1>3 DEF vars, spawnVars
<1> QED
  BY <1>2, <1>3, CreateKeeps, CreatorKeeps, TrampolineKeeps, SpuriousKeeps, CallsKeep DEF Next

(***************************************************************************)
(* The handshake of thrd_create and thread_trampoline, in every reachable  *)
(* state.                                                                  *)
(***************************************************************************)
THEOREM HandshakeHolds == Spec => []Handshake
BY HandshakeInit, HandshakeStep, PTL DEF Spec

(***************************************************************************)
(* The Spawn on the stack of thrd_create outlives the trampoline's use of  *)
(* it, and every thread runs with its own function and argument.           *)
(***************************************************************************)
THEOREM SpawnAlwaysOutlivesUse == Spec => []SpawnOutlivesUse
<1>1. Handshake => SpawnOutlivesUse
  BY DEF Handshake, InHandshake, HasArgument, SpawnOutlivesUse
<1> QED
  BY <1>1, HandshakeHolds, PTL

-----------------------------------------------------------------------------
(* Types.  The handshake is typed already; the rest changes in few places.  *)

Waits == [deadline : Nat, until : Nat \cup {Forever}, expired : BOOLEAN]

RestTyped ==
  /\ spurious \in 0 .. MaxSpurious
  /\ handles \subseteq Threads /\ joinable \subseteq Threads
  /\ target \in [Threads -> Threads \cup {None}]
  /\ holder \in Threads \cup {None} /\ now \in Nat
  /\ wait \in [Threads -> Waits]
  /\ program \in Programs
  /\ once \in {"idle", "running", "done"} /\ tss \subseteq Threads

(***************************************************************************)
(* A time-out is a number of milliseconds or none, and what is left after   *)
(* rounding it down is less than one more.                                 *)
(***************************************************************************)
LEMMA TimeoutRoundsDown ==
  ASSUME now \in Nat, NEW deadline \in Nat
  PROVE  /\ Timeout(deadline) \in Nat \cup {Forever}
         /\ Timeout(deadline) # Forever =>
              now + Timeout(deadline) * TicksPerMs + TicksPerMs > deadline
<1> DEFINE ms == (deadline - now) \div TicksPerMs
<1>1. CASE deadline <= now
  BY <1>1, TimesAreCounts DEF Timeout, Forever
<1>2. CASE deadline > now
  <2>1. deadline - now \in Nat /\ TicksPerMs \in Nat \ {0}
    BY <1>2, TimesAreCounts
  <2>2. ms \in Nat /\ ms * TicksPerMs + TicksPerMs > deadline - now
    BY <2>1
  <2>3. Timeout(deadline) = IF deadline > MaxTicks \/ ms > MaxTimeout THEN Forever ELSE ms
    BY <1>2 DEF Timeout
  <2> HIDE DEF ms
  <2>4. ms * TicksPerMs \in Nat
    BY <2>1, <2>2
  <2> QED
    BY <1>2, <2>1, <2>2, <2>3, <2>4 DEF Forever
<1> QED
  BY <1>1, <1>2

(***************************************************************************)
(* Going to sleep, with a time-out or without.                             *)
(***************************************************************************)
LEMMA SleepingKeeps ==
  ASSUME RestTyped, NEW t \in Threads, NEW deadline \in Nat, NEW timeout \in Nat \cup {Forever},
         Sleeping(t, deadline, timeout)
  PROVE  RestTyped'
<1> DEFINE until == IF timeout = Forever THEN Forever ELSE now + timeout * TicksPerMs
<1>1. until \in Nat \cup {Forever}
  BY TimesAreCounts DEF RestTyped, Forever
<1>2. /\ wait' = [wait EXCEPT ![t] = [deadline |-> deadline, expired |-> FALSE, until |-> until]]
      /\ holder' = None
      /\ UNCHANGED <<spurious, handleVars, once, tss, now, program>>
  BY DEF Sleeping
<1> HIDE DEF until
<1> QED
  BY <1>1, <1>2 DEF RestTyped, Waits, handleVars

\* A handle is with one of thrd_create, thrd_join and the program, and with one
\* call of these.
OneHolder(t, v) ==
  LET child == spawn[t].child
      u == target[t]
  IN  /\ child # None =>
           /\ child \notin joinable /\ pc[child] # "unborn"
           /\ target[v] # child /\ (spawn[v].child = child => v = t)
      /\ u # None =>
           u \notin joinable /\ pc[u] # "unborn" /\ (target[v] = u => v = t)

Accounts ==
  /\ HandlesAccounted
  /\ \A t \in Threads :
       /\ (spawn[t].child # None) <=> (pc[t] \in Creating)
       /\ (target[t] # None) <=> (pc[t] = "joining")
       /\ t \in joinable => pc[t] # "unborn"
  /\ \A t, v \in Threads : OneHolder(t, v)

(***************************************************************************)
(* Every step keeps the types.                                             *)
(***************************************************************************)
LEMMA RestStep ==
  ASSUME SpawnTyped, RestTyped, Accounts, [Next]_vars
  PROVE  RestTyped'
<1> USE DEF handleVars, syncVars, spawnVars
<1>1. CASE \E t, c \in Threads : CreateThread(t, c)
  BY <1>1 DEF CreateThread, RestTyped
<1>2. ASSUME NEW t \in Threads, Creator(t) PROVE RestTyped'
  <2>1. CASE Leave(t)
    <3>1. spawn[t].child \in Threads
      BY <2>1 DEF Leave, At, Creating, Accounts, SpawnTyped, Spawns
    <3> QED
      BY <2>1, <3>1 DEF Leave, RestTyped
  <2> QED
    BY <1>2, <2>1 DEF Creator, Acquire, Sleep, Release, RestTyped
<1>3. ASSUME NEW t \in Threads, Trampoline(t) PROVE RestTyped'
  BY <1>3 DEF Trampoline, ReadSpawn, Enter, Consume, Wake, Start, RestTyped
<1>4. ASSUME NEW t \in Threads, SpuriousWake(t) PROVE RestTyped'
  BY <1>4, TimesAreCounts DEF SpuriousWake, RestTyped
<1>5. ASSUME NEW t \in Threads, Live(t) PROVE RestTyped'
  BY <1>5 DEF Live, Exit, Detach, Join, Joined, RestTyped
<1>6. ASSUME NEW t \in Threads, Synchronise(t) PROVE RestTyped'
  <2>1. CASE Lock(t) \/ TryLock(t) \/ Unlock(t) \/ CallOnce(t) \/ OnceReturns(t)
             \/ TssSet(t) \/ TssDelete(t)
    BY <2>1 DEF Lock, TryLock, Unlock, CallOnce, OnceReturns, TssSet, TssDelete, RestTyped
  <2>2. CASE Locked(t)
    BY <2>2 DEF Locked, RestTyped, Waits, Idle
  <2>3. CASE Wait(t)
    BY <2>3, SleepingKeeps DEF Wait
  <2>4. ASSUME NEW d \in Deadlines, Measure(t, d) PROVE RestTyped'
    <3>1. d \in Nat /\ Timeout(d) \in Nat \cup {Forever}
      BY TimesAreCounts, TimeoutRoundsDown DEF RestTyped
    <3> QED
      BY <2>4, <3>1 DEF Measure, RestTyped, Waits
  <2>5. CASE TimedWait(t)
    <3>1. wait[t].deadline \in Nat /\ wait[t].until \in Nat \cup {Forever}
      BY DEF RestTyped, Waits
    <3> QED
      BY <2>5, <3>1, SleepingKeeps DEF TimedWait
  <2>6. ASSUME NEW woken \in SUBSET Threads, Woken(woken), spurious' \in 0 .. MaxSpurious
        PROVE  RestTyped'
    BY <2>6 DEF Woken, RestTyped, Waits, Idle
  <2>7. CASE Signal(t) \/ Broadcast(t) \/ SpuriousReturn(t)
    <3>1. spurious' \in 0 .. MaxSpurious
      BY <2>7, TimesAreCounts DEF Signal, Broadcast, SpuriousReturn, RestTyped
    <3> QED
      BY <2>6, <2>7, <3>1 DEF Signal, Broadcast, SpuriousReturn, Waiting
  <2>8. CASE Expire(t)
    BY <2>8 DEF Expire, RestTyped, Waits
  <2> QED
    BY <1>6, <2>1, <2>2, <2>3, <2>4, <2>5, <2>7, <2>8 DEF Synchronise
<1>7. CASE Tick
  BY <1>7 DEF Tick, RestTyped
<1>8. CASE UNCHANGED vars
  BY <1>8 DEF vars, RestTyped
<1> QED
  BY <1>1, <1>2, <1>3, <1>4, <1>5, <1>6, <1>7, <1>8 DEF Next

-----------------------------------------------------------------------------
(***************************************************************************)
(* Most steps move no handle.                                              *)
(***************************************************************************)
LEMMA OthersAccount ==
  ASSUME Accounts, UNCHANGED handleVars,
         \A t \in Threads : spawn'[t].child = spawn[t].child,
         \A t \in Threads : /\ (pc'[t] \in Creating) <=> (pc[t] \in Creating)
                            /\ (pc'[t] = "joining") <=> (pc[t] = "joining")
                            /\ (pc'[t] = "unborn") => (pc[t] = "unborn"),
         SpawnTyped, RestTyped
  PROVE  Accounts'
<1>1. HandlesAccounted'
  BY DEF Accounts, HandlesAccounted, handleVars
<1>2. ASSUME NEW t \in Threads, NEW v \in Threads PROVE OneHolder(t, v)'
  <2>1. OneHolder(t, v) /\ spawn[t].child \in Threads \cup {None} /\ target[t] \in Threads \cup {None}
    BY DEF Accounts, SpawnTyped, Spawns, RestTyped
  <2> QED
    BY <2>1 DEF OneHolder, handleVars
<1>3. ASSUME NEW t \in Threads
      PROVE  /\ (spawn'[t].child # None) <=> (pc'[t] \in Creating)
             /\ (target'[t] # None) <=> (pc'[t] = "joining")
             /\ t \in joinable' => pc'[t] # "unborn"
  BY DEF Accounts, handleVars
<1> QED
  BY <1>1, <1>2, <1>3 DEF Accounts

(***************************************************************************)
(* A new thread has a new handle, which is with thrd_create.               *)
(***************************************************************************)
LEMMA CreateAccounts ==
  ASSUME Accounts, SpawnTyped, RestTyped,
         NEW t \in Threads, NEW c \in Threads, CreateThread(t, c)
  PROVE  Accounts'
<1> USE ThreadsAreThreads DEF Creating
<1>0. /\ handles' = handles \cup {c} /\ UNCHANGED <<joinable, target>>
      /\ pc[t] = "run" /\ pc[c] = "unborn"
  BY DEF CreateThread, Calls, At
<1>1. spawn[t].child = None /\ target[t] = None /\ t # c /\ c \notin joinable
  BY <1>0 DEF Accounts
<1>2. ASSUME NEW u \in Threads PROVE spawn[u].child # c /\ target[u] # c
  <2>1. OneHolder(u, u)
    BY DEF Accounts
  <2> QED
    BY <1>0, <2>1 DEF OneHolder
<1>3. \A u \in Threads : spawn'[u].child = IF u = t THEN c ELSE spawn[u].child
  BY DEF CreateThread, SpawnTyped
<1>4. \A u \in Threads : pc'[u] = IF u = t THEN "acquire" ELSE IF u = c THEN "born" ELSE pc[u]
  BY <1>1 DEF CreateThread, SpawnTyped
<1>5. HandlesAccounted'
  BY <1>0, <1>1, <1>3 DEF Accounts, HandlesAccounted
<1>6. ASSUME NEW u \in Threads, NEW v \in Threads PROVE OneHolder(u, v)'
  <2>1. OneHolder(u, v) /\ spawn[u].child \in Threads \cup {None} /\ target[u] \in Threads \cup {None}
    BY DEF Accounts, SpawnTyped, Spawns, RestTyped
  <2> QED
    <3>1. CASE u = t
      BY <1>0, <1>1, <1>2, <1>3, <1>4, <2>1, <3>1 DEF OneHolder
    <3>2. CASE u # t
      BY <1>0, <1>1, <1>2, <1>3, <1>4, <2>1, <3>2 DEF OneHolder
    <3> QED
      BY <3>1, <3>2
<1>7. ASSUME NEW u \in Threads
      PROVE  /\ (spawn'[u].child # None) <=> (pc'[u] \in Creating)
             /\ (target'[u] # None) <=> (pc'[u] = "joining")
             /\ u \in joinable' => pc'[u] # "unborn"
  <2>1. /\ (spawn[u].child # None) <=> (pc[u] \in Creating)
        /\ (target[u] # None) <=> (pc[u] = "joining")
        /\ u \in joinable => pc[u] # "unborn"
    BY DEF Accounts
  <2> QED
    BY <1>0, <1>1, <1>3, <1>4, <2>1
<1> QED
  BY <1>5, <1>6, <1>7 DEF Accounts

(***************************************************************************)
(* thrd_create gives the handle to the program.                            *)
(***************************************************************************)
LEMMA LeaveAccounts ==
  ASSUME Accounts, SpawnTyped, RestTyped, NEW t \in Threads, Leave(t)
  PROVE  Accounts'
<1> USE ThreadsAreThreads DEF Leave, At, Goto, Creating
<1> DEFINE c == spawn[t].child
<1>1. c \in Threads /\ c \notin joinable /\ pc[c] # "unborn"
  <2>1. OneHolder(t, t) /\ c # None
    BY DEF Accounts
  <2> QED
    BY <2>1 DEF OneHolder, SpawnTyped, Spawns
<1>2. ASSUME NEW u \in Threads PROVE target[u] # c /\ (spawn[u].child = c => u = t)
  <2>1. OneHolder(t, u)
    BY DEF Accounts
  <2> QED
    BY <1>1, <2>1 DEF OneHolder
<1>3. \A u \in Threads : spawn'[u].child = IF u = t THEN None ELSE spawn[u].child
  BY DEF SpawnTyped, NoSpawn
<1>4. \A u \in Threads : pc'[u] = IF u = t THEN "run" ELSE pc[u]
  BY DEF SpawnTyped
<1> HIDE DEF c
<1>5. joinable' = joinable \cup {c} /\ UNCHANGED <<handles, target>>
  BY DEF c
<1>6. HandlesAccounted'
  BY <1>1, <1>2, <1>3, <1>5 DEF Accounts, HandlesAccounted, c
<1>7. ASSUME NEW u \in Threads, NEW v \in Threads PROVE OneHolder(u, v)'
  <2>1. OneHolder(u, v) /\ spawn[u].child \in Threads \cup {None} /\ target[u] \in Threads \cup {None}
    BY DEF Accounts, SpawnTyped, Spawns, RestTyped
  <2> QED
    BY <1>1, <1>2, <1>3, <1>4, <1>5, <2>1 DEF OneHolder
<1>8. ASSUME NEW u \in Threads
      PROVE  /\ (spawn'[u].child # None) <=> (pc'[u] \in Creating)
             /\ (target'[u] # None) <=> (pc'[u] = "joining")
             /\ u \in joinable' => pc'[u] # "unborn"
  BY <1>1, <1>3, <1>4, <1>5 DEF Accounts
<1> QED
  BY <1>6, <1>7, <1>8 DEF Accounts

(***************************************************************************)
(* thrd_join and thrd_detach take a handle from the program, and close it. *)
(***************************************************************************)
LEMMA LiveAccounts ==
  ASSUME Accounts, SpawnTyped, RestTyped, NEW t \in Threads, Live(t)
  PROVE  Accounts'
<1> USE ThreadsAreThreads DEF At, Goto, Calls, Creating
<1>1. ASSUME NEW u \in Threads, NEW v \in Threads
      PROVE  /\ OneHolder(u, v)
             /\ spawn[u].child \in Threads \cup {None} /\ target[u] \in Threads \cup {None}
  BY DEF Accounts, SpawnTyped, Spawns, RestTyped
<1>2. ASSUME NEW u \in Threads
      PROVE  /\ (spawn[u].child # None) <=> (pc[u] \in Creating)
             /\ (target[u] # None) <=> (pc[u] = "joining")
             /\ u \in joinable => pc[u] # "unborn"
  BY DEF Accounts
<1>3. CASE Exit(t)
  BY <1>3, OthersAccount DEF Exit, spawnVars, SpawnTyped
<1>4. ASSUME NEW w \in Threads, Detach(t, w) PROVE Accounts'
  <2>1. /\ joinable' = joinable \ {w} /\ handles' = handles \ {w} /\ w \in joinable
        /\ UNCHANGED <<pc, spawn, target>>
    BY <1>4 DEF Detach, spawnVars
  <2>2. \A u \in Threads : spawn[u].child # w /\ target[u] # w
    BY <1>1, <2>1 DEF OneHolder
  <2>3. HandlesAccounted'
    BY <2>1, <2>2 DEF Accounts, HandlesAccounted
  <2>4. ASSUME NEW u \in Threads, NEW v \in Threads PROVE OneHolder(u, v)'
    BY <1>1, <2>1 DEF OneHolder
  <2> QED
    BY <1>2, <2>1, <2>3, <2>4 DEF Accounts
<1>5. ASSUME NEW w \in Threads, Join(t, w) PROVE Accounts'
  <2>1. /\ joinable' = joinable \ {w} /\ handles' = handles /\ w \in joinable
        /\ UNCHANGED spawn /\ pc[t] = "run" /\ pc[w] # "unborn"
    BY <1>2, <1>5 DEF Join, spawnVars
  <2>2. \A u \in Threads : spawn[u].child # w /\ target[u] # w
    BY <1>1, <2>1 DEF OneHolder
  <2>3. \A u \in Threads : /\ target'[u] = IF u = t THEN w ELSE target[u]
                           /\ pc'[u] = IF u = t THEN "joining" ELSE pc[u]
    BY <1>5 DEF Join, SpawnTyped, RestTyped
  <2>4. target[t] = None
    BY <1>2, <2>1
  <2>5. HandlesAccounted'
    BY <2>1, <2>2, <2>3, <2>4 DEF Accounts, HandlesAccounted
  <2>6. ASSUME NEW u \in Threads, NEW v \in Threads PROVE OneHolder(u, v)'
    BY <1>1, <2>1, <2>2, <2>3 DEF OneHolder
  <2> QED
    BY <1>2, <2>1, <2>3, <2>5, <2>6 DEF Accounts
<1>6. CASE Joined(t)
  <2> DEFINE w == target[t]
  <2>1. /\ handles' = handles \ {w} /\ UNCHANGED <<spawn, joinable>> /\ pc[t] = "joining"
    BY <1>6 DEF Joined, spawnVars
  <2>2. w \in Threads /\ w \notin joinable
    BY <1>1, <1>2, <2>1 DEF OneHolder
  <2>3. \A u \in Threads : spawn[u].child # w /\ (target[u] = w => u = t)
    BY <1>1, <2>2 DEF OneHolder
  <2>4. \A u \in Threads : /\ target'[u] = IF u = t THEN None ELSE target[u]
                           /\ pc'[u] = IF u = t THEN "run" ELSE pc[u]
    BY <1>6 DEF Joined, SpawnTyped, RestTyped
  <2> HIDE DEF w
  <2>5. HandlesAccounted'
    BY <2>1, <2>2, <2>3, <2>4 DEF Accounts, HandlesAccounted, w
  <2>6. ASSUME NEW u \in Threads, NEW v \in Threads PROVE OneHolder(u, v)'
    BY <1>1, <2>1, <2>4 DEF OneHolder
  <2> QED
    BY <1>2, <2>1, <2>4, <2>5, <2>6 DEF Accounts
<1> QED
  BY <1>3, <1>4, <1>5, <1>6 DEF Live

(***************************************************************************)
(* Every step keeps account of the handles.                                *)
(***************************************************************************)
LEMMA AccountsStep ==
  ASSUME Handshake, RestTyped, Accounts, [Next]_vars
  PROVE  Accounts'
<1> USE DEF At, Goto, Calls, Creating
<1>1. SpawnTyped
  BY DEF Handshake
<1>2. ASSUME NEW t \in Threads, Creator(t) PROVE Accounts'
  <2>1. CASE Leave(t)
    BY <1>1, <2>1, LeaveAccounts
  <2>2. CASE Acquire(t) \/ Sleep(t) \/ Release(t)
    <3>1. /\ UNCHANGED handleVars
          /\ \A u \in Threads : spawn'[u].child = spawn[u].child
          /\ pc[t] \in Creating /\ \E l \in Creating : pc' = [pc EXCEPT ![t] = l]
      BY <1>1, <2>2 DEF Acquire, Sleep, Release, SpawnTyped, Spawns
    <3> QED
      BY <1>1, <3>1, OthersAccount DEF SpawnTyped
  <2> QED
    BY <1>2, <2>1, <2>2 DEF Creator
<1>3. ASSUME NEW c \in Threads, Trampoline(c) PROVE Accounts'
  <2>1. InHandshake(c) /\ pc[c] \in Starting
    BY <1>3 DEF Handshake, Trampoline, ReadSpawn, Enter, Consume, Wake, Start, Starting
  <2>2. UNCHANGED handleVars /\ \A u \in Threads : spawn'[u].child = spawn[u].child
    BY <1>1, <1>3, <2>1 DEF Trampoline, ReadSpawn, Enter, Consume, Wake, Start, InHandshake,
       SpawnTyped, Spawns, spawnVars
  <2>3. ASSUME NEW t \in Threads
        PROVE  /\ (pc'[t] \in Creating) <=> (pc[t] \in Creating)
               /\ (pc'[t] = "joining") <=> (pc[t] = "joining")
               /\ (pc'[t] = "unborn") => (pc[t] = "unborn")
    BY <1>1, <1>3, <2>1 DEF Trampoline, ReadSpawn, Enter, Consume, Wake, Start, InHandshake,
       SpawnTyped, Starting
  <2> QED
    BY <1>1, <2>2, <2>3, OthersAccount
<1>4. ASSUME NEW t \in Threads, SpuriousWake(t) PROVE Accounts'
  BY <1>1, <1>4, OthersAccount DEF SpuriousWake, SpawnTyped, spawnVars
<1>5. ASSUME UNCHANGED <<spawnVars, handleVars, pc>> PROVE Accounts'
  BY <1>1, <1>5, OthersAccount DEF spawnVars
<1>6. ASSUME NEW t \in Threads, Synchronise(t) PROVE Accounts'
  <2> DEFINE Quiet == {"run", "locking", "measured", "waiting", "calling once", "in once"}
  <2>1. UNCHANGED <<spawnVars, handleVars>>
    BY <1>6 DEF Synchronise, Lock, Locked, TryLock, Unlock, Wait, Measure, TimedWait, Sleeping,
       Signal, Broadcast, SpuriousReturn, Woken, Expire, CallOnce, OnceReturns, TssSet, TssDelete
  <2>2. ASSUME NEW u \in Threads
        PROVE  pc'[u] = pc[u] \/ (pc[u] \in Quiet /\ pc'[u] \in Quiet)
    <3>1. CASE Wait(t) \/ (\E d \in Deadlines : Measure(t, d)) \/ TimedWait(t) \/ Expire(t)
      BY <1>1, <3>1 DEF Wait, Measure, TimedWait, Sleeping, Expire, Due, SpawnTyped
    <3>2. CASE Signal(t) \/ Broadcast(t) \/ SpuriousReturn(t)
      BY <1>1, <3>2 DEF Signal, Broadcast, SpuriousReturn, Woken, Waiting, SpawnTyped
    <3>3. CASE Lock(t) \/ Locked(t) \/ TryLock(t) \/ Unlock(t)
      BY <1>1, <3>3 DEF Lock, Locked, TryLock, Unlock, SpawnTyped
    <3>4. CASE CallOnce(t) \/ OnceReturns(t) \/ TssSet(t) \/ TssDelete(t)
      BY <1>1, <3>4 DEF CallOnce, OnceReturns, TssSet, TssDelete, SpawnTyped
    <3> QED
      BY <1>6, <3>1, <3>2, <3>3, <3>4 DEF Synchronise
  <2> QED
    BY <1>1, <2>1, <2>2, OthersAccount DEF spawnVars
<1>7. CASE Tick
  BY <1>5, <1>7 DEF Tick
<1>8. CASE UNCHANGED vars
  BY <1>5, <1>8 DEF vars, spawnVars, handleVars
<1> QED
  BY <1>1, <1>2, <1>3, <1>4, <1>6, <1>7, <1>8, CreateAccounts, LiveAccounts DEF Next

-----------------------------------------------------------------------------
(* Time-outs.  A thread about to sleep, or asleep, with a time-out will not *)
(* be told of it more than a millisecond before its deadline.               *)

Punctual(t) ==
  LET w == wait[t]
  IN  /\ w.expired => now + TicksPerMs > w.deadline
      /\ pc[t] = "measured" /\ w.until # Forever =>
           now + w.until * TicksPerMs + TicksPerMs > w.deadline
      /\ pc[t] = "waiting" /\ w.until # Forever => w.until + TicksPerMs > w.deadline

(***************************************************************************)
(* A wait that is not touched stays punctual as time goes on.              *)
(***************************************************************************)
LEMMA StaysPunctual ==
  ASSUME NEW t \in Threads, Punctual(t), wait[t] \in Waits, wait'[t] = wait[t],
         now \in Nat, now' \in Nat, now' >= now,
         pc'[t] = pc[t] \/ pc'[t] \notin {"measured", "waiting"}
  PROVE  Punctual(t)'
<1> DEFINE d == wait[t].deadline
           u == wait[t].until
           slept == u * TicksPerMs
           expired == wait[t].expired
<1>1. d \in Nat /\ u \in Nat \cup {Forever} /\ TicksPerMs \in Nat /\ expired \in BOOLEAN
  BY TimesAreCounts DEF Waits
<1>2. u # Forever => slept \in Nat
  BY <1>1 DEF Forever
<1>3. /\ expired => now + TicksPerMs > d
      /\ pc[t] = "measured" /\ u # Forever => now + slept + TicksPerMs > d
      /\ pc[t] = "waiting" /\ u # Forever => u + TicksPerMs > d
  BY DEF Punctual
<1> SUFFICES /\ expired => now' + TicksPerMs > d
             /\ pc'[t] = "measured" /\ u # Forever => now' + slept + TicksPerMs > d
             /\ pc'[t] = "waiting" /\ u # Forever => u + TicksPerMs > d
  BY DEF Punctual
<1> HIDE DEF d, u, slept, expired
<1>4. ASSUME expired PROVE now' + TicksPerMs > d
  <2>1. now + TicksPerMs > d
    BY <1>3, <1>4, Zenon
  <2>2. d \in Nat /\ TicksPerMs \in Nat
    BY <1>1, Zenon
  <2>3. \A a, b, k, l \in Nat : a + k > l /\ b >= a => b + k > l
    OBVIOUS
  <2> QED
    BY <2>1, <2>2, <2>3, Zenon
<1>5. pc'[t] = "measured" /\ u # Forever => now' + slept + TicksPerMs > d
  BY <1>1, <1>2, <1>3
<1>6. pc'[t] = "waiting" /\ u # Forever => u + TicksPerMs > d
  BY <1>3
<1> QED
  BY <1>4, <1>5, <1>6

(***************************************************************************)
(* A wait that is over, or has no time-out, is punctual.                   *)
(***************************************************************************)
LEMMA NoTimeoutIsPunctual ==
  ASSUME NEW t \in Threads, wait'[t].until = Forever, ~wait'[t].expired
  PROVE  Punctual(t)'
BY DEF Punctual

LEMMA PunctualStep ==
  ASSUME SpawnTyped, RestTyped, RestTyped', \A u \in Threads : Punctual(u), [Next]_vars,
         NEW u \in Threads
  PROVE  Punctual(u)'
<1> USE DEF At, Goto, Calls
<1>1. wait[u] \in Waits /\ now \in Nat /\ now' \in Nat /\ Punctual(u)
  BY DEF RestTyped
<1>2. ASSUME UNCHANGED <<wait, now>>, pc'[u] = pc[u] \/ pc'[u] \notin {"measured", "waiting"}
      PROVE  Punctual(u)'
  BY <1>1, <1>2, StaysPunctual
<1>3. CASE \E t, c \in Threads : CreateThread(t, c)
  BY <1>2, <1>3 DEF CreateThread, SpawnTyped, syncVars
<1>4. ASSUME NEW t \in Threads, Creator(t) \/ SpuriousWake(t) \/ Live(t) PROVE Punctual(u)'
  BY <1>2, <1>4 DEF Creator, Acquire, Sleep, Release, Leave, SpuriousWake, Live, Exit, Detach,
     Join, Joined, SpawnTyped, syncVars
<1>5. ASSUME NEW c \in Threads, Trampoline(c) PROVE Punctual(u)'
  BY <1>2, <1>5 DEF Trampoline, ReadSpawn, Enter, Consume, Wake, Start, SpawnTyped, syncVars
<1>6. ASSUME NEW t \in Threads, Synchronise(t) PROVE Punctual(u)'
  <2>1. CASE Lock(t) \/ TryLock(t) \/ Unlock(t) \/ CallOnce(t) \/ OnceReturns(t)
             \/ TssSet(t) \/ TssDelete(t)
    <3>1. UNCHANGED <<wait, now>>
      BY <2>1 DEF Lock, TryLock, Unlock, CallOnce, OnceReturns, TssSet, TssDelete, syncVars
    <3>2. CASE Lock(t) \/ CallOnce(t) \/ OnceReturns(t)
      BY <1>2, <3>1, <3>2 DEF Lock, CallOnce, OnceReturns, SpawnTyped
    <3>3. CASE TryLock(t) \/ Unlock(t) \/ TssSet(t) \/ TssDelete(t)
      BY <1>2, <3>1, <3>3 DEF TryLock, Unlock, TssSet, TssDelete
    <3> QED
      BY <2>1, <3>2, <3>3
  <2>2. CASE Locked(t)
    <3>1. CASE u = t
      BY <2>2, <3>1, NoTimeoutIsPunctual DEF Locked, Idle, RestTyped
    <3>2. CASE u # t
      BY <1>1, <2>2, <3>2, StaysPunctual DEF Locked, SpawnTyped, RestTyped
    <3> QED
      BY <3>1, <3>2
  <2>3. CASE Wait(t)
    <3>1. CASE u = t
      BY <2>3, <3>1, NoTimeoutIsPunctual DEF Wait, Sleeping, RestTyped
    <3>2. CASE u # t
      BY <1>1, <2>3, <3>2, StaysPunctual DEF Wait, Sleeping, SpawnTyped, RestTyped
    <3> QED
      BY <3>1, <3>2
  <2>4. ASSUME NEW d \in Deadlines, Measure(t, d) PROVE Punctual(u)'
    <3>1. CASE u = t
      <4>1. d \in Nat /\ (Timeout(d) # Forever => now + Timeout(d) * TicksPerMs + TicksPerMs > d)
        BY <1>1, TimesAreCounts, TimeoutRoundsDown
      <4>2. /\ wait'[u] = [deadline |-> d, until |-> Timeout(d), expired |-> FALSE]
            /\ now' = now /\ pc'[u] = "measured"
        BY <2>4, <3>1 DEF Measure, SpawnTyped, RestTyped
      <4> QED
        BY <4>1, <4>2 DEF Punctual
    <3>2. CASE u # t
      BY <1>1, <2>4, <3>2, StaysPunctual DEF Measure, SpawnTyped, RestTyped
    <3> QED
      BY <3>1, <3>2
  <2>5. CASE TimedWait(t)
    <3>1. CASE u = t
      <4> DEFINE w == wait[u]
                 until == IF w.until = Forever THEN Forever ELSE now + w.until * TicksPerMs
      <4>1. /\ wait'[u] = [deadline |-> w.deadline, until |-> until, expired |-> FALSE]
            /\ pc'[u] = "waiting" /\ pc[u] = "measured"
        BY <2>5, <3>1 DEF TimedWait, Sleeping, SpawnTyped, RestTyped
      <4>2. until # Forever => until + TicksPerMs > w.deadline
        BY <1>1, <4>1 DEF Punctual
      <4> HIDE DEF until
      <4> QED
        BY <4>1, <4>2 DEF Punctual
    <3>2. CASE u # t
      BY <1>1, <2>5, <3>2, StaysPunctual DEF TimedWait, Sleeping, SpawnTyped, RestTyped
    <3> QED
      BY <3>1, <3>2
  <2>6. ASSUME NEW woken \in SUBSET Threads, Woken(woken) PROVE Punctual(u)'
    <3>1. CASE u \in woken
      BY <2>6, <3>1, NoTimeoutIsPunctual DEF Woken, Idle
    <3>2. CASE u \notin woken
      BY <1>1, <2>6, <3>2, StaysPunctual DEF Woken
    <3> QED
      BY <3>1, <3>2
  <2>7. CASE Signal(t) \/ Broadcast(t) \/ SpuriousReturn(t)
    BY <2>6, <2>7 DEF Signal, Broadcast, SpuriousReturn, Waiting
  <2>8. CASE Expire(t)
    <3>1. CASE u = t
      <4>1. /\ pc[u] = "waiting" /\ wait[u].until # Forever /\ wait[u].until <= now
            /\ pc'[u] = "locking" /\ now' = now
            /\ wait'[u] = [wait[u] EXCEPT !.until = Forever, !.expired = TRUE]
        BY <2>8, <3>1 DEF Expire, Due, SpawnTyped, RestTyped
      <4>2. wait'[u].deadline = wait[u].deadline
        BY <1>1, <4>1 DEF Waits
      <4>3. wait[u].deadline \in Nat /\ wait[u].until \in Nat /\ TicksPerMs \in Nat
        BY <1>1, <4>1, TimesAreCounts DEF Waits
      <4>4. wait[u].until + TicksPerMs > wait[u].deadline
        BY <1>1, <4>1 DEF Punctual
      <4>5. now' + TicksPerMs > wait'[u].deadline
        BY <1>1, <4>1, <4>2, <4>3, <4>4
      <4> QED
        BY <4>1, <4>5 DEF Punctual
    <3>2. CASE u # t
      BY <1>1, <2>8, <3>2, StaysPunctual DEF Expire, SpawnTyped, RestTyped
    <3> QED
      BY <3>1, <3>2
  <2> QED
    BY <1>6, <2>1, <2>2, <2>3, <2>4, <2>5, <2>7, <2>8 DEF Synchronise
<1>7. CASE Tick
  BY <1>1, <1>7, StaysPunctual DEF Tick, syncVars
<1>8. CASE UNCHANGED vars
  BY <1>2, <1>8 DEF vars
<1> QED
  BY <1>3, <1>4, <1>5, <1>6, <1>7, <1>8 DEF Next

-----------------------------------------------------------------------------
\* All of it together is inductive.
IInv ==
  /\ Handshake
  /\ RestTyped
  /\ Accounts
  /\ \A t \in Threads : Punctual(t)

LEMMA IInvInit == Init => IInv
<1> SUFFICES ASSUME Init PROVE IInv
  OBVIOUS
<1> USE ThreadsAreThreads, TimesAreCounts DEF Init
<1>1. RestTyped
  BY DEF RestTyped, Waits, Idle, Forever
<1>2. Accounts
  BY DEF Accounts, HandlesAccounted, OneHolder, NoSpawn, Creating
<1>3. \A t \in Threads : Punctual(t)
  BY DEF Punctual, Idle, Forever
<1> QED
  BY <1>1, <1>2, <1>3, HandshakeInit DEF IInv

LEMMA IInvStep == IInv /\ [Next]_vars => IInv'
<1> SUFFICES ASSUME IInv, [Next]_vars
             PROVE  IInv'
  OBVIOUS
<1>1. Handshake'
  BY HandshakeStep DEF IInv
<1>2. RestTyped'
  BY RestStep DEF IInv, Handshake
<1>3. Accounts'
  BY AccountsStep DEF IInv
<1>4. ASSUME NEW t \in Threads PROVE Punctual(t)'
  BY <1>2, PunctualStep DEF IInv, Handshake
<1> QED
  BY <1>1, <1>2, <1>3, <1>4 DEF IInv

(***************************************************************************)
(* The inductive invariant holds in every reachable state.                 *)
(***************************************************************************)
THEOREM ThreadsInvariant == Spec => []IInv
BY IInvInit, IInvStep, PTL DEF Spec

(***************************************************************************)
(* Every reachable state is well typed.                                    *)
(***************************************************************************)
THEOREM ThreadsTypeCorrect == Spec => []TypeOK
<1>1. IInv => TypeOK
  BY DEF IInv, Handshake, SpawnTyped, RestTyped, TypeOK, Labels, Spawns, Waits
<1> QED
  BY <1>1, ThreadsInvariant, PTL

(***************************************************************************)
(* No handle leaks and none is closed twice, for any number of threads     *)
(* that create, join and detach each other.                                *)
(***************************************************************************)
THEOREM HandlesAlwaysAccounted == Spec => []HandlesAccounted
<1>1. IInv => HandlesAccounted
  BY DEF IInv, Accounts
<1> QED
  BY <1>1, ThreadsInvariant, PTL

(***************************************************************************)
(* A time-out is reported at most a millisecond before its deadline, for    *)
(* any clock, any deadlines and any delay between reading the clock and     *)
(* going to sleep.                                                         *)
(***************************************************************************)
THEOREM TimeoutIsNeverEarly == Spec => []NoEarlyTimeout
<1>1. IInv => NoEarlyTimeout
  BY DEF IInv, Punctual, NoEarlyTimeout
<1> QED
  BY <1>1, ThreadsInvariant, PTL

=============================================================================
