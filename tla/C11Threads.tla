----------------------------- MODULE C11Threads -----------------------------
(***************************************************************************)
(* threads.c: C11 threads over Win32.  A program is the set of functions   *)
(* that it calls; each of its threads calls them in any order that the C   *)
(* standard allows.  A call that blocks, or lets another thread in, is     *)
(* several steps.  What Win32 does (threads, handles, slim locks,          *)
(* condition variables, the clock) is as threads.c relies on it.           *)
(*                                                                         *)
(* thrd_create keeps what the new thread needs in a Spawn on its own stack *)
(* and must not return while the trampoline still looks at it.             *)
(***************************************************************************)
EXTENDS Integers

CONSTANTS
  Threads,      \* threads that may come to exist
  Main,         \* the one that exists in the beginning
  None,         \* no thread
  Programs,     \* programs: sets of names of functions of threads.h
  Deadlines,    \* what cnd_timedwait is asked to wait for, in ticks
  TicksPerMs,   \* ticks of the system time in a millisecond (10000)
  MaxTimeout,   \* the longest time-out of Win32, in ms (0x7fffffff)
  MaxTicks,     \* the latest time in 64 bits
  MaxSpurious,  \* bound: wake-ups that nobody asked for
  MaxTime       \* bound: the clock stops here unless somebody waits for it

ASSUME ThreadsAreThreads == Main \in Threads /\ None \notin Threads
ASSUME TimesAreCounts ==
  /\ Deadlines \subseteq Nat /\ TicksPerMs \in Nat \ {0}
  /\ {MaxTimeout, MaxTicks, MaxSpurious, MaxTime} \subseteq Nat

VARIABLES
  pc,        \* where each thread is
  spawn,     \* the Spawn on the stack of a thread inside thrd_create
  maker,     \* the thread whose Spawn a trampoline was given
  arg,       \* what the trampoline read there: a thread stands for fn and arg
  spurious,  \* wake-ups so far that nobody asked for
  handles,   \* threads with an open handle
  joinable,  \* threads whose handle the program may join or detach
  target,    \* the thread that a thread is joining
  holder,    \* who holds the mutex
  now,       \* the system time
  wait,      \* a thread's wait on the condition variable
  once,      \* the state of the once_flag
  tss,       \* threads with a value in thread-specific storage
  program    \* the functions that are called

spawnVars == <<spawn, maker, arg>>
handleVars == <<handles, joinable, target>>
syncVars == <<holder, wait, once, tss>>
vars == <<pc, spawn, maker, arg, spurious, handles, joinable, target,
          holder, now, wait, once, tss, program>>

NoSpawn == [child |-> None, consumed |-> FALSE, srw |-> None]
Forever == -1
Idle == [deadline |-> 0, until |-> Forever, expired |-> FALSE]

\* In thrd_create, in the trampoline, and in the other calls.
Creating   == {"acquire", "test", "asleep", "leave"}
Starting   == {"born", "enter", "consume", "wake", "release"}
Elsewhere  == {"unborn", "run", "ended", "locking", "measured", "waiting", "joining",
               "calling once", "in once"}

At(t, label)   == pc[t] = label
Calls(t, name) == pc[t] = "run" /\ name \in program
Goto(t, label) == pc' = [pc EXCEPT ![t] = label]

-----------------------------------------------------------------------------
(* thrd_create and the trampoline.  CreateThread may fail, and then nothing *)
(* happens.                                                                 *)

CreateThread(t, c) ==
  /\ Calls(t, "thrd_create") /\ At(c, "unborn")
  /\ pc' = [pc EXCEPT ![t] = "acquire", ![c] = "born"]
  /\ spawn' = [spawn EXCEPT ![t] = [child |-> c, consumed |-> FALSE, srw |-> None]]
  /\ maker' = [maker EXCEPT ![c] = t]
  /\ handles' = handles \cup {c}
  /\ UNCHANGED <<arg, spurious, joinable, target, syncVars, now, program>>

Acquire(t) ==
  /\ At(t, "acquire") /\ spawn[t].srw = None
  /\ Goto(t, "test")
  /\ spawn' = [spawn EXCEPT ![t].srw = t]
  /\ UNCHANGED <<maker, arg, spurious, handleVars, syncVars, now, program>>

\* The loop of thrd_create: sleep, and release the lock at the same time ...
Sleep(t) ==
  /\ At(t, "test") /\ ~spawn[t].consumed
  /\ Goto(t, "asleep")
  /\ spawn' = [spawn EXCEPT ![t].srw = None]
  /\ UNCHANGED <<maker, arg, spurious, handleVars, syncVars, now, program>>

\* A slip in thrd_create: if instead of while.
ReleaseOnceAwake(t) ==
  /\ At(t, "test") /\ (spawn[t].consumed \/ spurious > 0)
  /\ Goto(t, "leave")
  /\ spawn' = [spawn EXCEPT ![t].srw = None]
  /\ UNCHANGED <<maker, arg, spurious, handleVars, syncVars, now, program>>

\* ... until the trampoline has said that it is done.
Release(t) ==
  /\ At(t, "test") /\ spawn[t].consumed
  /\ Goto(t, "leave")
  /\ spawn' = [spawn EXCEPT ![t].srw = None]
  /\ UNCHANGED <<maker, arg, spurious, handleVars, syncVars, now, program>>

\* A slip in thrd_create: the handle is read after the Spawn is gone.
LeaveTooSoon(t) ==
  /\ At(t, "leave")
  /\ Goto(t, "run")
  /\ spawn' = [spawn EXCEPT ![t] = NoSpawn]
  /\ joinable' = joinable \cup {spawn'[t].child}
  /\ UNCHANGED <<maker, arg, spurious, handles, target, syncVars, now, program>>

\* The caller learns the handle, and the Spawn is gone with the stack frame.
Leave(t) ==
  /\ At(t, "leave")
  /\ Goto(t, "run")
  /\ joinable' = joinable \cup {spawn[t].child}
  /\ spawn' = [spawn EXCEPT ![t] = NoSpawn]
  /\ UNCHANGED <<maker, arg, spurious, handles, target, syncVars, now, program>>

ReadSpawn(c) ==
  /\ At(c, "born")
  /\ Goto(c, "enter")
  /\ arg' = [arg EXCEPT ![c] = spawn[maker[c]].child]
  /\ UNCHANGED <<spawn, maker, spurious, handleVars, syncVars, now, program>>

Enter(c) ==
  /\ At(c, "enter") /\ spawn[maker[c]].srw = None
  /\ Goto(c, "consume")
  /\ spawn' = [spawn EXCEPT ![maker[c]].srw = c]
  /\ UNCHANGED <<maker, arg, spurious, handleVars, syncVars, now, program>>

Consume(c) ==
  /\ At(c, "consume")
  /\ Goto(c, "wake")
  /\ spawn' = [spawn EXCEPT ![maker[c]].consumed = TRUE]
  /\ UNCHANGED <<maker, arg, spurious, handleVars, syncVars, now, program>>

\* A slip in thread_trampoline: nobody is woken.
WakeNobody(c) ==
  /\ At(c, "wake") /\ Goto(c, "release")
  /\ UNCHANGED <<spawnVars, spurious, handleVars, syncVars, now, program>>

Wake(c) ==
  /\ At(c, "wake")
  /\ pc' = [pc EXCEPT ![c] = "release", ![maker[c]] = IF @ = "asleep" THEN "acquire" ELSE @]
  /\ UNCHANGED <<spawnVars, spurious, handleVars, syncVars, now, program>>

Start(c) ==
  /\ At(c, "release")
  /\ Goto(c, "run")
  /\ spawn' = [spawn EXCEPT ![maker[c]].srw = None]
  /\ UNCHANGED <<maker, arg, spurious, handleVars, syncVars, now, program>>

SpuriousWake(t) ==
  /\ At(t, "asleep") /\ spurious < MaxSpurious
  /\ Goto(t, "acquire")
  /\ spurious' = spurious + 1
  /\ UNCHANGED <<spawnVars, handleVars, syncVars, now, program>>

-----------------------------------------------------------------------------
(* The end of a thread, and its handle.  The program joins or detaches a    *)
(* thread once, as the standard asks.                                       *)

\* A thread function returns, or thrd_exit; its value goes to the destructor.
Exit(t) ==
  /\ Calls(t, "thrd_create") /\ t # Main /\ holder # t
  /\ Goto(t, "ended")
  /\ tss' = tss \ {t}
  /\ UNCHANGED <<spawnVars, spurious, handleVars, holder, wait, once, now, program>>

Detach(t, u) ==
  /\ Calls(t, "thrd_detach") /\ u \in joinable
  /\ joinable' = joinable \ {u}
  /\ handles' = handles \ {u}
  /\ UNCHANGED <<pc, spawnVars, spurious, target, syncVars, now, program>>

Join(t, u) ==
  /\ Calls(t, "thrd_join") /\ u \in joinable \ {t}
  /\ Goto(t, "joining")
  /\ target' = [target EXCEPT ![t] = u]
  /\ joinable' = joinable \ {u}
  /\ UNCHANGED <<spawnVars, spurious, handles, syncVars, now, program>>

\* A slip in thrd_join: the exit code is returned and the handle left open.
JoinedLeaks(t) ==
  /\ At(t, "joining") /\ At(target[t], "ended")
  /\ Goto(t, "run")
  /\ target' = [target EXCEPT ![t] = None]
  /\ UNCHANGED <<spawnVars, spurious, handles, joinable, syncVars, now, program>>

Joined(t) ==
  /\ At(t, "joining") /\ At(target[t], "ended")
  /\ Goto(t, "run")
  /\ handles' = handles \ {target[t]}
  /\ target' = [target EXCEPT ![t] = None]
  /\ UNCHANGED <<spawnVars, spurious, joinable, syncVars, now, program>>

-----------------------------------------------------------------------------
(* One mutex and one condition variable.  A thread that comes back from a   *)
(* wait has to get the mutex again, like one in mtx_lock.                   *)

Lock(t) ==
  /\ Calls(t, "mtx_lock") /\ holder # t
  /\ Goto(t, "locking")
  /\ UNCHANGED <<spawnVars, spurious, handleVars, syncVars, now, program>>

Locked(t) ==
  /\ At(t, "locking") /\ holder = None
  /\ Goto(t, "run")
  /\ holder' = t
  /\ wait' = [wait EXCEPT ![t] = Idle]
  /\ UNCHANGED <<spawnVars, spurious, handleVars, once, tss, now, program>>

TryLock(t) ==
  /\ Calls(t, "mtx_trylock") /\ holder = None
  /\ holder' = t
  /\ UNCHANGED <<pc, spawnVars, spurious, handleVars, wait, once, tss, now, program>>

Unlock(t) ==
  /\ At(t, "run") /\ holder = t
  /\ holder' = None
  /\ UNCHANGED <<pc, spawnVars, spurious, handleVars, wait, once, tss, now, program>>

\* A slip in cnd_timedwait: the time-out is cut to the width of its type.
TimeoutCut(deadline) == (IF deadline <= now THEN 0 ELSE (deadline - now) \div TicksPerMs)
                          % (MaxTimeout + 1)

\* A slip in cnd_timedwait: a deadline that has passed is not special, and a
\* negative time-out is none.
TimeoutNegative(deadline) ==
  LET ms == (deadline - now) \div TicksPerMs
  IN  IF deadline > MaxTicks \/ ms > MaxTimeout \/ ms < 0 THEN Forever ELSE ms

\* What cnd_timedwait asks of Win32, whole milliseconds, rounded down.
Timeout(deadline) ==
  LET ms == IF deadline <= now THEN 0 ELSE (deadline - now) \div TicksPerMs
  IN  IF deadline > MaxTicks \/ ms > MaxTimeout THEN Forever ELSE ms

Sleeping(t, deadline, timeout) ==
  /\ Goto(t, "waiting")
  /\ holder' = None
  /\ wait' = [wait EXCEPT ![t] =
       [deadline |-> deadline, expired |-> FALSE,
        until |-> IF timeout = Forever THEN Forever ELSE now + timeout * TicksPerMs]]
  /\ UNCHANGED <<spawnVars, spurious, handleVars, once, tss, now, program>>

Wait(t) == Calls(t, "cnd_wait") /\ holder = t /\ Sleeping(t, 0, Forever)

\* cnd_timedwait reads the clock first, and time goes on before it sleeps.
Measure(t, deadline) ==
  /\ Calls(t, "cnd_timedwait") /\ holder = t
  /\ Goto(t, "measured")
  /\ wait' = [wait EXCEPT ![t] = [deadline |-> deadline, until |-> Timeout(deadline),
                                  expired |-> FALSE]]
  /\ UNCHANGED <<spawnVars, spurious, handleVars, holder, once, tss, now, program>>

TimedWait(t) == At(t, "measured") /\ Sleeping(t, wait[t].deadline, wait[t].until)

Woken(woken) ==
  /\ pc' = [t \in Threads |-> IF t \in woken THEN "locking" ELSE pc[t]]
  /\ wait' = [t \in Threads |-> IF t \in woken THEN Idle ELSE wait[t]]
  /\ UNCHANGED <<spawnVars, handleVars, holder, once, tss, now, program>>

Waiting == {t \in Threads : At(t, "waiting")}

Signal(t) ==
  Calls(t, "cnd_signal") /\ UNCHANGED spurious /\ \E u \in Waiting : Woken({u})

Broadcast(t) ==
  Calls(t, "cnd_broadcast") /\ UNCHANGED spurious /\ Waiting # {} /\ Woken(Waiting)

SpuriousReturn(t) ==
  /\ At(t, "waiting") /\ spurious < MaxSpurious
  /\ spurious' = spurious + 1
  /\ Woken({t})

Due(t) == At(t, "waiting") /\ wait[t].until # Forever

Expire(t) ==
  /\ Due(t) /\ wait[t].until <= now
  /\ Goto(t, "locking")
  /\ wait' = [wait EXCEPT ![t].until = Forever, ![t].expired = TRUE]
  /\ UNCHANGED <<spawnVars, spurious, handleVars, holder, once, tss, now, program>>

Tick ==
  /\ now < MaxTime \/ \E t \in Threads : Due(t) /\ wait[t].until > now
  /\ now' = now + 1
  /\ UNCHANGED <<pc, spawnVars, spurious, handleVars, syncVars, program>>

-----------------------------------------------------------------------------
(* call_once, and thread-specific storage with one key.                     *)

CallOnce(t) ==
  /\ Calls(t, "call_once") /\ once # "done"
  /\ Goto(t, IF once = "idle" THEN "in once" ELSE "calling once")
  /\ once' = "running"
  /\ UNCHANGED <<spawnVars, spurious, handleVars, holder, wait, tss, now, program>>

\* once_trampoline always reports success: the function is not tried again.
OnceReturns(t) ==
  /\ At(t, "in once")
  /\ pc' = [u \in Threads |-> IF u = t \/ pc[u] = "calling once" THEN "run" ELSE pc[u]]
  /\ once' = "done"
  /\ UNCHANGED <<spawnVars, spurious, handleVars, holder, wait, tss, now, program>>

TssSet(t) ==
  /\ Calls(t, "tss_set")
  /\ tss' = tss \cup {t}
  /\ UNCHANGED <<pc, spawnVars, spurious, handleVars, holder, wait, once, now, program>>

\* tss_delete: FlsFree gives the values of all threads to the destructor.
TssDelete(t) ==
  /\ Calls(t, "tss_delete")
  /\ tss' = {}
  /\ UNCHANGED <<pc, spawnVars, spurious, handleVars, holder, wait, once, now, program>>

-----------------------------------------------------------------------------
\* A program that creates no threads is looked at when it has them.
Begun == IF "thrd_create" \in program THEN {Main} ELSE Threads

Init ==
  /\ program \in Programs
  /\ pc = [t \in Threads |-> IF t \in Begun THEN "run" ELSE "unborn"]
  /\ spawn = [t \in Threads |-> NoSpawn]
  /\ maker = [t \in Threads |-> None]
  /\ arg = [t \in Threads |-> IF t \in Begun THEN t ELSE None]
  /\ spurious = 0 /\ handles = {} /\ joinable = {}
  /\ target = [t \in Threads |-> None]
  /\ holder = None /\ now = 0
  /\ wait = [t \in Threads |-> Idle]
  /\ once = "idle" /\ tss = {}

Creator(t) == Acquire(t) \/ Sleep(t) \/ Release(t) \/ Leave(t)
Trampoline(c) == ReadSpawn(c) \/ Enter(c) \/ Consume(c) \/ Wake(c) \/ Start(c)

Synchronise(t) ==
  \/ Lock(t) \/ Locked(t) \/ TryLock(t) \/ Unlock(t)
  \/ Wait(t) \/ (\E d \in Deadlines : Measure(t, d)) \/ TimedWait(t)
  \/ Signal(t) \/ Broadcast(t) \/ SpuriousReturn(t) \/ Expire(t)
  \/ CallOnce(t) \/ OnceReturns(t) \/ TssSet(t) \/ TssDelete(t)

Live(t) ==
  \/ Exit(t)
  \/ \E u \in Threads : Detach(t, u) \/ Join(t, u)
  \/ Joined(t)

Next ==
  \/ \E t, c \in Threads : CreateThread(t, c)
  \/ \E t \in Threads : \/ Creator(t) \/ Trampoline(t) \/ SpuriousWake(t)
                        \/ Live(t) \/ Synchronise(t)
  \/ Tick

\* Windows runs every thread that can run, its clock goes on, and a time-out
\* that has passed is noticed.  Nothing makes a program call anything.
Fairness ==
  /\ \A t \in Threads : WF_vars(Creator(t)) /\ WF_vars(Trampoline(t)) /\ WF_vars(Expire(t))
  /\ WF_vars(Tick)

Spec == Init /\ [][Next]_vars /\ Fairness

-----------------------------------------------------------------------------
TypeOK ==
  /\ pc \in [Threads -> Creating \cup Starting \cup Elsewhere]
  /\ spawn \in [Threads -> [child : Threads \cup {None}, consumed : BOOLEAN,
                            srw : Threads \cup {None}]]
  /\ maker \in [Threads -> Threads \cup {None}]
  /\ arg \in [Threads -> Threads \cup {None}]
  /\ spurious \in 0 .. MaxSpurious
  /\ handles \subseteq Threads /\ joinable \subseteq Threads
  /\ target \in [Threads -> Threads \cup {None}]
  /\ holder \in Threads \cup {None} /\ now \in Nat
  /\ wait \in [Threads -> [deadline : Nat, until : Nat \cup {Forever},
                           expired : BOOLEAN]]
  /\ program \in Programs
  /\ once \in {"idle", "running", "done"} /\ tss \subseteq Threads

\* As long as the trampoline looks at its Spawn, the Spawn is there and is its
\* own, and a thread runs with the function and argument that were meant for
\* it, whatever wake-ups come early (thrd_create, thread_trampoline).
SpawnOutlivesUse ==
  \A c \in Threads :
    /\ pc[c] \in Starting => spawn[maker[c]].child = c
    /\ pc[c] \notin {"unborn", "born"} => arg[c] = c

\* A handle is open as long as thrd_create or the program still has it, and no
\* longer (thrd_create, thrd_join, thrd_detach).
HandlesAccounted ==
  handles = (joinable \cup {spawn[t].child : t \in Threads} \cup {target[t] : t \in Threads})
              \ {None}

\* cnd_timedwait reports a time-out at most a millisecond before the deadline.
NoEarlyTimeout ==
  \A t \in Threads : wait[t].expired => now + TicksPerMs > wait[t].deadline

\* thrd_create returns: no wake-up of the trampoline is lost.
CreateReturns == \A t \in Threads : pc[t] \in Creating ~> pc[t] = "run"

\* A wait ends, woken or not, when its deadline is one that Win32 can express;
\* a deadline too far away is none (cnd_timedwait).  cnd_wait has no deadline.
Near(deadline) == deadline \in 1 .. MaxTicks /\ deadline \div TicksPerMs <= MaxTimeout
TimedWaitEnds ==
  \A t \in Threads : At(t, "waiting") /\ Near(wait[t].deadline) ~> ~At(t, "waiting")

=============================================================================
