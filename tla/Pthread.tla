------------------------------- MODULE Pthread -------------------------------
(***************************************************************************)
(* Mutexes, condition variables, read-write locks and once controls of     *)
(* core/kernel/pthread.cpp.  The guest holds a pointer to each (`cell');   *)
(* one that is null is created by the first call that uses it, under a     *)
(* static lock and after a second look.  What an object is made of is      *)
(* boost's: recursive_mutex (owner, count), shared_mutex (owner, readers), *)
(* condition_variable (waiting, woken).  Names, ids, priorities and        *)
(* protocols, which nothing reads back, are left out.                      *)
(***************************************************************************)
EXTENDS Integers, Sequences, FiniteSets, GuestThreads

CONSTANTS
    NoThread,     \* the owner of what nobody owns
    MaxCalls      \* bound on the calls of the guest

ASSUME NoThreadAssumption == NoThread \notin Threads

VARIABLES
    objects,    \* every object created, [recursive, owner, count, readers, isWrite, waiting, woken]
    cell,       \* the guest's pointers: 0 is null, else an index of objects
    isInit,     \* PthreadOnce::isInit
    doing,      \* per thread, the call it is in: [step, cell, how]
    calls,
    told,       \* per thread: the locks of the mutex it was told it has
    relocked,   \* the threads that got Ok for a trylock of what they held
    rwTold,     \* per thread: "none", "read", "write"
    ready,      \* the guest's condition, set with the mutex held
    quiet,      \* the condition is set and not yet broadcast
    runs,       \* how often init_routine was called
    onced       \* the threads that once has returned to

vars == <<objects, cell, isInit, doing, calls, told, relocked, rwTold, ready, quiet, runs, onced>>
guest == <<told, relocked, rwTold, ready, quiet, runs, onced>>

Cells == {"mutex", "cond", "rwlock", "once"}
Out == [step |-> "out", cell |-> "mutex", how |-> "none"]

NewObject(recursive) ==
    [recursive |-> recursive, owner |-> NoThread, count |-> 0, readers |-> {},
     isWrite |-> FALSE, waiting |-> {}, woken |-> {}]

Init ==
    /\ objects = <<>>
    /\ cell = [c \in Cells |-> 0]
    /\ isInit = FALSE
    /\ doing = [t \in Threads |-> Out]
    /\ calls = 0
    /\ told = [t \in Threads |-> 0] /\ relocked = {}
    /\ rwTold = [t \in Threads |-> "none"]
    /\ ready = FALSE /\ quiet = FALSE
    /\ runs = 0 /\ onced = {}

Of(c) == objects[cell[c]]
Update(c, o) == objects' = [objects EXCEPT ![cell[c]] = o]
Step(t, s) == doing' = [doing EXCEPT ![t].step = s]
Return(t) == doing' = [doing EXCEPT ![t] = Out]
At(t, s, c, how) == doing[t].step = s /\ doing[t].cell = c /\ doing[t].how \in how

\* The guest makes a call; a null pointer sends it to the static lock first.
Begin(t, c, how) ==
    /\ doing[t] = Out /\ calls < MaxCalls
    /\ calls' = calls + 1
    /\ doing' = [doing EXCEPT ![t] =
          [step |-> IF cell[c] = 0 THEN "create" ELSE "enter", cell |-> c, how |-> how]]
    /\ UNCHANGED <<objects, cell, isInit, guest>>

\* Mutant of Create: no second look with the static lock held.
CreateAlways(t) ==
    /\ doing[t].step = "create"
    /\ objects' = Append(objects, NewObject(FALSE))
    /\ cell' = [cell EXCEPT ![doing[t].cell] = Len(objects) + 1]
    /\ Step(t, "enter")
    /\ UNCHANGED <<isInit, calls, guest>>

\* checkMutexInit, checkCondInit, checkRwLockInit, with their static lock.
Create(t) ==
    /\ doing[t].step = "create"
    /\ IF cell[doing[t].cell] = 0
       THEN /\ objects' = Append(objects, NewObject(FALSE))
            /\ cell' = [cell EXCEPT ![doing[t].cell] = Len(objects) + 1]
       ELSE UNCHANGED <<objects, cell>>
    /\ Step(t, "enter")
    /\ UNCHANGED <<isInit, calls, guest>>

Unused(c) ==
    /\ \A t \in Threads : doing[t] = Out
    /\ cell[c] # 0 => Of(c).owner = NoThread /\ Of(c).readers = {}
    /\ c = "mutex" => \A t \in Threads : told[t] = 0

\* mutexInit with a type, condInit, rwlockInit; the object there was is not freed.
InitObject(c, recursive) ==
    /\ Unused(c) /\ calls < MaxCalls /\ calls' = calls + 1
    /\ objects' = Append(objects, NewObject(recursive))
    /\ cell' = [cell EXCEPT ![c] = Len(objects) + 1]
    /\ UNCHANGED <<isInit, doing, guest>>

\* mutexDestroy, condDestroy, rwlockDestroy.
DestroyObject(c) ==
    /\ Unused(c) /\ cell[c] # 0 /\ calls < MaxCalls /\ calls' = calls + 1
    /\ cell' = [cell EXCEPT ![c] = 0]
    /\ UNCHANGED <<objects, isInit, doing, guest>>

-----------------------------------------------------------------------------
\* recursive_mutex: lock by t of what is free or its own; unlock does not ask who.
MayLock(o, t) == o.owner \in {NoThread, t}
Locked(o, t) == [o EXCEPT !.owner = t, !.count = o.count + 1]
Unlocked(o) ==
    [o EXCEPT !.count = o.count - 1, !.owner = IF o.count = 1 THEN NoThread ELSE o.owner]

\* A second lock that the type does not allow is undone before the call returns.
Relock(t) == Of("mutex").owner = t /\ ~Of("mutex").recursive

\* mutexLock: a relock is EDEADLK.
Lock(t) ==
    /\ At(t, "enter", "mutex", {"lock"})
    /\ MayLock(Of("mutex"), t)
    /\ IF Relock(t) THEN UNCHANGED <<objects, told>>
       ELSE Update("mutex", Locked(Of("mutex"), t)) /\ told' = [told EXCEPT ![t] = told[t] + 1]
    /\ Return(t)
    /\ UNCHANGED <<cell, isInit, calls, relocked, rwTold, ready, quiet, runs, onced>>

\* Mutant of TryLock: the relock is not undone.
TryLockKept(t) ==
    /\ At(t, "enter", "mutex", {"try", "timed"})
    /\ IF MayLock(Of("mutex"), t)
       THEN /\ Update("mutex", Locked(Of("mutex"), t))
            /\ relocked' = relocked
            /\ told' = [told EXCEPT ![t] = IF Relock(t) THEN told[t] ELSE told[t] + 1]
       ELSE UNCHANGED <<objects, relocked, told>>
    /\ Return(t)
    /\ UNCHANGED <<cell, isInit, calls, rwTold, ready, quiet, runs, onced>>

\* mutexTrylock, mutexTimedlock: a relock is Ok; EBUSY or ETIMEDOUT when another owns it.
TryLock(t) ==
    /\ At(t, "enter", "mutex", {"try", "timed"})
    /\ IF MayLock(Of("mutex"), t)
       THEN /\ IF Relock(t) THEN UNCHANGED objects ELSE Update("mutex", Locked(Of("mutex"), t))
            /\ relocked' = IF Relock(t) THEN relocked \cup {t} ELSE relocked
            /\ told' = [told EXCEPT ![t] = told[t] + 1]
       ELSE UNCHANGED <<objects, relocked, told>>
    /\ Return(t)
    /\ UNCHANGED <<cell, isInit, calls, rwTold, ready, quiet, runs, onced>>

\* mutexUnlock, which creates nothing: EINVAL for null, EPERM for who does not own it.
Unlock(t) ==
    /\ doing[t] = Out /\ calls < MaxCalls /\ calls' = calls + 1
    /\ IF cell["mutex"] = 0 \/ Of("mutex").owner # t
       THEN UNCHANGED <<objects, told>>
       ELSE Update("mutex", Unlocked(Of("mutex"))) /\ told' = [told EXCEPT ![t] = told[t] - 1]
    /\ UNCHANGED <<cell, isInit, doing, relocked, rwTold, ready, quiet, runs, onced>>

-----------------------------------------------------------------------------
\* The guest waits for its condition in a loop, with the mutex held.
BeginWait(t, how) ==
    /\ told[t] > 0 /\ ~ready
    /\ Begin(t, "cond", how)

\* condWait, condTimedwait: the entry first; condWait alone asks whether the mutex is
\* locked, by whomever.
CondWait(t) ==
    /\ At(t, "enter", "cond", {"wait", "timedwait"})
    /\ IF doing[t].how = "wait" /\ Of("mutex").count < 1
       THEN Return(t) /\ UNCHANGED objects
       ELSE /\ Update("cond", [Of("cond") EXCEPT !.waiting = Of("cond").waiting \cup {t}])
            /\ Step(t, "leave")
    /\ UNCHANGED <<cell, isInit, calls, guest>>

\* The mutex is unlocked once, however often it is locked.
CondUnlock(t) ==
    /\ At(t, "leave", "cond", {"wait", "timedwait"})
    /\ Update("mutex", Unlocked(Of("mutex")))
    /\ told' = [told EXCEPT ![t] = told[t] - 1]
    /\ Step(t, "sleep")
    /\ UNCHANGED <<cell, isInit, calls, relocked, rwTold, ready, quiet, runs, onced>>

\* A notified waiter goes on, a timed one at any time.
CondWake(t) ==
    /\ At(t, "sleep", "cond", {"wait", "timedwait"})
    /\ t \in Of("cond").woken \/ doing[t].how = "timedwait"
    /\ Update("cond", [Of("cond") EXCEPT !.waiting = Of("cond").waiting \ {t},
                                         !.woken = Of("cond").woken \ {t}])
    /\ Step(t, "relock")
    /\ UNCHANGED <<cell, isInit, calls, guest>>

CondRelock(t) ==
    /\ At(t, "relock", "cond", {"wait", "timedwait"})
    /\ MayLock(Of("mutex"), t)
    /\ Update("mutex", Locked(Of("mutex"), t))
    /\ told' = [told EXCEPT ![t] = told[t] + 1]
    /\ Return(t)
    /\ UNCHANGED <<cell, isInit, calls, relocked, rwTold, ready, quiet, runs, onced>>

SetReady(t) ==
    /\ doing[t] = Out /\ told[t] > 0 /\ ~ready
    /\ ready' = TRUE /\ quiet' = TRUE
    /\ UNCHANGED <<objects, cell, isInit, doing, calls, told, relocked, rwTold, runs, onced>>

\* condSignal wakes one at least; condBroadcast, and condSignalto, wake all.
CondNotify(t) ==
    /\ At(t, "enter", "cond", {"signal", "broadcast"})
    /\ LET o == Of("cond")
       IN  \E w \in SUBSET o.waiting :
            /\ IF doing[t].how = "signal" THEN w = {} => o.waiting = {} ELSE w = o.waiting
            /\ Update("cond", [o EXCEPT !.waiting = o.waiting \ w, !.woken = o.woken \cup w])
    /\ quiet' = IF doing[t].how = "broadcast" THEN FALSE ELSE quiet
    /\ Return(t)
    /\ UNCHANGED <<cell, isInit, calls, told, relocked, rwTold, ready, runs, onced>>

-----------------------------------------------------------------------------
RwReturn(t, mode) == Return(t) /\ rwTold' = [rwTold EXCEPT ![t] = mode]

\* The guest locks when it has nothing, and unlocks what it has.
BeginRw(t, how) ==
    /\ IF how = "rwunlock" THEN rwTold[t] # "none" ELSE rwTold[t] = "none"
    /\ Begin(t, "rwlock", how)

\* rwlockRdlock, rwlockTryrdlock, rwlockTimedrdlock.
RwRead(t) ==
    /\ At(t, "enter", "rwlock", {"rdlock", "tryrdlock"})
    /\ LET o == Of("rwlock")
       IN  IF o.owner = NoThread
           THEN /\ Update("rwlock", [o EXCEPT !.readers = o.readers \cup {t}])
                /\ RwReturn(t, "read")
           ELSE doing[t].how = "tryrdlock" /\ Return(t) /\ UNCHANGED <<objects, rwTold>>
    /\ UNCHANGED <<cell, isInit, calls, told, relocked, ready, quiet, runs, onced>>

\* rwlockWrlock, rwlockTrywrlock, rwlockTimedwrlock: the lock, and then the flag.
RwWrite(t) ==
    /\ At(t, "enter", "rwlock", {"wrlock", "trywrlock"})
    /\ LET o == Of("rwlock")
       IN  IF o.owner = NoThread /\ o.readers = {}
           THEN Update("rwlock", [o EXCEPT !.owner = t]) /\ Step(t, "mark")
           ELSE doing[t].how = "trywrlock" /\ Return(t) /\ UNCHANGED objects
    /\ UNCHANGED <<cell, isInit, calls, guest>>

RwMark(t) ==
    /\ doing[t].step = "mark"
    /\ Update("rwlock", [Of("rwlock") EXCEPT !.isWrite = TRUE])
    /\ RwReturn(t, "write")
    /\ UNCHANGED <<cell, isInit, calls, told, relocked, ready, quiet, runs, onced>>

\* Mutant of RwUnlock: the flag stays set.
RwUnlockKeepsFlag(t) ==
    /\ At(t, "enter", "rwlock", {"rwunlock"})
    /\ LET o == Of("rwlock")
       IN  IF o.isWrite
           THEN Step(t, "free") /\ UNCHANGED <<objects, rwTold>>
           ELSE /\ Update("rwlock", [o EXCEPT !.readers = o.readers \ {t}])
                /\ RwReturn(t, "none")
    /\ UNCHANGED <<cell, isInit, calls, told, relocked, ready, quiet, runs, onced>>

\* rwlockUnlock reads the flag and unlocks the mode it says; the flag is cleared first.
RwUnlock(t) ==
    /\ At(t, "enter", "rwlock", {"rwunlock"})
    /\ LET o == Of("rwlock")
       IN  IF o.isWrite
           THEN /\ Update("rwlock", [o EXCEPT !.isWrite = FALSE])
                /\ Step(t, "free") /\ UNCHANGED rwTold
           ELSE /\ Update("rwlock", [o EXCEPT !.readers = o.readers \ {t}])
                /\ RwReturn(t, "none")
    /\ UNCHANGED <<cell, isInit, calls, told, relocked, ready, quiet, runs, onced>>

RwFree(t) ==
    /\ doing[t].step = "free"
    /\ Update("rwlock", [Of("rwlock") EXCEPT !.owner = NoThread])
    /\ RwReturn(t, "none")
    /\ UNCHANGED <<cell, isInit, calls, told, relocked, ready, quiet, runs, onced>>

-----------------------------------------------------------------------------
\* once: mutexLock of the control's mutex, whose result is not looked at.
OnceLock(t) ==
    /\ At(t, "enter", "once", {"once"})
    /\ MayLock(Of("once"), t)
    /\ Update("once", Locked(Of("once"), t))
    /\ Step(t, "look")
    /\ UNCHANGED <<cell, isInit, calls, guest>>

\* Mutant of OnceLook: the mutex is not held while init_routine runs.
OnceLookUnlocks(t) ==
    /\ doing[t].step = "look"
    /\ Update("once", Unlocked(Of("once")))
    /\ Step(t, IF isInit THEN "unlock" ELSE "routine")
    /\ runs' = IF isInit THEN runs ELSE runs + 1
    /\ UNCHANGED <<cell, isInit, calls, told, relocked, rwTold, ready, quiet, onced>>

OnceLook(t) ==
    /\ doing[t].step = "look"
    /\ Step(t, IF isInit THEN "unlock" ELSE "routine")
    /\ runs' = IF isInit THEN runs ELSE runs + 1
    /\ UNCHANGED <<objects, cell, isInit, calls, told, relocked, rwTold, ready, quiet, onced>>

\* init_routine has returned.
OnceDone(t) ==
    /\ doing[t].step = "routine"
    /\ isInit' = TRUE
    /\ Step(t, "unlock")
    /\ UNCHANGED <<objects, cell, calls, guest>>

OnceUnlock(t) ==
    /\ doing[t].step = "unlock"
    /\ IF Of("once").owner = t THEN Update("once", Unlocked(Of("once"))) ELSE UNCHANGED objects
    /\ onced' = onced \cup {t}
    /\ Return(t)
    /\ UNCHANGED <<cell, isInit, calls, told, relocked, rwTold, ready, quiet, runs>>

Advance(t) ==
    \/ Create(t) \/ Lock(t) \/ TryLock(t)
    \/ CondWait(t) \/ CondUnlock(t) \/ CondWake(t) \/ CondRelock(t) \/ CondNotify(t)
    \/ RwRead(t) \/ RwWrite(t) \/ RwMark(t) \/ RwUnlock(t) \/ RwFree(t)
    \/ OnceLock(t) \/ OnceLook(t) \/ OnceDone(t) \/ OnceUnlock(t)

Next ==
    \/ \E t \in Threads :
        \/ Advance(t) \/ Unlock(t) \/ SetReady(t)
        \/ \E how \in {"lock", "try", "timed"} : Begin(t, "mutex", how)
        \/ \E how \in {"wait", "timedwait"} : BeginWait(t, how)
        \/ \E how \in {"signal", "broadcast"} : Begin(t, "cond", how)
        \/ \E how \in {"rdlock", "tryrdlock", "wrlock", "trywrlock", "rwunlock"} : BeginRw(t, how)
        \/ Begin(t, "once", "once")
    \/ \E recursive \in BOOLEAN : InitObject("mutex", recursive)
    \/ \E c \in {"cond", "rwlock"} : InitObject(c, FALSE)
    \/ \E c \in {"mutex", "cond", "rwlock"} : DestroyObject(c)

Spec == Init /\ [][Next]_vars
FairSpec == Spec /\ \A t \in Threads : WF_vars(Advance(t))

-----------------------------------------------------------------------------
\* A thread owns the mutex exactly as often as it was told, unless a trylock or
\* timedlock answered Ok to a relock it had undone (pthread.cpp:540): through lazy
\* creation, waits of other threads and re-initialisation, nobody else owns it.
HeldAsTold ==
    relocked = {} =>
        \A t \in Threads :
            told[t] > 0 => Of("mutex").owner = t /\ Of("mutex").count = told[t]

\* A thread that is out of all calls holds the read-write lock in the mode it was
\* told: an unlock released what was held (pthread.cpp:740 reads a plain flag).
RwHeldAsTold ==
    \A t \in Threads :
        (doing[t] = Out /\ cell["rwlock"] # 0) =>
            /\ rwTold[t] = "write" <=> Of("rwlock").owner = t
            /\ rwTold[t] = "read" <=> t \in Of("rwlock").readers

\* init_routine runs once and is over before once returns to anybody, also when two
\* first calls create the control's mutex (pthread.cpp:1036).
OnceRunsOnce == runs <= 1 /\ (onced # {} => isInit)

\* After a broadcast of a condition set with the mutex held, nobody waits for it: the
\* entry is made before the mutex is unlocked (pthread.cpp:367), in the one object.
NoLostBroadcast ==
    (ready /\ ~quiet /\ relocked = {} /\ cell["cond"] # 0) =>
        \A i \in DOMAIN objects : objects[i].waiting = {}

\* Two threads are never told of locks that exclude each other, whatever the threads
\* in the middle of a call have done (pthread.cpp:691 and 741 write the flag and the
\* lock apart), except for the mutex after the Ok of an undone relock.
LocksExclude ==
    \A t, u \in Threads : t # u =>
        /\ relocked = {} => ~(told[t] > 0 /\ told[u] > 0)
        /\ rwTold[t] = "write" => rwTold[u] = "none"

\* While anybody is in a call, no object is replaced: of the threads that saw a null
\* pointer at once, one creates it and the others take that one (pthread.cpp:509).
MadeOnce ==
    [][\A c \in Cells : (\E t \in Threads : doing[t] # Out) /\ cell[c] # 0 => cell'[c] = cell[c]]_vars
=============================================================================
