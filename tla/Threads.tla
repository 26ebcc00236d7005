------------------------------- MODULE Threads -------------------------------
(***************************************************************************)
(* The life of guest threads (core/kernel/pthread.cpp: create, join,       *)
(* detach, the thread's set-up and cleanup) with the thread-local storage  *)
(* and module start of core/runtime/runtimeLinker.cpp that they call.      *)
(* Guest code that runs with the linker's mutex held (a module's entry,    *)
(* the destructors of keys) is a step of its own.  Attributes, stacks,     *)
(* names, priorities and the handlers of cleanup_push are left out.        *)
(***************************************************************************)
EXTENDS Integers, FiniteSets

CONSTANTS
    Threads,                \* the guest threads that may be created
    Main,                   \* the first thread, which is no guest thread's object
    NoThread,
    m_countcreatePrograms,  \* programs with static storage: the keys below are theirs
    DTV_MAX_KEYS,
    MaxCalls                \* bound on the calls that are not returns

ASSUME ThreadsAssumption == Main \notin Threads /\ NoThread \notin Threads \cup {Main}
ASSUME KeysAssumption ==
    /\ m_countcreatePrograms \in Nat \ {0} /\ DTV_MAX_KEYS \in Nat
    /\ m_countcreatePrograms < DTV_MAX_KEYS

VARIABLES
    at,          \* "none", "setup", "running", "cleanup", "destroying", "dtors", "over"
    obj,         \* the thread's object: "none", "live", "freed"
    detached, started,
    data,        \* owner of getData()->mutex
    doing,       \* per caller: [step, who]
    known,       \* threads whose handle the guest has, neither joined nor detached
    linker,      \* owner of m_mutex_int across guest code
    entry,       \* the threads in a module's entry
    keys,        \* m_dtvKeys: "unused", "static", "plain", "destructor", "module"
    dtv,         \* per thread, slot: "null", "value", "block" of a module
    m_threadList,\* the one thread in it
    calls,
    life         \* "running", or "crashed" after undefined behaviour

vars == <<at, obj, detached, started, data, doing, known, linker, entry, keys, dtv,
          m_threadList, calls, life>>
threadVars == <<at, obj, detached, started>>
tlsVars == <<keys, dtv, m_threadList>>

Callers == Threads \cup {Main}
Slots == 0..(DTV_MAX_KEYS - 1)
Out == [step |-> "out", who |-> NoThread]

Init ==
    /\ at = [c \in Threads |-> "none"]
    /\ obj = [c \in Threads |-> "none"]
    /\ detached = [c \in Threads |-> FALSE]
    /\ started = [c \in Threads |-> FALSE]
    /\ data = NoThread
    /\ doing = [t \in Callers |-> Out]
    /\ known = {}
    /\ linker = NoThread /\ entry = {}
    /\ keys = [k \in Slots |-> IF k <= m_countcreatePrograms THEN "static" ELSE "unused"]
    /\ dtv = [c \in Threads |-> [k \in Slots |-> "null"]]
    /\ m_threadList = NoThread
    /\ calls = 0
    /\ life = "running"

Runs(t) == life = "running" /\ (t # Main => at[t] = "running")
\* Guest code of t makes a call.
Call(t) ==
    /\ Runs(t) /\ doing[t] = Out
    /\ calls < MaxCalls /\ calls' = calls + 1
Now(t, step, who) == doing' = [doing EXCEPT ![t] = [step |-> step, who |-> who]]
Return(t) == doing' = [doing EXCEPT ![t] = Out]
LinkerFree(t) == linker \in {NoThread, t}

-----------------------------------------------------------------------------
Create(t, c, detach) ==
    /\ Call(t) /\ at[c] = "none" /\ \A u \in Callers : doing[u].who # c
    /\ detached' = [detached EXCEPT ![c] = detach]
    /\ Now(t, "lock", c)
    /\ UNCHANGED <<at, obj, started, data, known, linker, entry, tlsVars, life>>

\* create, up to the start of the thread: initTLS enters it in m_threadList, under
\* the id it does not have yet, in place of the one before.
Allocate(t) ==
    LET c == doing[t].who IN
    /\ life = "running" /\ doing[t].step = "lock" /\ data = NoThread
    /\ data' = t
    /\ obj' = [obj EXCEPT ![c] = "live"]
    /\ m_threadList' = c
    /\ Now(t, "start", c)
    /\ UNCHANGED <<at, detached, started, known, linker, entry, keys, dtv, calls, life>>

Start(t) ==
    /\ life = "running" /\ doing[t].step = "start"
    /\ at' = [at EXCEPT ![doing[t].who] = "setup"]
    /\ Now(t, "wait", doing[t].who)
    /\ UNCHANGED <<obj, detached, started, data, known, linker, entry, tlsVars, calls, life>>

\* started.wait(true) returns when it finds that the thread has not started.
Wait(t) ==
    /\ life = "running" /\ doing[t].step = "wait"
    /\ ~started[doing[t].who]
    /\ Now(t, "leave", doing[t].who)
    /\ UNCHANGED <<threadVars, data, known, linker, entry, tlsVars, calls, life>>

\* The creator came to wait when the thread had started already.
Late(t) == doing[t].step = "wait" /\ started[doing[t].who]

\* It wakes up to look again, and the object of a detached thread may be freed.
LateLook(t) ==
    /\ life = "running" /\ Late(t) /\ obj[doing[t].who] = "freed"
    /\ life' = "crashed"
    /\ UNCHANGED <<threadVars, data, doing, known, linker, entry, tlsVars, calls>>

\* Mutant of Leave: the mutex is kept when the thread is detached.
LeaveLocked(t) ==
    /\ life = "running" /\ doing[t].step = "leave"
    /\ known' = IF detached[doing[t].who] THEN known ELSE known \cup {doing[t].who}
    /\ life' = IF obj[doing[t].who] = "freed" THEN "crashed" ELSE life
    /\ data' = IF detached[doing[t].who] THEN data ELSE NoThread
    /\ Return(t)
    /\ UNCHANGED <<threadVars, linker, entry, tlsVars, calls>>

\* The rest of create reads the object, which a detached thread may have freed.
Leave(t) ==
    /\ life = "running" /\ doing[t].step = "leave"
    /\ known' = IF detached[doing[t].who] THEN known ELSE known \cup {doing[t].who}
    /\ life' = IF obj[doing[t].who] = "freed" THEN "crashed" ELSE life
    /\ data' = NoThread
    /\ Return(t)
    /\ UNCHANGED <<threadVars, linker, entry, tlsVars, calls>>

\* join and detach, of a thread that was neither joined nor detached.
Join(t, c) ==
    /\ Call(t) /\ c \in known /\ c # t
    /\ known' = known \ {c}
    /\ Now(t, "join", c)
    /\ UNCHANGED <<threadVars, data, linker, entry, tlsVars, life>>

\* p.join() has returned.
Joined(t) ==
    /\ life = "running" /\ doing[t].step = "join" /\ at[doing[t].who] = "over"
    /\ obj' = IF detached[doing[t].who] THEN obj ELSE [obj EXCEPT ![doing[t].who] = "freed"]
    /\ Return(t)
    /\ UNCHANGED <<at, detached, started, data, known, linker, entry, tlsVars, calls, life>>

Detach(t, c) ==
    /\ Call(t) /\ c \in known
    /\ known' = known \ {c}
    /\ detached' = [detached EXCEPT ![c] = TRUE]
    /\ UNCHANGED <<at, obj, started, data, doing, linker, entry, tlsVars, life>>

-----------------------------------------------------------------------------
\* setup_thread: the thread says it has started.
Setup(c) ==
    /\ life = "running" /\ at[c] = "setup"
    /\ started' = [started EXCEPT ![c] = TRUE]
    /\ at' = [at EXCEPT ![c] = "running"]
    /\ UNCHANGED <<obj, detached, data, doing, known, linker, entry, tlsVars, calls, life>>

\* The entry returns, or exit jumps out of it; cleanup_thread runs the handlers.
Exit(c) ==
    /\ life = "running" /\ at[c] = "running" /\ doing[c] = Out /\ c \notin entry
    /\ at' = [at EXCEPT ![c] = "cleanup"]
    /\ UNCHANGED <<obj, detached, started, data, doing, known, linker, entry, tlsVars, calls, life>>

\* The slots destroyTLSKeys reads: its pointer is advanced and indexed as well.
Slot(n) == 2 * n - m_countcreatePrograms
Read(c, n) == IF Slot(n) \in Slots THEN {dtv[c][Slot(n)]} ELSE {"null", "value"}

\* destroyTLSKeys, with the mutex: the destructors run.  A module's frees the block it
\* is passed, and is undone by a value that is none.
DestroyKeys(c) ==
    /\ life = "running" /\ at[c] = "cleanup" /\ linker = NoThread
    /\ linker' = c
    /\ at' = [at EXCEPT ![c] = "destroying"]
    /\ life' \in {IF \E n \in Slots : keys[n] = "module" /\ v[n] = "value"
                  THEN "crashed" ELSE life :
                  v \in {f \in [Slots -> {"null", "value", "block"}] :
                            \A n \in Slots : f[n] \in Read(c, n)}}
    /\ UNCHANGED <<obj, detached, started, data, doing, known, entry, tlsVars, calls>>

\* Mutant of KeysDestroyed: a way out that leaves the mutex locked.
KeysDestroyedLocked(c) ==
    /\ life = "running" /\ at[c] = "destroying"
    /\ at' = [at EXCEPT ![c] = "dtors"]
    /\ UNCHANGED <<obj, detached, started, data, doing, known, linker, entry, tlsVars, calls, life>>

\* m_threadList.erase names the thread's id, and the entry has another.
KeysDestroyed(c) ==
    /\ life = "running" /\ at[c] = "destroying"
    /\ linker' = NoThread
    /\ at' = [at EXCEPT ![c] = "dtors"]
    /\ UNCHANGED <<obj, detached, started, data, doing, known, entry, tlsVars, calls, life>>

\* Mutant of End: the object is freed, detached or not.
EndFrees(c) ==
    /\ life = "running" /\ at[c] = "dtors"
    /\ at' = [at EXCEPT ![c] = "over"]
    /\ obj' = [obj EXCEPT ![c] = "freed"]
    /\ UNCHANGED <<detached, started, data, doing, known, linker, entry, tlsVars, calls, life>>

\* The end of cleanup_thread: freed here if detached, else by join.
End(c) ==
    /\ life = "running" /\ at[c] = "dtors"
    /\ at' = [at EXCEPT ![c] = "over"]
    /\ obj' = IF detached[c] THEN [obj EXCEPT ![c] = "freed"] ELSE obj
    /\ UNCHANGED <<detached, started, data, doing, known, linker, entry, tlsVars, calls, life>>

-----------------------------------------------------------------------------
\* createTLSKey: the lowest that is unused, if there is one.
IsFree(k) == keys[k] = "unused"
FirstFree(k) == IsFree(k) /\ \A j \in Slots : IsFree(j) => k <= j

KeyCreate(t, kind) ==
    /\ Call(t) /\ LinkerFree(t)
    /\ \/ \E k \in Slots : FirstFree(k) /\ keys' = [keys EXCEPT ![k] = kind]
       \/ (\A k \in Slots : ~IsFree(k)) /\ UNCHANGED keys
    /\ UNCHANGED <<threadVars, data, doing, known, linker, entry, dtv, m_threadList, life>>

\* deleteTLSKey clears the slot of the thread in the list, which may be freed.
KeyDelete(t, k) ==
    /\ Call(t) /\ LinkerFree(t) /\ keys[k] \in {"plain", "destructor"}
    /\ keys' = [keys EXCEPT ![k] = "unused"]
    /\ IF m_threadList = NoThread THEN UNCHANGED <<dtv, life>>
       ELSE IF obj[m_threadList] = "freed" THEN life' = "crashed" /\ UNCHANGED dtv
       ELSE dtv' = [dtv EXCEPT ![m_threadList][k] = "null"] /\ UNCHANGED life
    /\ UNCHANGED <<threadVars, data, doing, known, linker, entry, m_threadList>>

\* setTLSKey for a key, getTLSAddr for a module's.
KeySet(t, k) ==
    /\ Call(t) /\ t # Main /\ LinkerFree(t)
    /\ \/ keys[k] \in {"plain", "destructor"}
          /\ dtv' = [dtv EXCEPT ![t][k] = "value"]
       \/ keys[k] = "module" /\ dtv[t][k] = "null"
          /\ dtv' = [dtv EXCEPT ![t][k] = "block"]
    /\ UNCHANGED <<threadVars, data, doing, known, linker, entry, keys, m_threadList, life>>

\* loadStartModule: the module gets a key, if one is left, and else an index that is none;
\* its entry is run with the mutex held in either case.
LoadModule(t) ==
    /\ Call(t) /\ t \notin entry /\ linker = NoThread
    /\ \/ \E k \in Slots : FirstFree(k) /\ keys' = [keys EXCEPT ![k] = "module"]
       \/ (\A k \in Slots : ~IsFree(k)) /\ UNCHANGED keys
    /\ linker' = t /\ entry' = entry \cup {t}
    /\ UNCHANGED <<threadVars, data, doing, known, dtv, m_threadList, life>>

ModuleStarted(t) ==
    /\ life = "running" /\ t \in entry /\ doing[t] = Out
    /\ linker' = NoThread /\ entry' = entry \ {t}
    /\ UNCHANGED <<threadVars, data, doing, known, tlsVars, calls, life>>

Advance(t) ==
    \/ Allocate(t) \/ Start(t) \/ Wait(t) \/ Leave(t) \/ Joined(t) \/ ModuleStarted(t)
    \/ /\ t \in Threads
       /\ \/ Setup(t) \/ DestroyKeys(t)
          \/ KeysDestroyed(t) \/ End(t)

Next ==
    \/ \E t \in Callers :
        \/ Advance(t)
        \/ \E c \in Threads : Join(t, c) \/ Detach(t, c)
        \/ \E c \in Threads, detach \in BOOLEAN : Create(t, c, detach)
        \/ \E kind \in {"plain", "destructor"} : KeyCreate(t, kind)
        \/ \E k \in Slots : KeyDelete(t, k) \/ KeySet(t, k)
        \/ LoadModule(t) \/ LateLook(t)
    \/ \E c \in Threads : Exit(c)

Spec == Init /\ [][Next]_vars
FairSpec == Spec /\ \A t \in Callers : WF_vars(Advance(t))

-----------------------------------------------------------------------------
Creating(t) == doing[t].step \in {"lock", "start", "wait", "leave"}
\* The object of a thread is there as long as the thread itself, who joins it, who may
\* join it and, unless it is detached, its creator use it: join and cleanup_thread free
\* it once between them (pthread.cpp:409, 1238), whenever detach comes.
NoUseAfterFree ==
    \A c \in Threads :
        (\/ at[c] \in {"setup", "running", "cleanup", "destroying", "dtors"}
         \/ c \in known
         \/ \E t \in Callers :
                doing[t].who = c /\ doing[t].step # "lock" /\ (doing[t].step = "join" \/ ~detached[c]))
        => obj[c] = "live"

\* A mutex is owned by whoever is between its lock and its unlock, and by nobody else:
\* one create at a time is between the lock of getData()->mutex and its return, and one
\* thread runs guest code under the linker's mutex (runtimeLinker.cpp:542, 715), in a
\* module's entry or in the destructors of its keys, whatever it calls from there.
MutexesOwned ==
    /\ \A t \in Callers : data = t <=> doing[t].step \in {"start", "wait", "leave"}
    /\ \A t \in Callers : linker = t <=> t \in entry \/ (t \in Threads /\ at[t] = "destroying")

\* A thread that leaves its entry gets through its cleanup and ends, unless a module's
\* entry, which has the mutex (runtimeLinker.cpp:542), joins a thread or is stuck in create.
ThreadEnds ==
    \A c \in Threads :
        at[c] = "cleanup" ~>
            \/ at[c] = "over"
            \/ life = "crashed"
            \/ \E t \in entry : doing[t].step \in {"join", "lock", "wait"}

\* Every create returns, those that wait for getData()->mutex too, unless one was late:
\* then it keeps the mutex.
CreateReturnsUnlessLate ==
    \A t \in Callers :
        Creating(t) ~> (~Creating(t) \/ life = "crashed" \/ \E u \in Callers : Late(u))
=============================================================================
