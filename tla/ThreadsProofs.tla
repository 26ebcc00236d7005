---------------------------- MODULE ThreadsProofs ----------------------------
(***************************************************************************)
(* Proofs about Threads, for any number of threads and keys: nobody uses a *)
(* thread's object after it has been freed.  The right to free it is       *)
(* handed on: from the creator to whoever knows the handle, from there to  *)
(* the one who joins it, or to the thread itself once it is detached.      *)
(* And about the two mutexes that are held across waits and guest code:    *)
(* who has one can be read off the steps of the threads.                   *)
(***************************************************************************)
EXTENDS Threads, TLAPS

Stages == {"none", "setup", "running", "cleanup", "destroying", "dtors", "over"}
Steps == {"out", "lock", "start", "wait", "leave", "join"}

LifeOK ==
    /\ at \in [Threads -> Stages]
    /\ obj \in [Threads -> {"none", "live", "freed"}]
    /\ detached \in [Threads -> BOOLEAN]
    /\ doing \in [Callers -> [step : Steps, who : Threads \cup {NoThread}]]
    /\ known \subseteq Threads

\* One caller at most is busy with a thread.
OneCaller ==
    /\ \A t \in Callers : doing[t].who = NoThread <=> doing[t].step = "out"
    /\ \A t, u \in Callers : t # u /\ doing[t].who = doing[u].who => doing[t].step = "out"

\* What a caller's step says about its thread.
CallerKnows(t) ==
    LET c == doing[t].who IN
    /\ doing[t].step = "lock" => at[c] = "none"
    /\ doing[t].step = "start" => at[c] = "none" /\ obj[c] = "live"
    /\ doing[t].step \in {"wait", "leave"} =>
            at[c] # "none" /\ (~detached[c] => obj[c] = "live")
    /\ doing[t].step = "join" => at[c] # "none" /\ ~detached[c] /\ obj[c] = "live"
    /\ doing[t].step # "out" => c \notin known

CallersKnow == \A t \in Callers : CallerKnows(t)

ObjectKept ==
    \A c \in Threads :
        /\ at[c] \notin {"none", "over"} => obj[c] = "live"
        /\ c \in known => at[c] # "none" /\ ~detached[c] /\ obj[c] = "live"

IInv == LifeOK /\ OneCaller /\ CallersKnow /\ ObjectKept
ownership == <<at, obj, detached, doing, known>>

-----------------------------------------------------------------------------
LEMMA InitStep == Init => IInv
  <1>1. SUFFICES ASSUME Init PROVE IInv
    OBVIOUS
  <1>2. Out \in [step : Steps, who : Threads \cup {NoThread}]
    BY DEF Out, Steps
  <1>3. LifeOK
    BY <1>1, <1>2 DEF Init, LifeOK, Stages
  <1>4. OneCaller /\ CallersKnow /\ ObjectKept
    BY <1>1 DEF Init, OneCaller, CallersKnow, CallerKnows, ObjectKept, Out
  <1>5. QED
    BY <1>3, <1>4 DEF IInv

LEMMA Untouched == IInv /\ UNCHANGED ownership => IInv'
  BY DEF IInv, LifeOK, OneCaller, CallersKnow, CallerKnows, ObjectKept, ownership

\* What a step of t does to the steps of the callers.
LEMMA DoingStep ==
    ASSUME LifeOK, NEW t \in Callers, NEW s \in Steps, NEW c \in Threads \cup {NoThread},
           doing' = [doing EXCEPT ![t] = [step |-> s, who |-> c]]
    PROVE  /\ doing' \in [Callers -> [step : Steps, who : Threads \cup {NoThread}]]
           /\ doing'[t].step = s /\ doing'[t].who = c
           /\ \A u \in Callers : u # t => doing'[u] = doing[u]
  BY DEF LifeOK

\* A caller that takes up a thread nobody is busy with, or goes on with its own.
LEMMA SameThread ==
    ASSUME IInv, NEW t \in Callers, \A u \in Callers : u # t => doing'[u] = doing[u],
           doing'[t].who = NoThread <=> doing'[t].step = "out",
           \A u \in Callers : u # t /\ doing[u].who = doing'[t].who => doing[u].step = "out"
    PROVE  OneCaller'
  BY DEF IInv, OneCaller

LEMMA BusyThread ==
    ASSUME IInv, NEW t \in Callers, doing[t].step # "out"
    PROVE  /\ doing[t].who \in Threads
           /\ \A u \in Callers : u # t => doing[u].who # doing[t].who
  BY DEF IInv, LifeOK, OneCaller

LEMMA WhoFacts ==
    ASSUME IInv
    PROVE  \A u \in Callers : doing[u].step # "out" => doing[u].who \in Threads
  BY BusyThread

-----------------------------------------------------------------------------
LEMMA CreateStep ==
    ASSUME IInv, NEW t \in Callers, NEW c \in Threads, NEW detach \in BOOLEAN,
           Create(t, c, detach)
    PROVE  IInv'
  <1>1. /\ doing' = [doing EXCEPT ![t] = [step |-> "lock", who |-> c]]
        /\ detached' = [detached EXCEPT ![c] = detach]
        /\ at[c] = "none" /\ \A u \in Callers : doing[u].who # c
        /\ UNCHANGED <<at, obj, known>>
    BY DEF Create, Now
  <1>2. /\ doing'[t].step = "lock" /\ doing'[t].who = c
        /\ \A u \in Callers : u # t => doing'[u] = doing[u]
        /\ doing' \in [Callers -> [step : Steps, who : Threads \cup {NoThread}]]
    BY <1>1, DoingStep DEF Steps, IInv
  <1>3. OneCaller'
    BY <1>1, <1>2, SameThread, ThreadsAssumption
  <1>4. LifeOK'
    BY <1>1, <1>2 DEF IInv, LifeOK
  <1>5. CallersKnow'
    BY <1>1, <1>2 DEF IInv, LifeOK, CallersKnow, CallerKnows, ObjectKept
  <1>6. ObjectKept'
    BY <1>1 DEF IInv, LifeOK, ObjectKept
  <1>7. QED
    BY <1>3, <1>4, <1>5, <1>6 DEF IInv

LEMMA AllocateStep ==
    ASSUME IInv, NEW t \in Callers, Allocate(t)
    PROVE  IInv'
  <1> DEFINE c == doing[t].who
  <1>1. /\ doing[t].step = "lock" /\ doing' = [doing EXCEPT ![t] = [step |-> "start", who |-> c]]
        /\ obj' = [obj EXCEPT ![c] = "live"]
        /\ UNCHANGED <<at, detached, known>>
    BY DEF Allocate, Now
  <1>2. c \in Threads /\ \A u \in Callers : u # t => doing[u].who # c
    BY <1>1, BusyThread
  <1>3. /\ doing'[t].step = "start" /\ doing'[t].who = c
        /\ \A u \in Callers : u # t => doing'[u] = doing[u]
        /\ doing' \in [Callers -> [step : Steps, who : Threads \cup {NoThread}]]
    BY <1>1, <1>2, DoingStep DEF Steps, IInv
  <1>4. OneCaller'
    BY <1>1, <1>2, <1>3, SameThread, ThreadsAssumption
  <1>5. LifeOK'
    BY <1>1, <1>2, <1>3 DEF IInv, LifeOK
  <1>6. CallersKnow'
    BY <1>1, <1>2, <1>3 DEF IInv, LifeOK, OneCaller, CallersKnow, CallerKnows
  <1>7. ObjectKept'
    BY <1>1, <1>2 DEF IInv, LifeOK, ObjectKept
  <1>8. QED
    BY <1>4, <1>5, <1>6, <1>7 DEF IInv

LEMMA StartStep ==
    ASSUME IInv, NEW t \in Callers, Start(t)
    PROVE  IInv'
  <1> DEFINE c == doing[t].who
  <1>1. /\ doing[t].step = "start" /\ doing' = [doing EXCEPT ![t] = [step |-> "wait", who |-> c]]
        /\ at' = [at EXCEPT ![c] = "setup"]
        /\ UNCHANGED <<obj, detached, known>>
    BY DEF Start, Now
  <1>2. c \in Threads /\ \A u \in Callers : u # t => doing[u].who # c
    BY <1>1, BusyThread
  <1>3. /\ doing'[t].step = "wait" /\ doing'[t].who = c
        /\ \A u \in Callers : u # t => doing'[u] = doing[u]
        /\ doing' \in [Callers -> [step : Steps, who : Threads \cup {NoThread}]]
    BY <1>1, <1>2, DoingStep DEF Steps, IInv
  <1>4. OneCaller'
    BY <1>1, <1>2, <1>3, SameThread, ThreadsAssumption
  <1>5. LifeOK'
    BY <1>1, <1>2, <1>3 DEF IInv, LifeOK, Stages
  <1>6. CallersKnow'
    BY <1>1, <1>2, <1>3 DEF IInv, LifeOK, OneCaller, CallersKnow, CallerKnows
  <1>7. ObjectKept'
    BY <1>1, <1>2 DEF IInv, LifeOK, CallersKnow, CallerKnows, ObjectKept
  <1>8. QED
    BY <1>4, <1>5, <1>6, <1>7 DEF IInv

LEMMA WaitStep ==
    ASSUME IInv, NEW t \in Callers, Wait(t)
    PROVE  IInv'
  <1> DEFINE c == doing[t].who
  <1>1. /\ doing[t].step = "wait" /\ doing' = [doing EXCEPT ![t] = [step |-> "leave", who |-> c]]
        /\ UNCHANGED <<at, obj, detached, known>>
    BY DEF Wait, Now, threadVars
  <1>2. c \in Threads /\ \A u \in Callers : u # t => doing[u].who # c
    BY <1>1, BusyThread
  <1>3. /\ doing'[t].step = "leave" /\ doing'[t].who = c
        /\ \A u \in Callers : u # t => doing'[u] = doing[u]
        /\ doing' \in [Callers -> [step : Steps, who : Threads \cup {NoThread}]]
    BY <1>1, <1>2, DoingStep DEF Steps, IInv
  <1>4. OneCaller'
    BY <1>1, <1>2, <1>3, SameThread, ThreadsAssumption
  <1>5. LifeOK' /\ ObjectKept'
    BY <1>1, <1>3 DEF IInv, LifeOK, ObjectKept
  <1>6. CallersKnow'
    BY <1>1, <1>2, <1>3 DEF IInv, CallersKnow, CallerKnows
  <1>7. QED
    BY <1>4, <1>5, <1>6 DEF IInv

\* A caller that returns: from create, or from join.
LEMMA Returned ==
    ASSUME IInv, NEW t \in Callers, Return(t)
    PROVE  /\ OneCaller'
           /\ doing'[t].step = "out"
           /\ \A u \in Callers : u # t => doing'[u] = doing[u]
           /\ doing' \in [Callers -> [step : Steps, who : Threads \cup {NoThread}]]
  <1>1. doing' = [doing EXCEPT ![t] = [step |-> "out", who |-> NoThread]]
    BY DEF Return, Out
  <1>2. OneCaller'
    BY <1>1, SameThread DEF Steps, IInv, OneCaller
  <1>3. QED
    BY <1>1, <1>2, DoingStep DEF Steps, IInv

LEMMA LeaveStep ==
    ASSUME IInv, NEW t \in Callers, Leave(t)
    PROVE  IInv'
  <1> DEFINE c == doing[t].who
  <1>1. /\ doing[t].step = "leave" /\ Return(t)
        /\ known' = IF detached[c] THEN known ELSE known \cup {c}
        /\ UNCHANGED <<at, obj, detached>>
    BY DEF Leave, threadVars
  <1>2. c \in Threads /\ \A u \in Callers : u # t => doing[u].who # c
    BY <1>1, BusyThread
  <1>3. LifeOK' /\ OneCaller'
    BY <1>1, <1>2, Returned DEF IInv, LifeOK
  <1>4. CallersKnow'
    BY <1>1, <1>2, Returned DEF IInv, CallersKnow, CallerKnows
  <1>5. ObjectKept'
    BY <1>1, <1>2 DEF IInv, CallersKnow, CallerKnows, ObjectKept
  <1>6. QED
    BY <1>3, <1>4, <1>5 DEF IInv

LEMMA JoinStep ==
    ASSUME IInv, NEW t \in Callers, NEW c \in Threads, Join(t, c)
    PROVE  IInv'
  <1>1. /\ doing' = [doing EXCEPT ![t] = [step |-> "join", who |-> c]]
        /\ c \in known /\ known' = known \ {c}
        /\ UNCHANGED <<at, obj, detached>>
    BY DEF Join, Now, threadVars
  <1>2. \A u \in Callers : doing[u].who = c => doing[u].step = "out"
    BY <1>1 DEF IInv, CallersKnow, CallerKnows
  <1>3. /\ doing'[t].step = "join" /\ doing'[t].who = c
        /\ \A u \in Callers : u # t => doing'[u] = doing[u]
        /\ doing' \in [Callers -> [step : Steps, who : Threads \cup {NoThread}]]
    BY <1>1, DoingStep DEF Steps, IInv
  <1>4. OneCaller'
    BY <1>1, <1>2, <1>3, SameThread, ThreadsAssumption
  <1>5. LifeOK' /\ ObjectKept'
    BY <1>1, <1>3 DEF IInv, LifeOK, ObjectKept
  <1>6. CallersKnow'
    BY <1>1, <1>3 DEF IInv, CallersKnow, CallerKnows, ObjectKept
  <1>7. QED
    BY <1>4, <1>5, <1>6 DEF IInv

LEMMA JoinedStep ==
    ASSUME IInv, NEW t \in Callers, Joined(t)
    PROVE  IInv'
  <1> DEFINE c == doing[t].who
  <1>1. /\ doing[t].step = "join" /\ at[c] = "over" /\ Return(t)
        /\ obj' = [obj EXCEPT ![c] = "freed"] \/ obj' = obj
        /\ UNCHANGED <<at, detached, known>>
    BY DEF Joined
  <1>2. /\ c \in Threads /\ c \notin known
        /\ \A u \in Callers : u # t => doing[u].who # c
    BY <1>1, BusyThread DEF IInv, CallersKnow, CallerKnows
  <1>3. LifeOK' /\ OneCaller'
    BY <1>1, Returned DEF IInv, LifeOK
  <1>4. CallersKnow'
    BY <1>1, <1>2, Returned, WhoFacts DEF IInv, LifeOK, CallersKnow, CallerKnows
  <1>5. ObjectKept'
    BY <1>1, <1>2 DEF IInv, LifeOK, ObjectKept
  <1>6. QED
    BY <1>3, <1>4, <1>5 DEF IInv

LEMMA DetachStep ==
    ASSUME IInv, NEW t \in Callers, NEW c \in Threads, Detach(t, c)
    PROVE  IInv'
  <1>1. /\ c \in known /\ known' = known \ {c}
        /\ detached' = [detached EXCEPT ![c] = TRUE]
        /\ UNCHANGED <<at, obj, doing>>
    BY DEF Detach
  <1>2. \A u \in Callers : doing[u].who = c => doing[u].step = "out"
    BY <1>1 DEF IInv, CallersKnow, CallerKnows
  <1>3. LifeOK' /\ OneCaller' /\ ObjectKept'
    BY <1>1 DEF IInv, LifeOK, OneCaller, ObjectKept
  <1>4. CallersKnow'
    BY <1>1, <1>2 DEF IInv, LifeOK, CallersKnow, CallerKnows
  <1>5. QED
    BY <1>3, <1>4 DEF IInv

\* The thread itself: it frees its object at its end, and only if it is detached.
LEMMA OwnStep ==
    ASSUME IInv, NEW c \in Threads,
           Setup(c) \/ Exit(c) \/ DestroyKeys(c) \/ KeysDestroyed(c) \/ End(c)
    PROVE  IInv'
  <1>1. /\ at[c] \notin {"none", "over"}
        /\ \E s \in Stages \ {"none"} :
              /\ at' = [at EXCEPT ![c] = s]
              /\ \/ UNCHANGED obj
                 \/ s = "over" /\ detached[c] /\ obj' = [obj EXCEPT ![c] = "freed"]
        /\ UNCHANGED <<detached, doing, known>>
    BY DEF Setup, Exit, DestroyKeys, KeysDestroyed, End, Stages
  <1>2. LifeOK' /\ OneCaller'
    BY <1>1 DEF IInv, LifeOK, OneCaller
  <1>3. CallersKnow'
    BY <1>1, WhoFacts DEF IInv, LifeOK, CallersKnow, CallerKnows
  <1>4. ObjectKept'
    BY <1>1 DEF IInv, LifeOK, ObjectKept
  <1>5. QED
    BY <1>2, <1>3, <1>4 DEF IInv

-----------------------------------------------------------------------------
LEMMA NextStep == IInv /\ [Next]_vars => IInv'
  <1>1. SUFFICES ASSUME IInv, [Next]_vars PROVE IInv'
    OBVIOUS
  <1>2. CASE UNCHANGED vars
    BY <1>1, <1>2, Untouched DEF vars, ownership
  <1>3. ASSUME NEW t \in Callers, Advance(t) PROVE IInv'
    <2>1. CASE ModuleStarted(t)
      BY <1>1, <2>1, Untouched DEF ModuleStarted, threadVars, ownership
    <2>2. QED
      BY <1>1, <1>3, <2>1, AllocateStep, StartStep, WaitStep, LeaveStep, JoinedStep, OwnStep
         DEF Advance
  <1>4. ASSUME NEW t \in Callers, NEW c \in Threads, Join(t, c) \/ Detach(t, c) PROVE IInv'
    BY <1>1, <1>4, JoinStep, DetachStep
  <1>5. ASSUME NEW t \in Callers, NEW c \in Threads, NEW detach \in BOOLEAN, Create(t, c, detach)
        PROVE  IInv'
    BY <1>1, <1>5, CreateStep
  <1>6. ASSUME NEW t \in Callers,
               \/ \E kind \in {"plain", "destructor"} : KeyCreate(t, kind)
               \/ \E k \in Slots : KeyDelete(t, k) \/ KeySet(t, k)
               \/ LoadModule(t) \/ LateLook(t)
        PROVE  IInv'
    BY <1>1, <1>6, Untouched DEF KeyCreate, KeyDelete, KeySet, LoadModule, LateLook, threadVars, ownership
  <1>7. ASSUME NEW c \in Threads, Exit(c) PROVE IInv'
    BY <1>1, <1>7, OwnStep
  <1>8. QED
    BY <1>1, <1>2, <1>3, <1>4, <1>5, <1>6, <1>7 DEF Next

\* A thread's object is not freed while the thread, whoever joins or may join it or,
\* unless it is detached, its creator use it (pthread.cpp:409, 1238), however many
\* threads create, join, detach and end each other.
THEOREM ObjectsNotFreedInUse == Spec => []NoUseAfterFree
  <1>1. IInv => NoUseAfterFree
    <2>1. SUFFICES ASSUME IInv, NEW c \in Threads,
                          \/ at[c] \in {"setup", "running", "cleanup", "destroying", "dtors"}
                          \/ c \in known
                          \/ \E t \in Callers :
                                doing[t].who = c /\ doing[t].step # "lock"
                                /\ (doing[t].step = "join" \/ ~detached[c])
                   PROVE  obj[c] = "live"
      BY DEF NoUseAfterFree
    <2>2. CASE at[c] \in {"setup", "running", "cleanup", "destroying", "dtors"} \/ c \in known
      BY <2>1, <2>2 DEF IInv, ObjectKept
    <2>3. ASSUME NEW t \in Callers, doing[t].who = c, doing[t].step # "lock",
                 doing[t].step = "join" \/ ~detached[c]
          PROVE  obj[c] = "live"
      <3>1. doing[t].step \in {"start", "wait", "leave", "join"}
        BY <2>1, <2>3, ThreadsAssumption DEF IInv, LifeOK, OneCaller, Steps
      <3>2. QED
        BY <2>1, <2>3, <3>1 DEF IInv, CallersKnow, CallerKnows
    <2>4. QED
      BY <2>1, <2>2, <2>3
  <1>2. QED
    BY <1>1, InitStep, NextStep, PTL DEF Spec

-----------------------------------------------------------------------------
(* The mutexes.  A thread in a module's entry is still running, so it does *)
(* not get to its own destructors with the linker's mutex in its hands.    *)

LocksOK ==
    /\ MutexesOwned
    /\ entry \subseteq Callers
    /\ \A t \in entry \cap Threads : at[t] = "running"

\* The steps between the lock and the unlock of getData()->mutex.
Holds(t) == doing[t].step \in {"start", "wait", "leave"}

LEMMA LocksInit == Init => LocksOK
  BY ThreadsAssumption DEF Init, LocksOK, MutexesOwned, Callers, Out

\* A step that leaves data alone, and moves only one caller among the steps that hold
\* it or among those that do not.
LEMMA DataKept ==
    ASSUME LocksOK, data' = data, \A u \in Callers : Holds(u)' <=> Holds(u)
    PROVE  \A t \in Callers : data' = t <=> doing'[t].step \in {"start", "wait", "leave"}
  BY DEF LocksOK, MutexesOwned, Holds

LEMMA LinkerKept ==
    ASSUME LocksOK, linker' = linker, entry' = entry,
           \A u \in Threads : /\ at'[u] = "destroying" <=> at[u] = "destroying"
                              /\ u \in entry => at'[u] = "running"
    PROVE  /\ \A t \in Callers : linker' = t <=> t \in entry' \/ (t \in Threads /\ at'[t] = "destroying")
           /\ entry' \subseteq Callers
           /\ \A t \in entry' \cap Threads : at'[t] = "running"
  BY DEF LocksOK, MutexesOwned

\* The steps of create, and a join.
LEMMA CallerLocks ==
    ASSUME IInv, LocksOK, NEW t \in Callers,
           \/ Allocate(t) \/ Start(t) \/ Wait(t) \/ Leave(t) \/ Joined(t)
           \/ \E c \in Threads : Join(t, c) \/ Detach(t, c)
           \/ \E c \in Threads, detach \in BOOLEAN : Create(t, c, detach)
    PROVE  LocksOK'
  <1>1. linker' = linker /\ entry' = entry
    BY DEF Allocate, Start, Wait, Leave, Joined, Join, Detach, Create, threadVars
  <1>2. \A u \in Threads : /\ at'[u] = "destroying" <=> at[u] = "destroying"
                           /\ u \in entry => at'[u] = "running"
    <2>1. CASE Start(t)
      <3>1. doing[t].who \in Threads /\ at[doing[t].who] = "none"
        BY <2>1, BusyThread DEF Start, IInv, CallersKnow, CallerKnows
      <3>2. at' = [at EXCEPT ![doing[t].who] = "setup"]
        BY <2>1 DEF Start
      <3>3. QED
        BY <3>1, <3>2 DEF IInv, LifeOK, LocksOK
    <2>2. CASE ~Start(t)
      <3>1. at' = at
        BY <2>2 DEF Allocate, Wait, Leave, Joined, Join, Detach, Create, threadVars
      <3>2. QED
        BY <3>1 DEF LocksOK
    <2>3. QED
      BY <2>1, <2>2
  <1>3. \A u \in Callers : data' = u <=> doing'[u].step \in {"start", "wait", "leave"}
    <2>1. CASE Allocate(t)
      <3>1. /\ data = NoThread /\ data' = t
            /\ doing' = [doing EXCEPT ![t] = [step |-> "start", who |-> doing[t].who]]
        BY <2>1 DEF Allocate, Now
      <3>2. \A u \in Callers : ~Holds(u)
        BY <3>1, ThreadsAssumption DEF LocksOK, MutexesOwned, Holds, Callers
      <3>3. doing'[t].step = "start" /\ \A u \in Callers : u # t => doing'[u] = doing[u]
        BY <3>1 DEF IInv, LifeOK
      <3>4. QED
        BY <3>1, <3>2, <3>3 DEF Holds
    <2>2. CASE Leave(t)
      <3>1. /\ data = t /\ data' = NoThread
            /\ doing' = [doing EXCEPT ![t] = Out]
        BY <2>2 DEF Leave, Return, LocksOK, MutexesOwned
      <3>2. \A u \in Callers : u # t => ~Holds(u)
        BY <3>1 DEF LocksOK, MutexesOwned, Holds
      <3>3. doing'[t].step = "out" /\ \A u \in Callers : u # t => doing'[u] = doing[u]
        BY <3>1 DEF IInv, LifeOK, Out
      <3>4. QED
        BY <3>1, <3>2, <3>3, ThreadsAssumption DEF Holds, Callers
    <2>3. CASE ~Allocate(t) /\ ~Leave(t)
      <3>1. data' = data
        BY <2>3 DEF Start, Wait, Joined, Join, Detach, Create
      <3>2. \A u \in Callers : u # t => doing'[u] = doing[u]
        BY <2>3 DEF Start, Wait, Joined, Join, Detach, Create, Now, Return, IInv, LifeOK
      <3>3. Holds(t)' <=> Holds(t)
        BY <2>3 DEF Start, Wait, Joined, Join, Detach, Create, Call, Now, Return, Out, Holds, IInv, LifeOK
      <3>4. \A u \in Callers : Holds(u)' <=> Holds(u)
        BY <3>2, <3>3 DEF Holds
      <3>5. QED
        BY <3>1, <3>4, DataKept
    <2>4. QED
      BY <2>1, <2>2, <2>3
  <1>4. QED
    BY <1>1, <1>2, <1>3, LinkerKept DEF LocksOK, MutexesOwned

\* The steps that touch neither mutex.
LEMMA OtherLocks ==
    ASSUME IInv, LocksOK,
           \/ \E c \in Threads : Setup(c) \/ End(c) \/ Exit(c)
           \/ \E t \in Callers :
                \/ \E kind \in {"plain", "destructor"} : KeyCreate(t, kind)
                \/ \E k \in Slots : KeyDelete(t, k) \/ KeySet(t, k)
                \/ LateLook(t)
           \/ UNCHANGED vars
    PROVE  LocksOK'
  <1>1. linker' = linker /\ entry' = entry /\ data' = data /\ doing' = doing
    BY DEF Setup, End, Exit, KeyCreate, KeyDelete, KeySet, LateLook, vars
  <1>2. \A u \in Threads : /\ at'[u] = "destroying" <=> at[u] = "destroying"
                           /\ u \in entry => at'[u] = "running"
    <2>1. ASSUME NEW c \in Threads, Setup(c) \/ End(c) \/ Exit(c)
          PROVE  /\ c \notin entry /\ at[c] # "destroying" /\ at'[c] # "destroying"
                 /\ \A u \in Threads : u # c => at'[u] = at[u]
      BY <2>1 DEF Setup, End, Exit, IInv, LifeOK, LocksOK
    <2>2. (\E c \in Threads : Setup(c) \/ End(c) \/ Exit(c)) \/ at' = at
      BY DEF KeyCreate, KeyDelete, KeySet, LateLook, threadVars, vars
    <2>3. QED
      BY <2>1, <2>2 DEF LocksOK
  <1>3. \A u \in Callers : Holds(u)' <=> Holds(u)
    BY <1>1 DEF Holds
  <1>4. QED
    BY <1>1, <1>2, <1>3, DataKept, LinkerKept DEF LocksOK, MutexesOwned

\* The steps that lock or unlock the linker's mutex.
LEMMA LinkerLocks ==
    ASSUME IInv, LocksOK,
           \/ \E c \in Threads : DestroyKeys(c) \/ KeysDestroyed(c)
           \/ \E t \in Callers : LoadModule(t) \/ ModuleStarted(t)
    PROVE  LocksOK'
  <1>1. data' = data /\ doing' = doing
    BY DEF DestroyKeys, KeysDestroyed, LoadModule, ModuleStarted
  <1>2. \A u \in Callers : data' = u <=> doing'[u].step \in {"start", "wait", "leave"}
    BY <1>1 DEF LocksOK, MutexesOwned
  <1>3. NoThread \notin Callers
    BY ThreadsAssumption DEF Callers
  <1>4. ASSUME NEW c \in Threads, DestroyKeys(c) PROVE LocksOK'
    <2>1. linker = NoThread /\ linker' = c /\ at' = [at EXCEPT ![c] = "destroying"] /\ entry' = entry
      BY <1>4 DEF DestroyKeys
    <2>2. entry = {} /\ \A u \in Threads : at[u] # "destroying"
      BY <1>3, <2>1 DEF LocksOK, MutexesOwned, Callers
    <2>3. QED
      BY <1>2, <2>1, <2>2 DEF LocksOK, MutexesOwned, IInv, LifeOK
  <1>5. ASSUME NEW c \in Threads, KeysDestroyed(c) PROVE LocksOK'
    <2>1. /\ at[c] = "destroying" /\ linker' = NoThread /\ entry' = entry
          /\ at' = [at EXCEPT ![c] = "dtors"]
      BY <1>5 DEF KeysDestroyed
    <2>2. linker = c /\ c \in Callers
      BY <2>1 DEF LocksOK, MutexesOwned, Callers
    <2>3. entry = {} /\ \A u \in Threads : u # c => at[u] # "destroying"
      BY <2>1, <2>2 DEF LocksOK, MutexesOwned, Callers
    <2>4. QED
      BY <1>2, <1>3, <2>1, <2>3 DEF LocksOK, MutexesOwned, IInv, LifeOK
  <1>6. ASSUME NEW t \in Callers, LoadModule(t) PROVE LocksOK'
    <2>1. /\ linker = NoThread /\ linker' = t /\ entry' = entry \cup {t} /\ at' = at
          /\ t # Main => at[t] = "running"
      BY <1>6 DEF LoadModule, Call, Runs, threadVars
    <2>2. entry = {} /\ \A u \in Threads : at[u] # "destroying"
      BY <1>3, <2>1 DEF LocksOK, MutexesOwned, Callers
    <2>3. QED
      BY <1>2, <2>1, <2>2, ThreadsAssumption DEF LocksOK, MutexesOwned
  <1>7. ASSUME NEW t \in Callers, ModuleStarted(t) PROVE LocksOK'
    <2>1. t \in entry /\ linker' = NoThread /\ entry' = entry \ {t} /\ at' = at
      BY <1>7 DEF ModuleStarted, threadVars
    <2>2. linker = t
      BY <2>1 DEF LocksOK, MutexesOwned
    <2>3. entry = {t} /\ \A u \in Threads : at[u] # "destroying"
      BY <2>1, <2>2 DEF LocksOK, MutexesOwned, Callers
    <2>4. QED
      BY <1>2, <1>3, <2>1, <2>3 DEF LocksOK, MutexesOwned
  <1>8. QED
    BY <1>4, <1>5, <1>6, <1>7

\* Each mutex has the owner that its callers' steps say, and no way out of create, of a
\* module's entry or of the destructors leaves one locked.
THEOREM MutexesAreOwned == Spec => []MutexesOwned
  <1>1. IInv /\ LocksOK /\ [Next]_vars => LocksOK'
    <2> SUFFICES ASSUME IInv, LocksOK, [Next]_vars PROVE LocksOK'
      OBVIOUS
    <2>1. ASSUME NEW t \in Callers, Advance(t) PROVE LocksOK'
      BY <2>1, CallerLocks, OtherLocks, LinkerLocks DEF Advance
    <2>2. QED
      BY <2>1, CallerLocks, OtherLocks, LinkerLocks DEF Next
  <1>2. LocksOK => MutexesOwned
    BY DEF LocksOK
  <1>3. QED
    BY <1>1, <1>2, InitStep, NextStep, LocksInit, PTL DEF Spec
=============================================================================
