---------------------------- MODULE SemaphoreFifo ----------------------------
(***************************************************************************)
(* The kernel semaphore (core/kernel/semaphore_fifo.cpp).  Waiting threads *)
(* form a doubly linked list of SemData nodes, one node per thread and     *)
(* reused by each of its waits; m_curStart is the head, m_curBack the last *)
(* node.  A signal marks the head `signaled' and wakes it; the woken       *)
(* waiter takes its units itself, unlinks its node and wakes the next.     *)
(*                                                                         *)
(* m_mutexInt is released before each notify, and what wait does after     *)
(* such an early unlock runs without the mutex, so those statements are    *)
(* actions of their own.  A wait that reaches lock.unlock() a second time  *)
(* leaves by boost's lock_error.                                           *)
(*                                                                         *)
(* The destructor raises m_isStop without the mutex.  A waiter that has    *)
(* the mutex then may have read the flag already: such a waiter stays      *)
(* inside, in a state of its own, until its next step.                     *)
(***************************************************************************)
EXTENDS Integers, FiniteSets, Sequences

CONSTANTS
    Threads,
    Null,          \* nullptr
    InitCounts,    \* the counts a semaphore may be created with
    Needs,         \* the counts a wait or a poll may ask for
    Signals,       \* the counts a signal may add
    CancelCounts,  \* the counts a cancel may set, {} when the guest never cancels
    Timed,         \* a subset of BOOLEAN: do waits carry a timeout?
    Destroyers,    \* the threads that may delete the semaphore
    m_maxCount,
    MaxValue,      \* bound on m_signalValue: no signal beyond it
    MaxWaiters     \* bound on the drift of m_numWaiters, whose unlocked
                   \* decrements can lose updates: no wait starts beyond it

ASSUME NeedsAssumption == Needs \subseteq Nat \ {0} /\ Signals \subseteq Nat \ {0}
ASSUME CountsAssumption == InitCounts \subseteq Nat /\ CancelCounts \subseteq Int
ASSUME ThreadsAssumption == IsFiniteSet(Threads) /\ Null \notin Threads
ASSUME MiscAssumption == Timed \subseteq BOOLEAN /\ m_maxCount \in Nat

VARIABLES
    m_signalValue,
    m_isStop,
    m_curBack,
    m_curStart,
    m_numWaiters,
    semData,     \* each thread's node: needs, state, parent, child
    at,          \* where each thread is
    timed,       \* the threads asleep with a timeout
    woken,       \* the sleeping threads a notify has reached
    target,      \* whom a thread that has released the mutex will notify
    count,       \* the value of m_numWaiters an unlocked decrement has read
    ret,         \* what each thread's last call returned
    life,        \* "alive", "destroyed", "crashed" or "hung"
    disturbed    \* history: a cancel has marked a waiter, or zeroed the value
                 \* under a waiter that was signaled

list == <<m_signalValue, m_curBack, m_curStart, semData>>
vars == <<m_signalValue, m_isStop, m_curBack, m_curStart, m_numWaiters, semData,
          at, timed, woken, target, count, ret, life, disturbed>>

Nodes == Threads \cup {Null}
IdleNode == [needs |-> 0, state |-> "idle", parent |-> Null, child |-> Null]

Init ==
    /\ m_signalValue \in InitCounts
    /\ m_isStop = FALSE
    /\ m_curBack = Null
    /\ m_curStart = Null
    /\ m_numWaiters = 0
    /\ semData = [t \in Threads |-> IdleNode]
    /\ at = [t \in Threads |-> "idle"]
    /\ timed = {}
    /\ woken = {}
    /\ target = [t \in Threads |-> Null]
    /\ count = [t \in Threads |-> 0]
    /\ ret = [t \in Threads |-> "none"]
    /\ life = "alive"
    /\ disturbed = FALSE

\* The nodes met by following child from m_curStart, at most n + 1 of them.
Walk(n) ==
    LET node[k \in 0..n] ==
            IF k = 0 THEN m_curStart
            ELSE IF node[k - 1] = Null THEN Null ELSE semData[node[k - 1]].child
    IN  node

\* A waiter that has m_mutexInt between two steps: it has read m_isStop as false and is
\* about to take its units or to unlink its node, or it will be refused.
Inside == {"granted", "expired", "refused"}
Unlocked == \A t \in Threads : at[t] \notin Inside

Asleep(t) == life = "alive" /\ at[t] = "waiting"
\* A call in progress may still get the mutex before the destructor does; the guest
\* starts none on a semaphore that is being deleted.
MayCall(t) ==
    /\ life = "alive" /\ at[t] = "idle" /\ Unlocked
    /\ \A d \in Threads : at[d] # "destroyWait"

\* The predicate of both waits.
Released(t) == m_isStop \/ semData[t].state # "waiting"

-----------------------------------------------------------------------------
\* signal: the value grows; a head that can be served is marked under the mutex
\* and notified after it is released.
Signal(t, n) ==
    /\ MayCall(t)
    /\ m_signalValue + n <= MaxValue
    /\ m_signalValue' = m_signalValue + n
    /\ IF m_curStart # Null /\ semData[m_curStart].needs <= m_signalValue'
       THEN /\ semData' = [semData EXCEPT ![m_curStart].state = "signaled"]
            /\ at' = [at EXCEPT ![t] = "signalNotify"]
            /\ target' = [target EXCEPT ![t] = m_curStart]
       ELSE UNCHANGED <<semData, at, target>>
    /\ UNCHANGED <<m_isStop, m_curBack, m_curStart, m_numWaiters, timed, woken,
                   count, ret, life, disturbed>>

\* The notify after the early unlock; a waiter then goes on without the mutex.
Notify(t) ==
    /\ life = "alive"
    /\ at[t] \in {"signalNotify", "leaveNotify", "timeoutNotify"}
    /\ woken' = IF at[target[t]] = "waiting" THEN woken \cup {target[t]} ELSE woken
    /\ at' = [at EXCEPT ![t] = CASE @ = "signalNotify" -> "idle"
                                 [] @ = "leaveNotify"  -> "leaveCount"
                                 [] OTHER              -> "timeoutReset"]
    /\ target' = [target EXCEPT ![t] = Null]
    /\ UNCHANGED <<list, m_isStop, m_numWaiters, timed, count, ret, life, disturbed>>

-----------------------------------------------------------------------------
\* Mutant of PollOk: a poll overtakes the waiters.
PollOkBarging(n) == n <= m_signalValue

\* poll_internal: nobody may overtake the list, not even when the value suffices.
PollOk(n) == m_curBack = Null /\ n <= m_signalValue

Poll(t, n) ==
    /\ MayCall(t)
    /\ m_signalValue' = IF PollOk(n) THEN m_signalValue - n ELSE m_signalValue
    /\ ret' = [ret EXCEPT ![t] = IF PollOk(n) THEN "Ok" ELSE "EAGAIN"]
    /\ UNCHANGED <<m_isStop, m_curBack, m_curStart, m_numWaiters, semData, at,
                   timed, woken, target, count, life, disturbed>>

TryWaitBusy(t) ==
    /\ MayCall(t) /\ m_curBack # Null
    /\ ret' = [ret EXCEPT ![t] = "EBUSY"]
    /\ UNCHANGED <<list, m_isStop, m_numWaiters, at, timed, woken, target, count, life, disturbed>>

\* wait enqueues the thread's node behind m_curBack and sleeps, but for a wait that
\* finds m_isStop raised.  The child of the node is what its last use left there.
WaitEnqueue(t, n, tm) ==
    /\ m_numWaiters \in 0..(MaxWaiters - 1)
    /\ m_numWaiters' = m_numWaiters + 1
    /\ semData' = [s \in Threads |->
           [semData[s] EXCEPT
               !.child  = IF s = m_curBack THEN t ELSE @,
               !.needs  = IF s = t THEN n ELSE @,
               !.parent = IF s = t THEN m_curBack ELSE @,
               !.state  = IF s = t THEN "waiting" ELSE @]]
    /\ m_curStart' = IF m_curStart = Null THEN t ELSE m_curStart
    /\ m_curBack' = t
    /\ at' = [at EXCEPT ![t] = IF m_isStop THEN "refused" ELSE "waiting"]
    /\ timed' = IF tm THEN timed \cup {t} ELSE timed
    /\ ret' = [ret EXCEPT ![t] = "none"]
    /\ UNCHANGED <<m_signalValue, m_isStop, woken, target, count, life, disturbed>>

\* wait, and try_wait once it has found the list empty.
Wait(t, n, tm) ==
    /\ MayCall(t)
    /\ IF PollOk(n) THEN Poll(t, n) ELSE WaitEnqueue(t, n, tm)

-----------------------------------------------------------------------------
\* The last decrement of m_numWaiters by a thread that still owns the mutex.
CountOutLocked(t, result) ==
    /\ m_numWaiters' = m_numWaiters - 1
    /\ at' = [at EXCEPT ![t] = "idle"]
    /\ ret' = [ret EXCEPT ![t] = result]
    /\ woken' = IF m_numWaiters' = 0 /\ m_isStop
                THEN (woken \ {t}) \cup {s \in Threads : at[s] = "destroyWait"}
                ELSE woken \ {t}
    /\ UNCHANGED target

\* Mutant of Serves: what the next waiter needs is not compared with the value.
ServesAny(next, nodes, value) == next # Null

\* A waiter that leaves the head wakes the next one if that can be served.
Serves(next, nodes, value) == next # Null /\ (m_isStop \/ nodes[next].needs <= value)

\* Mutant of LeaveList: the next waiter is not looked at.
LeaveListAlone(t, result) ==
    /\ m_signalValue' = IF result = "Ok" THEN m_signalValue - semData[t].needs ELSE m_signalValue
    /\ m_curBack' = IF semData[t].child = Null THEN Null ELSE m_curBack
    /\ m_curStart' = semData[t].child
    /\ timed' = timed \ {t}
    /\ semData' = [semData EXCEPT ![t] = [IdleNode EXCEPT !.needs = semData[t].needs]]
    /\ CountOutLocked(t, result)
    /\ UNCHANGED <<m_isStop, count, life, disturbed>>

\* The unlinking of a served or cancelled waiter: its child becomes the head.
LeaveList(t, result) ==
    LET next == semData[t].child
        val  == IF result = "Ok" THEN m_signalValue - semData[t].needs ELSE m_signalValue
        own  == [semData EXCEPT ![t] = [IdleNode EXCEPT !.needs = semData[t].needs]]
    IN  /\ m_signalValue' = val
        /\ m_curBack' = IF next = Null THEN Null ELSE m_curBack
        /\ m_curStart' = next
        /\ timed' = timed \ {t}
        /\ IF Serves(next, own, val)
           THEN /\ semData' = [own EXCEPT ![next].state = "signaled"]
                /\ at' = [at EXCEPT ![t] = "leaveNotify"]
                /\ target' = [target EXCEPT ![t] = next]
                /\ woken' = woken \ {t}
                /\ ret' = [ret EXCEPT ![t] = result]
                /\ UNCHANGED m_numWaiters
           ELSE semData' = own /\ CountOutLocked(t, result)
        /\ UNCHANGED <<m_isStop, count, life, disturbed>>

\* Mutant of Leave: a signaled waiter takes its units although the semaphore stops.
LeaveGranted(t) ==
    LeaveList(t, IF semData[t].state = "canceled" THEN "ECANCELED" ELSE "Ok")

Leave(t) ==
    LeaveList(t, IF m_isStop \/ semData[t].state = "canceled" THEN "ECANCELED" ELSE "Ok")

WaitResume(t) ==
    /\ Asleep(t) /\ t \in woken /\ Unlocked
    /\ IF Released(t)
       THEN Leave(t)
       ELSE /\ woken' = woken \ {t}
            /\ UNCHANGED <<list, m_isStop, m_numWaiters, at, timed, target, count, ret, life, disturbed>>

\* The timeout exit: the node is taken out of the middle of the list through its
\* parent and child; m_curStart moves only if the node has no parent, m_curBack
\* never does.
TimeoutUnlink(t) ==
    LET own  == semData[t]
        linked == [s \in Threads |->
                     [semData[s] EXCEPT
                         !.child  = IF s = own.parent THEN own.child ELSE @,
                         !.parent = IF s = own.child THEN own.parent ELSE @]]
        head == linked[t].parent = Null
        next == linked[t].child
        reset == [IdleNode EXCEPT !.needs = own.needs]
    IN  /\ m_curStart' = IF head THEN next ELSE m_curStart
        /\ timed' = timed \ {t}
        /\ IF head /\ Serves(next, linked, m_signalValue)
           THEN /\ semData' = [linked EXCEPT ![next].state = "signaled"]
                /\ at' = [at EXCEPT ![t] = "timeoutNotify"]
                /\ target' = [target EXCEPT ![t] = next]
                /\ woken' = woken \ {t}
                /\ ret' = [ret EXCEPT ![t] = "ETIMEDOUT"]
                /\ UNCHANGED m_numWaiters
           ELSE /\ semData' = [linked EXCEPT ![t] = reset]
                /\ CountOutLocked(t, "ETIMEDOUT")
        /\ UNCHANGED <<m_signalValue, m_isStop, m_curBack, count, life, disturbed>>

\* The timer fires; wait_for evaluates the predicate once more.
WaitTimeout(t) ==
    /\ Asleep(t) /\ t \in timed /\ Unlocked
    /\ IF Released(t) THEN Leave(t) ELSE TimeoutUnlink(t)

\* The waiter that had the mutex when m_isStop was raised goes on, and so does a wait
\* that began after it.
LeaveInside(t) ==
    /\ life = "alive"
    /\ \/ at[t] = "granted" /\ LeaveList(t, "Ok")
       \/ at[t] = "refused" /\ LeaveList(t, "ECANCELED")
       \/ at[t] = "expired" /\ TimeoutUnlink(t)

\* After the early unlock of the timeout exit the node is reset without the mutex.
TimeoutReset(t) ==
    /\ life = "alive" /\ at[t] = "timeoutReset"
    /\ semData' = [semData EXCEPT ![t] = [IdleNode EXCEPT !.needs = semData[t].needs]]
    /\ at' = [at EXCEPT ![t] = "leaveCount"]
    /\ UNCHANGED <<m_signalValue, m_isStop, m_curBack, m_curStart, m_numWaiters,
                   timed, woken, target, count, ret, life, disturbed>>

\* --m_numWaiters without the mutex: other threads may run between its load and
\* its store.  If it reaches zero during destruction the second unlock throws.
CountLoad(t) ==
    /\ life = "alive" /\ at[t] = "leaveCount"
    /\ count' = [count EXCEPT ![t] = m_numWaiters]
    /\ at' = [at EXCEPT ![t] = "leaveStore"]
    /\ UNCHANGED <<list, m_isStop, m_numWaiters, timed, woken, target, ret, life, disturbed>>

CountStore(t) ==
    /\ life = "alive" /\ at[t] = "leaveStore"
    /\ m_numWaiters' = count[t] - 1
    /\ count' = [count EXCEPT ![t] = 0]
    /\ at' = [at EXCEPT ![t] = "idle"]
    /\ ret' = [ret EXCEPT ![t] = IF m_numWaiters' = 0 /\ m_isStop THEN "lock_error" ELSE @]
    /\ UNCHANGED <<list, m_isStop, timed, woken, target, life, disturbed>>

-----------------------------------------------------------------------------
\* The leading waiters whose needs fit into setCount, and the node after them.
CancelRun(setCount) ==
    LET node == Walk(setCount)
        left[k \in 0..setCount] ==
            IF k = 0 THEN setCount
            ELSE IF node[k - 1] = Null THEN left[k - 1]
                 ELSE left[k - 1] - semData[node[k - 1]].needs
        fits(k) == \A j \in 0..(k - 1) : node[j] # Null /\ semData[node[j]].needs <= left[j]
        num  == CHOOSE k \in 0..setCount : fits(k) /\ (k < setCount => ~fits(k + 1))
    IN  [canceled |-> {node[j] : j \in 0..(num - 1)}, rest |-> node[num]]

\* cancel: these waiters are marked; the node after them, not they, is notified,
\* and there may be no such node.
Cancel(t, setCount) ==
    LET canceled == CancelRun(setCount).canceled
        rest     == CancelRun(setCount).rest
    IN  /\ MayCall(t) /\ setCount > 0 /\ setCount < m_maxCount
        /\ m_signalValue' = 0
        /\ semData' = [s \in Threads |-> IF s \in canceled
                                         THEN [semData[s] EXCEPT !.state = "canceled"]
                                         ELSE semData[s]]
        /\ disturbed' = (\/ disturbed
                         \/ canceled # {}
                         \/ \E s \in Threads : at[s] = "waiting" /\ semData[s].state = "signaled")
        /\ life' = IF canceled # {} /\ rest = Null THEN "crashed" ELSE life
        /\ IF canceled # {} /\ rest # Null
           THEN /\ at' = [at EXCEPT ![t] = "signalNotify"]
                /\ target' = [target EXCEPT ![t] = rest]
           ELSE UNCHANGED <<at, target>>
        /\ UNCHANGED <<m_isStop, m_curBack, m_curStart, m_numWaiters, timed, woken, count, ret>>

\* A waiter that may have the mutex now, and what it has found there before m_isStop is
\* raised: that it was signaled, or that its time is over.
FoundBefore(s, where) ==
    /\ Asleep(s)
    /\ \/ where = "granted" /\ semData[s].state = "signaled" /\ s \in woken \cup timed
       \/ where = "expired" /\ semData[s].state = "waiting" /\ s \in timed

\* The destructor raises m_isStop before it takes the mutex: one waiter at most is
\* inside at that moment.
DestroyStop(t) ==
    /\ MayCall(t) /\ ~m_isStop /\ t \in Destroyers
    /\ m_isStop' = TRUE
    /\ \/ at' = [at EXCEPT ![t] = "destroyLock"]
       \/ \E s \in Threads, where \in {"granted", "expired"} :
              FoundBefore(s, where) /\ at' = [at EXCEPT ![t] = "destroyLock", ![s] = where]
    /\ UNCHANGED <<list, m_numWaiters, timed, woken, target, count, ret, life, disturbed>>

\* It wakes every node of the list, without end if the list is a cycle.
DestroyNotify(t) ==
    LET node == Walk(Cardinality(Threads))
        members == {node[k] : k \in 0..Cardinality(Threads)} \ {Null}
    IN  /\ life = "alive" /\ at[t] = "destroyLock" /\ Unlocked
        /\ IF node[Cardinality(Threads)] # Null
           THEN life' = "hung" /\ UNCHANGED <<m_curStart, woken, at>>
           ELSE /\ m_curStart' = Null
                /\ woken' = woken \cup {s \in members : at[s] = "waiting"}
                /\ life' = IF m_numWaiters = 0 THEN "destroyed" ELSE life
                /\ at' = [at EXCEPT ![t] = IF m_numWaiters = 0 THEN "idle" ELSE "destroyWait"]
        /\ UNCHANGED <<m_signalValue, m_isStop, m_curBack, m_numWaiters, semData,
                       timed, target, count, ret, disturbed>>

DestroyResume(t) ==
    /\ life = "alive" /\ at[t] = "destroyWait" /\ t \in woken /\ Unlocked
    /\ woken' = woken \ {t}
    /\ life' = IF m_numWaiters = 0 THEN "destroyed" ELSE life
    /\ at' = [at EXCEPT ![t] = IF m_numWaiters = 0 THEN "idle" ELSE @]
    /\ UNCHANGED <<list, m_isStop, m_numWaiters, timed, target, count, ret, disturbed>>

-----------------------------------------------------------------------------
Call(t) ==
    \/ \E n \in Signals : Signal(t, n)
    \/ \E n \in Needs : Poll(t, n)
    \/ \E n \in Needs, tm \in Timed : Wait(t, n, tm)
    \/ TryWaitBusy(t)
    \/ \E c \in CancelCounts : Cancel(t, c)
    \/ DestroyStop(t)

Run(t) ==
    \/ Notify(t) \/ WaitResume(t) \/ LeaveInside(t)
    \/ TimeoutReset(t) \/ CountLoad(t) \/ CountStore(t)
    \/ DestroyNotify(t) \/ DestroyResume(t)

Next == \E t \in Threads : Call(t) \/ Run(t) \/ WaitTimeout(t)

Spec == Init /\ [][Next]_vars

\* A thread that is not asleep, or has been woken, is scheduled eventually.  No
\* call need ever be made and no timer is assumed to fire.
FairSpec == Spec /\ \A t \in Threads : WF_vars(Run(t))

-----------------------------------------------------------------------------
Waiting == {t \in Threads : at[t] = "waiting"}

\* The value never goes below zero (it is unsigned in the code): a waiter that is
\* marked signaled still finds its units when it finally runs, although nothing
\* reserves them between the signal and the wakeup.  Only a cancel can spoil
\* this: it zeroes the value under a waiter already marked, or it marks waiters
\* whose timeouts then move m_curStart back behind a waiter served meanwhile.
NoOverdraw == m_signalValue >= 0 \/ disturbed

\* A head that can be served has been marked, and it is awake or a thread that
\* has released the mutex is about to notify it.
HeadIsWoken ==
    m_curStart # Null /\ semData[m_curStart].needs <= m_signalValue =>
        /\ semData[m_curStart].state = "signaled"
        /\ m_curStart \in woken \/ \E t \in Threads : target[t] = m_curStart

\* m_isStop is raised without the mutex (semaphore_fifo.cpp:64), between any two steps of
\* a waiter.  Whoever is still asleep then is refused, the waiters that were marked
\* signaled and those whose time is over included; only the one that had the mutex may
\* still take its units, and it has done so before the destructor sleeps.
StopRefusesWaiters ==
    [][m_isStop => /\ \A t \in Threads : at[t] = "waiting" => ret'[t] \in {"none", "ECANCELED"}
                   /\ (\E d \in Threads : at[d] = "destroyWait") => m_signalValue' = m_signalValue]_vars

\* The list as the queue of the abstract semaphore.
Queue ==
    LET node == Walk(Cardinality(Threads))
        len  == Cardinality({k \in 0..Cardinality(Threads) : node[k] # Null})
    IN  [i \in 1..len |-> [thread |-> node[i - 1], needs |-> semData[node[i - 1]].needs]]

Abstract == INSTANCE FifoSemaphore WITH
                value <- m_signalValue, queue <- Queue,
                granted <- {t \in Threads : ret[t] = "Ok"}

\* Without timeouts, cancels and deletion the list is a first-come first-served
\* queue, and a head that can be served is served.
Refines == Abstract!Spec

\* What that means for the waiters: they leave the queue at its head only, by a wait that
\* is granted what it asked for, and whoever comes later is behind all that are there.
\* A poll, or a signal's early unlock (semaphore_fifo.cpp:142), lets nobody past them.
NobodyOvertakes ==
    [][\/ Queue' = Queue
       \/ \E t \in Threads, n \in Needs : Queue' = Append(Queue, [thread |-> t, needs |-> n])
       \/ /\ Queue # <<>> /\ Queue' = Tail(Queue)
          /\ ret'[Head(Queue).thread] = "Ok"
          /\ m_signalValue' = m_signalValue - Head(Queue).needs]_vars
=============================================================================
