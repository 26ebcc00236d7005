------------------------- MODULE SemaphoreFifoProofs -------------------------
(***************************************************************************)
(* What TLAPS proves of the kernel semaphore, for any number of threads    *)
(* and any counts.  With every call (signal, poll, wait with and without a *)
(* timeout, cancel, deletion): the value is not overdrawn, and a semaphore *)
(* that stops refuses who sleeps.  With signals, polls and waits only: a head  *)
(* that can be served is woken, and every step is a step of FifoSemaphore. *)
(***************************************************************************)
EXTENDS SemaphoreFifo, FunctionTheorems, FiniteSetTheorems, SequenceTheorems, TLAPS

Node == [needs : Nat, state : {"idle", "waiting", "signaled", "canceled"},
         parent : Nodes, child : Nodes]

Places == {"idle", "waiting", "signalNotify", "leaveNotify", "timeoutNotify", "timeoutReset",
           "leaveCount", "leaveStore", "destroyLock", "destroyWait"} \cup Inside

Typed ==
    /\ m_signalValue \in Int
    /\ m_isStop \in BOOLEAN
    /\ m_curStart \in Nodes /\ m_curBack \in Nodes
    /\ semData \in [Threads -> Node]
    /\ at \in [Threads -> Places]
    /\ disturbed \in BOOLEAN

\* Only the destructor raises m_isStop, and it does so before it takes the mutex; a waiter
\* is only found with the mutex where it has been raised.
StopFirst == \A t \in Threads : at[t] \in {"destroyLock", "destroyWait"} \cup Inside => m_isStop

\* The only sleeping waiter that may be marked is m_curStart, and it finds its units;
\* a waiter without a parent is m_curStart, so that only its timeout moves m_curStart.
Marks ==
    /\ m_curBack = Null => m_curStart = Null
    /\ \A t \in Threads : at[t] = "waiting" =>
          /\ semData[t].parent = Null => t = m_curStart
          /\ semData[t].state # "waiting" =>
                /\ t = m_curStart /\ semData[t].state = "signaled"
                /\ semData[t].needs <= m_signalValue

Covered == disturbed \/ (m_signalValue >= 0 /\ (m_isStop \/ Marks))

\* One waiter at most is inside, and if it is to take its units they are there.
InsideOK ==
    /\ \A s, t \in Threads : at[s] \in Inside /\ at[t] \in Inside => s = t
    /\ \/ disturbed
       \/ \A t \in Threads : at[t] = "granted" => semData[t].needs <= m_signalValue

OverdrawInv == Typed /\ StopFirst /\ Covered /\ InsideOK
\* All of it but the last part, which is shown for all steps together.
Sound == Typed /\ StopFirst /\ Covered

-----------------------------------------------------------------------------
LEMMA Linking == \A t \in Threads : t # Null
BY ThreadsAssumption

LEMMA OverdrawInit == ASSUME Init PROVE OverdrawInv
<1>1. m_signalValue \in Nat
  BY CountsAssumption DEF Init
<1>2. Typed
  <2>1. IdleNode \in Node
    BY DEF IdleNode, Node, Nodes
  <2>2. semData \in [Threads -> Node]
    BY <2>1 DEF Init
  <2>3. /\ m_isStop = FALSE /\ disturbed = FALSE /\ m_curStart = Null /\ m_curBack = Null
        /\ at = [t \in Threads |-> "idle"]
    BY DEF Init
  <2>4. m_isStop \in BOOLEAN /\ disturbed \in BOOLEAN
    BY <2>3, Zenon
  <2>5. at \in [Threads -> Places]
    BY <2>3 DEF Places
  <2>6. m_signalValue \in Int /\ m_curStart \in Nodes /\ m_curBack \in Nodes
    BY <1>1, <2>3 DEF Nodes
  <2>. QED
    BY <2>2, <2>4, <2>5, <2>6 DEF Typed
<1>3. StopFirst /\ InsideOK
  BY DEF Init, StopFirst, InsideOK, Inside
<1>4. Covered
  BY <1>1 DEF Init, Covered, Marks
<1>. QED
  BY <1>2, <1>3, <1>4 DEF OverdrawInv

\* What a step keeps when it moves no waiter and touches no list.
LEMMA OverdrawIdle ==
    ASSUME Sound, UNCHANGED <<list, m_isStop, disturbed>>,
           \A t \in Threads : at'[t] = "waiting" => at[t] = "waiting",
           \A t \in Threads : at'[t] \in {"destroyLock", "destroyWait"} \cup Inside => m_isStop,
           Typed'
    PROVE  Sound'
BY DEF Sound, Typed, StopFirst, Inside, Covered, Marks, list

LEMMA OverdrawSignal ==
    ASSUME Sound, NEW t \in Threads, NEW n \in Signals, Signal(t, n)
    PROVE  Sound'
<1>1. n \in Nat
  BY NeedsAssumption
<1>2. Typed'
  BY <1>1, Linking DEF Sound, Typed, Signal, MayCall, Node, Nodes, Places
<1>3. StopFirst'
  BY DEF Sound, Typed, StopFirst, Inside, Signal, MayCall
<1>4. Covered'
  BY <1>1, Linking DEF Sound, Typed, Covered, Marks, Signal, MayCall, Node, Nodes
<1>. QED
  BY <1>2, <1>3, <1>4 DEF Sound

LEMMA OverdrawPoll ==
    ASSUME Sound, NEW t \in Threads, NEW n \in Needs, Poll(t, n)
    PROVE  Sound'
<1>1. n \in Nat
  BY NeedsAssumption
<1>2. Typed'
  BY <1>1 DEF Sound, Typed, Poll, Node, Places
<1>3. StopFirst'
  BY DEF Sound, StopFirst, Inside, Poll
<1>4. Covered'
  BY <1>1, Linking DEF Sound, Typed, Covered, Marks, Poll, PollOk, Node, Nodes
<1>. QED
  BY <1>2, <1>3, <1>4 DEF Sound

LEMMA OverdrawEnqueue ==
    ASSUME Sound, NEW t \in Threads, NEW n \in Needs, NEW tm, WaitEnqueue(t, n, tm)
    PROVE  Sound'
<1>1. n \in Nat
  BY NeedsAssumption
<1>2. Typed'
  <2>1. ASSUME NEW s \in Threads PROVE semData'[s] \in Node
    <3>1. semData[s] \in Node /\ m_curBack \in Nodes /\ t \in Nodes
      BY DEF Sound, Typed, Nodes
    <3>2. semData'[s] = [semData[s] EXCEPT
               !.child  = IF s = m_curBack THEN t ELSE @,
               !.needs  = IF s = t THEN n ELSE @,
               !.parent = IF s = t THEN m_curBack ELSE @,
               !.state  = IF s = t THEN "waiting" ELSE @]
      BY DEF WaitEnqueue
    <3>. QED
      BY <1>1, <3>1, <3>2 DEF Node
  <2>2. semData' \in [Threads -> Node]
    BY <2>1 DEF WaitEnqueue
  <2>3. m_curStart' \in Nodes /\ m_curBack' \in Nodes
    BY DEF Sound, Typed, WaitEnqueue, Nodes
  <2>. QED
    BY <2>2, <2>3 DEF Sound, Typed, WaitEnqueue, Places, Inside
<1>3. StopFirst'
  BY DEF Sound, Typed, StopFirst, Inside, WaitEnqueue
<1>4. \A s \in Threads :
         /\ s # t => /\ semData'[s].state = semData[s].state
                    /\ semData'[s].needs = semData[s].needs
                    /\ semData'[s].parent = semData[s].parent
         /\ s = t => semData'[s].state = "waiting" /\ semData'[s].parent = m_curBack
  BY <1>1 DEF Sound, Typed, WaitEnqueue, Node
<1>5. \A s \in Threads : s # t => at'[s] = at[s]
  BY DEF Sound, Typed, WaitEnqueue
<1>6. /\ m_signalValue' = m_signalValue /\ m_isStop' = m_isStop /\ disturbed' = disturbed
      /\ m_curBack' = t
      /\ m_curStart' = IF m_curStart = Null THEN t ELSE m_curStart
  BY DEF WaitEnqueue
<1>7. ASSUME Marks PROVE Marks'
  <2>1. m_curBack' # Null
    BY <1>6, Linking
  <2>2. ASSUME NEW s \in Threads, at'[s] = "waiting", s # t
        PROVE  /\ semData'[s].parent = Null => s = m_curStart'
               /\ semData'[s].state # "waiting" =>
                     /\ s = m_curStart' /\ semData'[s].state = "signaled"
                     /\ semData'[s].needs <= m_signalValue'
    BY <1>4, <1>5, <1>6, <1>7, <2>2, Linking DEF Marks
  <2>3. semData'[t].parent = Null => t = m_curStart'
    BY <1>4, <1>6, <1>7 DEF Marks
  <2>. QED
    BY <1>4, <2>1, <2>2, <2>3 DEF Marks
<1>8. Covered'
  BY <1>6, <1>7 DEF Sound, Covered
<1>. QED
  BY <1>2, <1>3, <1>8 DEF Sound

\* A waiter that is served finds its units: it is m_curStart, and nobody else is marked.
LEMMA OverdrawLeave ==
    ASSUME Sound, NEW t \in Threads, NEW result, LeaveList(t, result),
           result = "Ok" => disturbed \/ semData[t].needs <= m_signalValue,
           \/ disturbed \/ m_isStop
           \/ t = m_curStart /\ at[t] = "waiting" /\ semData[t].state = "signaled"
    PROVE  Sound'
<1> DEFINE next == semData[t].child
           val == IF result = "Ok" THEN m_signalValue - semData[t].needs ELSE m_signalValue
           own == [semData EXCEPT ![t] = [IdleNode EXCEPT !.needs = semData[t].needs]]
<1>1. /\ semData[t] \in Node /\ next \in Nodes /\ own \in [Threads -> Node] /\ val \in Int
  BY DEF Sound, Typed, Node, Nodes, IdleNode
<1>2. /\ m_signalValue' = val
      /\ m_curBack' = IF next = Null THEN Null ELSE m_curBack
      /\ m_curStart' = next
      /\ m_isStop' = m_isStop /\ disturbed' = disturbed
      /\ \/ semData' = own
         \/ /\ Serves(next, own, val)
            /\ semData' = [own EXCEPT ![next].state = "signaled"]
      /\ \/ at' = [at EXCEPT ![t] = "leaveNotify"]
         \/ at' = [at EXCEPT ![t] = "idle"]
  BY DEF LeaveList, CountOutLocked
<1>3. Typed'
  BY <1>1, <1>2, Linking DEF Sound, Typed, Node, Nodes, Serves, Places
<1>4. StopFirst'
  BY <1>2 DEF Sound, Typed, StopFirst, Inside
<1>5. CASE disturbed
  BY <1>2, <1>3, <1>4, <1>5 DEF Sound, Covered
<1>8. ~disturbed => m_signalValue' >= 0
  BY <1>1, <1>2 DEF Sound, Typed, Node, Covered
<1>6. CASE ~disturbed /\ m_isStop
  BY <1>2, <1>3, <1>4, <1>6, <1>8 DEF Sound, Covered
<1>7. CASE ~disturbed /\ ~m_isStop
  <2>1. Marks /\ m_signalValue >= 0
    BY <1>7 DEF Sound, Covered
  <2>2. t = m_curStart /\ at[t] = "waiting"
    BY <1>7
  <2>4. \A s \in Threads : s # t /\ at[s] = "waiting" =>
           /\ semData[s].state = "waiting" /\ semData[s].parent # Null
    BY <1>7, <2>1 DEF Marks
  <2>5. ASSUME NEW s \in Threads, at'[s] = "waiting"
        PROVE  /\ semData'[s].parent # Null
               /\ semData'[s].state # "waiting" =>
                     /\ s = m_curStart' /\ semData'[s].state = "signaled"
                     /\ semData'[s].needs <= m_signalValue'
    <3>1. s # t /\ at[s] = "waiting"
      BY <1>2, <2>5 DEF Sound, Typed
    <3>. QED
      BY <1>1, <1>2, <1>7, <2>4, <3>1 DEF Serves, Node
  <2>6. m_curBack' = Null => m_curStart' = Null
    BY <1>2, <2>1, <2>2, Linking DEF Marks
  <2>7. Marks'
    BY <2>5, <2>6 DEF Marks
  <2>. QED
    BY <1>3, <1>4, <1>7, <1>8, <2>7 DEF Sound, Covered
<1>. QED
  BY <1>5, <1>6, <1>7

\* Only the timeout of m_curStart moves m_curStart: to its child, which loses its parent.
LEMMA OverdrawTimeout ==
    ASSUME Sound, NEW t \in Threads, TimeoutUnlink(t),
           m_isStop \/ (semData[t].state = "waiting" /\ at[t] = "waiting")
    PROVE  Sound'
<1> DEFINE own  == semData[t]
           linked == [s \in Threads |->
                     [semData[s] EXCEPT
                         !.child  = IF s = own.parent THEN own.child ELSE @,
                         !.parent = IF s = own.child THEN own.parent ELSE @]]
           head == own.parent = Null
           next == own.child
           reset == [IdleNode EXCEPT !.needs = own.needs]
<1>1. /\ own \in Node /\ next \in Nodes /\ linked \in [Threads -> Node] /\ reset \in Node
  BY DEF Sound, Typed, Node, Nodes, IdleNode
<1>2. /\ linked[t].child = next
      /\ (linked[t].parent = Null) <=> head
  BY DEF Sound, Typed, Node
<1>3. \A s \in Threads :
         /\ linked[s].state = semData[s].state
         /\ linked[s].needs = semData[s].needs
         /\ linked[s].parent = IF s = next THEN own.parent ELSE semData[s].parent
  BY DEF Sound, Typed, Node
<1>4. /\ m_signalValue' = m_signalValue /\ m_isStop' = m_isStop /\ m_curBack' = m_curBack
      /\ disturbed' = disturbed
      /\ m_curStart' = IF head THEN next ELSE m_curStart
      /\ \/ semData' = [linked EXCEPT ![t] = reset]
         \/ /\ head /\ Serves(next, linked, m_signalValue)
            /\ semData' = [linked EXCEPT ![next].state = "signaled"]
      /\ \/ at' = [at EXCEPT ![t] = "timeoutNotify"]
         \/ at' = [at EXCEPT ![t] = "idle"]
  BY <1>2 DEF TimeoutUnlink, CountOutLocked
<1> HIDE DEF linked, reset
<1>5. Typed'
  BY <1>1, <1>4, Linking DEF Sound, Typed, Node, Nodes, Serves, Places
<1>6. StopFirst'
  BY <1>4 DEF Sound, Typed, StopFirst, Inside
<1>7. \A s \in Threads : at'[s] = "waiting" => s # t /\ at[s] = "waiting"
  BY <1>4 DEF Sound, Typed
<1>8. ASSUME Marks, ~m_isStop PROVE Marks'
  <2>1. semData[t].state = "waiting" /\ at[t] = "waiting"
    BY <1>8
  <2>2. CASE ~head
    <3>1. semData' = [linked EXCEPT ![t] = reset]
      BY <1>4, <2>2
    <3>2. \A s \in Threads : s # t => semData'[s] = linked[s]
      BY <1>1, <3>1
    <3>. QED
      BY <1>3, <1>4, <1>7, <1>8, <2>2, <3>2 DEF Marks
  <2>3. CASE head
    <3>1. t = m_curStart /\ m_curStart' = next
      BY <1>4, <1>8, <2>3 DEF Marks
    <3>2. \A s \in Threads : at'[s] = "waiting" =>
             /\ semData[s].state = "waiting" /\ semData[s].parent # Null
      BY <1>7, <1>8, <3>1 DEF Marks
    <3>3. ASSUME NEW s \in Threads, at'[s] = "waiting"
          PROVE  /\ semData'[s].parent = Null => s = m_curStart'
                 /\ semData'[s].state # "waiting" =>
                       /\ s = m_curStart' /\ semData'[s].state = "signaled"
                       /\ semData'[s].needs <= m_signalValue'
      <4>1. s # t /\ semData[s].state = "waiting" /\ semData[s].parent # Null
        BY <1>7, <3>2, <3>3
      <4>2. CASE semData' = [linked EXCEPT ![t] = reset]
        BY <1>1, <1>3, <3>1, <4>1, <4>2
      <4>3. CASE /\ Serves(next, linked, m_signalValue)
                 /\ semData' = [linked EXCEPT ![next].state = "signaled"]
        BY <1>1, <1>3, <1>4, <1>8, <3>1, <4>1, <4>3 DEF Serves, Node
      <4>. QED
        BY <1>4, <4>2, <4>3
    <3>4. m_curBack' = Null => m_curStart' = Null
      BY <1>4, <1>8, <3>1, Linking DEF Marks
    <3>. QED
      BY <3>3, <3>4 DEF Marks
  <2>. QED
    BY <2>2, <2>3
<1>9. Covered'
  BY <1>4, <1>8 DEF Sound, Covered
<1>. QED
  BY <1>5, <1>6, <1>9 DEF Sound

LEMMA OverdrawCancel ==
    ASSUME Sound, NEW t \in Threads, NEW c \in CancelCounts, Cancel(t, c)
    PROVE  Sound'
<1> DEFINE canceled == CancelRun(c).canceled
<1>1. /\ m_signalValue' = 0 /\ m_isStop' = m_isStop
      /\ m_curBack' = m_curBack /\ m_curStart' = m_curStart
      /\ semData' = [s \in Threads |-> IF s \in canceled
                                       THEN [semData[s] EXCEPT !.state = "canceled"]
                                       ELSE semData[s]]
      /\ disturbed' = (\/ disturbed
                       \/ canceled # {}
                       \/ \E s \in Threads : at[s] = "waiting" /\ semData[s].state = "signaled")
      /\ \/ at' = at
         \/ at' = [at EXCEPT ![t] = "signalNotify"]
      /\ at[t] = "idle"
  BY DEF Cancel, MayCall
<1> HIDE DEF canceled
<1>2. Typed'
  BY <1>1 DEF Sound, Typed, Node, Places
<1>3. StopFirst'
  BY <1>1 DEF Sound, Typed, StopFirst, Inside
<1>4. \A s \in Threads : at'[s] = "waiting" => at[s] = "waiting"
  BY <1>1 DEF Sound, Typed
<1>5. CASE ~disturbed' /\ ~m_isStop
  <2>1. Marks /\ canceled = {}
    BY <1>1, <1>5 DEF Sound, Covered
  <2>2. \A s \in Threads : semData'[s] = semData[s]
    BY <1>1, <2>1
  <2>3. \A s \in Threads : at[s] = "waiting" => semData[s].state = "waiting"
    BY <1>1, <1>5, <2>1 DEF Marks
  <2>4. Marks'
    BY <1>1, <1>4, <2>1, <2>2, <2>3 DEF Marks
  <2>. QED
    BY <1>1, <1>2, <1>3, <2>4 DEF Sound, Covered
<1>6. CASE disturbed' \/ m_isStop
  BY <1>1, <1>2, <1>3, <1>6 DEF Sound, Covered
<1>. QED
  BY <1>5, <1>6

LEMMA OverdrawReset ==
    ASSUME Sound, NEW t \in Threads, TimeoutReset(t)
    PROVE  Sound'
<1>1. Typed'
  BY DEF Sound, Typed, TimeoutReset, Node, Nodes, IdleNode, Places
<1>2. StopFirst'
  BY DEF Sound, Typed, StopFirst, Inside, TimeoutReset
<1>3. \A s \in Threads : at'[s] = "waiting" => at[s] = "waiting" /\ semData'[s] = semData[s]
  BY DEF Sound, Typed, TimeoutReset
<1>4. Covered'
  BY <1>3 DEF Sound, Covered, Marks, TimeoutReset
<1>. QED
  BY <1>1, <1>2, <1>4 DEF Sound

LEMMA OverdrawNotify ==
    ASSUME Sound, NEW t \in Threads, Notify(t)
    PROVE  Sound'
<1>1. Typed'
  BY DEF Sound, Typed, Notify, list, Places
<1>2. /\ UNCHANGED <<list, m_isStop, disturbed>>
      /\ \A s \in Threads : at'[s] = at[s] \/ at'[s] \in {"idle", "leaveCount", "timeoutReset"}
  BY DEF Sound, Typed, Notify
<1>3. \A s \in Threads : at'[s] = "waiting" => at[s] = "waiting"
  BY <1>2
<1>4. \A s \in Threads : at'[s] \in {"destroyLock", "destroyWait"} \cup Inside => m_isStop
  BY <1>2 DEF Sound, StopFirst, Inside
<1>. QED
  BY <1>1, <1>2, <1>3, <1>4, OverdrawIdle

LEMMA OverdrawCount ==
    ASSUME Sound, NEW t \in Threads, CountLoad(t) \/ CountStore(t)
    PROVE  Sound'
<1>1. Typed'
  BY DEF Sound, Typed, CountLoad, CountStore, list, Places
<1>2. /\ UNCHANGED <<list, m_isStop, disturbed>>
      /\ \A s \in Threads : at'[s] = at[s] \/ at'[s] \in {"idle", "leaveStore"}
  BY DEF Sound, Typed, CountLoad, CountStore
<1>3. \A s \in Threads : at'[s] = "waiting" => at[s] = "waiting"
  BY <1>2
<1>4. \A s \in Threads : at'[s] \in {"destroyLock", "destroyWait"} \cup Inside => m_isStop
  BY <1>2 DEF Sound, StopFirst, Inside
<1>. QED
  BY <1>1, <1>2, <1>3, <1>4, OverdrawIdle

\* The destructor clears m_curStart only after it has raised m_isStop.
LEMMA OverdrawDestroy ==
    ASSUME Sound, NEW t \in Threads,
           DestroyStop(t) \/ DestroyNotify(t) \/ DestroyResume(t)
    PROVE  Sound'
<1>1. CASE DestroyStop(t)
  BY <1>1 DEF Sound, Typed, StopFirst, Inside, Places, Covered, DestroyStop, list
<1>2. CASE DestroyNotify(t)
  <2>1. m_isStop /\ m_isStop' = m_isStop /\ disturbed' = disturbed
    BY <1>2 DEF Sound, StopFirst, Inside, DestroyNotify
  <2>2. /\ m_signalValue' = m_signalValue /\ m_curBack' = m_curBack /\ semData' = semData
        /\ m_curStart' = m_curStart \/ m_curStart' = Null
        /\ \/ at' = at
           \/ at' = [at EXCEPT ![t] = "idle"]
           \/ at' = [at EXCEPT ![t] = "destroyWait"]
    BY <1>2 DEF DestroyNotify
  <2>. QED
    BY <2>1, <2>2 DEF Sound, Typed, StopFirst, Inside, Places, Covered, Nodes
<1>3. CASE DestroyResume(t)
  <2>1. /\ UNCHANGED <<list, m_isStop, disturbed>>
        /\ \/ at' = at
           \/ at' = [at EXCEPT ![t] = "idle"]
    BY <1>3 DEF Sound, Typed, DestroyResume
  <2>2. Typed'
    BY <2>1 DEF Sound, Typed, list, Places
  <2>3. \A s \in Threads : at'[s] = "waiting" => at[s] = "waiting"
    BY <2>1 DEF Sound, Typed
  <2>4. \A s \in Threads : at'[s] \in {"destroyLock", "destroyWait"} \cup Inside => m_isStop
    BY <2>1 DEF Sound, Typed, StopFirst, Inside
  <2>. QED
    BY <2>1, <2>2, <2>3, <2>4, OverdrawIdle
<1>. QED
  BY <1>1, <1>2, <1>3

LEMMA SoundNext == ASSUME OverdrawInv, [Next]_vars PROVE Sound'
<1>s. Sound
  BY DEF OverdrawInv, Sound
<1>1. ASSUME NEW t \in Threads, Call(t) PROVE Sound'
  <2>1. ASSUME NEW n \in Needs, NEW tm \in Timed, Wait(t, n, tm) PROVE Sound'
    BY <1>s, <2>1, OverdrawPoll, OverdrawEnqueue DEF Wait
  <2>2. CASE TryWaitBusy(t)
    <3>1. UNCHANGED <<list, m_isStop, at, disturbed>>
      BY <2>2 DEF TryWaitBusy
    <3>. QED
      BY <1>s, <3>1 DEF Sound, Typed, StopFirst, Covered, Marks, list
  <2>. QED
    BY <1>s, <1>1, <2>1, <2>2, OverdrawSignal, OverdrawPoll, OverdrawCancel, OverdrawDestroy DEF Call
<1>2. ASSUME NEW t \in Threads, at[t] = "waiting", Released(t), Leave(t) PROVE Sound'
  <2> DEFINE result == IF m_isStop \/ semData[t].state = "canceled" THEN "ECANCELED" ELSE "Ok"
  <2>1. CASE disturbed \/ m_isStop
    BY <1>s, <1>2, <2>1, OverdrawLeave DEF Leave
  <2>2. CASE ~disturbed /\ ~m_isStop
    <3>1. /\ t = m_curStart /\ semData[t].state = "signaled"
          /\ semData[t].needs <= m_signalValue
      BY <1>s, <1>2, <2>2 DEF Sound, Covered, Marks, Released
    <3>. QED
      BY <1>s, <1>2, <3>1, OverdrawLeave DEF Leave
  <2>. QED
    BY <2>1, <2>2
<1>3. ASSUME NEW t \in Threads, WaitResume(t) PROVE Sound'
  <2>1. CASE ~Released(t)
    <3>1. UNCHANGED <<list, m_isStop, at, disturbed>>
      BY <1>3, <2>1 DEF WaitResume
    <3>. QED
      BY <1>s, <3>1 DEF Sound, Typed, StopFirst, Covered, Marks, list
  <2>. QED
    BY <1>2, <1>3, <2>1 DEF WaitResume, Asleep
<1>4. ASSUME NEW t \in Threads, WaitTimeout(t) PROVE Sound'
  BY <1>s, <1>2, <1>4, OverdrawTimeout DEF WaitTimeout, Asleep, Released
<1>5. ASSUME NEW t \in Threads, LeaveInside(t) PROVE Sound'
  <2>1. m_isStop
    BY <1>s, <1>5 DEF LeaveInside, Sound, StopFirst, Inside
  <2>2. CASE at[t] = "granted" /\ LeaveList(t, "Ok")
    <3>1. disturbed \/ semData[t].needs <= m_signalValue
      BY <2>2 DEF OverdrawInv, InsideOK
    <3>. QED
      BY <1>s, <2>1, <2>2, <3>1, OverdrawLeave
  <2>3. CASE LeaveList(t, "ECANCELED")
    BY <1>s, <2>1, <2>3, OverdrawLeave
  <2>4. CASE TimeoutUnlink(t)
    BY <1>s, <2>1, <2>4, OverdrawTimeout
  <2>. QED
    BY <1>5, <2>2, <2>3, <2>4 DEF LeaveInside
<1>6. ASSUME NEW t \in Threads, Run(t) PROVE Sound'
  BY <1>s, <1>3, <1>5, <1>6, OverdrawNotify, OverdrawReset, OverdrawCount, OverdrawDestroy DEF Run
<1>7. CASE UNCHANGED vars
  BY <1>s, <1>7 DEF Sound, Typed, StopFirst, Covered, Marks, vars
<1>. QED
  BY <1>1, <1>4, <1>6, <1>7 DEF Next

\* A waiter leaves for a place outside.
LEMMA LeavesInside ==
    ASSUME NEW t \in Threads, Typed,
           (\E result \in {"Ok", "ECANCELED"} : LeaveList(t, result)) \/ TimeoutUnlink(t)
    PROVE  /\ at'[t] \notin Inside
           /\ \A s \in Threads : s # t => at'[s] = at[s]
<1>1. \E x \in {"idle", "leaveNotify", "timeoutNotify"} : at' = [at EXCEPT ![t] = x]
  BY DEF LeaveList, TimeoutUnlink, CountOutLocked
<1>. QED
  BY <1>1 DEF Typed, Inside

\* Who is inside keeps everybody else from the mutex, so that nobody takes its units.
LEMMA InsideNext == ASSUME OverdrawInv, [Next]_vars PROVE InsideOK'
<1>t. Typed
  BY DEF OverdrawInv
<1>1. ASSUME Unlocked' PROVE InsideOK'
  BY <1>1 DEF Unlocked, InsideOK, Inside
<1>2. ASSUME Unlocked, NEW t \in Threads, \A s \in Threads : s # t => at'[s] = at[s],
             at'[t] \notin Inside
      PROVE  InsideOK'
  BY <1>1, <1>2 DEF Unlocked
<1>3. ASSUME \A s \in Threads : /\ at'[s] \in Inside => at'[s] = at[s]
                               /\ semData'[s].needs = semData[s].needs,
             m_signalValue' = m_signalValue, disturbed' = disturbed
      PROVE  InsideOK'
  BY <1>3 DEF OverdrawInv, InsideOK, Inside
<1>4. ASSUME NEW t \in Threads, Call(t) PROVE InsideOK'
  <2>1. Unlocked /\ at[t] = "idle"
    BY <1>4 DEF Call, Signal, Poll, Wait, TryWaitBusy, Cancel, DestroyStop, MayCall
  <2>2. CASE /\ at' = at \/ at' = [at EXCEPT ![t] = "signalNotify"]
    BY <1>t, <1>2, <2>1, <2>2 DEF Typed, Inside
  <2>3. ASSUME NEW n \in Needs, NEW tm, WaitEnqueue(t, n, tm) PROVE InsideOK'
    <3>1. \A s \in Threads : at'[s] \in Inside => s = t /\ at'[s] = "refused"
      BY <1>t, <2>1, <2>3 DEF WaitEnqueue, Typed, Unlocked, Inside
    <3>. QED
      BY <3>1 DEF InsideOK, Inside
  <2>4. CASE DestroyStop(t)
    <3>1. CASE at' = [at EXCEPT ![t] = "destroyLock"]
      BY <1>t, <1>2, <2>1, <3>1 DEF Typed, Inside
    <3>2. CASE at' # [at EXCEPT ![t] = "destroyLock"]
      <4>1. PICK s \in Threads, where \in {"granted", "expired"} :
               FoundBefore(s, where) /\ at' = [at EXCEPT ![t] = "destroyLock", ![s] = where]
        BY <2>4, <3>2 DEF DestroyStop
      <4>2. /\ \A u \in Threads : at'[u] \in Inside => u = s
            /\ at'[s] = where
        BY <1>t, <2>1, <4>1 DEF Typed, Unlocked, Inside
      <4>3. ~m_isStop /\ UNCHANGED <<m_signalValue, semData, disturbed>>
        BY <2>4 DEF DestroyStop, list
      <4>4. where = "granted" => disturbed \/ semData[s].needs <= m_signalValue
        BY <4>1, <4>3 DEF FoundBefore, Asleep, OverdrawInv, Covered, Marks
      <4>. QED
        BY <4>2, <4>3, <4>4 DEF InsideOK, Inside
    <3>. QED
      BY <3>1, <3>2
  <2>5. \/ at' = at \/ at' = [at EXCEPT ![t] = "signalNotify"]
        \/ \E n \in Needs : \E tm \in Timed : WaitEnqueue(t, n, tm)
        \/ DestroyStop(t)
    BY <1>4 DEF Call, Signal, Poll, Wait, TryWaitBusy, Cancel
  <2>. QED
    BY <2>2, <2>3, <2>4, <2>5
<1>5. ASSUME NEW t \in Threads, WaitResume(t) \/ WaitTimeout(t) PROVE InsideOK'
  <2>1. Unlocked /\ at[t] = "waiting"
    BY <1>5 DEF WaitResume, WaitTimeout, Asleep
  <2>2. CASE (\E result \in {"Ok", "ECANCELED"} : LeaveList(t, result)) \/ TimeoutUnlink(t)
    BY <1>t, <1>2, <2>1, <2>2, LeavesInside
  <2>3. CASE at' = at
    BY <1>2, <2>1, <2>3 DEF Inside
  <2>. QED
    BY <1>5, <2>2, <2>3 DEF WaitResume, WaitTimeout, Leave
<1>6. ASSUME NEW t \in Threads, LeaveInside(t) PROVE InsideOK'
  <2>1. at[t] \in Inside
    BY <1>6 DEF LeaveInside, Inside
  <2>2. at'[t] \notin Inside /\ \A s \in Threads : s # t => at'[s] = at[s]
    BY <1>t, <1>6, LeavesInside DEF LeaveInside
  <2>3. Unlocked'
    BY <2>1, <2>2 DEF OverdrawInv, InsideOK, Unlocked, Inside
  <2>. QED
    BY <1>1, <2>3
<1>7. ASSUME NEW t \in Threads, Notify(t) \/ CountLoad(t) \/ CountStore(t) \/ TimeoutReset(t)
      PROVE  InsideOK'
  <2>1. \A s \in Threads : at'[s] \in Inside => at'[s] = at[s]
    BY <1>t, <1>7 DEF Typed, Notify, CountLoad, CountStore, TimeoutReset, Inside
  <2>2. /\ m_signalValue' = m_signalValue /\ disturbed' = disturbed
        /\ \A s \in Threads : semData'[s].needs = semData[s].needs
    BY <1>t, <1>7 DEF Typed, Node, Notify, CountLoad, CountStore, TimeoutReset, IdleNode, list
  <2>. QED
    BY <1>3, <2>1, <2>2
<1>8. ASSUME NEW t \in Threads, DestroyNotify(t) \/ DestroyResume(t) PROVE InsideOK'
  <2>1. Unlocked /\ \E x \in {"idle", "destroyWait"} : at' = at \/ at' = [at EXCEPT ![t] = x]
    BY <1>8 DEF DestroyNotify, DestroyResume
  <2>2. Unlocked'
    BY <1>t, <2>1 DEF Typed, Unlocked, Inside
  <2>. QED
    BY <1>1, <2>2
<1>9. CASE UNCHANGED vars
  BY <1>3, <1>9 DEF vars
<1>. QED
  BY <1>4, <1>5, <1>6, <1>7, <1>8, <1>9 DEF Next, Run

LEMMA OverdrawNext == OverdrawInv /\ [Next]_vars => OverdrawInv'
BY SoundNext, InsideNext DEF OverdrawInv, Sound

\* The value of a semaphore is never overdrawn, whatever threads wait for, however
\* their timeouts and the destructor interleave with the wakeups, as long as no
\* cancel has marked a waiter or zeroed the value under a marked one.
THEOREM ValueIsNotOverdrawn == Spec => []NoOverdraw
<1>1. OverdrawInv => NoOverdraw
  BY DEF OverdrawInv, Covered, NoOverdraw
<1>. QED
  BY <1>1, OverdrawInit, OverdrawNext, PTL DEF Spec

\* Only threads have results.
Returns == ret = [t \in Threads |-> ret[t]]

LEMMA ReturnsNext == ASSUME Returns, [Next]_vars PROVE Returns'
<1>1. ASSUME NEW t \in Threads, Call(t) PROVE Returns'
  BY <1>1 DEF Returns, Call, Signal, Poll, TryWaitBusy, Wait, WaitEnqueue, Cancel, DestroyStop
<1>2. ASSUME NEW t \in Threads, TimeoutUnlink(t) \/ \E r \in {"Ok", "ECANCELED"} : LeaveList(t, r) PROVE Returns'
  BY <1>2 DEF Returns, LeaveList, TimeoutUnlink, CountOutLocked
<1>3. ASSUME NEW t \in Threads, Run(t) \/ WaitTimeout(t) PROVE Returns'
  BY <1>2, <1>3 DEF Returns, Run, WaitTimeout, Notify, WaitResume, Leave, LeaveInside, TimeoutReset, CountLoad,
                    CountStore, DestroyNotify, DestroyResume
<1>4. CASE UNCHANGED vars
  BY <1>4 DEF Returns, vars
<1>. QED
  BY <1>1, <1>3, <1>4 DEF Next

\* A sleeping thread has no result yet, and the destructor sleeps only when nobody is inside.
StopInv ==
    /\ OverdrawInv
    /\ Returns
    /\ \A t \in Threads : at[t] = "waiting" => ret[t] = "none"
    /\ (\E d \in Threads : at[d] = "destroyWait") => Unlocked

\* Who leaves the list of waiters changes its own place and result only.
LEMMA LeavesAlone ==
    ASSUME OverdrawInv, Returns, NEW t \in Threads,
           (\E r \in {"Ok", "ECANCELED"} : LeaveList(t, r)) \/ TimeoutUnlink(t)
    PROVE  /\ at'[t] \in {"idle", "leaveNotify", "timeoutNotify"}
           /\ \A s \in Threads : s # t => at'[s] = at[s] /\ ret'[s] = ret[s]
<1>1. \E x \in {"idle", "leaveNotify", "timeoutNotify"} : at' = [at EXCEPT ![t] = x]
  BY DEF LeaveList, TimeoutUnlink, CountOutLocked
<1>2. \E r \in {"Ok", "ECANCELED", "ETIMEDOUT"} : ret' = [ret EXCEPT ![t] = r]
  BY DEF LeaveList, TimeoutUnlink, CountOutLocked
<1>. QED
  BY <1>1, <1>2 DEF OverdrawInv, Typed, Returns

LEMMA StopNext == ASSUME StopInv, [Next]_vars PROVE StopInv'
<1>t. OverdrawInv /\ Typed /\ Returns
  BY DEF StopInv, OverdrawInv
<1>1. OverdrawInv' /\ Returns'
  BY OverdrawNext, ReturnsNext DEF StopInv
<1>2. ASSUME \A s \in Threads :
                at'[s] \in {"waiting", "destroyWait"} \cup Inside => at'[s] = at[s] /\ ret'[s] = ret[s]
      PROVE  StopInv'
  BY <1>1, <1>2 DEF StopInv, Unlocked, Inside
<1>3. ASSUME NEW t \in Threads, Call(t) PROVE StopInv'
  <2>1. at[t] = "idle" /\ \A d \in Threads : at[d] # "destroyWait"
    BY <1>3 DEF Call, Signal, Poll, Wait, TryWaitBusy, Cancel, DestroyStop, MayCall
  <2>2. ASSUME \A s \in Threads : at'[s] # "destroyWait" /\ (at'[s] = "waiting" => ret'[s] = "none")
        PROVE  StopInv'
    BY <1>1, <2>2 DEF StopInv
  <2>3. ASSUME NEW n \in Needs, NEW tm, WaitEnqueue(t, n, tm) PROVE StopInv'
    BY <1>t, <2>1, <2>2, <2>3 DEF StopInv, WaitEnqueue, Typed, Returns
  <2>4. ASSUME NEW n \in Needs, Poll(t, n) PROVE StopInv'
    BY <1>t, <2>1, <2>2, <2>4 DEF StopInv, Poll, Returns
  <2>5. CASE TryWaitBusy(t)
    BY <1>t, <2>1, <2>2, <2>5 DEF StopInv, TryWaitBusy, Returns
  <2>6. CASE (\E n \in Signals : Signal(t, n)) \/ (\E c \in CancelCounts : Cancel(t, c))
    <3>1. ret' = ret /\ (at' = at \/ at' = [at EXCEPT ![t] = "signalNotify"])
      BY <2>6 DEF Signal, Cancel
    <3>. QED
      BY <1>t, <2>1, <2>2, <3>1 DEF StopInv, Typed
  <2>7. CASE DestroyStop(t)
    <3>1. /\ ret' = ret
          /\ \A s \in Threads : at'[s] \in {at[s], "destroyLock", "granted", "expired"}
      BY <1>t, <2>7 DEF DestroyStop, Typed
    <3>. QED
      BY <2>1, <2>2, <3>1 DEF StopInv
  <2>. QED
    BY <1>3, <2>3, <2>4, <2>5, <2>6, <2>7 DEF Call, Wait
<1>4. ASSUME NEW t \in Threads,
             (\E r \in {"Ok", "ECANCELED"} : LeaveList(t, r)) \/ TimeoutUnlink(t)
      PROVE  StopInv'
  BY <1>t, <1>2, <1>4, LeavesAlone DEF Inside
<1>5. ASSUME NEW t \in Threads, WaitResume(t) \/ WaitTimeout(t) \/ LeaveInside(t) PROVE StopInv'
  <2>1. CASE at' = at /\ ret' = ret
    BY <1>2, <2>1
  <2>. QED
    BY <1>4, <1>5, <2>1 DEF WaitResume, WaitTimeout, Leave, LeaveInside
<1>6. ASSUME NEW t \in Threads, Notify(t) \/ TimeoutReset(t) \/ CountLoad(t) PROVE StopInv'
  <2>1. ret' = ret /\ \A s \in Threads : at'[s] \in {at[s], "idle", "leaveCount", "timeoutReset", "leaveStore"}
    BY <1>t, <1>6 DEF Notify, TimeoutReset, CountLoad, Typed
  <2>. QED
    BY <1>2, <2>1 DEF Inside
<1>7. ASSUME NEW t \in Threads, CountStore(t) PROVE StopInv'
  <2>1. at'[t] = "idle" /\ \A s \in Threads : s # t => at'[s] = at[s] /\ ret'[s] = ret[s]
    BY <1>t, <1>7 DEF CountStore, Typed, Returns
  <2>. QED
    BY <1>2, <2>1 DEF Inside
<1>8. ASSUME NEW t \in Threads, DestroyNotify(t) \/ DestroyResume(t) PROVE StopInv'
  <2>1. Unlocked /\ ret' = ret
        /\ \A s \in Threads : at'[s] \in {at[s], "idle", "destroyWait"}
    BY <1>t, <1>8 DEF DestroyNotify, DestroyResume, Typed
  <2>2. Unlocked'
    BY <2>1 DEF Unlocked, Inside
  <2>. QED
    BY <1>1, <2>1, <2>2 DEF StopInv
<1>9. CASE UNCHANGED vars
  BY <1>2, <1>9 DEF vars
<1>. QED
  BY <1>3, <1>5, <1>6, <1>7, <1>8, <1>9 DEF Next, Run

\* Whoever sleeps when m_isStop is raised is refused, whatever it was marked and whether
\* its time is over, though calls in progress may still signal, poll and cancel; and the
\* value stays as it is once the destructor sleeps.
THEOREM StoppedRefusesWaiters == Spec => StopRefusesWaiters
<1> DEFINE Refuses ==
        /\ \A t \in Threads : at[t] = "waiting" => ret'[t] \in {"none", "ECANCELED"}
        /\ (\E d \in Threads : at[d] = "destroyWait") => m_signalValue' = m_signalValue
<1>1. ASSUME StopInv, [Next]_vars, m_isStop PROVE Refuses
  <2>t. OverdrawInv /\ Typed /\ Returns /\ \A t \in Threads : at[t] = "waiting" => ret[t] = "none"
    BY <1>1 DEF StopInv, OverdrawInv
  <2>2. ASSUME NEW u \in Threads, Call(u) PROVE Refuses
    <3>1. at[u] = "idle" /\ \A d \in Threads : at[d] # "destroyWait"
      BY <2>2 DEF Call, Signal, Poll, Wait, TryWaitBusy, Cancel, DestroyStop, MayCall
    <3>2. ret' = ret \/ \E r \in {"Ok", "EAGAIN", "EBUSY", "none"} : ret' = [ret EXCEPT ![u] = r]
      BY <2>2 DEF Call, Signal, Poll, Wait, WaitEnqueue, TryWaitBusy, Cancel, DestroyStop
    <3>3. \A t \in Threads : at[t] = "waiting" => ret'[t] = ret[t]
      BY <2>t, <3>1, <3>2 DEF Returns
    <3>. QED
      BY <2>t, <3>1, <3>3
  <2>3. ASSUME NEW u \in Threads, WaitResume(u) \/ WaitTimeout(u) PROVE Refuses
    <3>1. LeaveList(u, "ECANCELED")
      BY <1>1, <2>3 DEF WaitResume, WaitTimeout, Released, Leave
    <3>2. m_signalValue' = m_signalValue /\ ret' = [ret EXCEPT ![u] = "ECANCELED"]
      BY <3>1 DEF LeaveList, CountOutLocked
    <3>. QED
      BY <2>t, <3>2 DEF Returns
  <2>4. ASSUME NEW u \in Threads, LeaveInside(u) PROVE Refuses
    <3>1. at[u] \in Inside
      BY <2>4 DEF LeaveInside, Inside
    <3>2. \A d \in Threads : at[d] # "destroyWait"
      BY <1>1, <3>1 DEF StopInv, Unlocked
    <3>3. \A t \in Threads : at[t] = "waiting" => ret'[t] = ret[t]
      BY <2>t, <2>4, <3>1, LeavesAlone DEF LeaveInside, Inside
    <3>. QED
      BY <2>t, <3>2, <3>3
  <2>5. ASSUME NEW u \in Threads,
               \/ Notify(u) \/ TimeoutReset(u) \/ CountLoad(u) \/ CountStore(u)
               \/ DestroyNotify(u) \/ DestroyResume(u)
        PROVE  Refuses
    <3>1. m_signalValue' = m_signalValue
      BY <2>5 DEF Notify, TimeoutReset, CountLoad, CountStore, DestroyNotify, DestroyResume, list
    <3>2. \A t \in Threads : at[t] = "waiting" => ret'[t] = ret[t]
      BY <2>t, <2>5 DEF Notify, TimeoutReset, CountLoad, CountStore, DestroyNotify, DestroyResume, Returns
    <3>. QED
      BY <2>t, <3>1, <3>2
  <2>6. CASE UNCHANGED vars
    BY <2>t, <2>6 DEF vars
  <2> HIDE DEF Refuses
  <2>. QED
    BY <1>1, <2>2, <2>3, <2>4, <2>5, <2>6 DEF Next, Run
<1>2. StopInv /\ [Next]_vars => [m_isStop => Refuses]_vars
  BY <1>1
<1>3. Init => StopInv
  BY OverdrawInit DEF Init, StopInv, Returns, Unlocked, Inside
<1>4. StopInv /\ [Next]_vars => StopInv'
  BY StopNext
<1>. QED
  BY <1>2, <1>3, <1>4, PTL DEF Spec, StopRefusesWaiters

-----------------------------------------------------------------------------
(***************************************************************************)
(* The calls the semaphore run makes: no cancel, no timeout, no deletion.  *)
(* The nodes then are a list q of n threads, the sleeping ones in the      *)
(* order of their waits, and m_curStart and m_curBack are its two ends.    *)
(***************************************************************************)
WaitsOnly == CancelCounts = {} /\ Timed \subseteq {FALSE} /\ Destroyers = {}

IsList(n, q) ==
    /\ q \in [1..n -> Threads]
    /\ \A i, j \in 1..n : q[i] = q[j] => i = j
    /\ \A t \in Threads : at[t] = "waiting" <=> \E i \in 1..n : q[i] = t
    /\ n = 0 => m_curStart = Null /\ m_curBack = Null
    /\ n # 0 => m_curStart = q[1] /\ m_curBack = q[n]
    /\ \A i \in 1..n : semData[q[i]].child = IF i = n THEN Null ELSE q[i + 1]

\* Nobody times out, cancels or deletes, and a node that is not in the list has no child.
Quiet ==
    /\ ~disturbed /\ ~m_isStop /\ timed = {}
    /\ target \in [Threads -> Nodes]
    /\ \A t \in Threads :
          at[t] \in {"idle", "waiting", "signalNotify", "leaveNotify", "leaveCount", "leaveStore"}
    /\ \A t \in Threads : at[t] # "waiting" => semData[t].child = Null

QueueInv ==
    /\ OverdrawInv
    /\ Quiet
    /\ \E n \in Nat : \E q \in [1..n -> Threads] : IsList(n, q)
    /\ HeadIsWoken

\* A step that moves no waiter and touches no pointer keeps the list.
LEMMA ListKept ==
    ASSUME Typed, NEW n \in Nat, NEW q \in [1..n -> Threads], IsList(n, q),
           m_curStart' = m_curStart, m_curBack' = m_curBack,
           \A t \in Threads : semData'[t].child = semData[t].child,
           \A t \in Threads : at'[t] = "waiting" <=> at[t] = "waiting"
    PROVE  IsList(n, q)'
<1>1. \A i \in 1..n : q[i] \in Threads
  OBVIOUS
<1>. QED
  BY <1>1 DEF IsList

\* The order of the waits: WaitEnqueue appends the thread.
LEMMA ListAppends ==
    ASSUME Typed, Quiet, NEW n \in Nat, NEW q \in [1..n -> Threads], IsList(n, q),
           NEW t \in Threads, at[t] = "idle", NEW k \in Nat, NEW tm, WaitEnqueue(t, k, tm)
    PROVE  IsList(n + 1, [i \in 1..(n + 1) |-> IF i <= n THEN q[i] ELSE t])'
<1> DEFINE r == [i \in 1..(n + 1) |-> IF i <= n THEN q[i] ELSE t]
<1>1. /\ \A i \in 1..n : q[i] \in Threads /\ q[i] # t /\ at[q[i]] = "waiting"
      /\ \A i \in 1..n : i \in 1..(n + 1) /\ r[i] = q[i]
      /\ r[n + 1] = t
      /\ \A i \in 1..(n + 1) : i \in 1..n \/ i = n + 1
  BY DEF IsList
<1>2. /\ \A s \in Threads : at'[s] = IF s = t THEN "waiting" ELSE at[s]
      /\ m_curBack' = t
      /\ m_curStart' = IF m_curStart = Null THEN t ELSE m_curStart
      /\ \A s \in Threads : semData'[s].child = IF s = m_curBack THEN t ELSE semData[s].child
  BY DEF Typed, Quiet, WaitEnqueue, Node
<1>3. semData[t].child = Null
  BY DEF Quiet
<1>4. r \in [1..(n + 1) -> Threads]
  BY <1>1
<1>5. \A i, j \in 1..(n + 1) : r[i] = r[j] => i = j
  BY <1>1 DEF IsList
<1>6. \A s \in Threads : at'[s] = "waiting" <=> \E i \in 1..(n + 1) : r[i] = s
  <2>1. n + 1 \in 1..(n + 1)
    OBVIOUS
  <2> HIDE DEF r
  <2>. QED
    BY <1>1, <1>2, <2>1 DEF IsList
<1>7. m_curStart' = r[1] /\ m_curBack' = r[n + 1]
  <2>1. CASE n = 0
    BY <1>1, <1>2, <2>1 DEF IsList
  <2>2. CASE n # 0
    BY <1>1, <1>2, <2>2, Linking DEF IsList
  <2>. QED
    BY <2>1, <2>2
<1>8. ASSUME NEW i \in 1..(n + 1)
      PROVE  semData'[r[i]].child = IF i = n + 1 THEN Null ELSE r[i + 1]
  <2>1. CASE i = n + 1
    <3>1. t # m_curBack
      BY <1>1, Linking DEF IsList
    <3>. QED
      BY <1>1, <1>2, <1>3, <2>1, <3>1
  <2>2. CASE i = n
    <3>1. i \in 1..n /\ r[i] = q[n] /\ m_curBack = q[n]
      BY <1>1, <2>2 DEF IsList
    <3>. QED
      BY <1>1, <1>2, <2>2, <3>1
  <2>3. CASE i < n
    <3>1. i \in 1..n /\ n \in 1..n /\ i + 1 \in 1..n /\ m_curBack = q[n] /\ q[i] # q[n]
      BY <2>3 DEF IsList
    <3>2. semData[q[i]].child = q[i + 1]
      BY <2>3, <3>1 DEF IsList
    <3>. QED
      BY <1>1, <1>2, <2>3, <3>1, <3>2
  <2>. QED
    BY <2>1, <2>2, <2>3
<1> HIDE DEF r
<1>9. IsList(n + 1, r)'
  BY <1>4, <1>5, <1>6, <1>7, <1>8 DEF IsList
<1>. QED
  BY <1>9 DEF r

\* A waiter that goes on is the head, and what is left is the list behind it.
LEMMA ListShifts ==
    ASSUME Typed, Quiet, Covered, NEW n \in Nat, NEW q \in [1..n -> Threads], IsList(n, q),
           NEW t \in Threads, at[t] = "waiting", Released(t), Leave(t)
    PROVE  /\ n # 0 /\ q[1] = t
           /\ IsList(n - 1, [i \in 1..(n - 1) |-> q[i + 1]])'
<1> DEFINE r == [i \in 1..(n - 1) |-> q[i + 1]]
<1>1. n # 0 /\ q[1] = t /\ 1 \in 1..n /\ n \in 1..n
  BY Linking DEF Covered, Quiet, Marks, Released, IsList
<1>2. /\ m_curStart' = semData[t].child
      /\ m_curBack' = IF semData[t].child = Null THEN Null ELSE m_curBack
      /\ \A s \in Threads : s # t => at'[s] = at[s] /\ semData'[s].child = semData[s].child
      /\ at'[t] # "waiting"
  <2> DEFINE own == [semData EXCEPT ![t] = [IdleNode EXCEPT !.needs = semData[t].needs]]
             next == semData[t].child
  <2>1. /\ \/ at' = [at EXCEPT ![t] = "leaveNotify"]
           \/ at' = [at EXCEPT ![t] = "idle"]
        /\ \/ semData' = own
           \/ next # Null /\ semData' = [own EXCEPT ![next].state = "signaled"]
        /\ m_curStart' = next
        /\ m_curBack' = IF next = Null THEN Null ELSE m_curBack
    BY DEF Leave, LeaveList, CountOutLocked, Serves
  <2>2. own \in [Threads -> Node] /\ next \in Nodes
    BY DEF Typed, Node, IdleNode, Nodes
  <2>3. \A s \in Threads : s # t => own[s] = semData[s]
    BY DEF Typed
  <2> HIDE DEF own
  <2>4. \A s \in Threads : semData'[s].child = own[s].child
    BY <2>1, <2>2 DEF Nodes, Node
  <2>. QED
    BY <2>1, <2>3, <2>4 DEF Typed
<1>3. \A i \in 1..(n - 1) : i \in 1..n /\ i + 1 \in 1..n /\ r[i] = q[i + 1] /\ q[i + 1] # t
  BY <1>1 DEF IsList
<1>4. r \in [1..(n - 1) -> Threads]
  BY <1>3
<1>5. \A i, j \in 1..(n - 1) : r[i] = r[j] => i = j
  BY <1>3 DEF IsList
<1>6. \A s \in Threads : at'[s] = "waiting" <=> \E i \in 1..(n - 1) : r[i] = s
  <2>1. ASSUME NEW s \in Threads, at'[s] = "waiting" PROVE \E i \in 1..(n - 1) : r[i] = s
    <3>1. PICK j \in 1..n : q[j] = s
      BY <1>2, <2>1 DEF IsList
    <3>2. j # 1
      BY <1>1, <1>2, <2>1, <3>1
    <3>3. j - 1 \in 1..(n - 1) /\ r[j - 1] = q[j]
      BY <3>2
    <3>. QED
      BY <3>1, <3>3
  <2>2. ASSUME NEW s \in Threads, NEW i \in 1..(n - 1), r[i] = s PROVE at'[s] = "waiting"
    BY <1>2, <1>3, <2>2 DEF IsList
  <2>. QED
    BY <2>1, <2>2
<1>7. semData[t].child = IF n = 1 THEN Null ELSE q[2]
  BY <1>1 DEF IsList
<1>8. /\ n - 1 = 0 => m_curStart' = Null /\ m_curBack' = Null
      /\ n - 1 # 0 => m_curStart' = r[1] /\ m_curBack' = r[n - 1]
  <2>1. CASE n = 1
    BY <1>2, <1>7, <2>1
  <2>2. CASE n # 1
    <3>1. 1 \in 1..(n - 1) /\ n - 1 \in 1..(n - 1) /\ r[1] = q[2] /\ r[n - 1] = q[n]
      BY <1>1, <2>2
    <3>2. q[2] # Null
      BY <3>1, <1>4, Linking
    <3>. QED
      BY <1>1, <1>2, <1>7, <2>2, <3>1, <3>2 DEF IsList
  <2>. QED
    BY <2>1, <2>2
<1>9. ASSUME NEW i \in 1..(n - 1)
      PROVE  semData'[r[i]].child = IF i = n - 1 THEN Null ELSE r[i + 1]
  <2>1. semData'[r[i]].child = semData[q[i + 1]].child
    BY <1>2, <1>3
  <2>2. semData[q[i + 1]].child = IF i + 1 = n THEN Null ELSE q[i + 2]
    BY <1>3 DEF IsList
  <2>3. i # n - 1 => i + 1 \in 1..(n - 1) /\ r[i + 1] = q[i + 2]
    OBVIOUS
  <2>. QED
    BY <2>1, <2>2, <2>3
<1> HIDE DEF r
<1>10. IsList(n - 1, r)'
  BY <1>4, <1>5, <1>6, <1>8, <1>9 DEF IsList
<1>. QED
  BY <1>1, <1>10 DEF r

LEMMA QueueInit == ASSUME Init PROVE QueueInv
<1>1. Quiet
  <2>1. ~disturbed /\ ~m_isStop /\ timed = {} /\ at = [t \in Threads |-> "idle"]
    BY DEF Init
  <2>2. target \in [Threads -> Nodes]
    BY DEF Init, Nodes
  <2>3. \A t \in Threads : semData[t].child = Null
    BY DEF Init, IdleNode
  <2>. QED
    BY <2>1, <2>2, <2>3 DEF Quiet
<1>2. HeadIsWoken
  BY DEF Init, HeadIsWoken
<1>3. IsList(0, [i \in 1..0 |-> Null])
  <2>1. /\ [i \in 1..0 |-> Null] \in [1..0 -> Threads]
        /\ \A i \in 1..0 : FALSE
    OBVIOUS
  <2>2. /\ m_curStart = Null /\ m_curBack = Null
        /\ \A t \in Threads : at[t] # "waiting"
    BY DEF Init
  <2>. QED
    BY <2>1, <2>2 DEF IsList
<1>4. 0 \in Nat /\ [i \in 1..0 |-> Null] \in [1..0 -> Threads]
  OBVIOUS
<1>. QED
  BY <1>1, <1>2, <1>3, <1>4, OverdrawInit DEF QueueInv

\* The head of the list is asleep, and it is the only waiter that may be marked.
LEMMA HeadWaits ==
    ASSUME QueueInv
    PROVE  /\ m_curStart # Null => m_curStart \in Threads /\ at[m_curStart] = "waiting"
           /\ m_curBack = Null <=> m_curStart = Null
           /\ \A t \in Threads : at[t] = "waiting" /\ semData[t].state # "waiting" =>
                 /\ t = m_curStart /\ semData[t].state = "signaled"
                 /\ semData[t].needs <= m_signalValue
<1>1. PICK n \in Nat : \E q \in [1..n -> Threads] : IsList(n, q)
  BY DEF QueueInv
<1>2. PICK q \in [1..n -> Threads] : IsList(n, q)
  BY <1>1
<1>3. Marks
  BY DEF QueueInv, OverdrawInv, Covered, Quiet
<1>4. n # 0 => 1 \in 1..n /\ n \in 1..n
  OBVIOUS
<1>. QED
  BY <1>2, <1>3, <1>4, Linking DEF IsList, Marks

\* The steps that leave the list alone.
LEMMA QueueKept ==
    ASSUME QueueInv, OverdrawInv', Quiet', HeadIsWoken',
           m_curStart' = m_curStart, m_curBack' = m_curBack,
           \A t \in Threads : semData'[t].child = semData[t].child,
           \A t \in Threads : at'[t] = "waiting" <=> at[t] = "waiting"
    PROVE  QueueInv'
BY ListKept DEF QueueInv, OverdrawInv

LEMMA QueueSignal ==
    ASSUME QueueInv, OverdrawInv', NEW t \in Threads, NEW n \in Signals, Signal(t, n)
    PROVE  QueueInv'
<1>1. OverdrawInv'
  OBVIOUS
<1> DEFINE served == m_curStart # Null /\ semData[m_curStart].needs <= m_signalValue + n
<1>2. /\ m_curStart' = m_curStart /\ m_curBack' = m_curBack /\ woken' = woken
      /\ m_isStop' = m_isStop /\ disturbed' = disturbed /\ timed' = timed
      /\ m_signalValue' = m_signalValue + n
      /\ at[t] = "idle"
      /\ served => /\ semData' = [semData EXCEPT ![m_curStart].state = "signaled"]
                   /\ at' = [at EXCEPT ![t] = "signalNotify"]
                   /\ target' = [target EXCEPT ![t] = m_curStart]
      /\ ~served => UNCHANGED <<semData, at, target>>
  BY DEF Signal, MayCall
<1>3. \A s \in Threads : at'[s] = "waiting" <=> at[s] = "waiting"
  BY <1>2 DEF QueueInv, OverdrawInv, Typed
<1>4. \A s \in Threads : /\ semData'[s].child = semData[s].child
                         /\ semData'[s].needs = semData[s].needs
  <2>1. CASE served
    <3>1. m_curStart \in Threads
      BY <2>1, HeadWaits
    <3>2. semData \in [Threads -> Node]
      BY DEF QueueInv, OverdrawInv, Typed
    <3>3. semData' = [semData EXCEPT ![m_curStart].state = "signaled"]
      BY <1>2, <2>1
    <3>. QED
      BY <3>1, <3>2, <3>3 DEF Node
  <2>2. CASE ~served
    BY <1>2, <2>2
  <2>. QED
    BY <2>1, <2>2
<1>5. Quiet'
  <2>1. \A s \in Threads : at'[s] = at[s] \/ at'[s] = "signalNotify"
    BY <1>2 DEF QueueInv, OverdrawInv, Typed
  <2>2. target' \in [Threads -> Nodes]
    BY <1>2 DEF QueueInv, OverdrawInv, Typed, Quiet
  <2>. QED
    BY <1>2, <1>3, <1>4, <2>1, <2>2 DEF QueueInv, Quiet
<1>6. HeadIsWoken'
  <2>1. CASE served
    <3>1. m_curStart \in Threads
      BY <2>1, HeadWaits
    <3>2. semData'[m_curStart].state = "signaled" /\ target'[t] = m_curStart
      BY <1>2, <2>1, <3>1 DEF QueueInv, OverdrawInv, Typed, Node, Quiet
    <3>. QED
      BY <1>2, <3>2 DEF HeadIsWoken
  <2>2. CASE ~served
    BY <1>2, <2>2 DEF HeadIsWoken
  <2>. QED
    BY <2>1, <2>2
<1>. QED
  BY <1>1, <1>2, <1>3, <1>4, <1>5, <1>6, QueueKept

LEMMA QueuePoll ==
    ASSUME QueueInv, OverdrawInv', NEW t \in Threads, NEW n \in Needs, Poll(t, n)
    PROVE  QueueInv'
<1>1. OverdrawInv'
  OBVIOUS
<1>2. Quiet'
  BY DEF QueueInv, Quiet, Poll
<1>3. HeadIsWoken'
  <2>1. CASE PollOk(n)
    BY <2>1, HeadWaits DEF Poll, PollOk, HeadIsWoken
  <2>2. CASE ~PollOk(n)
    BY <2>2 DEF Poll, QueueInv, HeadIsWoken
  <2>. QED
    BY <2>1, <2>2
<1>. QED
  BY <1>1, <1>2, <1>3, QueueKept DEF Poll

\* A wait queues only when somebody already waits or the value does not suffice for it.
LEMMA QueueEnqueue ==
    ASSUME WaitsOnly, QueueInv, OverdrawInv', NEW t \in Threads, NEW k \in Needs,
           NEW tm \in Timed, at[t] = "idle", ~PollOk(k), WaitEnqueue(t, k, tm)
    PROVE  QueueInv'
<1>1. OverdrawInv'
  OBVIOUS
<1>2. /\ m_signalValue' = m_signalValue /\ woken' = woken /\ target' = target
      /\ m_isStop' = m_isStop /\ disturbed' = disturbed
      /\ m_curStart' = IF m_curStart = Null THEN t ELSE m_curStart
      /\ \A s \in Threads : at'[s] = IF s = t THEN "waiting" ELSE at[s]
      /\ \A s \in Threads : s # t => /\ semData'[s].state = semData[s].state
                                     /\ semData'[s].needs = semData[s].needs
      /\ semData'[t].needs = k
      /\ \A s \in Threads : s # m_curBack => semData'[s].child = semData[s].child
  <2>1. semData \in [Threads -> Node]
    BY DEF QueueInv, OverdrawInv, Typed
  <2>2. \A s \in Threads : s # t => /\ semData'[s].state = semData[s].state
                                    /\ semData'[s].needs = semData[s].needs
    BY <2>1 DEF WaitEnqueue, Node
  <2>3. semData'[t].needs = k
    BY <2>1 DEF WaitEnqueue, Node
  <2>4. \A s \in Threads : s # m_curBack => semData'[s].child = semData[s].child
    BY <2>1 DEF WaitEnqueue, Node
  <2>5. \A s \in Threads : at'[s] = IF s = t THEN "waiting" ELSE at[s]
    BY DEF QueueInv, Quiet, OverdrawInv, Typed, WaitEnqueue
  <2>. QED
    BY <2>2, <2>3, <2>4, <2>5 DEF WaitEnqueue
<1>3. k \in Nat
  BY NeedsAssumption
<1>4. timed' = {}
  BY DEF WaitsOnly, WaitEnqueue, QueueInv, Quiet
<1>5. Quiet'
  <2>1. m_curBack \in Threads => at[m_curBack] = "waiting"
    <3>1. PICK n \in Nat : \E q \in [1..n -> Threads] : IsList(n, q)
      BY DEF QueueInv
    <3>2. PICK q \in [1..n -> Threads] : IsList(n, q)
      BY <3>1
    <3>3. n # 0 => n \in 1..n
      OBVIOUS
    <3>. QED
      BY <3>2, <3>3, Linking DEF IsList
  <2>. QED
    BY <1>2, <1>4, <2>1 DEF QueueInv, Quiet
<1>6. HeadIsWoken'
  <2>1. CASE m_curStart = Null
    <3>1. ~(k <= m_signalValue)
      BY <2>1, HeadWaits DEF PollOk
    <3>. QED
      BY <1>2, <2>1, <3>1 DEF HeadIsWoken
  <2>2. CASE m_curStart # Null
    <3>1. m_curStart \in Threads /\ m_curStart # t
      BY <2>2, HeadWaits
    <3>. QED
      BY <1>2, <2>2, <3>1 DEF HeadIsWoken, QueueInv
  <2>. QED
    BY <2>1, <2>2
<1>7. PICK n \in Nat : \E q \in [1..n -> Threads] : IsList(n, q)
  BY DEF QueueInv
<1>8. PICK q \in [1..n -> Threads] : IsList(n, q)
  BY <1>7
<1> DEFINE r == [i \in 1..(n + 1) |-> IF i <= n THEN q[i] ELSE t]
<1>9. IsList(n + 1, r)'
  BY <1>3, <1>8, ListAppends DEF QueueInv, OverdrawInv
<1>10. n + 1 \in Nat /\ r \in [1..(n + 1) -> Threads]
  BY <1>9 DEF IsList
<1>. QED
  BY <1>1, <1>5, <1>6, <1>9, <1>10 DEF QueueInv

\* A waiter that goes on marks the next one if there is enough left for it.
LEMMA QueueLeave ==
    ASSUME QueueInv, OverdrawInv', NEW t \in Threads, at[t] = "waiting", Released(t), Leave(t)
    PROVE  QueueInv'
<1>1. OverdrawInv'
  OBVIOUS
<1> DEFINE next == semData[t].child
           val == m_signalValue - semData[t].needs
           own == [semData EXCEPT ![t] = [IdleNode EXCEPT !.needs = semData[t].needs]]
<1>2. t = m_curStart /\ semData[t].state = "signaled"
  BY HeadWaits DEF Released, QueueInv, Quiet
<1>3. ~m_isStop /\ semData[t].state # "canceled"
  BY <1>2 DEF QueueInv, Quiet
<1>4. /\ m_signalValue' = val
      /\ m_curStart' = next
      /\ m_isStop' = m_isStop /\ disturbed' = disturbed /\ timed' = timed \ {t}
      /\ Serves(next, own, val) =>
            /\ semData' = [own EXCEPT ![next].state = "signaled"]
            /\ at' = [at EXCEPT ![t] = "leaveNotify"]
            /\ target' = [target EXCEPT ![t] = next]
      /\ ~Serves(next, own, val) =>
            /\ semData' = own
            /\ at' = [at EXCEPT ![t] = "idle"]
            /\ target' = target
  BY <1>3 DEF Leave, LeaveList, CountOutLocked
<1>5. /\ own \in [Threads -> Node] /\ next \in Nodes
      /\ own[t].child = Null /\ \A s \in Threads : s # t => own[s] = semData[s]
  BY DEF QueueInv, OverdrawInv, Typed, Node, Nodes, IdleNode
<1> HIDE DEF own
<1>6. \A s \in Threads : /\ semData'[s].child = own[s].child
                         /\ semData'[s].needs = own[s].needs
  BY <1>4, <1>5 DEF Nodes, Node, Serves
<1>7. Quiet'
  <2>1. \A s \in Threads : s # t => at'[s] = at[s]
    BY <1>4 DEF QueueInv, OverdrawInv, Typed
  <2>2. at'[t] \in {"leaveNotify", "idle"}
    BY <1>4 DEF QueueInv, OverdrawInv, Typed
  <2>3. target' \in [Threads -> Nodes]
    BY <1>4, <1>5 DEF QueueInv, Quiet
  <2>. QED
    BY <1>4, <1>5, <1>6, <2>1, <2>2, <2>3 DEF QueueInv, Quiet
<1>8. HeadIsWoken'
  <2>1. CASE Serves(next, own, val)
    <3>1. next \in Threads
      BY <1>5, <2>1 DEF Serves, Nodes
    <3>2. semData'[next].state = "signaled" /\ target'[t] = next
      BY <1>4, <1>5, <2>1, <3>1 DEF Node, QueueInv, Quiet
    <3>. QED
      BY <1>4, <3>2 DEF HeadIsWoken
  <2>2. CASE ~Serves(next, own, val)
    BY <1>4, <2>2 DEF HeadIsWoken, Serves
  <2>. QED
    BY <2>1, <2>2
<1>9. PICK n \in Nat : \E q \in [1..n -> Threads] : IsList(n, q)
  BY DEF QueueInv
<1>10. PICK q \in [1..n -> Threads] : IsList(n, q)
  BY <1>9
<1> DEFINE r == [i \in 1..(n - 1) |-> q[i + 1]]
<1>11. n # 0 /\ IsList(n - 1, r)'
  BY <1>10, ListShifts DEF QueueInv, OverdrawInv
<1>12. n - 1 \in Nat /\ r \in [1..(n - 1) -> Threads]
  BY <1>11 DEF IsList
<1>. QED
  BY <1>1, <1>7, <1>8, <1>11, <1>12 DEF QueueInv

\* The notify reaches the head if it was meant for it: the head is asleep.
LEMMA QueueNotify ==
    ASSUME QueueInv, OverdrawInv', NEW t \in Threads, Notify(t)
    PROVE  QueueInv'
<1>1. OverdrawInv'
  OBVIOUS
<1>2. /\ UNCHANGED <<m_signalValue, m_curBack, m_curStart, semData, m_isStop, disturbed, timed>>
      /\ woken' = IF at[target[t]] = "waiting" THEN woken \cup {target[t]} ELSE woken
      /\ target' = [target EXCEPT ![t] = Null]
  BY DEF Notify, list, QueueInv, OverdrawInv
<1>3. at[t] \in {"signalNotify", "leaveNotify"}
  BY DEF Notify, QueueInv, Quiet
<1>4. \A s \in Threads : at'[s] = IF s # t THEN at[s] ELSE
                                  IF at[t] = "signalNotify" THEN "idle" ELSE "leaveCount"
  BY <1>3 DEF Notify, QueueInv, OverdrawInv, Typed
<1>5. \A s \in Threads : at'[s] = "waiting" <=> at[s] = "waiting"
  BY <1>3, <1>4
<1>6. Quiet'
  <2>1. target' \in [Threads -> Nodes]
    BY <1>2 DEF QueueInv, Quiet, Nodes
  <2>. QED
    BY <1>2, <1>3, <1>4, <1>5, <2>1 DEF QueueInv, Quiet
<1>7. HeadIsWoken'
  <2> SUFFICES ASSUME m_curStart # Null, semData[m_curStart].needs <= m_signalValue
               PROVE  /\ semData[m_curStart].state = "signaled"
                      /\ m_curStart \in woken' \/ \E s \in Threads : target'[s] = m_curStart
    BY <1>2 DEF HeadIsWoken
  <2>1. /\ semData[m_curStart].state = "signaled"
        /\ m_curStart \in woken \/ \E s \in Threads : target[s] = m_curStart
    BY DEF QueueInv, HeadIsWoken
  <2>2. at[m_curStart] = "waiting"
    BY HeadWaits
  <2>3. CASE m_curStart \in woken
    BY <1>2, <2>1, <2>3
  <2>4. CASE target[t] = m_curStart
    BY <1>2, <2>1, <2>2, <2>4
  <2>5. ASSUME NEW s \in Threads, target[s] = m_curStart, s # t
        PROVE  target'[s] = m_curStart
    BY <1>2, <2>5 DEF QueueInv, Quiet
  <2>. QED
    BY <2>1, <2>3, <2>4, <2>5
<1>. QED
  BY <1>1, <1>2, <1>5, <1>6, <1>7, QueueKept

\* A waiter that wakes up unmarked sleeps on: were it a head that can be served, it
\* would have been marked.
LEMMA QueueSleepsOn ==
    ASSUME QueueInv, OverdrawInv', NEW t \in Threads, WaitResume(t), ~Released(t)
    PROVE  QueueInv'
<1>1. /\ UNCHANGED <<m_signalValue, m_curBack, m_curStart, semData, m_isStop, disturbed,
                     timed, at, target>>
      /\ woken' = woken \ {t}
  BY DEF WaitResume, list
<1>2. OverdrawInv'
  OBVIOUS
<1>3. Quiet'
  BY <1>1 DEF QueueInv, Quiet
<1>4. HeadIsWoken'
  BY <1>1 DEF QueueInv, HeadIsWoken, Released
<1>. QED
  BY <1>1, <1>2, <1>3, <1>4, QueueKept

LEMMA QueueUntouched ==
    ASSUME QueueInv, OverdrawInv',
           UNCHANGED <<list, m_isStop, disturbed, timed, target, woken>>,
           \A s \in Threads : \/ at'[s] = at[s]
                              \/ /\ at[s] \in {"leaveCount", "leaveStore"}
                                 /\ at'[s] \in {"leaveStore", "idle"}
    PROVE  QueueInv'
<1>1. \A s \in Threads : at'[s] = "waiting" <=> at[s] = "waiting"
  OBVIOUS
<1>2. Quiet'
  BY <1>1 DEF QueueInv, Quiet, list
<1>3. HeadIsWoken'
  BY DEF QueueInv, HeadIsWoken, list
<1>. QED
  BY <1>1, <1>2, <1>3, QueueKept DEF list

LEMMA QueueNext == ASSUME WaitsOnly, QueueInv, [Next]_vars PROVE QueueInv'
<1>0. OverdrawInv'
  BY OverdrawNext DEF QueueInv
<1>1. ASSUME NEW t \in Threads, Call(t) PROVE QueueInv'
  <2>1. ASSUME NEW n \in Needs, NEW tm \in Timed, Wait(t, n, tm) PROVE QueueInv'
    BY <1>0, <2>1, QueuePoll, QueueEnqueue DEF Wait, MayCall
  <2>2. CASE TryWaitBusy(t)
    BY <1>0, <2>2, QueueUntouched DEF TryWaitBusy
  <2>3. ~DestroyStop(t) /\ CancelCounts = {}
    BY DEF WaitsOnly, DestroyStop
  <2>. QED
    BY <1>0, <1>1, <2>1, <2>2, <2>3, QueueSignal, QueuePoll DEF Call
<1>2. ASSUME NEW t \in Threads, WaitResume(t) PROVE QueueInv'
  <2>1. CASE Released(t)
    BY <1>0, <1>2, <2>1, QueueLeave DEF WaitResume, Asleep
  <2>. QED
    BY <1>0, <1>2, <2>1, QueueSleepsOn
<1>3. ASSUME NEW t \in Threads, CountLoad(t) \/ CountStore(t) PROVE QueueInv'
  <2>1. UNCHANGED <<list, m_isStop, disturbed, timed, target, woken>>
    BY <1>3 DEF CountLoad, CountStore
  <2>2. \A s \in Threads : \/ at'[s] = at[s]
                           \/ /\ at[s] \in {"leaveCount", "leaveStore"}
                              /\ at'[s] \in {"leaveStore", "idle"}
    BY <1>3 DEF CountLoad, CountStore, QueueInv, OverdrawInv, Typed
  <2>. QED
    BY <1>0, <2>1, <2>2, QueueUntouched
<1>4. ASSUME NEW t \in Threads, Run(t) PROVE QueueInv'
  <2>1. ~TimeoutReset(t) /\ ~DestroyNotify(t) /\ ~DestroyResume(t) /\ ~LeaveInside(t)
    BY DEF QueueInv, Quiet, TimeoutReset, DestroyNotify, DestroyResume, LeaveInside
  <2>. QED
    BY <1>0, <1>2, <1>3, <1>4, <2>1, QueueNotify DEF Run
<1>5. ASSUME NEW t \in Threads PROVE ~WaitTimeout(t)
  BY DEF QueueInv, Quiet, WaitTimeout
<1>6. CASE UNCHANGED vars
  BY <1>0, <1>6, QueueUntouched DEF vars, list
<1>. QED
  BY <1>1, <1>4, <1>5, <1>6 DEF Next

\* No waiter that could be served sleeps on: whatever threads wait, poll and signal,
\* and wherever a step falls between the early unlock and its notify, a head whose needs
\* are covered is marked and is awake or about to be notified.  A cancel, a timeout or a
\* deletion can lose the wakeup, hence WaitsOnly.
THEOREM HeadsAreWoken == ASSUME WaitsOnly PROVE Spec => []HeadIsWoken
<1>1. Init => QueueInv
  BY QueueInit
<1>2. QueueInv /\ [Next]_vars => QueueInv'
  BY QueueNext
<1>3. QueueInv => HeadIsWoken
  BY DEF QueueInv
<1>. QED
  BY <1>1, <1>2, <1>3, PTL DEF Spec

-----------------------------------------------------------------------------
(***************************************************************************)
(* The same calls implement FifoSemaphore step by step.  The abstract      *)
(* queue is read off the nodes by a walk along child, a recursive          *)
(* function: that it meets exactly the list q is shown by the smallest     *)
(* index at which the two would differ.                                    *)
(***************************************************************************)
LEMMA Smallest ==
    ASSUME NEW S \in SUBSET Nat, S # {}
    PROVE  \E n \in S : \A m \in S : n <= m
<1> DEFINE R == {ss \in Nat \X Nat : ss[1] < ss[2]}
<1>1. IsWellFoundedOn(R, Nat)
  BY NatLessThanWellFounded DEF OpToRel
<1>2. PICK x \in S : \A y \in S : ~ (<<y, x>> \in R)
  <2> HIDE DEF R
  <2>. QED
    BY <1>1, WFMin
<1>3. ASSUME NEW y \in S PROVE x <= y
  <2>1. x \in Nat /\ y \in Nat
    OBVIOUS
  <2>2. <<y, x>> \in Nat \X Nat /\ <<y, x>>[1] = y /\ <<y, x>>[2] = x
    BY <2>1
  <2>3. ~(y < x)
    BY <1>2, <2>2
  <2>. QED
    BY <2>1, <2>3
<1>. QED
  BY <1>3

\* A function that satisfies the equation of Walk exists, so Walk satisfies it.
LEMMA WalkUnfolds ==
    ASSUME NEW N \in Nat, NEW f,
           f = [k \in 0..N |-> IF k = 0 THEN m_curStart
                               ELSE IF f[k - 1] = Null THEN Null ELSE semData[f[k - 1]].child]
    PROVE  Walk(N) = [k \in 0..N |->
               IF k = 0 THEN m_curStart
               ELSE IF Walk(N)[k - 1] = Null THEN Null ELSE semData[Walk(N)[k - 1]].child]
<1> DEFINE P(g) == g = [k \in 0..N |->
               IF k = 0 THEN m_curStart
               ELSE IF g[k - 1] = Null THEN Null ELSE semData[g[k - 1]].child]
<1>1. Walk(N) = CHOOSE g : P(g)
  BY DEF Walk
<1>2. P(f)
  OBVIOUS
<1> HIDE DEF P
<1>3. P(CHOOSE g : P(g))
  BY <1>2
<1>4. P(Walk(N))
  BY <1>1, <1>3
<1>. QED
  BY <1>4 DEF P

LEMMA WalkMeetsList ==
    ASSUME NEW n \in Nat, NEW q \in [1..n -> Threads], IsList(n, q), NEW N \in Nat, n <= N
    PROVE  Walk(N) = [k \in 0..N |-> IF k < n THEN q[k + 1] ELSE Null]
<1> DEFINE f == [k \in 0..N |-> IF k < n THEN q[k + 1] ELSE Null]
           w == Walk(N)
           next(g, k) == IF g[k - 1] = Null THEN Null ELSE semData[g[k - 1]].child
<1>1. \A k \in 0..N : f[k] = IF k = 0 THEN m_curStart ELSE next(f, k)
  <2> SUFFICES ASSUME NEW k \in 0..N PROVE f[k] = IF k = 0 THEN m_curStart ELSE next(f, k)
    OBVIOUS
  <2>1. CASE k = 0
    BY <2>1 DEF IsList
  <2>2. CASE k # 0 /\ k <= n
    <3>1. k \in 1..n /\ k - 1 \in 0..N /\ f[k - 1] = q[k]
      BY <2>2
    <3>2. q[k] # Null
      BY <3>1, Linking
    <3>3. semData[q[k]].child = IF k = n THEN Null ELSE q[k + 1]
      BY <3>1 DEF IsList
    <3>. QED
      BY <2>2, <3>1, <3>2, <3>3
  <2>3. CASE k > n
    <3>1. k - 1 \in 0..N /\ f[k - 1] = Null /\ f[k] = Null /\ k # 0
      BY <2>3
    <3>. QED
      BY <3>1
  <2>. QED
    BY <2>1, <2>2, <2>3
<1>2. f = [k \in 0..N |-> IF k = 0 THEN m_curStart ELSE next(f, k)]
  BY <1>1
<1>3. w = [k \in 0..N |-> IF k = 0 THEN m_curStart ELSE next(w, k)]
  <2> HIDE DEF f
  <2>. QED
    BY <1>2, WalkUnfolds
<1> HIDE DEF f, w
<1>4. \A k \in 0..N : w[k] = IF k = 0 THEN m_curStart ELSE next(w, k)
  BY <1>3
<1> DEFINE S == {k \in 0..N : w[k] # f[k]}
<1>5. S = {}
  <2> SUFFICES ASSUME S # {} PROVE FALSE
    OBVIOUS
  <2>1. PICK k \in S : \A m \in S : k <= m
    <3>1. S \in SUBSET Nat
      OBVIOUS
    <3> HIDE DEF S
    <3>. QED
      BY <3>1, Smallest
  <2>2. k \in 0..N /\ w[k] # f[k]
    OBVIOUS
  <2>3. k # 0
    BY <1>1, <1>4, <2>2
  <2>4. k - 1 \in 0..N /\ k - 1 \notin S
    BY <2>1, <2>2, <2>3
  <2>5. w[k - 1] = f[k - 1]
    BY <2>4
  <2>6. w[k] = next(w, k) /\ f[k] = next(f, k)
    BY <1>1, <1>4, <2>2, <2>3
  <2>. QED
    BY <2>2, <2>5, <2>6
<1>6. \A k \in 0..N : w[k] = f[k]
  BY <1>5
<1>7. w = f
  BY <1>2, <1>3, <1>6
<1>. QED
  BY <1>7 DEF w, f

\* The queue as the list q lays it out.
Laid(n, q) == [i \in 1..n |-> [thread |-> q[i], needs |-> semData[q[i]].needs]]

LEMMA QueueIsLaid ==
    ASSUME NEW n \in Nat, NEW q \in [1..n -> Threads], IsList(n, q)
    PROVE  Queue = Laid(n, q)
<1> DEFINE N == Cardinality(Threads)
           node == Walk(N)
           met == {k \in 0..N : node[k] # Null}
<1>1. N \in Nat
  BY ThreadsAssumption, FS_CardinalityType
<1>2. n <= N
  <2>1. q \in Injection(1..n, Threads)
    BY Fun_IsInj DEF IsList
  <2>2. Cardinality(1..n) <= N
    BY <2>1, FS_Injection, ThreadsAssumption
  <2>3. Cardinality(1..n) = n
    BY FS_Interval
  <2>. QED
    BY <2>2, <2>3
<1>3. node = [k \in 0..N |-> IF k < n THEN q[k + 1] ELSE Null]
  BY <1>1, <1>2, WalkMeetsList
<1> HIDE DEF N, node
<1>4. \A k \in 0..N : node[k] # Null <=> k < n
  BY <1>3, Linking
<1>5. met = 0..(n - 1)
  BY <1>1, <1>2, <1>4
<1>6. Cardinality(met) = n
  <2>1. 0 \in Int /\ n - 1 \in Int /\ (IF 0 > n - 1 THEN 0 ELSE (n - 1) - 0 + 1) = n
    OBVIOUS
  <2>2. Cardinality(0..(n - 1)) = n
    BY <2>1, FS_Interval
  <2> HIDE DEF met
  <2>. QED
    BY <1>5, <2>2
<1>7. Queue = [i \in 1..Cardinality(met) |->
                  [thread |-> node[i - 1], needs |-> semData[node[i - 1]].needs]]
  BY DEF Queue, N, node
<1>8. \A i \in 1..n : node[i - 1] = q[i]
  BY <1>1, <1>2, <1>3
<1>. QED
  BY <1>6, <1>7, <1>8 DEF Laid

LEMMA QueueIsLaidNext ==
    ASSUME NEW n \in Nat, NEW q \in [1..n -> Threads]
    PROVE  IsList(n, q)' => Queue' = Laid(n, q)'
<1> DEFINE A == IsList(n, q)
           B == Queue = Laid(n, q)
<1>1. A => B
  BY QueueIsLaid
<1> HIDE DEF A, B
<1>2. A' => B'
  BY <1>1, PTL
<1>. QED
  BY <1>2 DEF A, B

Granted == {t \in Threads : ret[t] = "Ok"}

\* A step that keeps the list and its needs keeps the queue.
LEMMA QueueStays ==
    ASSUME QueueInv, m_curStart' = m_curStart, m_curBack' = m_curBack,
           \A t \in Threads : /\ semData'[t].child = semData[t].child
                              /\ semData'[t].needs = semData[t].needs,
           \A t \in Threads : at'[t] = "waiting" <=> at[t] = "waiting"
    PROVE  Queue' = Queue
<1>1. PICK n \in Nat : \E q \in [1..n -> Threads] : IsList(n, q)
  BY DEF QueueInv
<1>2. PICK q \in [1..n -> Threads] : IsList(n, q)
  BY <1>1
<1>3. IsList(n, q)'
  BY <1>2, ListKept DEF QueueInv, OverdrawInv
<1>4. Queue = Laid(n, q)
  BY <1>2, QueueIsLaid
<1>5. Queue' = Laid(n, q)'
  BY <1>3, QueueIsLaidNext
<1>6. Laid(n, q)' = Laid(n, q)
  BY DEF Laid
<1>. QED
  BY <1>4, <1>5, <1>6

Entry == [thread : Threads, needs : Nat]

\* Append and Tail as functions.
LEMMA AppendIs ==
    ASSUME NEW S, NEW s \in Seq(S), NEW e \in S
    PROVE  Append(s, e) = [i \in 1..(Len(s) + 1) |-> IF i <= Len(s) THEN s[i] ELSE e]
<1> DEFINE f == [i \in 1..(Len(s) + 1) |-> IF i <= Len(s) THEN s[i] ELSE e]
<1>1. Len(s) \in Nat /\ \A i \in 1..Len(s) : s[i] \in S
  BY LenProperties, ElementOfSeq
<1>2. f \in [1..(Len(s) + 1) -> S]
  BY <1>1
<1>3. \A i \in 1..(Len(s) + 1) : f[i] = IF i <= Len(s) THEN s[i] ELSE e
  OBVIOUS
<1> HIDE DEF f
<1>4. f \in Seq(S) /\ Len(f) = Len(s) + 1
  BY <1>1, <1>2
<1>5. /\ Append(s, e) \in Seq(S) /\ Len(Append(s, e)) = Len(s) + 1
      /\ \A i \in 1..Len(s) : Append(s, e)[i] = s[i]
      /\ Append(s, e)[Len(s) + 1] = e
  BY AppendProperties
<1>6. \A i \in 1..(Len(s) + 1) : Append(s, e)[i] = f[i]
  BY <1>1, <1>3, <1>5
<1>7. Append(s, e) = f
  BY <1>4, <1>5, <1>6, SeqEqual
<1>. QED
  BY <1>7 DEF f

LEMMA TailIs ==
    ASSUME NEW S, NEW s \in Seq(S), s # <<>>
    PROVE  Tail(s) = [i \in 1..(Len(s) - 1) |-> s[i + 1]]
<1> DEFINE f == [i \in 1..(Len(s) - 1) |-> s[i + 1]]
<1>1. Len(s) \in Nat \ {0} /\ \A i \in 1..Len(s) : s[i] \in S
  BY LenProperties, ElementOfSeq, EmptySeq
<1>2. f \in [1..(Len(s) - 1) -> S]
  BY <1>1
<1>3. \A i \in 1..(Len(s) - 1) : f[i] = s[i + 1]
  OBVIOUS
<1> HIDE DEF f
<1>4. f \in Seq(S) /\ Len(f) = Len(s) - 1
  BY <1>1, <1>2
<1>5. /\ Tail(s) \in Seq(S) /\ Len(Tail(s)) = Len(s) - 1
      /\ \A i \in 1..Len(Tail(s)) : Tail(s)[i] = s[i + 1]
  BY HeadTailProperties
<1>6. \A i \in 1..(Len(s) - 1) : Tail(s)[i] = f[i]
  BY <1>3, <1>5
<1>7. Tail(s) = f
  BY <1>4, <1>5, <1>6, SeqEqual
<1>. QED
  BY <1>7 DEF f

LEMMA LaidIsSequence ==
    ASSUME Typed, NEW n \in Nat, NEW q \in [1..n -> Threads]
    PROVE  /\ Laid(n, q) \in Seq(Entry)
           /\ Len(Laid(n, q)) = n
           /\ Laid(n, q) = <<>> <=> n = 0
<1>1. \A i \in 1..n : [thread |-> q[i], needs |-> semData[q[i]].needs] \in Entry
  BY DEF Typed, Node, Entry
<1>2. Laid(n, q) \in [1..n -> Entry]
  BY <1>1 DEF Laid
<1>. QED
  BY <1>2

\* The abstract queue is empty exactly when m_curBack is null, and no idle thread is in it.
LEMMA QueueFacts ==
    ASSUME QueueInv
    PROVE  /\ Queue = <<>> <=> m_curBack = Null
           /\ \A t \in Threads : at[t] # "waiting" => t \notin Abstract!Waiters
<1>1. PICK n \in Nat : \E q \in [1..n -> Threads] : IsList(n, q)
  BY DEF QueueInv
<1>2. PICK q \in [1..n -> Threads] : IsList(n, q)
  BY <1>1
<1>3. Queue = Laid(n, q)
  BY <1>2, QueueIsLaid
<1>4. Len(Queue) = n /\ (Queue = <<>> <=> n = 0)
  BY <1>3, LaidIsSequence DEF QueueInv, OverdrawInv
<1>5. n = 0 <=> m_curBack = Null
  <2>1. n # 0 => n \in 1..n
    OBVIOUS
  <2>. QED
    BY <1>2, <2>1, Linking DEF IsList
<1>6. ASSUME NEW i \in 1..n PROVE at[Queue[i].thread] = "waiting"
  BY <1>2, <1>3 DEF IsList, Laid
<1>. QED
  BY <1>4, <1>5, <1>6 DEF Abstract!Waiters

\* No step but a wait's answer changes what a thread's last call returned.
LEMMA GrantedStays == ASSUME ret' = ret PROVE Granted' = Granted
BY DEF Granted

LEMMA GrantedAdds ==
    ASSUME Returns, NEW t \in Threads, ret' = [ret EXCEPT ![t] = "Ok"]
    PROVE  Granted' = Granted \cup {t}
BY DEF Returns, Granted

LEMMA GrantedLoses ==
    ASSUME Returns, NEW t \in Threads, NEW r, r # "Ok", ret' = [ret EXCEPT ![t] = r]
    PROVE  Granted' = Granted \ {t}
BY DEF Returns, Granted

LEMMA ImplementsSignal ==
    ASSUME QueueInv, NEW t \in Threads, NEW n \in Signals, Signal(t, n)
    PROVE  Abstract!Signal(n)
<1>1. /\ m_signalValue' = m_signalValue + n /\ ret' = ret
      /\ m_curStart' = m_curStart /\ m_curBack' = m_curBack
      /\ \/ semData' = semData
         \/ m_curStart # Null /\ semData' = [semData EXCEPT ![m_curStart].state = "signaled"]
      /\ at[t] = "idle"
      /\ at' = at \/ at' = [at EXCEPT ![t] = "signalNotify"]
  BY DEF Signal, MayCall
<1>2. \A s \in Threads : /\ semData'[s].child = semData[s].child
                         /\ semData'[s].needs = semData[s].needs
  <2>1. semData \in [Threads -> Node]
    BY DEF QueueInv, OverdrawInv, Typed
  <2>2. m_curStart # Null => m_curStart \in Threads
    BY HeadWaits
  <2>. QED
    BY <1>1, <2>1, <2>2 DEF Node
<1>3. \A s \in Threads : at'[s] = "waiting" <=> at[s] = "waiting"
  BY <1>1 DEF QueueInv, OverdrawInv, Typed
<1>4. Queue' = Queue
  BY <1>1, <1>2, <1>3, QueueStays
<1>5. Granted' = Granted
  BY <1>1, GrantedStays
<1>. QED
  BY <1>1, <1>4, <1>5 DEF Abstract!Signal, Granted

LEMMA ImplementsPoll ==
    ASSUME QueueInv, Returns, NEW t \in Threads, NEW n \in Needs, at[t] = "idle", Poll(t, n)
    PROVE  Abstract!Take(t, n) \/ Abstract!Refuse(t, n)
<1>1. Queue' = Queue
  BY QueueStays DEF Poll
<1>2. t \notin Abstract!Waiters
  BY QueueFacts
<1>3. CASE PollOk(n)
  <2>1. Granted' = Granted \cup {t}
    BY <1>3, GrantedAdds DEF Poll
  <2>2. Queue = <<>> /\ n <= m_signalValue /\ m_signalValue' = m_signalValue - n
    BY <1>3, QueueFacts DEF Poll, PollOk
  <2>. QED
    BY <1>1, <1>2, <2>1, <2>2 DEF Abstract!Take, Granted
<1>4. CASE ~PollOk(n)
  <2>1. Granted' = Granted \ {t}
    BY <1>4, GrantedLoses DEF Poll
  <2>2. /\ Queue # <<>> \/ n > m_signalValue
        /\ m_signalValue' = m_signalValue
    <3>1. n \in Nat /\ m_signalValue \in Int
      BY NeedsAssumption DEF QueueInv, OverdrawInv, Typed
    <3>. QED
      BY <1>4, <3>1, QueueFacts DEF Poll, PollOk
  <2>. QED
    BY <1>1, <1>2, <2>1, <2>2 DEF Abstract!Refuse, Granted
<1>. QED
  BY <1>3, <1>4

LEMMA ImplementsBusy ==
    ASSUME QueueInv, Returns, NEW t \in Threads, NEW n \in Needs, TryWaitBusy(t)
    PROVE  Abstract!Refuse(t, n)
<1>1. Queue' = Queue
  BY QueueStays DEF TryWaitBusy, list
<1>2. t \notin Abstract!Waiters /\ Queue # <<>>
  BY QueueFacts DEF TryWaitBusy, MayCall
<1>3. Granted' = Granted \ {t}
  BY GrantedLoses DEF TryWaitBusy
<1>4. m_signalValue' = m_signalValue
  BY DEF TryWaitBusy, list
<1>. QED
  BY <1>1, <1>2, <1>3, <1>4 DEF Abstract!Refuse, Granted

LEMMA ImplementsEnqueue ==
    ASSUME QueueInv, Returns, NEW t \in Threads, NEW k \in Needs, NEW tm,
           at[t] = "idle", ~PollOk(k), WaitEnqueue(t, k, tm)
    PROVE  Abstract!Enqueue(t, k)
<1>1. k \in Nat /\ m_signalValue \in Int
  BY NeedsAssumption DEF QueueInv, OverdrawInv, Typed
<1>2. PICK n \in Nat : \E q \in [1..n -> Threads] : IsList(n, q)
  BY DEF QueueInv
<1>3. PICK q \in [1..n -> Threads] : IsList(n, q)
  BY <1>2
<1> DEFINE r == [i \in 1..(n + 1) |-> IF i <= n THEN q[i] ELSE t]
<1>4. IsList(n + 1, r)'
  BY <1>1, <1>3, ListAppends DEF QueueInv, OverdrawInv
<1>5. Queue = Laid(n, q)
  BY <1>3, QueueIsLaid
<1>6. Queue' = Laid(n + 1, r)'
  <2>1. n + 1 \in Nat /\ r \in [1..(n + 1) -> Threads]
    BY <1>4 DEF IsList
  <2> HIDE DEF r
  <2>. QED
    BY <1>4, <2>1, QueueIsLaidNext
<1>7. \A s \in Threads : semData'[s].needs = IF s = t THEN k ELSE semData[s].needs
  BY DEF QueueInv, OverdrawInv, Typed, WaitEnqueue, Node
<1> DEFINE e == [thread |-> t, needs |-> k]
<1>8. Queue' = Append(Queue, e)
  <2>1. Laid(n, q) \in Seq(Entry) /\ Len(Laid(n, q)) = n /\ e \in Entry
    BY <1>1, LaidIsSequence DEF QueueInv, OverdrawInv, Entry
  <2>2. Append(Laid(n, q), e) =
            [i \in 1..(n + 1) |-> IF i <= n THEN Laid(n, q)[i] ELSE e]
    <3> HIDE DEF e
    <3>. QED
      BY <2>1, AppendIs
  <2>3. \A i \in 1..n : q[i] \in Threads /\ q[i] # t
    BY <1>3 DEF IsList
  <2>4. Laid(n + 1, r)' =
            [i \in 1..(n + 1) |-> [thread |-> r[i], needs |-> semData'[r[i]].needs]]
    BY DEF Laid
  <2>5. ASSUME NEW i \in 1..(n + 1)
        PROVE  [thread |-> r[i], needs |-> semData'[r[i]].needs] =
                   IF i <= n THEN Laid(n, q)[i] ELSE e
    <3>1. CASE i <= n
      <4>1. i \in 1..n /\ r[i] = q[i]
        BY <3>1
      <4>2. semData'[q[i]].needs = semData[q[i]].needs
        BY <1>7, <2>3, <4>1
      <4>. QED
        BY <3>1, <4>1, <4>2 DEF Laid
    <3>2. CASE ~(i <= n)
      BY <1>7, <3>2
    <3>. QED
      BY <3>1, <3>2
  <2> HIDE DEF r, e
  <2>. QED
    BY <1>5, <1>6, <2>2, <2>4, <2>5
<1>9. t \notin Abstract!Waiters
  BY QueueFacts
<1>10. Queue # <<>> \/ k > m_signalValue
  BY <1>1, QueueFacts DEF PollOk
<1>11. Granted' = Granted \ {t} /\ m_signalValue' = m_signalValue
  BY GrantedLoses DEF WaitEnqueue
<1>. QED
  BY <1>8, <1>9, <1>10, <1>11 DEF Abstract!Enqueue, Granted

\* Only the head of the queue is ever served, and there is enough for it.
LEMMA ImplementsServe ==
    ASSUME QueueInv, Returns, NEW t \in Threads, at[t] = "waiting", Released(t), Leave(t)
    PROVE  Abstract!Serve
<1>1. /\ t = m_curStart /\ semData[t].state = "signaled"
      /\ semData[t].needs <= m_signalValue /\ ~m_isStop
  BY HeadWaits DEF Released, QueueInv, Quiet
<1>2. PICK n \in Nat : \E q \in [1..n -> Threads] : IsList(n, q)
  BY DEF QueueInv
<1>3. PICK q \in [1..n -> Threads] : IsList(n, q)
  BY <1>2
<1> DEFINE r == [i \in 1..(n - 1) |-> q[i + 1]]
<1>4. n # 0 /\ q[1] = t /\ IsList(n - 1, r)'
  BY <1>3, ListShifts DEF QueueInv, OverdrawInv
<1>5. Queue = Laid(n, q)
  BY <1>3, QueueIsLaid
<1>6. Queue' = Laid(n - 1, r)'
  <2>1. n - 1 \in Nat /\ r \in [1..(n - 1) -> Threads]
    BY <1>4 DEF IsList
  <2> HIDE DEF r
  <2>. QED
    BY <1>4, <2>1, QueueIsLaidNext
<1>7. /\ m_signalValue' = m_signalValue - semData[t].needs
      /\ Granted' = Granted \cup {t}
  <2>1. ret' = [ret EXCEPT ![t] = "Ok"]
    BY <1>1 DEF Leave, LeaveList, CountOutLocked
  <2>2. Granted' = Granted \cup {t}
    BY <2>1, GrantedAdds
  <2>. QED
    BY <1>1, <2>1, <2>2 DEF Leave, LeaveList
<1>8. \A s \in Threads : s # t => semData'[s].needs = semData[s].needs
  <2> DEFINE own == [semData EXCEPT ![t] = [IdleNode EXCEPT !.needs = semData[t].needs]]
             next == semData[t].child
  <2>1. \/ semData' = own
        \/ next # Null /\ semData' = [own EXCEPT ![next].state = "signaled"]
    BY DEF Leave, LeaveList, CountOutLocked, Serves
  <2>2. own \in [Threads -> Node] /\ next \in Nodes
    BY DEF QueueInv, OverdrawInv, Typed, Node, IdleNode, Nodes
  <2>3. \A s \in Threads : s # t => own[s] = semData[s]
    BY DEF QueueInv, OverdrawInv, Typed
  <2> HIDE DEF own
  <2>4. \A s \in Threads : semData'[s].needs = own[s].needs
    BY <2>1, <2>2 DEF Nodes, Node
  <2>. QED
    BY <2>3, <2>4
<1>9. Queue # <<>> /\ Head(Queue) = [thread |-> t, needs |-> semData[t].needs]
  <2>1. Laid(n, q) \in Seq(Entry) /\ Len(Laid(n, q)) = n
    BY LaidIsSequence DEF QueueInv, OverdrawInv
  <2>2. 1 \in 1..n /\ Laid(n, q)[1] = [thread |-> t, needs |-> semData[t].needs]
    BY <1>4 DEF Laid
  <2>3. Laid(n, q) # <<>>
    BY <1>4, LaidIsSequence DEF QueueInv, OverdrawInv
  <2>4. Head(Laid(n, q)) = Laid(n, q)[1]
    BY <2>1, <2>3
  <2>. QED
    BY <1>5, <2>2, <2>3, <2>4
<1>10. Queue' = Tail(Queue)
  <2>1. Laid(n, q) \in Seq(Entry) /\ Len(Laid(n, q)) = n /\ Laid(n, q) # <<>>
    BY <1>4, LaidIsSequence DEF QueueInv, OverdrawInv
  <2>2. Tail(Laid(n, q)) = [i \in 1..(n - 1) |-> Laid(n, q)[i + 1]]
    BY <2>1, TailIs
  <2>3. Laid(n - 1, r)' =
            [i \in 1..(n - 1) |-> [thread |-> r[i], needs |-> semData'[r[i]].needs]]
    BY DEF Laid
  <2>4. ASSUME NEW i \in 1..(n - 1)
        PROVE  [thread |-> r[i], needs |-> semData'[r[i]].needs] = Laid(n, q)[i + 1]
    <3>1. /\ i + 1 \in 1..n /\ r[i] = q[i + 1] /\ q[i + 1] \in Threads
          /\ 1 \in 1..n /\ i + 1 # 1
      OBVIOUS
    <3>2. q[i + 1] # t
      BY <1>3, <1>4, <3>1 DEF IsList
    <3>. QED
      BY <1>8, <3>1, <3>2 DEF Laid
  <2> HIDE DEF r
  <2>. QED
    BY <1>5, <1>6, <2>2, <2>3, <2>4
<1>. QED
  BY <1>1, <1>7, <1>9, <1>10 DEF Abstract!Serve, Granted

\* The steps the abstract semaphore does not see.
LEMMA ImplementsNothing ==
    ASSUME QueueInv, UNCHANGED list, ret' = ret,
           \A t \in Threads : at'[t] = "waiting" <=> at[t] = "waiting"
    PROVE  UNCHANGED Abstract!vars
<1>1. Queue' = Queue
  BY QueueStays DEF list
<1>2. Granted' = Granted
  BY GrantedStays
<1>. QED
  BY <1>1, <1>2 DEF Abstract!vars, Granted, list

LEMMA ImplementsNext ==
    ASSUME WaitsOnly, Needs # {}, QueueInv, Returns, [Next]_vars
    PROVE  [Abstract!Next]_(Abstract!vars)
<1>1. ASSUME NEW t \in Threads, Call(t) PROVE Abstract!Next
  <2>1. ASSUME NEW n \in Signals, Signal(t, n) PROVE Abstract!Next
    BY <2>1, ImplementsSignal DEF Abstract!Next
  <2>2. ASSUME NEW n \in Needs, Poll(t, n) PROVE Abstract!Next
    BY <2>2, ImplementsPoll DEF Abstract!Next, Poll, MayCall
  <2>3. ASSUME NEW n \in Needs, NEW tm \in Timed, Wait(t, n, tm) PROVE Abstract!Next
    BY <2>2, <2>3, ImplementsEnqueue DEF Abstract!Next, Wait, MayCall
  <2>4. ASSUME TryWaitBusy(t) PROVE Abstract!Next
    BY <2>4, ImplementsBusy DEF Abstract!Next
  <2>5. ~DestroyStop(t) /\ CancelCounts = {}
    BY DEF WaitsOnly, DestroyStop
  <2>. QED
    BY <1>1, <2>1, <2>2, <2>3, <2>4, <2>5 DEF Call
<1>2. ASSUME NEW t \in Threads, WaitResume(t) PROVE [Abstract!Next]_(Abstract!vars)
  <2>1. CASE Released(t)
    BY <1>2, <2>1, ImplementsServe DEF WaitResume, Asleep, Abstract!Next
  <2>2. CASE ~Released(t)
    BY <1>2, <2>2, ImplementsNothing DEF WaitResume
  <2>. QED
    BY <2>1, <2>2
<1>3. ASSUME NEW t \in Threads, Notify(t) PROVE UNCHANGED Abstract!vars
  <2>1. at[t] # "waiting" /\ \A s \in Threads : s # t => at'[s] = at[s]
    BY <1>3 DEF Notify, QueueInv, OverdrawInv, Typed
  <2>2. at'[t] # "waiting"
    BY <1>3 DEF Notify, QueueInv, OverdrawInv, Typed
  <2>3. \A s \in Threads : at'[s] = "waiting" <=> at[s] = "waiting"
    BY <2>1, <2>2
  <2>. QED
    BY <1>3, <2>3, ImplementsNothing DEF Notify
<1>4. ASSUME NEW t \in Threads, CountLoad(t) \/ CountStore(t) PROVE UNCHANGED Abstract!vars
  <2>1. \A s \in Threads : at'[s] = "waiting" <=> at[s] = "waiting"
    BY <1>4 DEF CountLoad, CountStore, QueueInv, OverdrawInv, Typed
  <2>2. ret' = ret
    BY <1>4 DEF CountLoad, CountStore, Returns, QueueInv, Quiet
  <2>. QED
    BY <1>4, <2>1, <2>2, ImplementsNothing DEF CountLoad, CountStore
<1>5. ASSUME NEW t \in Threads, Run(t) PROVE [Abstract!Next]_(Abstract!vars)
  <2>1. ~TimeoutReset(t) /\ ~DestroyNotify(t) /\ ~DestroyResume(t) /\ ~LeaveInside(t)
    BY DEF QueueInv, Quiet, TimeoutReset, DestroyNotify, DestroyResume, LeaveInside
  <2>. QED
    BY <1>2, <1>3, <1>4, <1>5, <2>1 DEF Run
<1>6. ASSUME NEW t \in Threads PROVE ~WaitTimeout(t)
  BY DEF QueueInv, Quiet, WaitTimeout
<1>7. CASE UNCHANGED vars
  BY <1>7, ImplementsNothing DEF vars, list
<1>. QED
  BY <1>1, <1>5, <1>6, <1>7 DEF Next

LEMMA ImplementsInit == ASSUME Init PROVE Abstract!Init
<1>1. QueueInv
  BY QueueInit
<1>2. m_signalValue \in Nat /\ m_curBack = Null
  BY CountsAssumption DEF Init
<1>3. {t \in Threads : ret[t] = "Ok"} = {}
  BY DEF Init
<1>. QED
  BY <1>1, <1>2, <1>3, QueueFacts DEF Abstract!Init

\* The linked list of nodes is a first-come first-served semaphore: every step of the
\* calls is a step of FifoSemaphore on the value, the queue and the threads served, or
\* leaves all three alone; in particular only the head is served, from a value that
\* suffices, and nobody overtakes the queue.  The liveness of Refines is not part of it.
THEOREM ImplementsFifo ==
    ASSUME WaitsOnly, Needs # {}
    PROVE  Spec => Abstract!Init /\ [][Abstract!Next]_(Abstract!vars)
<1>1. Init => QueueInv /\ Returns
  BY QueueInit DEF Init, Returns
<1>2. QueueInv /\ Returns /\ [Next]_vars => QueueInv' /\ Returns'
  BY QueueNext, ReturnsNext
<1>3. QueueInv /\ Returns /\ [Next]_vars => [Abstract!Next]_(Abstract!vars)
  BY ImplementsNext
<1>4. Init => Abstract!Init
  BY ImplementsInit
<1>. QED
  BY <1>1, <1>2, <1>3, <1>4, PTL DEF Spec

\* In the code's own terms: with the calls above a wait is granted its units only as the
\* oldest of those that wait, whoever polls, signals or is marked in between.
THEOREM FirstComeFirstServed ==
    ASSUME WaitsOnly, Needs # {}
    PROVE  Spec => NobodyOvertakes
<1> DEFINE Kept == Queue' = Queue
           Joined == \E t \in Threads, n \in Needs : Queue' = Append(Queue, [thread |-> t, needs |-> n])
           Granted1 == /\ Queue # <<>> /\ Queue' = Tail(Queue)
                       /\ ret'[Head(Queue).thread] = "Ok"
                       /\ m_signalValue' = m_signalValue - Head(Queue).needs
<1>1. [Abstract!Next]_(Abstract!vars) => Kept \/ Joined \/ Granted1
  <2>1. ASSUME UNCHANGED Abstract!vars PROVE Kept
    BY <2>1 DEF Abstract!vars
  <2>2. ASSUME NEW n \in Signals, Abstract!Signal(n) PROVE Kept
    BY <2>2 DEF Abstract!Signal
  <2>3. ASSUME NEW t \in Threads, NEW n \in Needs, Abstract!Take(t, n) \/ Abstract!Refuse(t, n)
        PROVE  Kept
    BY <2>3 DEF Abstract!Take, Abstract!Refuse
  <2>4. ASSUME NEW t \in Threads, NEW n \in Needs, Abstract!Enqueue(t, n) PROVE Joined
    BY <2>4 DEF Abstract!Enqueue
  <2>5. ASSUME Abstract!Serve PROVE Granted1
    BY <2>5 DEF Abstract!Serve
  <2> HIDE DEF Kept, Joined, Granted1
  <2>. QED
    BY <2>1, <2>2, <2>3, <2>4, <2>5 DEF Abstract!Next
<1>2. Init => QueueInv /\ Returns
  BY QueueInit DEF Init, Returns
<1>3. QueueInv /\ Returns /\ [Next]_vars => QueueInv' /\ Returns'
  BY QueueNext, ReturnsNext
<1>4. QueueInv /\ Returns /\ [Next]_vars => [Kept \/ Joined \/ Granted1]_vars
  BY <1>1, ImplementsNext
<1>. QED
  BY <1>2, <1>3, <1>4, PTL DEF Spec, NobodyOvertakes
==============================================================================
