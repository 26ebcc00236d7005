-------------------------- MODULE EventQueueProofs --------------------------
(***************************************************************************)
(* Proofs about EventQueue, for any threads, keys and capacities.  The     *)
(* types, the uniqueness of keys and the counting of triggers are          *)
(* properties of the list alone; the lost-wakeup argument adds the threads *)
(* whose notify is still to come.                                          *)
(***************************************************************************)
EXTENDS EventQueue, TLAPS

IInv == TypeOK /\ KeysUnique /\ TriggersCounted /\ NoLostWakeup

\* Removing one position keeps the records and shortens the list.
LEMMA EraseList ==
    ASSUME m_events \in Seq(EventRec), NEW p \in Index
    PROVE  /\ Erase(p) \in Seq(EventRec)
           /\ Len(Erase(p)) = Len(m_events) - 1
           /\ \A i \in 1..Len(Erase(p)) :
                 /\ (IF i < p THEN i ELSE i + 1) \in Index
                 /\ Erase(p)[i] = m_events[IF i < p THEN i ELSE i + 1]
  BY DEF Erase, Index

\* What a trigger and a reset do to one record.
LEMMA TriggerRec ==
    ASSUME NEW e \in EventRec
    PROVE  /\ Triggered(e) \in EventRec
           /\ Triggered(e).key = e.key /\ Triggered(e).triggered /\ Triggered(e).fflags > 0
  BY DEF Triggered, EventRec

LEMMA ResetRec ==
    ASSUME NEW e \in EventRec
    PROVE  /\ Reset(e) \in EventRec
           /\ Reset(e).key = e.key /\ ~Reset(e).triggered /\ Reset(e).fflags = 0
  BY DEF Reset, EventRec

LEMMA AddEventStep ==
    ASSUME IInv, NEW t \in Threads, NEW k \in Keys, NEW edge \in BOOLEAN, AddEvent(t, k, edge)
    PROVE  IInv'
  <1> USE DEF IInv
  <1> DEFINE new == [key |-> k, edge |-> edge, triggered |-> FALSE, fflags |-> 0]
  <1>1. new \in EventRec
    BY DEF EventRec
  <1>2. CASE Positions(k) = {}
    <2>1. m_events' = Append(m_events, new)
      BY <1>2 DEF AddEvent
    <2>2. /\ m_events' \in Seq(EventRec) /\ Index' = Index \cup {Len(m_events) + 1}
          /\ \A i \in Index : m_events'[i] = m_events[i]
          /\ m_events'[Len(m_events) + 1] = new
      BY <1>1, <2>1 DEF Index, TypeOK
    <2>3. KeysUnique' /\ TriggersCounted'
      BY <1>2, <2>2 DEF KeysUnique, TriggersCounted, Positions
    <2>4. hasEvents' <=> hasEvents
      BY <2>2 DEF hasEvents, Index
    <2>5. QED
      BY <2>2, <2>3, <2>4 DEF AddEvent, MayCall, Return, TypeOK, NoLostWakeup, Waiting
  <1>3. CASE Positions(k) # {}
    <2>1. m_events' = [i \in Index |-> IF i \in Positions(k) THEN new ELSE m_events[i]]
      BY <1>3 DEF AddEvent
    <2>2. m_events' \in Seq(EventRec) /\ Index' = Index
      BY <1>1, <2>1 DEF Index, TypeOK
    <2>3. KeysUnique' /\ TriggersCounted'
      BY <2>1, <2>2 DEF KeysUnique, TriggersCounted, Positions
    <2>4. hasEvents' => hasEvents
      BY <2>1, <2>2 DEF hasEvents
    <2>5. QED
      BY <2>2, <2>3, <2>4 DEF AddEvent, MayCall, Return, TypeOK, NoLostWakeup, Waiting
  <1>4. QED
    BY <1>2, <1>3

LEMMA DeleteEventStep ==
    ASSUME IInv, NEW t \in Threads, NEW k \in Keys, DeleteEvent(t, k)
    PROVE  IInv'
  <1> USE DEF IInv
  <1>1. CASE UNCHANGED m_events
    BY <1>1 DEF DeleteEvent, Return, TypeOK, KeysUnique, TriggersCounted, NoLostWakeup,
                Waiting, hasEvents, Index
  <1>2. ASSUME NEW p \in Positions(k), m_events' = Erase(p), Return(t, "Ok")
        PROVE  IInv'
    <2>1. /\ m_events' \in Seq(EventRec) /\ Len(m_events') = Len(m_events) - 1
          /\ \A i \in Index' : /\ (IF i < p THEN i ELSE i + 1) \in Index
                               /\ m_events'[i] = m_events[IF i < p THEN i ELSE i + 1]
      BY <1>2, EraseList DEF Positions, TypeOK, Index
    <2>2. KeysUnique'
      BY <2>1 DEF KeysUnique, Index, Positions
    <2>3. TriggersCounted' /\ (hasEvents' => hasEvents)
      BY <2>1 DEF TriggersCounted, hasEvents
    <2>4. QED
      BY <1>2, <2>1, <2>2, <2>3 DEF DeleteEvent, Return, TypeOK, NoLostWakeup, Waiting
  <1>3. QED
    BY <1>1, <1>2 DEF DeleteEvent

LEMMA TriggerEventStep ==
    ASSUME IInv, NEW t \in Threads, NEW k \in Keys, TriggerEvent(t, k)
    PROVE  IInv'
  <1> USE DEF IInv
  <1>1. m_events' = [i \in Index |->
                       IF i \in Positions(k) THEN Triggered(m_events[i]) ELSE m_events[i]]
    BY DEF TriggerEvent
  <1>2. m_events' \in Seq(EventRec) /\ Index' = Index
    <2>1. \A i \in Index : (IF i \in Positions(k) THEN Triggered(m_events[i]) ELSE m_events[i])
                             \in EventRec
      BY TriggerRec DEF Index, TypeOK
    <2>2. QED
      BY <1>1, <2>1 DEF Index, TypeOK
  <1>4. \A i \in Index : /\ m_events'[i].key = m_events[i].key
                         /\ i \in Positions(k) => m_events'[i].triggered /\ m_events'[i].fflags > 0
                         /\ i \notin Positions(k) => m_events'[i] = m_events[i]
    <2>1. \A i \in Index : m_events[i] \in EventRec
      BY DEF Index, TypeOK
    <2>2. QED
      BY <1>1, <2>1, TriggerRec
  <1>5. KeysUnique' /\ TriggersCounted'
    BY <1>2, <1>4 DEF KeysUnique, TriggersCounted
  <1>6. TypeOK'
    BY <1>2 DEF TriggerEvent, MayCall, Return, TypeOK, Waiting
  <1>7. NoLostWakeup'
    <2>1. CASE Positions(k) = {}
      BY <1>2, <1>4, <2>1 DEF TriggerEvent, NoLostWakeup, Waiting, hasEvents
    <2>2. CASE Positions(k) # {}
      BY <2>2 DEF TriggerEvent, NoLostWakeup, TypeOK
    <2>3. QED
      BY <2>1, <2>2
  <1>8. QED
    BY <1>5, <1>6, <1>7

LEMMA NotifyStep ==
    ASSUME IInv, NEW t \in Threads, Notify(t)
    PROVE  IInv'
  BY DEF IInv, Notify, Return, TypeOK, KeysUnique, TriggersCounted, NoLostWakeup, Waiting,
         hasEvents, Index

LEMMA FinishStep ==
    ASSUME IInv, NEW t \in Threads, at[t] \in {"idle", "waiting"}, NEW n, NEW poll \in BOOLEAN,
           Finish(t, n, poll)
    PROVE  IInv'
  <1> USE DEF IInv
  <1>1. \A i \in Index : m_events[i] \in EventRec
    BY DEF Index, TypeOK
  <1>2. m_events' = [i \in Index |-> IF i \in Delivered(n) /\ m_events[i].edge
                                    THEN Reset(m_events[i]) ELSE m_events[i]]
    BY DEF Finish, AfterDelivery
  <1>3. m_events' \in Seq(EventRec) /\ Index' = Index
    <2>1. \A i \in Index : (IF i \in Delivered(n) /\ m_events[i].edge
                            THEN Reset(m_events[i]) ELSE m_events[i]) \in EventRec
      BY <1>1, ResetRec
    <2>2. QED
      BY <1>2, <2>1 DEF Index, TypeOK
  <1>4. \A i \in Index : /\ m_events'[i].key = m_events[i].key
                         /\ \/ m_events'[i] = m_events[i]
                            \/ ~m_events'[i].triggered /\ m_events'[i].fflags = 0
    BY <1>1, <1>2, ResetRec
  <1>5. KeysUnique' /\ TriggersCounted' /\ (hasEvents' => hasEvents)
    BY <1>3, <1>4 DEF KeysUnique, TriggersCounted, hasEvents
  <1>6. TypeOK'
    BY <1>3 DEF Finish, Return, TypeOK, Waiting
  <1>7. NoLostWakeup'
    BY <1>5 DEF Finish, NoLostWakeup, Waiting, TypeOK
  <1>8. QED
    BY <1>5, <1>6, <1>7

LEMMA WaitStep ==
    ASSUME IInv, NEW t \in Threads, NEW n \in Nums, NEW tm \in BOOLEAN, Wait(t, n, tm)
    PROVE  IInv'
  <1> USE DEF IInv
  <1>1. CASE hasEvents \/ m_closed
    BY <1>1, FinishStep DEF Wait, MayCall
  <1>2. CASE ~(hasEvents \/ m_closed)
    BY <1>2 DEF Wait, MayCall, Return, TypeOK, KeysUnique, TriggersCounted, NoLostWakeup,
                Waiting, hasEvents, Index
  <1>3. QED
    BY <1>1, <1>2

LEMMA WaitResumeStep ==
    ASSUME IInv, NEW t \in Threads, WaitResume(t)
    PROVE  IInv'
  <1> USE DEF IInv
  <1>1. CASE hasEvents \/ m_closed
    BY <1>1, FinishStep DEF WaitResume
  <1>2. CASE ~(hasEvents \/ m_closed)
    BY <1>2 DEF WaitResume, TypeOK, KeysUnique, TriggersCounted, NoLostWakeup, Waiting,
                hasEvents, Index
  <1>3. QED
    BY <1>1, <1>2

LEMMA IInvAlways == Spec => []IInv
  <1>1. Init => IInv
    <2> SUFFICES ASSUME Init PROVE IInv
      OBVIOUS
    <2>1. m_events = <<>> /\ Index = {} /\ Waiting = {}
      BY DEF Init, Index, Waiting
    <2>2. m_events \in Seq(EventRec)
      BY <2>1
    <2>3. TypeOK
      BY <2>2 DEF Init, TypeOK
    <2>4. KeysUnique /\ TriggersCounted /\ NoLostWakeup
      BY <2>1 DEF KeysUnique, TriggersCounted, NoLostWakeup, hasEvents
    <2>5. QED
      BY <2>3, <2>4 DEF IInv
  <1>2. IInv /\ [Next]_vars => IInv'
    <2> SUFFICES ASSUME IInv, [Next]_vars PROVE IInv'
      OBVIOUS
    <2>1. CASE UNCHANGED vars
      BY <2>1 DEF vars, IInv, TypeOK, KeysUnique, TriggersCounted, NoLostWakeup, Waiting,
                  hasEvents, Index
    <2>2. ASSUME NEW t \in Threads, Call(t) PROVE IInv'
      <3>1. ASSUME Destroy(t) PROVE IInv'
        BY <3>1 DEF Destroy, IInv, TypeOK, KeysUnique, TriggersCounted, NoLostWakeup, Waiting, Index
      <3>2. ASSUME NEW n \in Nums, Poll(t, n) PROVE IInv'
        BY <3>2, FinishStep DEF Poll, MayCall
      <3>3. QED
        BY <2>2, <3>1, <3>2, AddEventStep, DeleteEventStep, TriggerEventStep, WaitStep DEF Call
    <2>3. ASSUME NEW t \in Threads, WaitTimeout(t) PROVE IInv'
      BY <2>3, FinishStep DEF WaitTimeout
    <2>4. QED
      BY <2>1, <2>2, <2>3, NotifyStep, WaitResumeStep DEF Next, Run
  <1>3. QED
    BY <1>1, <1>2, PTL DEF Spec

\* The list holds well-formed records and the waiters' bookkeeping is exact.
THEOREM TypeCorrect == Spec => []TypeOK
  BY IInvAlways, PTL DEF IInv

\* A key is registered at most once, so the event find_if finds is the event.
THEOREM KeysAreUnique == Spec => []KeysUnique
  BY IInvAlways, PTL DEF IInv

\* fflags counts the triggers since the event was last returned.
THEOREM TriggersAreCounted == Spec => []TriggersCounted
  BY IInvAlways, PTL DEF IInv

\* Although a trigger notifies after it has released the mutex, no waiter sleeps
\* through a triggered event.
THEOREM NoWakeupIsLost == Spec => []NoLostWakeup
  BY IInvAlways, PTL DEF IInv
=============================================================================
