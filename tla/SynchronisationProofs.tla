------------------------ MODULE SynchronisationProofs ------------------------
(***************************************************************************)
(* Proofs about the synchronisation objects of core/kernel that are        *)
(* monitors: EventFlag, for any finite set of threads and any masks and    *)
(* wait arguments, and Pthread, for any number of threads and calls.       *)
(*                                                                         *)
(* The safety invariants of the event flag are inductive together: the     *)
(* count needs the types, the lost-wakeup argument needs the count and the *)
(* single drain, and the destructor's guarantee needs the count.           *)
(*                                                                         *)
(* In pthread each kind of object has an invariant of its own; what ties   *)
(* them together is that every cell has its own object, whoever created    *)
(* it, and that a thread inside a call pins the objects it works on.       *)
(***************************************************************************)
EXTENDS EventFlag, Pthread, FiniteSetTheorems, TLAPS

-----------------------------------------------------------------------------
(* The event flag. *)

FlagInv ==
    /\ TypeOK
    /\ WaitersCounted
    /\ SingleWaiter
    /\ NoLostWakeup
    /\ OneDrain
    /\ NoWaiterAfterDelete

\* The waiters are finitely many, now and after any step.
LEMMA WaitingFinite ==
    /\ IsFiniteSet(Waiting) /\ Cardinality(Waiting) \in Nat
    /\ IsFiniteSet(Waiting') /\ Cardinality(Waiting') \in Nat
  BY ThreadsAssumption, FS_Subset, FS_CardinalityType DEF Waiting

\* How the set of waiters, and hence its size, moves with one thread's place.
LEMMA WaitingOut ==
    ASSUME TypeOK, NEW t \in Threads, NEW p, p # "wait",
           at' = [at EXCEPT ![t] = p]
    PROVE  /\ Waiting' = Waiting \ {t}
           /\ Cardinality(Waiting') = IF t \in Waiting THEN Cardinality(Waiting) - 1
                                                       ELSE Cardinality(Waiting)
  <1>1. Waiting' = Waiting \ {t}
    BY DEF Waiting, TypeOK
  <1>2. QED
    BY <1>1, WaitingFinite, FS_RemoveElement

LEMMA WaitingIn ==
    ASSUME TypeOK, NEW t \in Threads, at' = [at EXCEPT ![t] = "wait"], t \notin Waiting
    PROVE  Cardinality(Waiting') = Cardinality(Waiting) + 1
  <1>1. Waiting' = Waiting \cup {t}
    BY DEF Waiting, TypeOK
  <1>2. QED
    BY <1>1, WaitingFinite, FS_AddElement

\* No waiter is left exactly when the count is zero.
LEMMA NobodyWaits ==
    ASSUME FlagInv
    PROVE  m_waitingThreads = 0 <=> Waiting = {}
  BY WaitingFinite, FS_EmptySet DEF FlagInv, WaitersCounted

\* No thread drains while the status is Set.
LEMMA NoDrainWhenSet ==
    ASSUME FlagInv, alive, m_status = "Set"
    PROVE  Draining = {}
  BY DEF FlagInv, OneDrain, Draining

-----------------------------------------------------------------------------
LEMMA LeaveStep ==
    ASSUME FlagInv, NEW t \in Threads, NEW w \in WaitArgs \cup {NoWait}, NEW c, alive,
           at[t] \in {"idle", "wait"}, Leave(t, w, c), Satisfied(w),
           c = IF t \in Waiting THEN m_waitingThreads - 1 ELSE m_waitingThreads
    PROVE  FlagInv'
  <1> USE DEF FlagInv
  <1>1. WaitersCounted' /\ Waiting' = Waiting \ {t} /\ m_waitingThreads' \in Nat
        /\ m_waitingThreads' <= m_waitingThreads
    <2>1. /\ Waiting' = Waiting \ {t}
          /\ Cardinality(Waiting') = IF t \in Waiting THEN Cardinality(Waiting) - 1
                                                      ELSE Cardinality(Waiting)
      BY WaitingOut DEF Leave
    <2>2. m_waitingThreads' = c /\ m_waitingThreads = Cardinality(Waiting)
      BY DEF Leave, WaitersCounted
    <2>3. QED
      BY <2>1, <2>2, WaitingFinite DEF WaitersCounted
  <1>2. m_bits' \in SUBSET Bits /\ m_bits' \subseteq m_bits /\ m_status' = m_status
    BY DEF Leave, TypeOK
  <1>3. TypeOK'
    BY <1>1, <1>2 DEF Leave, TypeOK, Waiting, Deferred, Draining
  <1>4. SingleWaiter'
    BY <1>1, <1>3, WaitingFinite DEF SingleWaiter, WaitersCounted, Leave, TypeOK
  <1>5. NoLostWakeup'
    <2>1. ASSUME NEW s \in Threads \ woken', s \in Waiting'
          PROVE  ~Satisfied(waitArg[s])' /\ s \notin Deferred' /\ s \notin Draining'
      BY <2>1, <1>1, <1>2 DEF Leave, NoLostWakeup, Satisfied, Waiting, Deferred, Draining, TypeOK
    <2>2. ASSUME NEW s \in Threads \ woken' PROVE s \notin Deferred' /\ s \notin Draining'
      BY <2>2 DEF Leave, Deferred, Draining, TypeOK
    <2>3. QED
      BY <2>1, <2>2 DEF NoLostWakeup
  <1>6. OneDrain'
    BY DEF Leave, OneDrain, Draining, TypeOK
  <1>7. NoWaiterAfterDelete'
    BY DEF Leave, NoWaiterAfterDelete
  <1>8. QED
    BY <1>1, <1>3, <1>4, <1>5, <1>6, <1>7

LEMMA WaitStep ==
    ASSUME FlagInv, NEW t \in Threads, NEW w \in WaitArgs, Wait(t, w)
    PROVE  FlagInv'
  <1> USE DEF FlagInv
  <1>1. CASE WaitRefused(t)
    BY <1>1 DEF WaitRefused, TypeOK, WaitersCounted, SingleWaiter, NoLostWakeup,
                OneDrain, NoWaiterAfterDelete, Waiting, Deferred, Draining, Satisfied
  <1>2. CASE Satisfied(w) /\ Leave(t, w, m_waitingThreads)
    <2>1. t \notin Waiting
      BY DEF Wait, Waiting
    <2>2. QED
      BY <1>2, <2>1, LeaveStep DEF Wait
  <1>3. CASE ~(m_singleThread /\ m_waitingThreads > 0) /\ ~Satisfied(w) /\ WaitSleep(t, w)
    <2>1. WaitersCounted' /\ m_waitingThreads' \in Nat
      BY <1>3, WaitingIn, WaitingFinite DEF Wait, WaitSleep, WaitersCounted, Waiting
    <2>2. TypeOK'
      BY <1>3, <2>1 DEF WaitSleep, TypeOK
    <2>3. SingleWaiter'
      BY <1>3, <2>1 DEF WaitSleep, SingleWaiter, WaitersCounted, TypeOK
    <2>4. NoLostWakeup'
      <3>1. ASSUME NEW s \in Threads \ woken' PROVE s \in Waiting' => ~Satisfied(waitArg[s])'
        BY <1>3, <3>1 DEF Wait, WaitSleep, NoLostWakeup, Satisfied, Waiting, TypeOK
      <3>2. ASSUME NEW s \in Threads \ woken'
            PROVE  (s \in Deferred' => m_status' # "Set") /\ (s \in Draining' => m_waitingThreads' # 0)
        BY <1>3, <3>2, <2>1 DEF Wait, WaitSleep, NoLostWakeup, Deferred, Draining, TypeOK
      <3>3. QED
        BY <3>1, <3>2 DEF NoLostWakeup
    <2>5. OneDrain' /\ NoWaiterAfterDelete'
      BY <1>3 DEF Wait, WaitSleep, OneDrain, NoWaiterAfterDelete, Draining, TypeOK
    <2>6. QED
      BY <2>1, <2>2, <2>3, <2>4, <2>5
  <1>4. QED
    BY <1>1, <1>2, <1>3 DEF Wait

LEMMA WaitResumeStep ==
    ASSUME FlagInv, NEW t \in Threads, WaitResume(t)
    PROVE  FlagInv'
  <1> USE DEF FlagInv
  <1>1. t \in Waiting /\ waitArg[t] \in WaitArgs \cup {NoWait}
    BY DEF WaitResume, Waiting, TypeOK
  <1>2. CASE Satisfied(waitArg[t])
    BY <1>1, <1>2, LeaveStep DEF WaitResume
  <1>3. CASE ~Satisfied(waitArg[t])
    BY <1>1, <1>3 DEF WaitResume, TypeOK, WaitersCounted, SingleWaiter, NoLostWakeup,
                      OneDrain, NoWaiterAfterDelete, Waiting, Deferred, Draining, Satisfied
  <1>4. QED
    BY <1>2, <1>3

LEMMA WaitTimeoutStep ==
    ASSUME FlagInv, NEW t \in Threads, WaitTimeout(t)
    PROVE  FlagInv'
  <1> USE DEF FlagInv
  <1>1. t \in Waiting /\ waitArg[t] \in WaitArgs \cup {NoWait} /\ alive
    BY DEF WaitTimeout, Waiting, TypeOK
  <1>2. CASE Satisfied(waitArg[t])
    BY <1>1, <1>2, LeaveStep DEF WaitTimeout
  <1>3. CASE ~Satisfied(waitArg[t])
    <2>1. m_status = "Set" /\ Draining = {}
      BY <1>1, <1>3, NoDrainWhenSet DEF Satisfied, TypeOK
    <2>2. WaitersCounted' /\ m_waitingThreads' \in Nat /\ m_waitingThreads' <= m_waitingThreads
      BY <1>1, <1>3, WaitingOut, WaitingFinite DEF WaitTimeout, WaitersCounted, TypeOK
    <2>3. TypeOK'
      BY <1>3, <2>2 DEF WaitTimeout, TypeOK
    <2>4. SingleWaiter'
      <3>1. m_singleThread' = m_singleThread /\ m_waitingThreads \in Nat
        BY <1>3 DEF WaitTimeout, TypeOK
      <3>2. Cardinality(Waiting') <= Cardinality(Waiting)
        BY <2>2 DEF WaitersCounted
      <3>3. QED
        BY <3>1, <3>2, WaitingFinite DEF SingleWaiter
    <2>5. NoLostWakeup'
      <3>1. Draining' = {} /\ Deferred' = Deferred /\ Waiting' \subseteq Waiting
        BY <1>3, <2>1 DEF WaitTimeout, Waiting, Deferred, Draining, TypeOK
      <3>2. ASSUME NEW s \in Threads \ woken', s \in Waiting'
            PROVE  ~Satisfied(waitArg[s])'
        BY <1>3, <3>1, <3>2 DEF WaitTimeout, NoLostWakeup, Satisfied, Waiting, TypeOK
      <3>3. ASSUME NEW s \in Threads \ woken', s \in Deferred' PROVE FALSE
        BY <1>1, <1>3, <2>1, <3>1, <3>3 DEF WaitTimeout, NoLostWakeup, Waiting, Deferred, TypeOK
      <3>4. QED
        BY <3>1, <3>2, <3>3 DEF NoLostWakeup
    <2>6. OneDrain' /\ NoWaiterAfterDelete'
      BY <1>1, <1>3 DEF WaitTimeout, OneDrain, NoWaiterAfterDelete, Draining, TypeOK
    <2>7. QED
      BY <2>2, <2>3, <2>4, <2>5, <2>6
  <1>4. QED
    BY <1>2, <1>3

-----------------------------------------------------------------------------
\* The operations on the mask.  They start from idle or from a notified sleep on
\* m_cond_var_status; either way the caller is no waiter and drains nothing.
Ready(t) == alive /\ at[t] \in {"idle", "set", "clear", "cancel", "delete"}

LEMMA DeferStep ==
    ASSUME FlagInv, NEW t \in Threads, Ready(t), NEW b \in SUBSET Bits,
           NEW name \in {"set", "clear", "cancel", "delete"}, Defer(t, name, b)
    PROVE  FlagInv'
  <1> USE DEF FlagInv, Ready
  <1>1. TypeOK'
    BY DEF Defer, TypeOK
  <1>2. Waiting' = Waiting /\ Draining' = Draining
    BY DEF Defer, TypeOK, Waiting, Draining
  <1>3. WaitersCounted' /\ SingleWaiter' /\ NoWaiterAfterDelete'
    BY <1>2 DEF Defer, WaitersCounted, SingleWaiter, NoWaiterAfterDelete
  <1>4. NoLostWakeup'
    BY <1>2 DEF Defer, NoLostWakeup, Satisfied, Waiting, Deferred, Draining, TypeOK
  <1>5. OneDrain'
    BY <1>2 DEF Defer, OneDrain, TypeOK, Draining
  <1>6. QED
    BY <1>1, <1>3, <1>4, <1>5

LEMMA SetStep ==
    ASSUME FlagInv, NEW t \in Threads, Ready(t), NEW b \in SUBSET Bits, Set(t, b)
    PROVE  FlagInv'
  <1> USE DEF FlagInv, Ready
  <1>1. TypeOK'
    BY DEF Set, TypeOK, Waiting
  <1>2. Waiting' = Waiting /\ Draining' = {} /\ Draining = {}
    BY NoDrainWhenSet DEF Set, TypeOK, Waiting, Draining
  <1>3. WaitersCounted' /\ SingleWaiter' /\ NoWaiterAfterDelete'
    BY <1>2 DEF Set, WaitersCounted, SingleWaiter, NoWaiterAfterDelete
  <1>4. NoLostWakeup'
    BY <1>2 DEF Set, NoLostWakeup, Deferred, TypeOK
  <1>5. OneDrain'
    BY <1>2 DEF Set, OneDrain, TypeOK, Draining
  <1>6. QED
    BY <1>1, <1>3, <1>4, <1>5

LEMMA ClearStep ==
    ASSUME FlagInv, NEW t \in Threads, Ready(t), NEW b \in SUBSET Bits, Clear(t, b)
    PROVE  FlagInv'
  <1> USE DEF FlagInv, Ready
  <1>1. TypeOK'
    BY DEF Clear, TypeOK
  <1>2. Waiting' = Waiting /\ Draining' = {} /\ Draining = {}
    BY NoDrainWhenSet DEF Clear, TypeOK, Waiting, Draining
  <1>3. WaitersCounted' /\ SingleWaiter' /\ NoWaiterAfterDelete'
    BY <1>2 DEF Clear, WaitersCounted, SingleWaiter, NoWaiterAfterDelete
  <1>4. NoLostWakeup'
    BY <1>2 DEF Clear, NoLostWakeup, Satisfied, Waiting, Deferred, TypeOK
  <1>5. OneDrain'
    BY <1>2 DEF Clear, OneDrain, TypeOK, Draining
  <1>6. QED
    BY <1>1, <1>3, <1>4, <1>5

LEMMA CancelStep ==
    ASSUME FlagInv, NEW t \in Threads, Ready(t), NEW b \in SUBSET Bits, Cancel(t, b)
    PROVE  FlagInv'
  <1> USE DEF FlagInv, Ready
  <1>1. TypeOK'
    BY DEF Cancel, CancelEnd, TypeOK, Waiting, Deferred, Draining
  <1>2. Waiting' = Waiting /\ Draining = {}
    BY NoDrainWhenSet DEF Cancel, CancelEnd, TypeOK, Waiting
  <1>3. WaitersCounted' /\ SingleWaiter' /\ NoWaiterAfterDelete'
    BY <1>2 DEF Cancel, WaitersCounted, SingleWaiter, NoWaiterAfterDelete
  <1>4. CASE m_waitingThreads = 0
    <2>1. Draining' = {} /\ Waiting' = {}
      BY <1>2, <1>4, NobodyWaits DEF Cancel, CancelEnd, TypeOK, Draining
    <2>2. NoLostWakeup'
      BY <1>4, <2>1 DEF Cancel, CancelEnd, NoLostWakeup, Deferred, TypeOK
    <2>3. OneDrain'
      BY <1>4, <2>1 DEF Cancel, CancelEnd, OneDrain, Draining, TypeOK
    <2>4. QED
      BY <1>1, <1>3, <2>2, <2>3
  <1>5. CASE m_waitingThreads # 0
    <2>1. Draining' = {t}
      BY <1>2, <1>5 DEF Cancel, TypeOK, Draining
    <2>2. NoLostWakeup'
      BY <1>2, <1>5, <2>1 DEF Cancel, NoLostWakeup, TypeOK
    <2>3. OneDrain'
      BY <1>2, <1>5, <2>1 DEF Cancel, OneDrain, Draining, TypeOK
    <2>4. QED
      BY <1>1, <1>3, <2>2, <2>3
  <1>6. QED
    BY <1>4, <1>5

LEMMA DeleteStep ==
    ASSUME FlagInv, NEW t \in Threads, Ready(t), Delete(t)
    PROVE  FlagInv'
  <1> USE DEF FlagInv, Ready
  <1>1. TypeOK'
    BY DEF Delete, TypeOK, Waiting
  <1>2. Waiting' = Waiting /\ Draining = {}
    BY NoDrainWhenSet DEF Delete, TypeOK, Waiting
  <1>3. WaitersCounted' /\ SingleWaiter' /\ NoWaiterAfterDelete'
    BY <1>2, NobodyWaits DEF Delete, WaitersCounted, SingleWaiter, NoWaiterAfterDelete
  <1>4. NoLostWakeup'
    BY <1>2 DEF Delete, NoLostWakeup, Draining, TypeOK
  <1>5. OneDrain'
    BY <1>2 DEF Delete, OneDrain, Draining, TypeOK
  <1>6. QED
    BY <1>1, <1>3, <1>4, <1>5

LEMMA CancelDrainedStep ==
    ASSUME FlagInv, NEW t \in Threads, CancelDrained(t)
    PROVE  FlagInv'
  <1> USE DEF FlagInv
  <1>1. TypeOK'
    BY DEF CancelDrained, CancelEnd, TypeOK, Deferred, Draining
  <1>2. Waiting' = Waiting /\ t \in Draining /\ alive
    BY DEF CancelDrained, CancelEnd, TypeOK, Waiting, Draining
  <1>3. WaitersCounted' /\ SingleWaiter' /\ NoWaiterAfterDelete'
    BY <1>2 DEF CancelDrained, WaitersCounted, SingleWaiter, NoWaiterAfterDelete
  <1>4. CASE m_waitingThreads = 0
    <2>1. Draining' = {} /\ Waiting' = {}
      BY <1>2, <1>4, NobodyWaits DEF CancelDrained, CancelEnd, TypeOK, Draining, OneDrain
    <2>2. NoLostWakeup'
      BY <1>4, <2>1 DEF CancelDrained, CancelEnd, NoLostWakeup, Deferred, TypeOK
    <2>3. OneDrain'
      BY <1>4, <2>1 DEF CancelDrained, CancelEnd, OneDrain, Draining, TypeOK
    <2>4. QED
      BY <1>1, <1>3, <2>2, <2>3
  <1>5. CASE m_waitingThreads # 0
    BY <1>1, <1>2, <1>3, <1>5 DEF CancelDrained, NoLostWakeup, OneDrain, Satisfied, Waiting,
                                  Deferred, Draining, TypeOK
  <1>6. QED
    BY <1>4, <1>5

LEMMA DeleteDrainedStep ==
    ASSUME FlagInv, NEW t \in Threads, DeleteDrained(t)
    PROVE  FlagInv'
  <1> USE DEF FlagInv
  <1>1. TypeOK'
    BY DEF DeleteDrained, TypeOK
  <1>2. Waiting' = Waiting /\ t \in Draining /\ alive /\ Draining' \subseteq Draining
    BY DEF DeleteDrained, TypeOK, Waiting, Draining
  <1>3. WaitersCounted' /\ SingleWaiter' /\ NoWaiterAfterDelete'
    BY <1>2, NobodyWaits DEF DeleteDrained, WaitersCounted, SingleWaiter, NoWaiterAfterDelete
  <1>4. NoLostWakeup'
    BY <1>2 DEF DeleteDrained, NoLostWakeup, Satisfied, Waiting, Deferred, Draining, TypeOK
  <1>5. OneDrain'
    BY <1>2 DEF DeleteDrained, OneDrain, Draining, TypeOK
  <1>6. QED
    BY <1>1, <1>3, <1>4, <1>5

-----------------------------------------------------------------------------
LEMMA IInvInit == FlagInit => FlagInv
  <1> SUFFICES ASSUME FlagInit PROVE FlagInv
    OBVIOUS
  <1>1. Waiting = {} /\ Draining = {} /\ Deferred = {}
    BY DEF FlagInit, Waiting, Draining, Deferred
  <1>2. TypeOK
    BY ArgsAssumption DEF FlagInit, TypeOK
  <1>3. WaitersCounted /\ SingleWaiter /\ NoWaiterAfterDelete
    BY <1>1, FS_EmptySet DEF FlagInit, WaitersCounted, SingleWaiter, NoWaiterAfterDelete
  <1>4. NoLostWakeup /\ OneDrain
    BY <1>1 DEF FlagInit, NoLostWakeup, OneDrain, Draining
  <1>5. QED
    BY <1>2, <1>3, <1>4 DEF FlagInv

LEMMA IInvStep == FlagInv /\ [FlagNext]_flagVars => FlagInv'
  <1> SUFFICES ASSUME FlagInv, [FlagNext]_flagVars PROVE FlagInv'
    OBVIOUS
  <1>1. CASE UNCHANGED flagVars
    BY <1>1 DEF FlagInv, flagVars, TypeOK, WaitersCounted, SingleWaiter, NoLostWakeup, OneDrain,
                NoWaiterAfterDelete, Waiting, Deferred, Draining, Satisfied
  <1>2. ASSUME NEW t \in Threads, Call(t) PROVE FlagInv'
    <2>1. Ready(t)
      BY <1>2 DEF Call, Ready
    <2>2. ASSUME NEW b \in BitArgs, Set(t, b) \/ Clear(t, b) \/ Cancel(t, b) PROVE FlagInv'
      BY <2>1, <2>2, SetStep, ClearStep, CancelStep, ArgsAssumption
    <2>3. ASSUME NEW b \in BitArgs, NEW name \in {"set", "clear", "cancel"}, Defer(t, name, b)
          PROVE  FlagInv'
      BY <2>1, <2>3, DeferStep, ArgsAssumption
    <2>4. CASE Delete(t) \/ Defer(t, "delete", {})
      BY <2>1, <2>4, DeleteStep, DeferStep
    <2>5. QED
      BY <1>2, <2>2, <2>3, <2>4 DEF Call
  <1>3. ASSUME NEW t \in Threads, DeferredResume(t) PROVE FlagInv'
    <2>1. Ready(t) /\ bitArg[t] \in SUBSET Bits /\ at[t] \in {"set", "clear", "cancel", "delete"}
      BY <1>3 DEF DeferredResume, Deferred, Ready, FlagInv, TypeOK
    <2>2. QED
      BY <1>3, <2>1, SetStep, ClearStep, CancelStep, DeleteStep, DeferStep DEF DeferredResume
  <1>4. QED
    BY <1>1, <1>2, <1>3, WaitStep, WaitResumeStep, WaitTimeoutStep, CancelDrainedStep,
       DeleteDrainedStep DEF FlagNext, Resume

LEMMA FlagInvAlways == FlagSpec => []FlagInv
  BY IInvInit, IInvStep, PTL DEF FlagSpec

\* The types hold, m_waitingThreads included: no path of wait counts a thread
\* out that it did not count in.
THEOREM TypeCorrect == FlagSpec => []TypeOK
  BY FlagInvAlways, PTL DEF FlagInv

\* m_waitingThreads is the number of threads asleep in wait, so cancel reports
\* the right number and drains until the last waiter is out.
THEOREM WaitersAreCounted == FlagSpec => []WaitersCounted
  BY FlagInvAlways, PTL DEF FlagInv

\* A single-thread flag never has two waiters.
THEOREM OneWaiterWhenSingle == FlagSpec => []SingleWaiter
  BY FlagInvAlways, PTL DEF FlagInv

\* No thread sleeps through its own condition: not a waiter, not a set, clear or
\* cancel waiting for its turn, not a cancel or destructor waiting for the last
\* waiter, although the timeout exit of wait notifies nobody.
THEOREM NoWakeupIsLost == FlagSpec => []NoLostWakeup
  BY FlagInvAlways, PTL DEF FlagInv

\* Cancels and the destructor never overlap.
THEOREM DrainsExclude == FlagSpec => []OneDrain
  BY FlagInvAlways, PTL DEF FlagInv

\* When the destructor has returned no thread is inside wait.
THEOREM DeleteIsSafeForWaiters == FlagSpec => []NoWaiterAfterDelete
  BY FlagInvAlways, PTL DEF FlagInv

\* The bits cancel wrote are the bits when it returns.
THEOREM CancelBitsStay == FlagSpec => CancelKeepsBits
  <1>1. FlagInv /\ [FlagNext]_flagVars => [m_status = "Canceled" => m_bits' = m_bits]_flagVars
    <2> SUFFICES ASSUME FlagInv, FlagNext, m_status = "Canceled" PROVE m_bits' = m_bits
      BY DEF flagVars
    <2>1. PICK t \in Threads : (\E w \in WaitArgs : Wait(t, w)) \/ Call(t) \/ WaitTimeout(t) \/ Resume(t)
      BY DEF FlagNext
    <2>2. ASSUME NEW w \in WaitArgs, Wait(t, w) PROVE m_bits' = m_bits
      BY <2>2 DEF Wait, WaitRefused, WaitSleep, Leave
    <2>3. CASE Call(t)
      BY <2>3 DEF Call, Set, Clear, Cancel, Delete, Defer
    <2>4. CASE WaitTimeout(t)
      BY <2>4 DEF WaitTimeout, Leave
    <2>5. CASE Resume(t)
      BY <2>5 DEF Resume, WaitResume, Leave, CancelDrained, DeleteDrained, DeferredResume,
                  Set, Clear, Cancel, Delete, Defer
    <2>6. QED
      BY <2>1, <2>2, <2>3, <2>4, <2>5
  <1>2. QED
    BY <1>1, FlagInvAlways, PTL DEF FlagSpec, CancelKeepsBits

\* Every thread that leaves its sleep in wait while a cancel drains leaves with
\* ECANCELED: the count cancel reported is a count of threads that learn of it.
THEOREM CancelReachesWaiters == FlagSpec => CancelledWaitersSeeIt
  <1> DEFINE Told == \A t \in Threads : m_status = "Canceled" /\ at[t] = "wait" /\ at'[t] = "idle"
                                           => ret'[t] = "ECANCELED"
  <1>1. FlagInv /\ [FlagNext]_flagVars => [Told]_flagVars
    <2> SUFFICES ASSUME FlagInv, FlagNext, NEW s \in Threads, m_status = "Canceled",
                        at[s] = "wait", at'[s] = "idle"
                 PROVE  ret'[s] = "ECANCELED"
      BY DEF flagVars
    <2> USE DEF FlagInv
    <2>1. PICK t \in Threads : (\E w \in WaitArgs : Wait(t, w)) \/ Call(t) \/ WaitTimeout(t) \/ Resume(t)
      BY DEF FlagNext
    <2>2. ASSUME NEW w \in WaitArgs, Wait(t, w) PROVE FALSE
      BY <2>2 DEF Wait, WaitRefused, WaitSleep, Leave, TypeOK
    <2>3. CASE Call(t)
      BY <2>3 DEF Call, Set, Clear, Cancel, Delete, Defer, TypeOK
    <2>4. CASE WaitTimeout(t)
      BY <2>4 DEF WaitTimeout, Leave, Satisfied, TypeOK
    <2>5. CASE WaitResume(t)
      BY <2>5 DEF WaitResume, Leave, TypeOK
    <2>6. CASE CancelDrained(t) \/ DeleteDrained(t) \/ DeferredResume(t)
      BY <2>6 DEF CancelDrained, CancelEnd, DeleteDrained, DeferredResume, Deferred,
                  Set, Clear, Cancel, Delete, Defer, TypeOK
    <2>7. QED
      BY <2>1, <2>2, <2>3, <2>4, <2>5, <2>6 DEF Resume
  <1>2. QED
    BY <1>1, FlagInvAlways, PTL DEF FlagSpec, CancelledWaitersSeeIt

\* A cancel or a destructor never sleeps alone: it is awake, or a waiter is that will
\* leave by the notifying exit of wait.
THEOREM DrainsGoOn == FlagSpec => []DrainAwake
  <1>1. FlagInv => DrainAwake
    <2> SUFFICES ASSUME FlagInv, alive, NEW d \in Draining, d \notin woken
                 PROVE  \E t \in woken : t \in Waiting /\ Satisfied(waitArg[t])
      BY DEF DrainAwake, FlagInv, TypeOK
    <2>1. m_waitingThreads # 0
      BY DEF FlagInv, NoLostWakeup, Draining
    <2>2. PICK w \in Waiting : TRUE
      BY <2>1, NobodyWaits
    <2>3. m_status \in {"Canceled", "Deleted"}
      BY DEF FlagInv, OneDrain, Draining
    <2>4. Satisfied(waitArg[w])
      BY <2>3 DEF Satisfied
    <2>5. w \in woken
      BY <2>2, <2>4 DEF FlagInv, NoLostWakeup, Waiting
    <2>6. QED
      BY <2>2, <2>4, <2>5
  <1>2. QED
    BY <1>1, FlagInvAlways, PTL

\* While one drains nobody joins the waiters it drains: a wait that is called then is
\* satisfied at once and does not sleep.
THEOREM DrainsShrink == FlagSpec => NoNewWaiters
  <1>1. FlagInv /\ [FlagNext]_flagVars => [m_status # "Set" => Waiting' \subseteq Waiting]_flagVars
    <2> SUFFICES ASSUME FlagInv, FlagNext, NEW s \in Threads, m_status # "Set", at'[s] = "wait"
                 PROVE  at[s] = "wait"
      BY DEF flagVars, Waiting
    <2>1. TypeOK /\ m_status \in {"Canceled", "Deleted"}
      BY DEF FlagInv, TypeOK
    <2>2. \A w : Satisfied(w)
      BY <2>1 DEF Satisfied
    <2>3. PICK t \in Threads : (\E w \in WaitArgs : Wait(t, w)) \/ Call(t) \/ WaitTimeout(t) \/ Resume(t)
      BY DEF FlagNext
    <2>4. ASSUME NEW w \in WaitArgs, Wait(t, w) PROVE at[s] = "wait"
      BY <2>1, <2>2, <2>4 DEF Wait, WaitRefused, Leave, TypeOK
    <2>5. CASE Call(t)
      BY <2>1, <2>5 DEF Call, Set, Clear, Cancel, Delete, Defer, TypeOK
    <2>6. CASE WaitTimeout(t) \/ WaitResume(t)
      BY <2>1, <2>2, <2>6 DEF WaitTimeout, WaitResume, Leave, TypeOK
    <2>7. CASE CancelDrained(t) \/ DeleteDrained(t)
      BY <2>1, <2>7 DEF CancelDrained, CancelEnd, DeleteDrained, TypeOK
    <2>8. CASE DeferredResume(t)
      BY <2>1, <2>8 DEF DeferredResume, Deferred, Set, Clear, Cancel, Delete, Defer, TypeOK
    <2>9. QED
      BY <2>3, <2>4, <2>5, <2>6, <2>7, <2>8 DEF Resume
  <1>2. QED
    BY <1>1, FlagInvAlways, PTL DEF FlagSpec, NoNewWaiters

-----------------------------------------------------------------------------
(* Mutexes, condition variables, read-write locks and once controls. *)

Waits == {"wait", "timedwait"}
Steps == {"out", "create", "enter", "leave", "sleep", "relock", "mark", "free",
          "look", "routine", "unlock"}
Hows == {"none", "lock", "try", "timed", "signal", "broadcast",
         "rdlock", "tryrdlock", "wrlock", "trywrlock", "rwunlock", "once"} \cup Waits
Object == [recursive : BOOLEAN, owner : Threads \cup {NoThread}, count : Int,
           readers : SUBSET Threads, isWrite : BOOLEAN,
           waiting : SUBSET Threads, woken : SUBSET Threads]

TypesOK ==
    /\ objects \in Seq(Object)
    /\ cell \in [Cells -> 0..Len(objects)]
    /\ isInit \in BOOLEAN
    /\ doing \in [Threads -> [step : Steps, cell : Cells, how : Hows]]
    /\ told \in [Threads -> Int] /\ relocked \subseteq Threads
    /\ rwTold \in [Threads -> {"none", "read", "write"}]
    /\ ready \in BOOLEAN /\ quiet \in BOOLEAN
    /\ runs \in Nat /\ onced \subseteq Threads

\* No two cells share an object, and those of a thread in a call exist.
CellsOK ==
    /\ \A c, d \in Cells : cell[c] # 0 /\ cell[c] = cell[d] => c = d
    /\ \A t \in Threads :
          /\ doing[t].step = "out" => doing[t] = Out
          /\ doing[t].step \notin {"out", "create"} => cell[doing[t].cell] # 0
          /\ doing[t].step \in {"leave", "sleep", "relock"} =>
                doing[t].cell = "cond" /\ doing[t].how \in Waits
          /\ doing[t].step \in {"mark", "free"} => doing[t].cell = "rwlock"
          /\ doing[t].step \in {"look", "routine", "unlock"} => doing[t].cell = "once"
          /\ doing[t].cell = "cond" /\ doing[t].how \in Waits => cell["mutex"] # 0
          /\ told[t] > 0 => cell["mutex"] # 0

\* Until a relock is answered with Ok, the guest's book-keeping is the mutex's.
MutexOK ==
    relocked = {} =>
        \A t \in Threads :
            /\ cell["mutex"] = 0 => told[t] = 0
            /\ cell["mutex"] # 0 =>
                  /\ Of("mutex").owner = t => Of("mutex").count > 0
                  /\ Of("mutex").owner = NoThread => Of("mutex").count = 0
                  /\ told[t] = IF Of("mutex").owner = t THEN Of("mutex").count ELSE 0

BeforeSleep(t) ==
    doing[t].cell = "cond" /\ doing[t].how \in Waits /\ doing[t].step \in {"create", "enter", "leave"}

\* Who is on its way to sleep has the mutex, and has not seen the condition set.
CondOK ==
    /\ relocked = {} => \A t \in Threads : BeforeSleep(t) => told[t] > 0 /\ ~ready
    /\ \A i \in 1..Len(objects) : \A t \in objects[i].waiting :
          i = cell["cond"] /\ doing[t].step \in {"leave", "sleep"}
    /\ relocked = {} /\ ready /\ ~quiet => \A i \in 1..Len(objects) : objects[i].waiting = {}

RwBegun(t) == doing[t].cell = "rwlock" /\ doing[t].step \in {"create", "enter", "mark"}

RwOK ==
    \A t \in Threads :
        /\ cell["rwlock"] = 0 => rwTold[t] = "none"
        /\ RwBegun(t) => (rwTold[t] = "none" <=> doing[t].how # "rwunlock")
        /\ doing[t].step = "mark" => doing[t].how # "rwunlock"
        /\ doing[t].step = "free" => rwTold[t] = "write"
        /\ cell["rwlock"] # 0 =>
              /\ Of("rwlock").owner = t <=> rwTold[t] = "write" \/ doing[t].step = "mark"
              /\ t \in Of("rwlock").readers <=> rwTold[t] = "read"
              /\ Of("rwlock").owner = t => Of("rwlock").readers = {}
              /\ Of("rwlock").owner = t =>
                    (Of("rwlock").isWrite <=> doing[t].step \notin {"mark", "free"})
              /\ Of("rwlock").isWrite => Of("rwlock").owner # NoThread

OnceHolder(t) == doing[t].step \in {"look", "routine", "unlock"}

OnceOK ==
    /\ \A t \in Threads :
          /\ cell["once"] # 0 =>
                /\ OnceHolder(t) <=> Of("once").owner = t
                /\ Of("once").owner = t => Of("once").count = 1
                /\ Of("once").owner = NoThread => Of("once").count = 0
          /\ doing[t].step = "routine" => ~isInit /\ runs = 1
          /\ doing[t].step = "unlock" => isInit
    /\ isInit => runs = 1
    /\ runs = 0 \/ isInit \/ \E t \in Threads : doing[t].step = "routine"
    /\ onced # {} => isInit

IInv == TypesOK /\ CellsOK /\ MutexOK /\ CondOK /\ RwOK /\ OnceOK
-----------------------------------------------------------------------------
LEMMA InitStep == Init => IInv
  <1>1. SUFFICES ASSUME Init PROVE IInv
    OBVIOUS
  <1>2. Out \in [step : Steps, cell : Cells, how : Hows]
    BY DEF Out, Steps, Cells, Hows
  <1>3. TypesOK
    <2>1. objects \in Seq(Object) /\ Len(objects) = 0
      BY <1>1 DEF Init
    <2>2. cell \in [Cells -> 0..Len(objects)]
      BY <1>1, <2>1 DEF Init
    <2>3. doing \in [Threads -> [step : Steps, cell : Cells, how : Hows]]
      BY <1>1, <1>2 DEF Init
    <2>4. isInit \in BOOLEAN /\ ready \in BOOLEAN /\ quiet \in BOOLEAN
      BY <1>1 DEF Init
    <2>5. /\ told \in [Threads -> Int] /\ relocked \subseteq Threads
          /\ rwTold \in [Threads -> {"none", "read", "write"}]
          /\ runs \in Nat /\ onced \subseteq Threads
      BY <1>1 DEF Init
    <2>6. QED
      BY <2>1, <2>2, <2>3, <2>4, <2>5 DEF TypesOK
  <1>4. CellsOK
    BY <1>1 DEF Init, CellsOK, Out, Cells, Waits
  <1>5. MutexOK /\ CondOK
    BY <1>1 DEF Init, MutexOK, CondOK, BeforeSleep, Out, Cells
  <1>7. RwOK
    BY <1>1 DEF Init, RwOK, RwBegun, Out, Cells
  <1>8. OnceOK
    BY <1>1 DEF Init, OnceOK, OnceHolder, Out, Cells
  <1>6. QED
    BY <1>3, <1>4, <1>5, <1>7, <1>8 DEF IInv

LEMMA WaitingThreads ==
    ASSUME TypesOK
    PROVE  \A i \in 1..Len(objects) : objects[i].waiting \subseteq Threads
  <1>1. \A i \in 1..Len(objects) : objects[i] \in Object
    BY DEF TypesOK
  <1>2. QED
    BY <1>1 DEF Object

LEMMA OfObject == TypesOK => \A c \in Cells : cell[c] # 0 => Of(c) \in Object
  BY DEF TypesOK, Of

\* Writing the object of one cell leaves those of the others alone.
LEMMA UpdateFacts ==
    ASSUME TypesOK, CellsOK, NEW c \in Cells, cell[c] # 0, NEW o \in Object,
           Update(c, o), UNCHANGED cell
    PROVE  /\ objects' \in Seq(Object) /\ Len(objects') = Len(objects)
           /\ Of(c)' = o
           /\ \A d \in Cells : d # c /\ cell[d] # 0 => Of(d)' = Of(d)
           /\ \A i \in 1..Len(objects) : objects'[i] = IF i = cell[c] THEN o ELSE objects[i]
  <1>1. cell[c] \in 1..Len(objects)
    BY DEF TypesOK
  <1>2. /\ objects' \in Seq(Object) /\ Len(objects') = Len(objects)
        /\ \A i \in 1..Len(objects) : objects'[i] = IF i = cell[c] THEN o ELSE objects[i]
    BY <1>1 DEF Update, TypesOK
  <1>3. \A d \in Cells : d # c /\ cell[d] # 0 => cell[d] # cell[c] /\ cell[d] \in 1..Len(objects)
    BY DEF CellsOK, TypesOK
  <1>4. QED
    BY <1>1, <1>2, <1>3 DEF Of

-----------------------------------------------------------------------------
(* What each part of the invariant depends on. *)

LEMMA MutexKept ==
    ASSUME IInv, relocked \subseteq relocked', UNCHANGED told,
           cell'["mutex"] = cell["mutex"],
           cell["mutex"] # 0 => Of("mutex")' = Of("mutex")
    PROVE  MutexOK'
  BY DEF IInv, MutexOK

LEMMA CondKept ==
    ASSUME IInv, relocked \subseteq relocked', UNCHANGED <<ready, quiet>>,
           cell'["cond"] = cell["cond"], Len(objects') = Len(objects),
           \A i \in 1..Len(objects) : objects'[i].waiting = objects[i].waiting,
           \A u \in Threads : BeforeSleep(u)' => BeforeSleep(u) /\ told'[u] = told[u],
           \A u \in Threads : doing[u].step \in {"leave", "sleep"} => doing'[u].step \in {"leave", "sleep"}
    PROVE  CondOK'
  <1>1. relocked' = {} => relocked = {}
    OBVIOUS
  <1>2. \A i \in 1..Len(objects) : objects[i].waiting \subseteq Threads
    BY WaitingThreads DEF IInv
  <1>3. relocked' = {} => \A u \in Threads : BeforeSleep(u)' => told'[u] > 0 /\ ~ready'
    BY <1>1 DEF IInv, CondOK
  <1>4. \A i \in 1..Len(objects') : \A u \in objects'[i].waiting :
            i = cell'["cond"] /\ doing'[u].step \in {"leave", "sleep"}
    BY <1>2 DEF IInv, CondOK
  <1>5. relocked' = {} /\ ready' /\ ~quiet' => \A i \in 1..Len(objects') : objects'[i].waiting = {}
    BY <1>1 DEF IInv, CondOK
  <1>6. QED
    BY <1>3, <1>4, <1>5 DEF CondOK

LEMMA RwKept ==
    ASSUME IInv, UNCHANGED rwTold, cell'["rwlock"] = cell["rwlock"],
           cell["rwlock"] # 0 => Of("rwlock")' = Of("rwlock"),
           \A u \in Threads :
              \/ doing'[u] = doing[u]
              \/ /\ ~RwBegun(u)' /\ doing[u].step \notin {"mark", "free"}
                 /\ doing'[u].step \notin {"mark", "free"}
    PROVE  RwOK'
  BY DEF IInv, RwOK, RwBegun

LEMMA OnceKept ==
    ASSUME IInv, UNCHANGED <<isInit, runs, onced>>, cell'["once"] = cell["once"],
           cell["once"] # 0 => Of("once")' = Of("once"),
           \A u \in Threads :
              doing'[u].step = doing[u].step \/ (~OnceHolder(u) /\ ~OnceHolder(u)')
    PROVE  OnceOK'
  <1>1. \A u \in Threads : \A s \in {"look", "routine", "unlock"} :
            doing'[u].step = s <=> doing[u].step = s
    BY DEF OnceHolder
  <1>2. QED
    BY <1>1 DEF IInv, OnceOK, OnceHolder

\* A call that returns, without a change of the objects.
LEMMA ReturnStep ==
    ASSUME IInv, NEW t \in Threads, Return(t), doing[t].step = "enter",
           UNCHANGED <<objects, cell, isInit, rwTold, ready, quiet, runs, onced>>,
           \/ UNCHANGED <<told, relocked>>
           \/ /\ relocked' = relocked \cup {t} /\ doing[t].cell = "mutex"
              /\ cell["mutex"] # 0 /\ told' = [told EXCEPT ![t] = told[t] + 1]
    PROVE  IInv'
  <1>1. /\ doing'[t] = Out /\ \A u \in Threads : u # t => doing'[u] = doing[u]
        /\ doing' \in [Threads -> [step : Steps, cell : Cells, how : Hows]]
    BY DEF Return, Out, IInv, TypesOK, Steps, Cells, Hows
  <1>a. \A u \in Threads : told'[u] = told[u] \/ (u = t /\ cell["mutex"] # 0)
    BY DEF IInv, TypesOK
  <1>2. \A c \in Cells : cell'[c] = cell[c] /\ Of(c)' = Of(c)
    BY DEF Of
  <1>3. TypesOK'
    BY <1>1 DEF IInv, TypesOK
  <1>4. CellsOK'
    BY <1>1, <1>a DEF IInv, CellsOK, Out, Waits
  <1>5. MutexOK'
    <2>1. CASE UNCHANGED <<told, relocked>>
      BY <1>2, <2>1, MutexKept DEF Cells
    <2>2. CASE relocked' = relocked \cup {t}
      BY <2>2 DEF MutexOK
    <2>3. QED
      BY <2>1, <2>2
  <1>6. CondOK'
    <2>1. \A u \in Threads : BeforeSleep(u)' => BeforeSleep(u) /\ told'[u] = told[u]
      BY <1>1, <1>a DEF BeforeSleep, Out
    <2>2. QED
      BY <1>1, <2>1, CondKept
  <1>7. RwOK'
    BY <1>1, <1>2, RwKept DEF RwBegun, Out, Cells
  <1>8. OnceOK'
    BY <1>1, <1>2, OnceKept DEF OnceHolder, Out, Cells
  <1>9. QED
    BY <1>3, <1>4, <1>5, <1>6, <1>7, <1>8 DEF IInv

-----------------------------------------------------------------------------
LEMMA BeginStep ==
    ASSUME IInv, NEW t \in Threads, NEW c \in Cells, NEW how \in Hows, Begin(t, c, how),
           c = "cond" /\ how \in Waits => told[t] > 0 /\ ~ready,
           c = "rwlock" => (rwTold[t] = "none" <=> how # "rwunlock")
    PROVE  IInv'
  <1>1. /\ UNCHANGED <<objects, cell, isInit, told, relocked, rwTold, ready, quiet, runs, onced>>
        /\ doing[t] = Out
        /\ doing'[t].step \in {"create", "enter"}
        /\ doing'[t].step = "enter" => cell[c] # 0
        /\ doing'[t].cell = c /\ doing'[t].how = how
        /\ \A u \in Threads : u # t => doing'[u] = doing[u]
        /\ doing' \in [Threads -> [step : Steps, cell : Cells, how : Hows]]
    BY DEF Begin, guest, IInv, TypesOK, Steps
  <1>2. \A d \in Cells : cell'[d] = cell[d] /\ Of(d)' = Of(d)
    BY <1>1 DEF Of
  <1>3. TypesOK'
    BY <1>1 DEF IInv, TypesOK
  <1>4. CellsOK'
    <2>1. \A d, e \in Cells : cell'[d] # 0 /\ cell'[d] = cell'[e] => d = e
      BY <1>1 DEF IInv, CellsOK
    <2>2. told[t] \in Int /\ (told[t] > 0 => cell["mutex"] # 0)
      BY DEF IInv, TypesOK, CellsOK
    <2>3. /\ doing'[t].step \notin {"out", "create"} => cell'[c] # 0
          /\ c = "cond" /\ how \in Waits => cell'["mutex"] # 0
      BY <1>1, <2>2
    <2>4. ASSUME NEW u \in Threads, u # t
          PROVE  doing'[u] = doing[u]
      BY <1>1, <2>4
    <2>5. QED
      BY <1>1, <2>1, <2>2, <2>3, <2>4 DEF IInv, CellsOK
  <1>5. MutexOK'
    BY <1>1, <1>2, MutexKept DEF Cells
  <1>6. CondOK'
    <2>1. relocked' = {} => \A u \in Threads : BeforeSleep(u)' => told'[u] > 0 /\ ~ready'
      BY <1>1 DEF IInv, CondOK, BeforeSleep
    <2>2. \A i \in 1..Len(objects) : \A u \in objects[i].waiting :
              i = cell["cond"] /\ doing'[u].step \in {"leave", "sleep"}
      BY <1>1, WaitingThreads DEF IInv, CondOK, Out
    <2>3. QED
      BY <1>1, <2>1, <2>2 DEF IInv, CondOK
  <1>7. RwOK'
    BY <1>1, <1>2 DEF IInv, RwOK, RwBegun, Out, Cells
  <1>8. OnceOK'
    BY <1>1, <1>2, OnceKept DEF OnceHolder, Out, Cells
  <1>9. QED
    BY <1>3, <1>4, <1>5, <1>6, <1>7, <1>8 DEF IInv
\* An object more, for the cell c; the others keep theirs.
LEMMA AppendFacts ==
    ASSUME TypesOK, CellsOK, NEW c \in Cells, NEW recursive \in BOOLEAN,
           objects' = Append(objects, NewObject(recursive)),
           cell' = [cell EXCEPT ![c] = Len(objects) + 1]
    PROVE  /\ objects' \in Seq(Object) /\ cell' \in [Cells -> 0..Len(objects')]
           /\ Len(objects') = Len(objects) + 1
           /\ cell'[c] = Len(objects) + 1 /\ Of(c)' = NewObject(recursive)
           /\ \A d \in Cells : d # c => cell'[d] = cell[d]
           /\ \A d \in Cells : d # c /\ cell[d] # 0 => Of(d)' = Of(d)
           /\ \A i \in 1..Len(objects) : objects'[i] = objects[i]
           /\ objects'[Len(objects) + 1] = NewObject(recursive)
           /\ \A d, e \in Cells : cell'[d] # 0 /\ cell'[d] = cell'[e] => d = e
  <1>1. NewObject(recursive) \in Object
    BY DEF NewObject, Object
  <1>2. /\ objects \in Seq(Object) /\ Len(objects) \in Nat
        /\ cell \in [Cells -> 0..Len(objects)]
    BY DEF TypesOK
  <1>3. /\ objects' \in Seq(Object) /\ Len(objects') = Len(objects) + 1
        /\ \A i \in 1..Len(objects) : objects'[i] = objects[i]
        /\ objects'[Len(objects) + 1] = NewObject(recursive)
    BY <1>1, <1>2
  <1>4. /\ cell' \in [Cells -> 0..Len(objects')]
        /\ cell'[c] = Len(objects) + 1
        /\ \A d \in Cells : d # c => cell'[d] = cell[d]
    BY <1>2, <1>3
  <1>5. \A d, e \in Cells : cell'[d] # 0 /\ cell'[d] = cell'[e] => d = e
    BY <1>2, <1>4 DEF CellsOK
  <1>6. \A d \in Cells : d # c /\ cell[d] # 0 => cell[d] \in 1..Len(objects)
    BY <1>2
  <1>7. QED
    BY <1>3, <1>4, <1>5, <1>6 DEF Of

LEMMA CreateStep ==
    ASSUME IInv, NEW t \in Threads, Create(t)
    PROVE  IInv'
  <1>c. PICK c \in Cells : c = doing[t].cell
    BY DEF IInv, TypesOK
  <1>1. /\ doing[t].step = "create" /\ doing[t].cell = c
        /\ doing'[t].step = "enter" /\ doing'[t].cell = c /\ doing'[t].how = doing[t].how
        /\ \A u \in Threads : u # t => doing'[u] = doing[u]
        /\ doing' \in [Threads -> [step : Steps, cell : Cells, how : Hows]]
        /\ UNCHANGED <<isInit, told, relocked, rwTold, ready, quiet, runs, onced>>
    BY <1>c DEF Create, Step, guest, IInv, TypesOK, Steps
  <1>2. \A u \in Threads : BeforeSleep(u)' <=> BeforeSleep(u)
    BY <1>1 DEF BeforeSleep
  <1>3. CASE cell[c] # 0
    <2>1. UNCHANGED <<objects, cell>>
      BY <1>c, <1>3 DEF Create
    <2>2. \A d \in Cells : cell'[d] = cell[d] /\ Of(d)' = Of(d)
      BY <2>1 DEF Of
    <2>3. TypesOK' /\ CellsOK'
      BY <1>1, <1>3, <2>1 DEF IInv, TypesOK, CellsOK
    <2>4. MutexOK'
      BY <1>1, <2>2, MutexKept DEF Cells
    <2>5. CondOK'
      BY <1>1, <1>2, <2>1, CondKept DEF Cells
    <2>6. RwOK'
      BY <1>1, <2>2 DEF IInv, RwOK, RwBegun, Cells
    <2>7. OnceOK'
      BY <1>1, <2>2, OnceKept DEF OnceHolder, Cells
    <2>8. QED
      BY <2>3, <2>4, <2>5, <2>6, <2>7 DEF IInv
  <1>4. CASE cell[c] = 0
    <2>1. /\ objects' = Append(objects, NewObject(FALSE))
          /\ cell' = [cell EXCEPT ![c] = Len(objects) + 1]
      BY <1>c, <1>4 DEF Create
    <2>a. TypesOK /\ CellsOK /\ FALSE \in BOOLEAN /\ Len(objects) \in Nat
      BY DEF IInv, TypesOK
    <2>2. /\ objects' \in Seq(Object) /\ cell' \in [Cells -> 0..Len(objects')]
          /\ Len(objects') = Len(objects) + 1 /\ Len(objects) \in Nat
          /\ cell'[c] = Len(objects) + 1 /\ Of(c)' = NewObject(FALSE)
          /\ \A d \in Cells : d # c => cell'[d] = cell[d]
          /\ \A d \in Cells : d # c /\ cell[d] # 0 => Of(d)' = Of(d)
          /\ \A i \in 1..Len(objects) : objects'[i] = objects[i]
          /\ objects'[Len(objects) + 1] = NewObject(FALSE)
          /\ \A d, e \in Cells : cell'[d] # 0 /\ cell'[d] = cell'[e] => d = e
      BY <2>a, <2>1, AppendFacts
    <2>3. TypesOK'
      BY <1>1, <2>2 DEF IInv, TypesOK
    <2>4. CellsOK'
      <3>1. \A d \in Cells : cell[d] # 0 => cell'[d] # 0
        BY <1>4, <2>2
      <3>2. cell'[c] # 0 /\ "mutex" \in Cells /\ \A u \in Threads : doing[u].cell \in Cells
        BY <2>2 DEF IInv, TypesOK, Cells
      <3>3. QED
        BY <1>1, <2>2, <3>1, <3>2 DEF IInv, CellsOK
    <2>5. MutexOK'
      <3>1. CASE c = "mutex"
        BY <1>1, <1>4, <2>2, <3>1, NoThreadAssumption DEF IInv, MutexOK, NewObject
      <3>2. CASE c # "mutex"
        BY <1>1, <2>2, <3>2, MutexKept DEF Cells
      <3>3. QED
        BY <3>1, <3>2
    <2>6. CondOK'
      <3>1. relocked' = {} => \A u \in Threads : BeforeSleep(u)' => told'[u] > 0 /\ ~ready'
        BY <1>1, <1>2 DEF IInv, CondOK
      <3>2. \A i \in 1..Len(objects') : i = Len(objects) + 1 \/ i \in 1..Len(objects)
        BY <2>2
      <3>3. objects'[Len(objects) + 1].waiting = {}
        BY <2>2 DEF NewObject
      <3>4. \A i \in 1..Len(objects') : \A u \in objects'[i].waiting :
                i = cell'["cond"] /\ doing'[u].step \in {"leave", "sleep"}
        <4>1. SUFFICES ASSUME NEW i \in 1..Len(objects), NEW u \in objects[i].waiting
                       PROVE  i = cell'["cond"] /\ doing'[u].step \in {"leave", "sleep"}
          BY <2>2, <3>2, <3>3
        <4>2. u \in Threads /\ i = cell["cond"] /\ doing[u].step \in {"leave", "sleep"}
          BY WaitingThreads DEF IInv, CondOK
        <4>3. c # "cond"
          BY <1>4, <4>2
        <4>4. QED
          BY <1>1, <2>2, <4>2, <4>3 DEF Cells
      <3>5. relocked' = {} /\ ready' /\ ~quiet' => \A i \in 1..Len(objects') : objects'[i].waiting = {}
        BY <1>1, <2>2, <3>2, <3>3 DEF IInv, CondOK
      <3>6. QED
        BY <3>1, <3>4, <3>5 DEF CondOK
    <2>7. RwOK'
      <3>1. CASE c = "rwlock"
        BY <1>1, <1>4, <2>2, <3>1, NoThreadAssumption
           DEF IInv, CellsOK, RwOK, RwBegun, NewObject, Cells
      <3>2. CASE c # "rwlock"
        BY <1>1, <2>2, <3>2, RwKept DEF RwBegun, Cells
      <3>3. QED
        BY <3>1, <3>2
    <2>8. OnceOK'
      <3>1. CASE c = "once"
        <4>1. \A u \in Threads : ~OnceHolder(u) /\ ~OnceHolder(u)'
          BY <1>1, <1>4, <3>1 DEF IInv, CellsOK, OnceHolder
        <4>2. QED
          BY <1>1, <1>4, <2>2, <3>1, <4>1, NoThreadAssumption
             DEF IInv, OnceOK, OnceHolder, NewObject
      <3>2. CASE c # "once"
        BY <1>1, <2>2, <3>2, OnceKept DEF OnceHolder, Cells
      <3>3. QED
        BY <3>1, <3>2
    <2>9. QED
      BY <2>3, <2>4, <2>5, <2>6, <2>7, <2>8 DEF IInv
  <1>5. QED
    BY <1>3, <1>4
\* Nobody is in a call when the guest initialises or destroys an object.
LEMMA IdleFacts ==
    ASSUME IInv, NEW c \in Cells, Unused(c)
    PROVE  /\ \A u \in Threads : doing[u] = Out /\ doing[u].step = "out" /\ ~BeforeSleep(u)
           /\ \A i \in 1..Len(objects) : objects[i].waiting = {}
           /\ c = "mutex" => \A u \in Threads : told[u] = 0
           /\ c = "rwlock" => \A u \in Threads : rwTold[u] = "none"
  <1>1. \A u \in Threads : doing[u] = Out /\ doing[u].step = "out" /\ ~BeforeSleep(u)
    BY DEF Unused, BeforeSleep, Out
  <1>2. \A i \in 1..Len(objects) : objects[i].waiting = {}
    BY <1>1, WaitingThreads DEF IInv, CondOK
  <1>3. c = "rwlock" => \A u \in Threads : rwTold[u] = "none"
    <2>1. SUFFICES ASSUME c = "rwlock", NEW u \in Threads, cell["rwlock"] # 0
                   PROVE  rwTold[u] = "none"
      BY DEF IInv, RwOK
    <2>2. Of("rwlock").owner # u /\ u \notin Of("rwlock").readers
      BY <2>1, NoThreadAssumption DEF Unused
    <2>3. rwTold[u] # "write" /\ rwTold[u] # "read"
      BY <2>1, <2>2 DEF IInv, RwOK
    <2>4. QED
      BY <2>3 DEF IInv, TypesOK
  <1>4. QED
    BY <1>1, <1>2, <1>3 DEF Unused

LEMMA InitObjectStep ==
    ASSUME IInv, NEW c \in Cells \ {"once"}, NEW recursive \in BOOLEAN, InitObject(c, recursive)
    PROVE  IInv'
  <1>1. /\ Unused(c)
        /\ objects' = Append(objects, NewObject(recursive))
        /\ cell' = [cell EXCEPT ![c] = Len(objects) + 1]
        /\ UNCHANGED <<isInit, doing, told, relocked, rwTold, ready, quiet, runs, onced>>
    BY DEF InitObject, guest
  <1>a. TypesOK /\ CellsOK /\ Len(objects) \in Nat
    BY DEF IInv, TypesOK
  <1>2. /\ objects' \in Seq(Object) /\ cell' \in [Cells -> 0..Len(objects')]
        /\ Len(objects') = Len(objects) + 1
        /\ cell'[c] = Len(objects) + 1 /\ Of(c)' = NewObject(recursive)
        /\ \A d \in Cells : d # c => cell'[d] = cell[d]
        /\ \A d \in Cells : d # c /\ cell[d] # 0 => Of(d)' = Of(d)
        /\ \A i \in 1..Len(objects) : objects'[i] = objects[i]
        /\ objects'[Len(objects) + 1] = NewObject(recursive)
        /\ \A d, e \in Cells : cell'[d] # 0 /\ cell'[d] = cell'[e] => d = e
    BY <1>1, <1>a, AppendFacts
  <1>3. /\ \A u \in Threads : doing'[u] = Out /\ doing'[u].step = "out" /\ ~BeforeSleep(u)'
        /\ \A i \in 1..Len(objects) : objects[i].waiting = {}
        /\ c = "mutex" => \A u \in Threads : told[u] = 0
        /\ c = "rwlock" => \A u \in Threads : rwTold[u] = "none"
    BY <1>1, IdleFacts DEF BeforeSleep
  <1>4. TypesOK'
    BY <1>1, <1>2, <1>a DEF TypesOK
  <1>5. CellsOK'
    <2>1. "mutex" \in Cells /\ \A d \in Cells : cell[d] # 0 => cell'[d] # 0
      BY <1>2, <1>a DEF Cells
    <2>2. QED
      BY <1>1, <1>2, <1>3, <1>a, <2>1 DEF CellsOK, Out, Waits
  <1>6. MutexOK'
    <2>1. CASE c = "mutex"
      BY <1>1, <1>2, <1>3, <1>a, <2>1, NoThreadAssumption DEF MutexOK, NewObject
    <2>2. CASE c # "mutex"
      BY <1>1, <1>2, <2>2, MutexKept DEF Cells
    <2>3. QED
      BY <2>1, <2>2
  <1>7. CondOK'
    <2>1. \A i \in 1..Len(objects') : objects'[i].waiting = {}
      <3>1. objects'[Len(objects) + 1].waiting = {}
        BY <1>2 DEF NewObject
      <3>2. \A i \in 1..Len(objects') : i = Len(objects) + 1 \/ i \in 1..Len(objects)
        BY <1>2, <1>a
      <3>3. QED
        BY <1>2, <1>3, <3>1, <3>2
    <2>2. QED
      BY <1>3, <2>1 DEF CondOK
  <1>8. RwOK'
    <2>1. CASE c = "rwlock"
      BY <1>1, <1>2, <1>3, <1>a, <2>1, NoThreadAssumption DEF RwOK, RwBegun, NewObject, Out
    <2>2. CASE c # "rwlock"
      BY <1>1, <1>2, <2>2, RwKept DEF Cells
    <2>3. QED
      BY <2>1, <2>2
  <1>9. OnceOK'
    BY <1>1, <1>2, OnceKept DEF Cells
  <1>10. QED
    BY <1>4, <1>5, <1>6, <1>7, <1>8, <1>9 DEF IInv

LEMMA DestroyObjectStep ==
    ASSUME IInv, NEW c \in Cells \ {"once"}, DestroyObject(c)
    PROVE  IInv'
  <1>1. /\ Unused(c) /\ cell' = [cell EXCEPT ![c] = 0]
        /\ UNCHANGED <<objects, isInit, doing, told, relocked, rwTold, ready, quiet, runs, onced>>
    BY DEF DestroyObject, guest
  <1>2. /\ cell' \in [Cells -> 0..Len(objects)] /\ cell'[c] = 0
        /\ \A d \in Cells : d # c => cell'[d] = cell[d] /\ Of(d)' = Of(d)
    BY <1>1 DEF IInv, TypesOK, Of
  <1>3. /\ \A u \in Threads : doing'[u] = Out /\ doing'[u].step = "out" /\ ~BeforeSleep(u)'
        /\ \A i \in 1..Len(objects) : objects[i].waiting = {}
        /\ c = "mutex" => \A u \in Threads : told[u] = 0
        /\ c = "rwlock" => \A u \in Threads : rwTold[u] = "none"
    BY <1>1, IdleFacts DEF BeforeSleep
  <1>4. TypesOK'
    BY <1>1, <1>2 DEF IInv, TypesOK
  <1>5. CellsOK'
    BY <1>1, <1>2, <1>3 DEF IInv, CellsOK, Out, Waits, Cells
  <1>6. MutexOK'
    <2>1. CASE c = "mutex"
      BY <1>1, <1>2, <1>3, <2>1 DEF MutexOK
    <2>2. CASE c # "mutex"
      BY <1>1, <1>2, <2>2, MutexKept DEF Cells
    <2>3. QED
      BY <2>1, <2>2
  <1>7. CondOK'
    BY <1>1, <1>3 DEF CondOK
  <1>8. RwOK'
    <2>1. CASE c = "rwlock"
      BY <1>1, <1>2, <1>3, <2>1 DEF RwOK, RwBegun, Out
    <2>2. CASE c # "rwlock"
      BY <1>1, <1>2, <2>2, RwKept DEF Cells
    <2>3. QED
      BY <2>1, <2>2
  <1>9. OnceOK'
    BY <1>1, <1>2, OnceKept DEF Cells
  <1>10. QED
    BY <1>4, <1>5, <1>6, <1>7, <1>8, <1>9 DEF IInv

-----------------------------------------------------------------------------
\* A step of t inside a call, or an unlock, that writes the object of c.
LEMMA WriteFacts ==
    ASSUME IInv, NEW t \in Threads, NEW c \in Cells, cell[c] # 0, NEW o \in Object,
           Update(c, o), UNCHANGED cell, o.waiting \subseteq Of(c).waiting
    PROVE  /\ objects' \in Seq(Object) /\ Len(objects') = Len(objects)
           /\ Of(c)' = o
           /\ \A d \in Cells : d # c /\ cell[d] # 0 => Of(d)' = Of(d)
           /\ \A i \in 1..Len(objects) : objects'[i].waiting \subseteq objects[i].waiting
           /\ o.waiting = Of(c).waiting =>
                 \A i \in 1..Len(objects) : objects'[i].waiting = objects[i].waiting
  BY UpdateFacts DEF IInv, Of

LEMMA LockFacts ==
    ASSUME NEW o \in Object, NEW t \in Threads
    PROVE  /\ Locked(o, t) \in Object /\ Locked(o, t).waiting = o.waiting
           /\ Locked(o, t).owner = t /\ Locked(o, t).count = o.count + 1
           /\ Unlocked(o) \in Object /\ Unlocked(o).waiting = o.waiting
           /\ Unlocked(o).count = o.count - 1
           /\ Unlocked(o).owner = IF o.count = 1 THEN NoThread ELSE o.owner
  <1>1. o.count + 1 \in Int /\ o.count - 1 \in Int /\ o.owner \in Threads \cup {NoThread}
    BY DEF Object
  <1>2. \A p : p = Locked(o, t) =>
            /\ p \in Object /\ p.waiting = o.waiting
            /\ p.owner = t /\ p.count = o.count + 1
    BY <1>1 DEF Object, Locked
  <1>3. \A p : p = Unlocked(o) =>
            /\ p \in Object /\ p.waiting = o.waiting
            /\ p.count = o.count - 1
            /\ p.owner = IF o.count = 1 THEN NoThread ELSE o.owner
    <2>1. CASE o.count = 1
      BY <1>1, <2>1 DEF Object, Unlocked
    <2>2. CASE o.count # 1
      BY <1>1, <2>2 DEF Object, Unlocked
    <2>3. QED
      BY <2>1, <2>2
  <1>4. QED
    BY <1>2, <1>3

\* A lock or an unlock of the mutex by t, which knows of it.
LEMMA MutexWritten ==
    ASSUME IInv, NEW t \in Threads, cell["mutex"] # 0,
           NEW n \in {-1, 1},
           \/ n = 1 /\ MayLock(Of("mutex"), t) /\ Update("mutex", Locked(Of("mutex"), t))
           \/ n = -1 /\ (relocked = {} => Of("mutex").owner = t)
                     /\ Update("mutex", Unlocked(Of("mutex"))),
           told' = [told EXCEPT ![t] = told[t] + n],
           UNCHANGED <<cell, isInit, relocked, rwTold, ready, quiet, runs, onced>>
    PROVE  /\ objects' \in Seq(Object) /\ Len(objects') = Len(objects)
           /\ \A d \in Cells : d # "mutex" /\ cell[d] # 0 => Of(d)' = Of(d)
           /\ \A i \in 1..Len(objects) : objects'[i].waiting = objects[i].waiting
           /\ told' \in [Threads -> Int] /\ \A u \in Threads : u # t => told'[u] = told[u]
           /\ MutexOK'
  <1> DEFINE o == Of("mutex")
  <1>1. o \in Object /\ "mutex" \in Cells
    BY OfObject DEF IInv, Cells
  <1>2. PICK p \in Object :
            /\ Update("mutex", p) /\ p.waiting = o.waiting
            /\ n = 1 => MayLock(o, t) /\ p.owner = t /\ p.count = o.count + 1
            /\ n = -1 => /\ relocked = {} => o.owner = t
                         /\ p.count = o.count - 1
                         /\ p.owner = IF o.count = 1 THEN NoThread ELSE o.owner
    <2>1. CASE n = 1
      <3>1. MayLock(o, t) /\ Update("mutex", Locked(o, t))
        BY <2>1
      <3>2. QED
        BY <1>1, <2>1, <3>1, LockFacts
    <2>2. CASE n = -1
      <3>1. (relocked = {} => o.owner = t) /\ Update("mutex", Unlocked(o))
        BY <2>2
      <3>2. QED
        BY <1>1, <2>2, <3>1, LockFacts
    <2>3. QED
      BY <2>1, <2>2
  <1>3. /\ objects' \in Seq(Object) /\ Len(objects') = Len(objects)
        /\ Of("mutex")' = p
        /\ \A d \in Cells : d # "mutex" /\ cell[d] # 0 => Of(d)' = Of(d)
        /\ \A i \in 1..Len(objects) : objects'[i].waiting = objects[i].waiting
    BY <1>1, <1>2, WriteFacts
  <1>4. told' \in [Threads -> Int] /\ told'[t] = told[t] + n /\ \A u \in Threads : u # t => told'[u] = told[u]
    BY DEF IInv, TypesOK
  <1>5. MutexOK'
    <2>1. SUFFICES ASSUME relocked = {}, NEW u \in Threads
                   PROVE  /\ p.owner = u => p.count > 0
                          /\ p.owner = NoThread => p.count = 0
                          /\ told'[u] = IF p.owner = u THEN p.count ELSE 0
      BY <1>3 DEF MutexOK
    <2>2. /\ o.count \in Int
          /\ o.owner = t => o.count > 0 /\ told[t] = o.count
          /\ o.owner = NoThread => o.count = 0 /\ told[t] = 0 /\ told[u] = 0
          /\ told[u] = IF o.owner = u THEN o.count ELSE 0
      BY <1>1, <2>1, NoThreadAssumption DEF IInv, MutexOK, Object
    <2>3. CASE n = 1
      BY <1>2, <1>4, <2>2, <2>3, NoThreadAssumption DEF MayLock
    <2>4. CASE n = -1
      BY <1>2, <1>4, <2>1, <2>2, <2>4, NoThreadAssumption
    <2>5. QED
      BY <2>3, <2>4
  <1>6. QED
    BY <1>3, <1>4, <1>5
LEMMA MutexStep ==
    ASSUME IInv, NEW t \in Threads, cell["mutex"] # 0,
           NEW n \in {-1, 1},
           \/ n = 1 /\ MayLock(Of("mutex"), t) /\ Update("mutex", Locked(Of("mutex"), t))
           \/ n = -1 /\ (relocked = {} => Of("mutex").owner = t)
                     /\ Update("mutex", Unlocked(Of("mutex"))),
           told' = [told EXCEPT ![t] = told[t] + n],
           UNCHANGED <<cell, isInit, relocked, rwTold, ready, quiet, runs, onced>>,
           \/ doing[t].step \in {"out", "enter", "relock"} /\ doing' = [doing EXCEPT ![t] = Out]
           \/ doing[t].step = "leave" /\ doing' = [doing EXCEPT ![t].step = "sleep"]
    PROVE  IInv'
  <1>1. /\ objects' \in Seq(Object) /\ Len(objects') = Len(objects)
        /\ \A d \in Cells : d # "mutex" /\ cell[d] # 0 => Of(d)' = Of(d)
        /\ \A i \in 1..Len(objects) : objects'[i].waiting = objects[i].waiting
        /\ told' \in [Threads -> Int] /\ \A u \in Threads : u # t => told'[u] = told[u]
        /\ MutexOK'
    BY MutexWritten
  <1>2. /\ doing' \in [Threads -> [step : Steps, cell : Cells, how : Hows]]
        /\ \A u \in Threads : u # t => doing'[u] = doing[u]
        /\ \/ doing'[t] = Out /\ doing[t].step \in {"out", "enter", "relock"}
           \/ /\ doing[t].step = "leave" /\ doing'[t].step = "sleep"
              /\ doing'[t].cell = doing[t].cell /\ doing'[t].how = doing[t].how
    <2>1. doing \in [Threads -> [step : Steps, cell : Cells, how : Hows]]
      BY DEF IInv, TypesOK
    <2>2. CASE doing[t].step \in {"out", "enter", "relock"} /\ doing' = [doing EXCEPT ![t] = Out]
      BY <2>1, <2>2 DEF Out, Steps, Cells, Hows
    <2>3. CASE doing[t].step = "leave" /\ doing' = [doing EXCEPT ![t].step = "sleep"]
      BY <2>1, <2>3 DEF Steps
    <2>4. QED
      BY <2>2, <2>3
  <1>3. TypesOK'
    BY <1>1, <1>2 DEF IInv, TypesOK
  <1>4. CellsOK'
    BY <1>2 DEF IInv, CellsOK, Out, Waits
  <1>5. CondOK'
    <2>1. \A u \in Threads : BeforeSleep(u)' => BeforeSleep(u) /\ told'[u] = told[u]
      BY <1>1, <1>2 DEF BeforeSleep, Out
    <2>2. \A u \in Threads : doing[u].step \in {"leave", "sleep"} => doing'[u].step \in {"leave", "sleep"}
      BY <1>2
    <2>3. QED
      BY <1>1, <2>1, <2>2, CondKept
  <1>6. RwOK'
    <2>1. \A u \in Threads :
              \/ doing'[u] = doing[u]
              \/ /\ ~RwBegun(u)' /\ doing[u].step \notin {"mark", "free"}
                 /\ doing'[u].step \notin {"mark", "free"}
      BY <1>2 DEF RwBegun, Out
    <2>2. QED
      BY <1>1, <2>1, RwKept DEF Cells
  <1>7. OnceOK'
    <2>1. \A u \in Threads : doing'[u].step = doing[u].step \/ (~OnceHolder(u) /\ ~OnceHolder(u)')
      BY <1>2 DEF OnceHolder, Out
    <2>2. QED
      BY <1>1, <2>1, OnceKept DEF Cells
  <1>8. QED
    BY <1>1, <1>3, <1>4, <1>5, <1>6, <1>7 DEF IInv

LEMMA LockStep ==
    ASSUME IInv, NEW t \in Threads, Lock(t)
    PROVE  IInv'
  <1>1. /\ doing[t].step = "enter" /\ doing[t].cell = "mutex" /\ MayLock(Of("mutex"), t)
        /\ Return(t)
        /\ UNCHANGED <<cell, isInit, relocked, rwTold, ready, quiet, runs, onced>>
    BY DEF Lock, At
  <1>2. cell["mutex"] # 0
    BY <1>1 DEF IInv, CellsOK
  <1>3. CASE Relock(t)
    BY <1>1, <1>3, ReturnStep DEF Lock
  <1>4. CASE ~Relock(t)
    <2>1. /\ Update("mutex", Locked(Of("mutex"), t))
          /\ told' = [told EXCEPT ![t] = told[t] + 1]
      BY <1>4 DEF Lock
    <2>2. QED
      BY <1>1, <1>2, <2>1, MutexStep DEF Return
  <1>5. QED
    BY <1>3, <1>4

LEMMA TryLockStep ==
    ASSUME IInv, NEW t \in Threads, TryLock(t)
    PROVE  IInv'
  <1>1. /\ doing[t].step = "enter" /\ doing[t].cell = "mutex" /\ Return(t)
        /\ UNCHANGED <<cell, isInit, rwTold, ready, quiet, runs, onced>>
    BY DEF TryLock, At
  <1>2. cell["mutex"] # 0
    BY <1>1 DEF IInv, CellsOK
  <1>3. CASE ~MayLock(Of("mutex"), t)
    BY <1>1, <1>3, ReturnStep DEF TryLock
  <1>4. CASE MayLock(Of("mutex"), t) /\ Relock(t)
    <2>1. /\ UNCHANGED objects /\ relocked' = relocked \cup {t}
          /\ told' = [told EXCEPT ![t] = told[t] + 1]
      BY <1>4 DEF TryLock
    <2>2. QED
      BY <1>1, <1>2, <2>1, ReturnStep
  <1>5. CASE MayLock(Of("mutex"), t) /\ ~Relock(t)
    <2>1. /\ Update("mutex", Locked(Of("mutex"), t)) /\ UNCHANGED relocked
          /\ told' = [told EXCEPT ![t] = told[t] + 1]
      BY <1>5 DEF TryLock
    <2>2. QED
      BY <1>1, <1>2, <1>5, <2>1, MutexStep DEF Return
  <1>6. QED
    BY <1>3, <1>4, <1>5

\* Nothing the invariant speaks of changes, but perhaps the guest's condition.
LEMMA Untouched ==
    ASSUME IInv, UNCHANGED <<objects, cell, isInit, doing, told, relocked, rwTold, runs, onced>>,
           UNCHANGED <<ready, quiet>>
    PROVE  IInv'
  <1>1. \A c \in Cells : Of(c)' = Of(c)
    BY DEF Of
  <1>2. TypesOK' /\ CellsOK'
    BY DEF IInv, TypesOK, CellsOK
  <1>3. MutexOK' /\ RwOK' /\ OnceOK'
    BY <1>1, MutexKept, RwKept, OnceKept DEF Cells
  <1>4. CondOK'
    BY DEF IInv, CondOK, BeforeSleep
  <1>5. QED
    BY <1>2, <1>3, <1>4 DEF IInv

LEMMA UnlockStep ==
    ASSUME IInv, NEW t \in Threads, Unlock(t)
    PROVE  IInv'
  <1>1. /\ doing[t] = Out
        /\ UNCHANGED <<cell, isInit, doing, relocked, rwTold, ready, quiet, runs, onced>>
    BY DEF Unlock
  <1>2. CASE cell["mutex"] = 0 \/ Of("mutex").owner # t
    BY <1>1, <1>2, Untouched DEF Unlock
  <1>3. CASE cell["mutex"] # 0 /\ Of("mutex").owner = t
    <2>1. /\ Update("mutex", Unlocked(Of("mutex"))) /\ told' = [told EXCEPT ![t] = told[t] - 1]
          /\ told[t] - 1 = told[t] + (-1)
      BY <1>3 DEF Unlock, IInv, TypesOK
    <2>2. doing' = [doing EXCEPT ![t] = Out] /\ doing[t].step = "out"
      BY <1>1 DEF IInv, TypesOK, Out
    <2>3. QED
      BY <1>1, <1>3, <2>1, <2>2, MutexStep
  <1>4. QED
    BY <1>2, <1>3

-----------------------------------------------------------------------------
\* A step of t that writes the condition variable, and nothing the guest sees but
\* perhaps that it has broadcast.
LEMMA CondWritten ==
    ASSUME IInv, NEW t \in Threads, cell["cond"] # 0, NEW o \in Object, Update("cond", o),
           UNCHANGED <<cell, isInit, told, relocked, rwTold, ready, runs, onced>>,
           doing[t].cell = "cond", doing[t].step \in {"enter", "sleep"},
           NEW d \in [step : Steps, cell : Cells, how : Hows],
           doing' = [doing EXCEPT ![t] = d],
           \/ d = Out
           \/ /\ d.step \in {"leave", "relock"} /\ d.cell = "cond"
              /\ d.how = doing[t].how /\ d.how \in Waits
              /\ d.step = "leave" => doing[t].step = "enter",
           quiet' \in BOOLEAN,
           o.waiting \subseteq Of("cond").waiting \cup (IF d.step = "leave" THEN {t} ELSE {}),
           t \in o.waiting => d.step = "leave",
           ~quiet' => o.waiting = {} \/ ~quiet
    PROVE  IInv'
  <1>1. /\ objects' \in Seq(Object) /\ Len(objects') = Len(objects)
        /\ \A e \in Cells : e # "cond" /\ cell[e] # 0 => Of(e)' = Of(e)
        /\ \A i \in 1..Len(objects) : objects'[i] = IF i = cell["cond"] THEN o ELSE objects[i]
    BY UpdateFacts DEF IInv, Cells
  <1>2. /\ doing' \in [Threads -> [step : Steps, cell : Cells, how : Hows]] /\ doing'[t] = d
        /\ \A u \in Threads : u # t => doing'[u] = doing[u]
    BY DEF IInv, TypesOK
  <1>3. TypesOK'
    BY <1>1, <1>2 DEF IInv, TypesOK
  <1>4. CellsOK'
    BY <1>2 DEF IInv, CellsOK, Out, Waits
  <1>5. MutexOK'
    BY <1>1, MutexKept DEF Cells
  <1>6. CondOK'
    <2>1. \A u \in Threads : BeforeSleep(u)' => BeforeSleep(u)
      BY <1>2 DEF BeforeSleep, Out
    <2>2. relocked' = {} => \A u \in Threads : BeforeSleep(u)' => told'[u] > 0 /\ ~ready'
      BY <2>1 DEF IInv, CondOK
    <2>3. \A i \in 1..Len(objects) : \A u \in objects'[i].waiting :
              i = cell["cond"] /\ doing'[u].step \in {"leave", "sleep"}
      <3>1. SUFFICES ASSUME NEW i \in 1..Len(objects), NEW u \in objects'[i].waiting
                     PROVE  i = cell["cond"] /\ doing'[u].step \in {"leave", "sleep"}
        OBVIOUS
      <3>2. CASE i # cell["cond"]
        BY <1>1, <3>1, <3>2 DEF IInv, CondOK
      <3>3. CASE i = cell["cond"] /\ u = t
        BY <1>1, <1>2, <3>1, <3>3
      <3>4. CASE i = cell["cond"] /\ u # t
        <4>1. u \in objects[i].waiting
          BY <1>1, <3>1, <3>4 DEF Of
        <4>2. QED
          BY <1>2, <3>4, <4>1, WaitingThreads DEF IInv, CondOK
      <3>5. QED
        BY <3>2, <3>3, <3>4
    <2>4. relocked' = {} /\ ready' /\ ~quiet' => \A i \in 1..Len(objects) : objects'[i].waiting = {}
      <3>1. SUFFICES ASSUME relocked = {}, ready, ~quiet', NEW i \in 1..Len(objects)
                     PROVE  objects'[i].waiting = {}
        OBVIOUS
      <3>2. CASE i # cell["cond"]
        BY <1>1, <3>2, WaitingThreads DEF IInv, CondOK
      <3>3. CASE i = cell["cond"]
        <4>1. CASE o.waiting = {}
          BY <1>1, <3>3, <4>1
        <4>2. CASE ~quiet
          <5>1. objects[i].waiting = {}
            BY <3>1, <4>2 DEF IInv, CondOK
          <5>2. d.step # "leave"
            BY <3>1 DEF IInv, CondOK, BeforeSleep, Out
          <5>3. QED
            BY <1>1, <3>3, <5>1, <5>2 DEF Of
        <4>3. QED
          BY <3>1, <4>1, <4>2
      <3>4. QED
        BY <3>2, <3>3
    <2>5. QED
      BY <1>1, <2>2, <2>3, <2>4 DEF CondOK
  <1>7. RwOK'
    <2>1. \A u \in Threads :
              \/ doing'[u] = doing[u]
              \/ /\ ~RwBegun(u)' /\ doing[u].step \notin {"mark", "free"}
                 /\ doing'[u].step \notin {"mark", "free"}
      BY <1>2 DEF RwBegun, Out
    <2>2. QED
      BY <1>1, <2>1, RwKept DEF Cells
  <1>8. OnceOK'
    <2>1. \A u \in Threads : doing'[u].step = doing[u].step \/ (~OnceHolder(u) /\ ~OnceHolder(u)')
      BY <1>2 DEF OnceHolder, Out
    <2>2. QED
      BY <1>1, <2>1, OnceKept DEF Cells
  <1>9. QED
    BY <1>3, <1>4, <1>5, <1>6, <1>7, <1>8 DEF IInv
LEMMA CondObject ==
    ASSUME IInv, cell["cond"] # 0
    PROVE  /\ Of("cond") \in Object /\ Of("cond").waiting \subseteq Threads
           /\ \A w, x \in SUBSET Threads :
                 LET p == [Of("cond") EXCEPT !.waiting = w, !.woken = x]
                 IN  p \in Object /\ p.waiting = w
           /\ \A w \in SUBSET Threads :
                 LET p == [Of("cond") EXCEPT !.waiting = w]
                 IN  p \in Object /\ p.waiting = w
           /\ \A u \in Of("cond").waiting : doing[u].step \in {"leave", "sleep"}
  <1>1. Of("cond") \in Object
    BY OfObject DEF IInv, Cells
  <1>2. cell["cond"] \in 1..Len(objects)
    BY DEF IInv, TypesOK, Cells
  <1>3. \A u \in Of("cond").waiting : doing[u].step \in {"leave", "sleep"}
    BY <1>2 DEF IInv, CondOK, Of
  <1>4. QED
    BY <1>1, <1>3 DEF Object

LEMMA DoingTyped ==
    ASSUME IInv, NEW t \in Threads
    PROVE  /\ doing[t] \in [step : Steps, cell : Cells, how : Hows]
           /\ Out \in [step : Steps, cell : Cells, how : Hows]
           /\ \A s \in Steps :
                 LET d == [doing[t] EXCEPT !.step = s]
                 IN  /\ d \in [step : Steps, cell : Cells, how : Hows]
                     /\ d.step = s /\ d.cell = doing[t].cell /\ d.how = doing[t].how
                     /\ [doing EXCEPT ![t].step = s] = [doing EXCEPT ![t] = d]
  BY DEF IInv, TypesOK, Out, Steps, Cells, Hows

LEMMA CondWaitStep ==
    ASSUME IInv, NEW t \in Threads, CondWait(t)
    PROVE  IInv'
  <1>1. /\ doing[t].step = "enter" /\ doing[t].cell = "cond" /\ doing[t].how \in Waits
        /\ UNCHANGED <<cell, isInit, told, relocked, rwTold, ready, quiet, runs, onced>>
    BY DEF CondWait, At, guest, Waits
  <1>2. cell["cond"] # 0
    BY <1>1 DEF IInv, CellsOK
  <1>3. CASE doing[t].how = "wait" /\ Of("mutex").count < 1
    BY <1>1, <1>3, ReturnStep DEF CondWait
  <1>4. CASE ~(doing[t].how = "wait" /\ Of("mutex").count < 1)
    <2> DEFINE w == Of("cond").waiting \cup {t}
               o == [Of("cond") EXCEPT !.waiting = w]
               d == [doing[t] EXCEPT !.step = "leave"]
    <2>1. Update("cond", o) /\ doing' = [doing EXCEPT ![t].step = "leave"]
      BY <1>4 DEF CondWait, Step
    <2>2. w \in SUBSET Threads /\ o \in Object /\ o.waiting = w
      BY <1>2, CondObject
    <2>3. /\ d \in [step : Steps, cell : Cells, how : Hows]
          /\ d.step = "leave" /\ d.cell = "cond" /\ d.how = doing[t].how
          /\ doing' = [doing EXCEPT ![t] = d]
      BY <1>1, <2>1, DoingTyped DEF Steps
    <2>4. quiet' \in BOOLEAN /\ (~quiet' => o.waiting = {} \/ ~quiet)
      BY <1>1 DEF IInv, TypesOK
    <2>5. /\ o \in Object /\ Update("cond", o) /\ doing[t].step \in {"enter", "sleep"}
          /\ d.step \in {"leave", "relock"} /\ d.cell = "cond"
          /\ d.how = doing[t].how /\ d.how \in Waits
          /\ d.step = "leave" => doing[t].step = "enter"
          /\ o.waiting \subseteq Of("cond").waiting \cup (IF d.step = "leave" THEN {t} ELSE {})
          /\ t \in o.waiting => d.step = "leave"
      BY <1>1, <2>1, <2>2, <2>3
    <2>6. /\ doing[t].cell = "cond" /\ doing' = [doing EXCEPT ![t] = d]
          /\ d \in [step : Steps, cell : Cells, how : Hows]
          /\ UNCHANGED <<cell, isInit, told, relocked, rwTold, ready, runs, onced>>
      BY <1>1, <2>3
    <2> HIDE DEF o, d
    <2>7. QED
      BY <1>2, <2>4, <2>5, <2>6, CondWritten
  <1>5. QED
    BY <1>3, <1>4

\* Who goes to sleep has the mutex, and leaves it once.
LEMMA CondUnlockStep ==
    ASSUME IInv, NEW t \in Threads, CondUnlock(t)
    PROVE  IInv'
  <1>1. /\ doing[t].step = "leave" /\ doing[t].cell = "cond" /\ doing[t].how \in Waits
        /\ Update("mutex", Unlocked(Of("mutex")))
        /\ told' = [told EXCEPT ![t] = told[t] - 1] /\ told[t] - 1 = told[t] + (-1)
        /\ doing' = [doing EXCEPT ![t].step = "sleep"]
        /\ UNCHANGED <<cell, isInit, relocked, rwTold, ready, quiet, runs, onced>>
    BY DEF CondUnlock, At, Step, Waits, IInv, TypesOK
  <1>2. cell["mutex"] # 0
    BY <1>1 DEF IInv, CellsOK
  <1>3. relocked = {} => Of("mutex").owner = t
    <2>1. relocked = {} => told[t] > 0
      BY <1>1 DEF IInv, CondOK, BeforeSleep
    <2>2. QED
      BY <1>2, <2>1 DEF IInv, MutexOK
  <1>4. QED
    BY <1>1, <1>2, <1>3, MutexStep

LEMMA CondWakeStep ==
    ASSUME IInv, NEW t \in Threads, CondWake(t)
    PROVE  IInv'
  <1> DEFINE w == Of("cond").waiting \ {t}
             x == Of("cond").woken \ {t}
             o == [Of("cond") EXCEPT !.waiting = w, !.woken = x]
             d == [doing[t] EXCEPT !.step = "relock"]
  <1>1. /\ doing[t].step = "sleep" /\ doing[t].cell = "cond" /\ doing[t].how \in Waits
        /\ Update("cond", o) /\ doing' = [doing EXCEPT ![t].step = "relock"]
        /\ UNCHANGED <<cell, isInit, told, relocked, rwTold, ready, quiet, runs, onced>>
    BY DEF CondWake, At, Step, guest, Waits
  <1>2. cell["cond"] # 0
    BY <1>1 DEF IInv, CellsOK
  <1>3. w \in SUBSET Threads /\ x \in SUBSET Threads
    BY <1>2, CondObject DEF Object
  <1>4. o \in Object /\ o.waiting = w
    BY <1>2, <1>3, CondObject
  <1>5. /\ d \in [step : Steps, cell : Cells, how : Hows]
        /\ d.step = "relock" /\ d.cell = "cond" /\ d.how = doing[t].how
        /\ doing' = [doing EXCEPT ![t] = d]
    BY <1>1, DoingTyped DEF Steps
  <1>6. quiet' \in BOOLEAN /\ (~quiet' => o.waiting = {} \/ ~quiet)
    BY <1>1 DEF IInv, TypesOK
  <1> HIDE DEF o, d
  <1>7. QED
    BY <1>1, <1>2, <1>4, <1>5, <1>6, CondWritten

LEMMA CondRelockStep ==
    ASSUME IInv, NEW t \in Threads, CondRelock(t)
    PROVE  IInv'
  <1>1. /\ doing[t].step = "relock" /\ doing[t].cell = "cond" /\ doing[t].how \in Waits
        /\ MayLock(Of("mutex"), t) /\ Update("mutex", Locked(Of("mutex"), t))
        /\ told' = [told EXCEPT ![t] = told[t] + 1]
        /\ doing' = [doing EXCEPT ![t] = Out]
        /\ UNCHANGED <<cell, isInit, relocked, rwTold, ready, quiet, runs, onced>>
    BY DEF CondRelock, At, Return, Waits
  <1>2. cell["mutex"] # 0
    BY <1>1 DEF IInv, CellsOK
  <1>3. QED
    BY <1>1, <1>2, MutexStep

LEMMA CondNotifyStep ==
    ASSUME IInv, NEW t \in Threads, CondNotify(t)
    PROVE  IInv'
  <1>1. /\ doing[t].step = "enter" /\ doing[t].cell = "cond"
        /\ doing' = [doing EXCEPT ![t] = Out]
        /\ quiet' = IF doing[t].how = "broadcast" THEN FALSE ELSE quiet
        /\ UNCHANGED <<cell, isInit, told, relocked, rwTold, ready, runs, onced>>
    BY DEF CondNotify, At, Return
  <1>2. cell["cond"] # 0
    BY <1>1 DEF IInv, CellsOK
  <1>3. PICK n \in SUBSET Of("cond").waiting :
            /\ doing[t].how = "broadcast" => n = Of("cond").waiting
            /\ Update("cond", [Of("cond") EXCEPT !.waiting = Of("cond").waiting \ n,
                                                 !.woken = Of("cond").woken \cup n])
    BY DEF CondNotify
  <1> DEFINE w == Of("cond").waiting \ n
             x == Of("cond").woken \cup n
             o == [Of("cond") EXCEPT !.waiting = w, !.woken = x]
  <1>4. w \in SUBSET Threads /\ x \in SUBSET Threads
    BY <1>2, CondObject DEF Object
  <1>5. o \in Object /\ o.waiting = w
    BY <1>2, <1>4, CondObject
  <1>6. t \notin w
    BY <1>1, <1>2, CondObject
  <1>7. quiet' \in BOOLEAN /\ (~quiet' => w = {} \/ ~quiet)
    <2>1. CASE doing[t].how = "broadcast"
      BY <1>1, <1>3, <2>1
    <2>2. CASE doing[t].how # "broadcast"
      BY <1>1, <2>2 DEF IInv, TypesOK
    <2>3. QED
      BY <2>1, <2>2
  <1>8. Update("cond", o) /\ Out \in [step : Steps, cell : Cells, how : Hows] /\ Out.step = "out"
    BY <1>3, DoingTyped DEF Out
  <1> HIDE DEF o
  <1>9. QED
    BY <1>1, <1>2, <1>5, <1>6, <1>7, <1>8, CondWritten

\* The guest sets its condition: nobody else has the mutex, so nobody is about to sleep.
LEMMA SetReadyStep ==
    ASSUME IInv, NEW t \in Threads, SetReady(t)
    PROVE  IInv'
  <1>1. /\ doing[t] = Out /\ told[t] > 0 /\ ready' = TRUE /\ quiet' = TRUE
        /\ UNCHANGED <<objects, cell, isInit, doing, told, relocked, rwTold, runs, onced>>
    BY DEF SetReady
  <1>2. \A c \in Cells : Of(c)' = Of(c)
    BY <1>1 DEF Of
  <1>3. TypesOK' /\ CellsOK'
    BY <1>1 DEF IInv, TypesOK, CellsOK
  <1>4. MutexOK' /\ RwOK' /\ OnceOK'
    BY <1>1, <1>2, MutexKept, RwKept, OnceKept DEF Cells
  <1>5. relocked = {} => \A u \in Threads : ~BeforeSleep(u)
    <2>1. SUFFICES ASSUME relocked = {}, NEW u \in Threads, BeforeSleep(u) PROVE FALSE
      OBVIOUS
    <2>2. told[u] > 0 /\ u # t
      BY <1>1, <2>1 DEF IInv, CondOK, BeforeSleep, Out
    <2>3. QED
      BY <1>1, <2>1, <2>2 DEF IInv, MutexOK
  <1>6. CondOK'
    BY <1>1, <1>5 DEF IInv, CondOK, BeforeSleep
  <1>7. QED
    BY <1>3, <1>4, <1>6 DEF IInv
-----------------------------------------------------------------------------
\* A step of t on its rwlock or once object: what mutexes and conditions see of it.
LEMMA OtherWritten ==
    ASSUME IInv, NEW t \in Threads, NEW c \in {"rwlock", "once"}, cell[c] # 0,
           NEW o \in Object, Update(c, o), o.waiting = Of(c).waiting,
           UNCHANGED <<cell, told, relocked, ready, quiet>>,
           doing[t].cell = c, doing[t].step \notin {"out", "create", "leave", "sleep"},
           NEW d \in [step : Steps, cell : Cells, how : Hows],
           doing' = [doing EXCEPT ![t] = d],
           \/ d = Out
           \/ c = "rwlock" /\ d.step \in {"mark", "free"} /\ d.cell = c
           \/ c = "once" /\ d.step \in {"look", "routine", "unlock"} /\ d.cell = c,
           rwTold' \in [Threads -> {"none", "read", "write"}],
           isInit' \in BOOLEAN, runs' \in Nat, onced' \subseteq Threads
    PROVE  /\ TypesOK' /\ CellsOK' /\ MutexOK' /\ CondOK'
           /\ Of(c)' = o /\ doing'[t] = d
           /\ \A e \in Cells : e # c /\ cell[e] # 0 => Of(e)' = Of(e)
           /\ \A u \in Threads : u # t => doing'[u] = doing[u]
  <1>1. /\ objects' \in Seq(Object) /\ Len(objects') = Len(objects)
        /\ Of(c)' = o
        /\ \A e \in Cells : e # c /\ cell[e] # 0 => Of(e)' = Of(e)
        /\ \A i \in 1..Len(objects) : objects'[i].waiting = objects[i].waiting
    <2>1. c \in Cells /\ o.waiting \subseteq Of(c).waiting
      BY DEF Cells
    <2>2. QED
      BY <2>1, WriteFacts
  <1>2. /\ doing' \in [Threads -> [step : Steps, cell : Cells, how : Hows]] /\ doing'[t] = d
        /\ \A u \in Threads : u # t => doing'[u] = doing[u]
    BY DEF IInv, TypesOK
  <1>3. TypesOK'
    BY <1>1, <1>2 DEF IInv, TypesOK
  <1>4. CellsOK'
    BY <1>2 DEF IInv, CellsOK, Out, Waits
  <1>5. MutexOK'
    BY <1>1, MutexKept DEF Cells
  <1>6. CondOK'
    <2>1. \A u \in Threads : BeforeSleep(u)' => BeforeSleep(u) /\ told'[u] = told[u]
      BY <1>2 DEF BeforeSleep, Out
    <2>2. \A u \in Threads : doing[u].step \in {"leave", "sleep"} => doing'[u].step \in {"leave", "sleep"}
      BY <1>2
    <2>3. QED
      BY <1>1, <2>1, <2>2, CondKept
  <1>7. QED
    BY <1>1, <1>2, <1>3, <1>4, <1>5, <1>6

Modes == {"none", "read", "write"}
InRw(t) == doing[t].cell = "rwlock" /\ doing[t].step \in {"enter", "mark", "free"}
RwPlace(d) ==
    /\ d \in [step : Steps, cell : Cells, how : Hows]
    /\ d = Out \/ (d.step \in {"mark", "free"} /\ d.cell = "rwlock")

\* The same, of the read-write lock, which the once controls do not see.
LEMMA RwWritten ==
    ASSUME IInv, NEW t \in Threads, cell["rwlock"] # 0,
           NEW o \in Object, Update("rwlock", o), o.waiting = Of("rwlock").waiting,
           UNCHANGED <<cell, isInit, told, relocked, ready, quiet, runs, onced>>,
           InRw(t), NEW d, RwPlace(d), doing' = [doing EXCEPT ![t] = d],
           NEW m \in Modes, rwTold' = [rwTold EXCEPT ![t] = m]
    PROVE  /\ TypesOK' /\ CellsOK' /\ MutexOK' /\ CondOK' /\ OnceOK'
           /\ Of("rwlock")' = o /\ doing'[t] = d /\ rwTold'[t] = m
           /\ \A u \in Threads : u # t => doing'[u] = doing[u] /\ rwTold'[u] = rwTold[u]
  <1>1. /\ rwTold' \in [Threads -> {"none", "read", "write"}] /\ rwTold'[t] = m
        /\ \A u \in Threads : u # t => rwTold'[u] = rwTold[u]
        /\ isInit' \in BOOLEAN /\ runs' \in Nat /\ onced' \subseteq Threads
    BY DEF IInv, TypesOK, Modes
  <1>2. /\ TypesOK' /\ CellsOK' /\ MutexOK' /\ CondOK'
        /\ Of("rwlock")' = o /\ doing'[t] = d
        /\ \A e \in Cells : e # "rwlock" /\ cell[e] # 0 => Of(e)' = Of(e)
        /\ \A u \in Threads : u # t => doing'[u] = doing[u]
    BY <1>1, OtherWritten DEF InRw, RwPlace
  <1>3. OnceOK'
    <2>1. \A u \in Threads : doing'[u].step = doing[u].step \/ (~OnceHolder(u) /\ ~OnceHolder(u)')
      BY <1>2 DEF OnceHolder, Out, InRw, RwPlace
    <2>2. QED
      BY <1>2, <2>1, OnceKept DEF Cells
  <1>4. QED
    BY <1>1, <1>2, <1>3

LEMMA RwReadStep ==
    ASSUME IInv, NEW t \in Threads, RwRead(t)
    PROVE  IInv'
  <1>1. /\ doing[t].step = "enter" /\ doing[t].cell = "rwlock"
        /\ doing[t].how \in {"rdlock", "tryrdlock"} /\ Return(t)
        /\ UNCHANGED <<cell, isInit, told, relocked, ready, quiet, runs, onced>>
    BY DEF RwRead, At, RwReturn
  <1>2. cell["rwlock"] # 0
    BY <1>1 DEF IInv, CellsOK
  <1>3. CASE Of("rwlock").owner # NoThread
    BY <1>1, <1>3, ReturnStep DEF RwRead
  <1>4. CASE Of("rwlock").owner = NoThread
    <2> DEFINE r == Of("rwlock")
               o == [r EXCEPT !.readers = r.readers \cup {t}]
    <2>1. /\ Update("rwlock", o) /\ rwTold' = [rwTold EXCEPT ![t] = "read"]
          /\ doing' = [doing EXCEPT ![t] = Out]
      BY <1>4 DEF RwRead, RwReturn, Return
    <2>2. /\ o \in Object /\ o.waiting = r.waiting /\ o.owner = NoThread
          /\ o.readers = r.readers \cup {t} /\ o.isWrite = r.isWrite
      BY <1>2, <1>4, OfObject DEF IInv, Cells, Object
    <2>3. InRw(t) /\ RwPlace(Out) /\ "read" \in Modes
      BY <1>1, DoingTyped DEF InRw, RwPlace, Modes
    <2> HIDE DEF o
    <2>4. /\ TypesOK' /\ CellsOK' /\ MutexOK' /\ CondOK' /\ OnceOK'
          /\ Of("rwlock")' = o /\ doing'[t] = Out /\ rwTold'[t] = "read"
          /\ \A u \in Threads : u # t => doing'[u] = doing[u] /\ rwTold'[u] = rwTold[u]
      BY <1>1, <1>2, <2>1, <2>2, <2>3, RwWritten
    <2>5. rwTold[t] = "none"
      BY <1>1 DEF IInv, RwOK, RwBegun
    <2>6. RwOK'
      <3>1. \A u \in Threads : rwTold[u] # "write" /\ doing[u].step # "mark" /\ ~r.isWrite
        BY <1>2, <1>4, NoThreadAssumption DEF IInv, RwOK
      <3>2. \A u \in Threads : doing[u].step # "free"
        BY <3>1 DEF IInv, RwOK
      <3>3. QED
        BY <1>1, <1>2, <2>2, <2>4, <2>5, <3>1, <3>2, NoThreadAssumption
           DEF IInv, RwOK, RwBegun, Out
    <2>7. QED
      BY <2>4, <2>6 DEF IInv
  <1>5. QED
    BY <1>3, <1>4

LEMMA RwWriteStep ==
    ASSUME IInv, NEW t \in Threads, RwWrite(t)
    PROVE  IInv'
  <1> DEFINE r == Of("rwlock")
  <1>1. /\ doing[t].step = "enter" /\ doing[t].cell = "rwlock"
        /\ doing[t].how \in {"wrlock", "trywrlock"}
        /\ UNCHANGED <<cell, isInit, told, relocked, rwTold, ready, quiet, runs, onced>>
    BY DEF RwWrite, At, guest
  <1>2. cell["rwlock"] # 0
    BY <1>1 DEF IInv, CellsOK
  <1>3. CASE ~(r.owner = NoThread /\ r.readers = {})
    BY <1>1, <1>3, ReturnStep DEF RwWrite
  <1>4. CASE r.owner = NoThread /\ r.readers = {}
    <2> DEFINE o == [r EXCEPT !.owner = t]
               d == [doing[t] EXCEPT !.step = "mark"]
    <2>1. Update("rwlock", o) /\ doing' = [doing EXCEPT ![t].step = "mark"]
      BY <1>4 DEF RwWrite, Step
    <2>2. /\ o \in Object /\ o.waiting = r.waiting /\ o.owner = t
          /\ o.readers = {} /\ o.isWrite = r.isWrite
      BY <1>2, <1>4, OfObject DEF IInv, Cells, Object
    <2>3. /\ d \in [step : Steps, cell : Cells, how : Hows]
          /\ d.step = "mark" /\ d.cell = "rwlock" /\ d.how = doing[t].how
          /\ doing' = [doing EXCEPT ![t] = d]
      BY <1>1, <2>1, DoingTyped DEF Steps
    <2>4. rwTold[t] = "none" /\ rwTold' = [rwTold EXCEPT ![t] = "none"]
      BY <1>1 DEF IInv, TypesOK, RwOK, RwBegun
    <2> HIDE DEF o, d
    <2>5. /\ TypesOK' /\ CellsOK' /\ MutexOK' /\ CondOK' /\ OnceOK'
          /\ Of("rwlock")' = o /\ doing'[t] = d /\ rwTold'[t] = "none"
          /\ \A u \in Threads : u # t => doing'[u] = doing[u] /\ rwTold'[u] = rwTold[u]
      <3>1. InRw(t) /\ RwPlace(d) /\ "none" \in Modes
        BY <1>1, <2>3 DEF InRw, RwPlace, Modes
      <3>2. /\ o \in Object /\ Update("rwlock", o) /\ o.waiting = Of("rwlock").waiting
            /\ doing' = [doing EXCEPT ![t] = d] /\ rwTold' = [rwTold EXCEPT ![t] = "none"]
            /\ UNCHANGED <<cell, isInit, told, relocked, ready, quiet, runs, onced>>
        BY <1>1, <2>1, <2>2, <2>3, <2>4
      <3>3. QED
        BY <1>2, <3>1, <3>2, RwWritten
    <2>6. RwOK'
      <3>1. \A u \in Threads : rwTold[u] = "none" /\ doing[u].step # "mark" /\ ~r.isWrite
        <4>1. ~r.isWrite
          BY <1>2, <1>4 DEF IInv, RwOK
        <4>2. \A u \in Threads : r.owner # u /\ u \notin r.readers
          BY <1>4, NoThreadAssumption
        <4>3. \A u \in Threads : rwTold[u] \in {"none", "read", "write"}
          BY DEF IInv, TypesOK
        <4>4. QED
          BY <1>2, <4>1, <4>2, <4>3 DEF IInv, RwOK
      <3>2. \A u \in Threads : doing[u].step # "free"
        BY <3>1 DEF IInv, RwOK
      <3>3. QED
        BY <1>1, <1>2, <2>2, <2>3, <2>5, <3>1, <3>2, NoThreadAssumption
           DEF IInv, RwOK, RwBegun
    <2>7. QED
      BY <2>5, <2>6 DEF IInv
  <1>5. QED
    BY <1>3, <1>4

LEMMA RwMarkStep ==
    ASSUME IInv, NEW t \in Threads, RwMark(t)
    PROVE  IInv'
  <1> DEFINE r == Of("rwlock")
             o == [r EXCEPT !.isWrite = TRUE]
  <1>1. /\ doing[t].step = "mark" /\ Update("rwlock", o)
        /\ rwTold' = [rwTold EXCEPT ![t] = "write"] /\ doing' = [doing EXCEPT ![t] = Out]
        /\ UNCHANGED <<cell, isInit, told, relocked, ready, quiet, runs, onced>>
    BY DEF RwMark, RwReturn, Return
  <1>2. doing[t].cell = "rwlock" /\ cell["rwlock"] # 0
    BY <1>1 DEF IInv, CellsOK
  <1>3. r.owner = t /\ r.readers = {} /\ rwTold[t] = "none"
    BY <1>1, <1>2 DEF IInv, RwOK, RwBegun
  <1>4. /\ o \in Object /\ o.waiting = r.waiting /\ o.owner = t
        /\ o.readers = {} /\ o.isWrite = TRUE
    BY <1>2, <1>3, OfObject DEF IInv, Cells, Object
  <1>5. InRw(t) /\ RwPlace(Out) /\ "write" \in Modes
    BY <1>1, <1>2, DoingTyped DEF InRw, RwPlace, Modes
  <1> HIDE DEF o
  <1>6. /\ TypesOK' /\ CellsOK' /\ MutexOK' /\ CondOK' /\ OnceOK'
        /\ Of("rwlock")' = o /\ doing'[t] = Out /\ rwTold'[t] = "write"
        /\ \A u \in Threads : u # t => doing'[u] = doing[u] /\ rwTold'[u] = rwTold[u]
    BY <1>1, <1>2, <1>4, <1>5, RwWritten
  <1>7. RwOK'
    BY <1>1, <1>2, <1>3, <1>4, <1>6, NoThreadAssumption DEF IInv, RwOK, RwBegun, Out
  <1>8. QED
    BY <1>6, <1>7 DEF IInv

\* The flag says how the lock is held: by the thread that unlocks, in its mode.
LEMMA RwUnlockStep ==
    ASSUME IInv, NEW t \in Threads, RwUnlock(t)
    PROVE  IInv'
  <1> DEFINE r == Of("rwlock")
  <1>1. /\ doing[t].step = "enter" /\ doing[t].cell = "rwlock" /\ doing[t].how = "rwunlock"
        /\ UNCHANGED <<cell, isInit, told, relocked, ready, quiet, runs, onced>>
    BY DEF RwUnlock, At
  <1>2. cell["rwlock"] # 0 /\ r \in Object
    BY <1>1, OfObject DEF IInv, CellsOK, Cells
  <1>3. rwTold[t] \in {"read", "write"}
    BY <1>1 DEF IInv, RwOK, RwBegun, TypesOK
  <1>4. CASE r.isWrite
    <2> DEFINE o == [r EXCEPT !.isWrite = FALSE]
               d == [doing[t] EXCEPT !.step = "free"]
    <2>1. Update("rwlock", o) /\ doing' = [doing EXCEPT ![t].step = "free"] /\ UNCHANGED rwTold
      BY <1>4 DEF RwUnlock, Step
    <2>2. /\ o \in Object /\ o.waiting = r.waiting /\ o.owner = r.owner
          /\ o.readers = r.readers /\ o.isWrite = FALSE
      BY <1>2 DEF Object
    <2>3. /\ d \in [step : Steps, cell : Cells, how : Hows]
          /\ d.step = "free" /\ d.cell = "rwlock" /\ d.how = doing[t].how
          /\ doing' = [doing EXCEPT ![t] = d]
      BY <1>1, <2>1, DoingTyped DEF Steps
    <2>4. r.owner = t /\ r.readers = {} /\ rwTold[t] = "write"
      <3>1. r.owner \in Threads
        BY <1>2, <1>4 DEF IInv, RwOK, Object
      <3>2. r.readers = {}
        BY <1>2, <3>1 DEF IInv, RwOK
      <3>3. rwTold[t] = "write"
        BY <1>2, <1>3, <3>2 DEF IInv, RwOK
      <3>4. QED
        BY <1>2, <3>2, <3>3 DEF IInv, RwOK
    <2>5. rwTold' = [rwTold EXCEPT ![t] = "write"]
      BY <2>1, <2>4 DEF IInv, TypesOK
    <2> HIDE DEF o, d
    <2>6. /\ TypesOK' /\ CellsOK' /\ MutexOK' /\ CondOK' /\ OnceOK'
          /\ Of("rwlock")' = o /\ doing'[t] = d /\ rwTold'[t] = "write"
          /\ \A u \in Threads : u # t => doing'[u] = doing[u] /\ rwTold'[u] = rwTold[u]
      <3>1. InRw(t) /\ RwPlace(d) /\ "write" \in Modes
        BY <1>1, <2>3 DEF InRw, RwPlace, Modes
      <3>2. /\ o \in Object /\ Update("rwlock", o) /\ o.waiting = Of("rwlock").waiting
            /\ doing' = [doing EXCEPT ![t] = d] /\ rwTold' = [rwTold EXCEPT ![t] = "write"]
            /\ UNCHANGED <<cell, isInit, told, relocked, ready, quiet, runs, onced>>
        BY <1>1, <2>1, <2>2, <2>3, <2>5
      <3>3. QED
        BY <1>2, <3>1, <3>2, RwWritten
    <2>7. RwOK'
      BY <1>1, <1>2, <2>2, <2>3, <2>4, <2>6, NoThreadAssumption DEF IInv, RwOK, RwBegun
    <2>8. QED
      BY <2>6, <2>7 DEF IInv
  <1>5. CASE ~r.isWrite
    <2> DEFINE o == [r EXCEPT !.readers = r.readers \ {t}]
    <2>1. /\ Update("rwlock", o) /\ rwTold' = [rwTold EXCEPT ![t] = "none"]
          /\ doing' = [doing EXCEPT ![t] = Out]
      BY <1>5 DEF RwUnlock, RwReturn, Return
    <2>2. /\ o \in Object /\ o.waiting = r.waiting /\ o.owner = r.owner
          /\ o.readers = r.readers \ {t} /\ o.isWrite = r.isWrite
      BY <1>2 DEF Object
    <2>3. InRw(t) /\ RwPlace(Out) /\ "none" \in Modes
      BY <1>1, DoingTyped DEF InRw, RwPlace, Modes
    <2>4. rwTold[t] = "read"
      BY <1>1, <1>2, <1>3, <1>5 DEF IInv, RwOK
    <2> HIDE DEF o
    <2>5. /\ TypesOK' /\ CellsOK' /\ MutexOK' /\ CondOK' /\ OnceOK'
          /\ Of("rwlock")' = o /\ doing'[t] = Out /\ rwTold'[t] = "none"
          /\ \A u \in Threads : u # t => doing'[u] = doing[u] /\ rwTold'[u] = rwTold[u]
      BY <1>1, <1>2, <2>1, <2>2, <2>3, RwWritten
    <2>6. r.owner = NoThread
      BY <1>2, <2>4 DEF IInv, RwOK, Object
    <2>7. RwOK'
      BY <1>1, <1>2, <2>2, <2>4, <2>5, <2>6, NoThreadAssumption DEF IInv, RwOK, RwBegun, Out
    <2>8. QED
      BY <2>5, <2>7 DEF IInv
  <1>6. QED
    BY <1>4, <1>5

LEMMA RwFreeStep ==
    ASSUME IInv, NEW t \in Threads, RwFree(t)
    PROVE  IInv'
  <1> DEFINE r == Of("rwlock")
             o == [r EXCEPT !.owner = NoThread]
  <1>1. /\ doing[t].step = "free" /\ Update("rwlock", o)
        /\ rwTold' = [rwTold EXCEPT ![t] = "none"] /\ doing' = [doing EXCEPT ![t] = Out]
        /\ UNCHANGED <<cell, isInit, told, relocked, ready, quiet, runs, onced>>
    BY DEF RwFree, RwReturn, Return
  <1>2. doing[t].cell = "rwlock" /\ cell["rwlock"] # 0
    BY <1>1 DEF IInv, CellsOK
  <1>3. r.owner = t /\ r.readers = {} /\ ~r.isWrite
    BY <1>1, <1>2 DEF IInv, RwOK
  <1>4. /\ o \in Object /\ o.waiting = r.waiting /\ o.owner = NoThread
        /\ o.readers = {} /\ o.isWrite = FALSE
    BY <1>2, <1>3, OfObject DEF IInv, Cells, Object
  <1>5. InRw(t) /\ RwPlace(Out) /\ "none" \in Modes
    BY <1>1, <1>2, DoingTyped DEF InRw, RwPlace, Modes
  <1> HIDE DEF o
  <1>6. /\ TypesOK' /\ CellsOK' /\ MutexOK' /\ CondOK' /\ OnceOK'
        /\ Of("rwlock")' = o /\ doing'[t] = Out /\ rwTold'[t] = "none"
        /\ \A u \in Threads : u # t => doing'[u] = doing[u] /\ rwTold'[u] = rwTold[u]
    BY <1>1, <1>2, <1>4, <1>5, RwWritten
  <1>7. RwOK'
    BY <1>1, <1>2, <1>3, <1>4, <1>6, NoThreadAssumption DEF IInv, RwOK, RwBegun, Out
  <1>8. QED
    BY <1>6, <1>7 DEF IInv
-----------------------------------------------------------------------------
InOnce(t) == doing[t].cell = "once" /\ doing[t].step \in {"enter", "look", "routine", "unlock"}
OncePlace(d) ==
    /\ d \in [step : Steps, cell : Cells, how : Hows]
    /\ d = Out \/ (d.step \in {"look", "routine", "unlock"} /\ d.cell = "once")

\* The same, of the once control, which the read-write locks do not see.
LEMMA OnceWritten ==
    ASSUME IInv, NEW t \in Threads, cell["once"] # 0,
           NEW o \in Object, Update("once", o), o.waiting = Of("once").waiting,
           UNCHANGED <<cell, told, relocked, rwTold, ready, quiet>>,
           InOnce(t), NEW d, OncePlace(d), doing' = [doing EXCEPT ![t] = d],
           isInit' \in BOOLEAN, runs' \in Nat, onced' \subseteq Threads
    PROVE  /\ TypesOK' /\ CellsOK' /\ MutexOK' /\ CondOK' /\ RwOK'
           /\ Of("once")' = o /\ doing'[t] = d
           /\ \A u \in Threads : u # t => doing'[u] = doing[u]
  <1>1. rwTold' \in [Threads -> {"none", "read", "write"}]
    BY DEF IInv, TypesOK
  <1>2. /\ TypesOK' /\ CellsOK' /\ MutexOK' /\ CondOK'
        /\ Of("once")' = o /\ doing'[t] = d
        /\ \A e \in Cells : e # "once" /\ cell[e] # 0 => Of(e)' = Of(e)
        /\ \A u \in Threads : u # t => doing'[u] = doing[u]
    BY <1>1, OtherWritten DEF InOnce, OncePlace
  <1>3. RwOK'
    <2>1. \A u \in Threads :
              \/ doing'[u] = doing[u]
              \/ /\ ~RwBegun(u)' /\ doing[u].step \notin {"mark", "free"}
                 /\ doing'[u].step \notin {"mark", "free"}
      BY <1>2 DEF RwBegun, Out, InOnce, OncePlace
    <2>2. QED
      BY <1>2, <2>1, RwKept DEF Cells
  <1>4. QED
    BY <1>2, <1>3

\* What is the object of the once control, when a step leaves it alone.
LEMMA OnceObject ==
    ASSUME IInv, cell["once"] # 0
    PROVE  /\ Of("once") \in Object
           /\ UNCHANGED objects => Update("once", Of("once"))
  <1>1. cell["once"] \in 1..Len(objects) /\ objects \in Seq(Object)
    BY DEF IInv, TypesOK, Cells
  <1>2. QED
    BY <1>1 DEF Of, Update

LEMMA OnceLockStep ==
    ASSUME IInv, NEW t \in Threads, OnceLock(t)
    PROVE  IInv'
  <1> DEFINE o == Locked(Of("once"), t)
             d == [doing[t] EXCEPT !.step = "look"]
  <1>1. /\ doing[t].step = "enter" /\ doing[t].cell = "once"
        /\ MayLock(Of("once"), t) /\ Update("once", o)
        /\ doing' = [doing EXCEPT ![t].step = "look"]
        /\ UNCHANGED <<cell, isInit, told, relocked, rwTold, ready, quiet, runs, onced>>
    BY DEF OnceLock, At, Step, guest
  <1>2. cell["once"] # 0 /\ ~OnceHolder(t)
    BY <1>1 DEF IInv, CellsOK, OnceHolder
  <1>3. Of("once").owner = NoThread /\ Of("once").count = 0
    BY <1>1, <1>2 DEF IInv, OnceOK, MayLock
  <1>4. o \in Object /\ o.waiting = Of("once").waiting /\ o.owner = t /\ o.count = 1
    BY <1>2, <1>3, OnceObject, LockFacts
  <1>5. d.step = "look" /\ InOnce(t) /\ OncePlace(d) /\ doing' = [doing EXCEPT ![t] = d]
    BY <1>1, DoingTyped DEF InOnce, OncePlace, Steps
  <1>6. isInit' \in BOOLEAN /\ runs' \in Nat /\ onced' \subseteq Threads
    BY <1>1 DEF IInv, TypesOK
  <1> HIDE DEF o, d
  <1>7. /\ TypesOK' /\ CellsOK' /\ MutexOK' /\ CondOK' /\ RwOK'
        /\ Of("once")' = o /\ doing'[t] = d
        /\ \A u \in Threads : u # t => doing'[u] = doing[u]
    BY <1>1, <1>2, <1>4, <1>5, <1>6, OnceWritten
  <1>8. \A u \in Threads : ~OnceHolder(u)
    BY <1>2, <1>3, NoThreadAssumption DEF IInv, OnceOK
  <1>9. \A u \in Threads : u # t => doing'[u].step \notin {"look", "routine", "unlock"}
    BY <1>7, <1>8 DEF OnceHolder
  <1>10. doing'[t].step = "look"
    BY <1>5, <1>7
  <1>11. /\ cell'["once"] # 0 /\ Of("once")'.owner = t /\ Of("once")'.count = 1
         /\ UNCHANGED <<isInit, runs, onced>>
    BY <1>1, <1>2, <1>4, <1>7
  <1>12. (isInit => runs = 1) /\ (runs = 0 \/ isInit) /\ (onced # {} => isInit)
    BY <1>8 DEF IInv, OnceOK, OnceHolder
  <1>13. OnceOK'
    BY <1>9, <1>10, <1>11, <1>12, NoThreadAssumption DEF OnceOK, OnceHolder
  <1>14. QED
    BY <1>7, <1>13 DEF IInv

\* Of two that come to look, one has the mutex: nobody else is in the routine.
LEMMA OnceLookStep ==
    ASSUME IInv, NEW t \in Threads, OnceLook(t)
    PROVE  IInv'
  <1> DEFINE o == Of("once")
             d == [doing[t] EXCEPT !.step = IF isInit THEN "unlock" ELSE "routine"]
  <1>1. /\ doing[t].step = "look"
        /\ doing' = [doing EXCEPT ![t].step = IF isInit THEN "unlock" ELSE "routine"]
        /\ runs' = IF isInit THEN runs ELSE runs + 1
        /\ UNCHANGED <<objects, cell, isInit, told, relocked, rwTold, ready, quiet, onced>>
    BY DEF OnceLook, Step
  <1>2. cell["once"] # 0 /\ doing[t].cell = "once"
    BY <1>1 DEF IInv, CellsOK
  <1>3. o \in Object /\ Update("once", o) /\ o.owner = t /\ o.count = 1
    BY <1>1, <1>2, OnceObject DEF IInv, OnceOK, OnceHolder
  <1>4. /\ d.step = IF isInit THEN "unlock" ELSE "routine"
        /\ InOnce(t) /\ OncePlace(d) /\ doing' = [doing EXCEPT ![t] = d]
    <2> DEFINE s == IF isInit THEN "unlock" ELSE "routine"
    <2>1. s \in Steps /\ s \in {"look", "routine", "unlock"}
      BY DEF Steps
    <2> HIDE DEF s
    <2>2. /\ d \in [step : Steps, cell : Cells, how : Hows]
          /\ d.step = s /\ d.cell = "once" /\ d.how = doing[t].how
          /\ doing' = [doing EXCEPT ![t] = d]
      BY <1>1, <1>2, <2>1, DoingTyped DEF s
    <2>3. InOnce(t) /\ OncePlace(d)
      BY <1>1, <1>2, <2>1, <2>2 DEF InOnce, OncePlace
    <2>4. QED
      BY <2>2, <2>3 DEF s
  <1>5. isInit' \in BOOLEAN /\ runs' \in Nat /\ onced' \subseteq Threads
    BY <1>1 DEF IInv, TypesOK
  <1> HIDE DEF d
  <1>6. /\ TypesOK' /\ CellsOK' /\ MutexOK' /\ CondOK' /\ RwOK'
        /\ Of("once")' = o /\ doing'[t] = d
        /\ \A u \in Threads : u # t => doing'[u] = doing[u]
    BY <1>1, <1>2, <1>3, <1>4, <1>5, OnceWritten
  <1>7. \A u \in Threads : u # t => ~OnceHolder(u)
    BY <1>2, <1>3 DEF IInv, OnceOK
  <1>8. ~isInit => runs = 0
    BY <1>1, <1>7 DEF IInv, OnceOK, OnceHolder
  <1>9. OnceOK'
    BY <1>1, <1>2, <1>3, <1>4, <1>6, <1>7, <1>8, NoThreadAssumption DEF IInv, OnceOK, OnceHolder
  <1>10. QED
    BY <1>6, <1>9 DEF IInv

LEMMA OnceDoneStep ==
    ASSUME IInv, NEW t \in Threads, OnceDone(t)
    PROVE  IInv'
  <1> DEFINE o == Of("once")
             d == [doing[t] EXCEPT !.step = "unlock"]
  <1>1. /\ doing[t].step = "routine" /\ isInit' = TRUE
        /\ doing' = [doing EXCEPT ![t].step = "unlock"]
        /\ UNCHANGED <<objects, cell, told, relocked, rwTold, ready, quiet, runs, onced>>
    BY DEF OnceDone, Step, guest
  <1>2. cell["once"] # 0 /\ doing[t].cell = "once"
    BY <1>1 DEF IInv, CellsOK
  <1>3. o \in Object /\ Update("once", o) /\ o.owner = t /\ o.count = 1 /\ runs = 1
    BY <1>1, <1>2, OnceObject DEF IInv, OnceOK, OnceHolder
  <1>4. d.step = "unlock" /\ InOnce(t) /\ OncePlace(d) /\ doing' = [doing EXCEPT ![t] = d]
    BY <1>1, <1>2, DoingTyped DEF InOnce, OncePlace, Steps
  <1>5. isInit' \in BOOLEAN /\ runs' \in Nat /\ onced' \subseteq Threads
    BY <1>1 DEF IInv, TypesOK
  <1> HIDE DEF d
  <1>6. /\ TypesOK' /\ CellsOK' /\ MutexOK' /\ CondOK' /\ RwOK'
        /\ Of("once")' = o /\ doing'[t] = d
        /\ \A u \in Threads : u # t => doing'[u] = doing[u]
    BY <1>1, <1>2, <1>3, <1>4, <1>5, OnceWritten
  <1>7. \A u \in Threads : u # t => ~OnceHolder(u)
    BY <1>2, <1>3 DEF IInv, OnceOK
  <1>8. OnceOK'
    BY <1>1, <1>2, <1>3, <1>4, <1>6, <1>7, NoThreadAssumption DEF IInv, OnceOK, OnceHolder
  <1>9. QED
    BY <1>6, <1>8 DEF IInv

LEMMA OnceUnlockStep ==
    ASSUME IInv, NEW t \in Threads, OnceUnlock(t)
    PROVE  IInv'
  <1> DEFINE o == Unlocked(Of("once"))
  <1>1. /\ doing[t].step = "unlock" /\ doing' = [doing EXCEPT ![t] = Out]
        /\ onced' = onced \cup {t}
        /\ UNCHANGED <<cell, isInit, told, relocked, rwTold, ready, quiet, runs>>
    BY DEF OnceUnlock, Return
  <1>2. cell["once"] # 0 /\ doing[t].cell = "once" /\ isInit
    BY <1>1 DEF IInv, CellsOK, OnceOK
  <1>3. Of("once").owner = t /\ Of("once").count = 1
    BY <1>1, <1>2 DEF IInv, OnceOK, OnceHolder
  <1>4. Update("once", o)
    BY <1>3 DEF OnceUnlock
  <1>5. o \in Object /\ o.waiting = Of("once").waiting /\ o.owner = NoThread /\ o.count = 0
    BY <1>2, <1>3, OnceObject, LockFacts
  <1>6. InOnce(t) /\ OncePlace(Out)
    BY <1>1, <1>2, DoingTyped DEF InOnce, OncePlace
  <1>7. isInit' \in BOOLEAN /\ runs' \in Nat /\ onced' \subseteq Threads
    BY <1>1 DEF IInv, TypesOK
  <1> HIDE DEF o
  <1>8. /\ TypesOK' /\ CellsOK' /\ MutexOK' /\ CondOK' /\ RwOK'
        /\ Of("once")' = o /\ doing'[t] = Out
        /\ \A u \in Threads : u # t => doing'[u] = doing[u]
    BY <1>1, <1>2, <1>4, <1>5, <1>6, <1>7, OnceWritten
  <1>9. \A u \in Threads : u # t => ~OnceHolder(u)
    BY <1>2, <1>3 DEF IInv, OnceOK
  <1>10. OnceOK'
    BY <1>1, <1>2, <1>5, <1>8, <1>9, NoThreadAssumption DEF IInv, OnceOK, OnceHolder, Out
  <1>11. QED
    BY <1>8, <1>10 DEF IInv

-----------------------------------------------------------------------------
LEMMA NextStep == IInv /\ [Next]_vars => IInv'
  <1>1. SUFFICES ASSUME IInv, [Next]_vars PROVE IInv'
    OBVIOUS
  <1>2. CASE UNCHANGED vars
    BY <1>1, <1>2, Untouched DEF vars
  <1>3. ASSUME NEW t \in Threads, Advance(t) PROVE IInv'
    BY <1>1, <1>3, CreateStep, LockStep, TryLockStep, CondWaitStep, CondUnlockStep, CondWakeStep,
       CondRelockStep, CondNotifyStep, RwReadStep, RwWriteStep, RwMarkStep, RwUnlockStep,
       RwFreeStep, OnceLockStep, OnceLookStep, OnceDoneStep, OnceUnlockStep DEF Advance
  <1>4. ASSUME NEW t \in Threads, Unlock(t) \/ SetReady(t) PROVE IInv'
    BY <1>1, <1>4, UnlockStep, SetReadyStep
  <1>5. ASSUME NEW t \in Threads, NEW how \in {"lock", "try", "timed"}, Begin(t, "mutex", how)
        PROVE  IInv'
    <2>1. how \in Hows /\ "mutex" \in Cells
      BY <1>5 DEF Hows, Cells
    <2>2. QED
      BY <1>1, <1>5, <2>1, BeginStep
  <1>6. ASSUME NEW t \in Threads, NEW how \in Waits, BeginWait(t, how) PROVE IInv'
    <2>1. /\ how \in Hows /\ "cond" \in Cells /\ told[t] > 0 /\ ~ready /\ Begin(t, "cond", how)
      BY <1>6 DEF Hows, Cells, BeginWait
    <2>2. QED
      BY <1>1, <2>1, BeginStep
  <1>7. ASSUME NEW t \in Threads, NEW how \in {"signal", "broadcast"}, Begin(t, "cond", how)
        PROVE  IInv'
    <2>1. how \in Hows /\ "cond" \in Cells /\ how \notin Waits
      BY <1>7 DEF Hows, Cells, Waits
    <2>2. QED
      BY <1>1, <1>7, <2>1, BeginStep
  <1>8. ASSUME NEW t \in Threads,
               NEW how \in {"rdlock", "tryrdlock", "wrlock", "trywrlock", "rwunlock"}, BeginRw(t, how)
        PROVE  IInv'
    <2>1. /\ how \in Hows /\ "rwlock" \in Cells /\ Begin(t, "rwlock", how)
          /\ rwTold[t] = "none" <=> how # "rwunlock"
      BY <1>8 DEF Hows, Cells, BeginRw
    <2>2. QED
      BY <1>1, <2>1, BeginStep
  <1>9. ASSUME NEW t \in Threads, Begin(t, "once", "once") PROVE IInv'
    <2>1. "once" \in Hows /\ "once" \in Cells
      BY DEF Hows, Cells
    <2>2. QED
      BY <1>1, <1>9, <2>1, BeginStep
  <1>10. ASSUME NEW recursive \in BOOLEAN, InitObject("mutex", recursive) PROVE IInv'
    BY <1>1, <1>10, InitObjectStep DEF Cells
  <1>11. ASSUME NEW c \in {"cond", "rwlock"}, InitObject(c, FALSE) PROVE IInv'
    BY <1>1, <1>11, InitObjectStep DEF Cells
  <1>12. ASSUME NEW c \in {"mutex", "cond", "rwlock"}, DestroyObject(c) PROVE IInv'
    BY <1>1, <1>12, DestroyObjectStep DEF Cells
  <1>13. QED
    BY <1>1, <1>2, <1>3, <1>4, <1>5, <1>6, <1>7, <1>8, <1>9, <1>10, <1>11, <1>12 DEF Next, Waits

\* All parts of the invariant hold together, for any threads and any calls on the
\* objects of pthread.cpp.
THEOREM IInvAlways == Spec => []IInv
  BY InitStep, NextStep, PTL DEF Spec

\* Whoever was told that it has the mutex owns it that often, whichever thread created
\* it, while nobody got Ok for a relock (pthread.cpp:540).
THEOREM MutexHeldAsTold == Spec => []HeldAsTold
  <1>1. IInv => HeldAsTold
    BY DEF IInv, HeldAsTold, MutexOK, CellsOK, TypesOK
  <1>2. QED
    BY <1>1, IInvAlways, PTL

\* Outside of all calls a thread holds the read-write lock in the mode it was told: the
\* plain flag that rwlockUnlock reads (pthread.cpp:740) is right when it is read.
THEOREM RwlockHeldAsTold == Spec => []RwHeldAsTold
  <1>1. IInv => RwHeldAsTold
    <2>1. \A t \in Threads : doing[t] = Out => doing[t].step # "mark"
      BY DEF Out
    <2>2. QED
      BY <2>1 DEF IInv, RwHeldAsTold, RwOK
  <1>2. QED
    BY <1>1, IInvAlways, PTL

\* init_routine runs once, and is over before once returns (pthread.cpp:1036).
THEOREM RoutineRunsOnce == Spec => []OnceRunsOnce
  <1>1. IInv => OnceRunsOnce
    BY DEF IInv, OnceRunsOnce, OnceOK
  <1>2. QED
    BY <1>1, IInvAlways, PTL

\* No broadcast is lost: a thread that goes to sleep is in the list before it leaves the
\* mutex (pthread.cpp:367).
THEOREM BroadcastReachesAll == Spec => []NoLostBroadcast
  <1>1. IInv => NoLostBroadcast
    <2>1. TypesOK => DOMAIN objects = 1..Len(objects)
      BY DEF TypesOK
    <2>2. QED
      BY <2>1 DEF IInv, NoLostBroadcast, CondOK
  <1>2. QED
    BY <1>1, IInvAlways, PTL
\* No two threads have been told of locks that exclude each other: a boost mutex has one
\* owner, and a read-write lock no reader beside its owner (pthread.cpp:691, 741).
THEOREM LocksAreExclusive == Spec => []LocksExclude
  <1>1. ASSUME IInv, NEW t \in Threads, NEW u \in Threads, t # u, relocked = {}
        PROVE  ~(told[t] > 0 /\ told[u] > 0)
    <2>1. told[t] > 0 => cell["mutex"] # 0 /\ Of("mutex").owner = t
      BY <1>1 DEF IInv, CellsOK, MutexOK
    <2>2. told[u] > 0 => cell["mutex"] # 0 /\ Of("mutex").owner = u
      BY <1>1 DEF IInv, CellsOK, MutexOK
    <2>3. QED
      BY <1>1, <2>1, <2>2
  <1>2. ASSUME IInv, NEW t \in Threads, NEW u \in Threads, t # u, rwTold[t] = "write"
        PROVE  rwTold[u] = "none"
    <2>1. cell["rwlock"] # 0 /\ Of("rwlock").owner = t
      BY <1>2 DEF IInv, RwOK
    <2>2. Of("rwlock").owner # u /\ u \notin Of("rwlock").readers
      BY <1>2, <2>1 DEF IInv, RwOK
    <2>3. rwTold[u] # "write" /\ rwTold[u] # "read"
      BY <1>2, <2>1, <2>2 DEF IInv, RwOK
    <2>4. QED
      BY <1>2, <2>3 DEF IInv, TypesOK
  <1>3. IInv => LocksExclude
    BY <1>1, <1>2 DEF LocksExclude
  <1>4. QED
    BY <1>3, IInvAlways, PTL

\* A lazily created object is created once: only calls that find nobody inside any call
\* replace one, and a creation looks at the pointer again (pthread.cpp:509).
THEOREM ObjectsAreMadeOnce == Spec => MadeOnce
  <1>1. ASSUME IInv, [Next]_vars, NEW c \in Cells, NEW u \in Threads, doing[u] # Out, cell[c] # 0
        PROVE  cell'[c] = cell[c]
    <2>1. \A d \in Cells : ~Unused(d)
      BY <1>1 DEF Unused
    <2>2. ASSUME NEW t \in Threads, Create(t) PROVE cell'[c] = cell[c]
      BY <1>1, <2>2 DEF Create, IInv, TypesOK
    <2>3. ASSUME NEW t \in Threads, Advance(t), ~Create(t) PROVE cell' = cell
      <3>1. CASE Lock(t) \/ TryLock(t)
        BY <3>1 DEF Lock, TryLock
      <3>2. CASE CondWait(t) \/ CondUnlock(t) \/ CondWake(t) \/ CondRelock(t) \/ CondNotify(t)
        BY <3>2 DEF CondWait, CondUnlock, CondWake, CondRelock, CondNotify
      <3>3. CASE RwRead(t) \/ RwWrite(t) \/ RwMark(t) \/ RwUnlock(t) \/ RwFree(t)
        BY <3>3 DEF RwRead, RwWrite, RwMark, RwUnlock, RwFree
      <3>4. CASE OnceLock(t) \/ OnceLook(t) \/ OnceDone(t) \/ OnceUnlock(t)
        BY <3>4 DEF OnceLock, OnceLook, OnceDone, OnceUnlock
      <3>5. QED
        BY <2>3, <3>1, <3>2, <3>3, <3>4 DEF Advance
    <2>4. ASSUME NEW d \in Cells, (\E b \in BOOLEAN : InitObject(d, b)) \/ DestroyObject(d)
          PROVE  FALSE
      BY <2>1, <2>4 DEF InitObject, DestroyObject
    <2>5. ASSUME NEW t \in Threads, Unlock(t) \/ SetReady(t) PROVE cell' = cell
      BY <2>5 DEF Unlock, SetReady
    <2>6. ASSUME NEW t \in Threads, NEW d, NEW how,
                 Begin(t, d, how) \/ BeginWait(t, how) \/ BeginRw(t, how)
          PROVE  cell' = cell
      BY <2>6 DEF BeginWait, BeginRw, Begin
    <2>7. "mutex" \in Cells /\ "cond" \in Cells /\ "rwlock" \in Cells
      BY DEF Cells
    <2>8. CASE UNCHANGED vars
      BY <2>8 DEF vars
    <2>9. ASSUME NEW t \in Threads,
                 \/ Advance(t) \/ Unlock(t) \/ SetReady(t)
                 \/ \E how \in {"lock", "try", "timed"} : Begin(t, "mutex", how)
                 \/ \E how \in {"wait", "timedwait"} : BeginWait(t, how)
                 \/ \E how \in {"signal", "broadcast"} : Begin(t, "cond", how)
                 \/ \E how \in {"rdlock", "tryrdlock", "wrlock", "trywrlock", "rwunlock"} : BeginRw(t, how)
                 \/ Begin(t, "once", "once")
          PROVE  cell'[c] = cell[c]
      BY <2>2, <2>3, <2>5, <2>6, <2>9
    <2>10. QED
      BY <1>1, <2>4, <2>7, <2>8, <2>9 DEF Next
  <1>2. IInv /\ [Next]_vars =>
            [\A c \in Cells : (\E t \in Threads : doing[t] # Out) /\ cell[c] # 0 => cell'[c] = cell[c]]_vars
    BY <1>1
  <1>3. QED
    BY <1>2, IInvAlways, PTL DEF Spec, MadeOnce

=============================================================================
