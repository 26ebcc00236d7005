------------------------------ MODULE EventFlag ------------------------------
(***************************************************************************)
(* The kernel event flag (core/kernel/eventflag.cpp): a word of bits that  *)
(* threads set and clear, wait on, cancel and finally delete.  Every call  *)
(* runs under m_mutex_cond; a thread gives the mutex up only inside a      *)
(* condition wait.  The code between two such points is one action here.   *)
(*                                                                         *)
(* A thread asleep on a condition variable runs again only after a notify  *)
(* (it is then in `woken') or after its own timeout.  A spurious wakeup    *)
(* re-evaluates the predicate and sleeps again, so it is a stutter         *)
(* wherever NoLostWakeup holds.                                            *)
(***************************************************************************)
EXTENDS Naturals, FiniteSets, GuestThreads

CONSTANTS
    Bits,       \* the bit positions of m_bits
    BitArgs,    \* the masks handed to set, clear and cancel
    WaitArgs    \* the argument records of wait and poll

NoWait == [bits |-> {}, wait_mode |-> "Or", clear_mode |-> "None", timed |-> FALSE]

ASSUME ThreadsAssumption == IsFiniteSet(Threads)
ASSUME ArgsAssumption ==
    /\ BitArgs \subseteq SUBSET Bits
    /\ WaitArgs \subseteq [bits : SUBSET Bits, wait_mode : {"And", "Or"},
                           clear_mode : {"None", "All", "Bits"}, timed : BOOLEAN]

VARIABLES
    m_status,          \* "Set", "Canceled" or "Deleted"
    m_waitingThreads,  \* the waiters the flag has counted in and not yet out
    m_singleThread,    \* only one waiter is admitted at a time
    m_bits,
    alive,             \* FALSE once the destructor has returned
    at,                \* where each thread is: idle, or asleep in a call
    waitArg,           \* the arguments of a thread asleep in wait
    bitArg,            \* the mask of a thread asleep in set, clear or cancel
    woken,             \* the sleeping threads that a notify has reached
    ret                \* what each thread's last wait returned

flagVars == <<m_status, m_waitingThreads, m_singleThread, m_bits, alive, at,
          waitArg, bitArg, woken, ret>>

\* Asleep on m_cond_var, on m_cond_var_status until the status is Set, and on
\* m_cond_var_status until the last waiter is out.
Waiting  == {t \in Threads : at[t] = "wait"}
Deferred == {t \in Threads : at[t] \in {"set", "clear", "cancel", "delete"}}
Draining == {t \in Threads : at[t] \in {"cancelDrain", "deleteDrain"}}

\* waitFunc, the predicate of the two waits on m_cond_var.
Satisfied(w) ==
    \/ m_status \in {"Canceled", "Deleted"}
    \/ w.wait_mode = "And" /\ w.bits \subseteq m_bits
    \/ w.wait_mode = "Or" /\ w.bits \cap m_bits # {}

\* What the clear mode of a satisfied wait takes out of the bits.
Cleared(w) ==
    CASE w.clear_mode = "All"  -> m_bits
      [] w.clear_mode = "Bits" -> w.bits
      [] OTHER                 -> {}

FlagInit ==
    /\ m_status = "Set"
    /\ m_waitingThreads = 0
    /\ m_singleThread \in BOOLEAN
    /\ m_bits \in BitArgs
    /\ alive = TRUE
    /\ at = [t \in Threads |-> "idle"]
    /\ waitArg = [t \in Threads |-> NoWait]
    /\ bitArg = [t \in Threads |-> {}]
    /\ woken = {}
    /\ ret = [t \in Threads |-> "none"]

-----------------------------------------------------------------------------

\* Mutant of Leave: the exit forgets m_cond_var_status.
LeaveSilent(t, w, count) ==
    /\ m_waitingThreads' = count
    /\ at' = [at EXCEPT ![t] = "idle"]
    /\ waitArg' = [waitArg EXCEPT ![t] = NoWait]
    /\ woken' = woken \ {t}
    /\ ret' = [ret EXCEPT ![t] = IF m_status = "Canceled" THEN "ECANCELED" ELSE "Ok"]
    /\ UNCHANGED <<m_status, m_bits, m_singleThread, alive, bitArg>>

\* The end of wait once the predicate holds: the waiter is counted out and
\* m_cond_var_status notified before the result is decided.
Leave(t, w, count) ==
    /\ m_waitingThreads' = count
    /\ at' = [at EXCEPT ![t] = "idle"]
    /\ waitArg' = [waitArg EXCEPT ![t] = NoWait]
    /\ woken' = (woken \ {t}) \cup Deferred \cup Draining
    /\ ret' = [ret EXCEPT ![t] = CASE m_status = "Canceled" -> "ECANCELED"
                                   [] m_status = "Deleted"  -> "EINTR"
                                   [] OTHER                 -> "Ok"]
    /\ m_bits' = IF m_status = "Set" THEN m_bits \ Cleared(w) ELSE m_bits
    /\ UNCHANGED <<m_status, m_singleThread, alive, bitArg>>

\* wait is called: refused, satisfied at once, or put to sleep.
WaitRefused(t) ==
    /\ m_singleThread /\ m_waitingThreads > 0
    /\ ret' = [ret EXCEPT ![t] = "EPERM"]
    /\ UNCHANGED <<m_status, m_waitingThreads, m_singleThread, m_bits, alive,
                   at, waitArg, bitArg, woken>>

WaitSleep(t, w) ==
    /\ m_waitingThreads' = m_waitingThreads + 1
    /\ at' = [at EXCEPT ![t] = "wait"]
    /\ waitArg' = [waitArg EXCEPT ![t] = w]
    /\ ret' = [ret EXCEPT ![t] = "none"]
    /\ UNCHANGED <<m_status, m_singleThread, m_bits, alive, bitArg, woken>>

\* Mutant of Wait: the early exit counts out a waiter it never counted in.
WaitUncounted(t, w) ==
    /\ alive /\ at[t] = "idle"
    /\ IF Satisfied(w) THEN Leave(t, w, m_waitingThreads - 1) ELSE WaitSleep(t, w)

Wait(t, w) ==
    /\ alive /\ at[t] = "idle"
    /\ \/ WaitRefused(t)
       \/ /\ ~(m_singleThread /\ m_waitingThreads > 0)
          /\ IF Satisfied(w) THEN Leave(t, w, m_waitingThreads) ELSE WaitSleep(t, w)

\* A notified waiter takes the mutex back and evaluates the predicate.
WaitResume(t) ==
    /\ alive /\ at[t] = "wait" /\ t \in woken
    /\ IF Satisfied(waitArg[t])
       THEN Leave(t, waitArg[t], m_waitingThreads - 1)
       ELSE /\ woken' = woken \ {t}
            /\ UNCHANGED <<m_status, m_waitingThreads, m_singleThread, m_bits,
                           alive, at, waitArg, bitArg, ret>>

\* Mutants of WaitTimeout: the timeout is believed without evaluating the
\* predicate again; the waiter is not counted out.
WaitTimeoutBelieved(t) ==
    /\ alive /\ at[t] = "wait" /\ waitArg[t].timed
    /\ m_waitingThreads' = m_waitingThreads - 1
    /\ at' = [at EXCEPT ![t] = "idle"]
    /\ waitArg' = [waitArg EXCEPT ![t] = NoWait]
    /\ woken' = woken \ {t}
    /\ ret' = [ret EXCEPT ![t] = "ETIMEDOUT"]
    /\ UNCHANGED <<m_status, m_singleThread, m_bits, alive, bitArg>>

WaitTimeoutUncounted(t) ==
    /\ alive /\ at[t] = "wait" /\ waitArg[t].timed
    /\ at' = [at EXCEPT ![t] = "idle"]
    /\ waitArg' = [waitArg EXCEPT ![t] = NoWait]
    /\ woken' = woken \ {t}
    /\ ret' = [ret EXCEPT ![t] = "ETIMEDOUT"]
    /\ UNCHANGED <<m_status, m_waitingThreads, m_singleThread, m_bits, alive, bitArg>>

\* The timer of wait_for fires.  wait_for evaluates the predicate once more
\* under the mutex, and gives up only when it is still false; that path counts
\* the waiter out and notifies nobody.
WaitTimeout(t) ==
    /\ alive /\ at[t] = "wait" /\ waitArg[t].timed
    /\ IF Satisfied(waitArg[t])
       THEN Leave(t, waitArg[t], m_waitingThreads - 1)
       ELSE /\ m_waitingThreads' = m_waitingThreads - 1
            /\ at' = [at EXCEPT ![t] = "idle"]
            /\ waitArg' = [waitArg EXCEPT ![t] = NoWait]
            /\ woken' = woken \ {t}
            /\ ret' = [ret EXCEPT ![t] = "ETIMEDOUT"]
            /\ UNCHANGED <<m_status, m_singleThread, m_bits, alive, bitArg>>

-----------------------------------------------------------------------------
\* A mask operation that finds a cancel or a delete in progress sleeps on
\* m_cond_var_status.
Defer(t, name, b) ==
    /\ m_status # "Set"
    /\ at' = [at EXCEPT ![t] = name]
    /\ bitArg' = [bitArg EXCEPT ![t] = b]
    /\ woken' = woken \ {t}
    /\ UNCHANGED <<m_status, m_waitingThreads, m_singleThread, m_bits, alive,
                   waitArg, ret>>

Set(t, b) ==
    /\ m_status = "Set"
    /\ m_bits' = m_bits \cup b
    /\ woken' = (woken \ {t}) \cup Waiting
    /\ at' = [at EXCEPT ![t] = "idle"]
    /\ bitArg' = [bitArg EXCEPT ![t] = {}]
    /\ UNCHANGED <<m_status, m_waitingThreads, m_singleThread, alive, waitArg, ret>>

Clear(t, b) ==
    /\ m_status = "Set"
    /\ m_bits' = m_bits \cap b
    /\ woken' = woken \ {t}
    /\ at' = [at EXCEPT ![t] = "idle"]
    /\ bitArg' = [bitArg EXCEPT ![t] = {}]
    /\ UNCHANGED <<m_status, m_waitingThreads, m_singleThread, alive, waitArg, ret>>

\* setStatus(Set) ends a cancel and notifies m_cond_var_status.
CancelEnd(t) ==
    /\ m_status' = "Set"
    /\ at' = [at EXCEPT ![t] = "idle"]
    /\ woken' = (woken \ {t}) \cup (Deferred \ {t}) \cup (Draining \ {t})

\* cancel overwrites the bits, wakes the waiters and stays until all are out;
\* with no waiter it runs to its end without giving up the mutex.
Cancel(t, b) ==
    /\ m_status = "Set"
    /\ m_bits' = b
    /\ bitArg' = [bitArg EXCEPT ![t] = {}]
    /\ IF m_waitingThreads = 0
       THEN CancelEnd(t)
       ELSE /\ m_status' = "Canceled"
            /\ at' = [at EXCEPT ![t] = "cancelDrain"]
            /\ woken' = (woken \ {t}) \cup Waiting
    /\ UNCHANGED <<m_waitingThreads, m_singleThread, alive, waitArg, ret>>

CancelDrained(t) ==
    /\ alive /\ at[t] = "cancelDrain" /\ t \in woken
    /\ IF m_waitingThreads = 0
       THEN CancelEnd(t)
       ELSE /\ woken' = woken \ {t}
            /\ UNCHANGED <<m_status, at>>
    /\ UNCHANGED <<m_waitingThreads, m_singleThread, m_bits, alive, waitArg,
                   bitArg, ret>>

\* Mutant of Delete: the destructor wakes the waiters and does not stay.
DeleteAtOnce(t) ==
    /\ m_status = "Set"
    /\ m_status' = "Deleted"
    /\ woken' = (woken \ {t}) \cup Waiting
    /\ alive' = FALSE
    /\ at' = [at EXCEPT ![t] = "idle"]
    /\ UNCHANGED <<m_waitingThreads, m_singleThread, m_bits, waitArg, bitArg, ret>>

\* ~KernelEventFlag.  Once it returns the object is gone.
Delete(t) ==
    /\ m_status = "Set"
    /\ m_status' = "Deleted"
    /\ woken' = (woken \ {t}) \cup Waiting
    /\ alive' = (m_waitingThreads # 0)
    /\ at' = [at EXCEPT ![t] = IF m_waitingThreads = 0 THEN "idle" ELSE "deleteDrain"]
    /\ UNCHANGED <<m_waitingThreads, m_singleThread, m_bits, waitArg, bitArg, ret>>

DeleteDrained(t) ==
    /\ alive /\ at[t] = "deleteDrain" /\ t \in woken
    /\ woken' = woken \ {t}
    /\ alive' = (m_waitingThreads # 0)
    /\ at' = [at EXCEPT ![t] = IF m_waitingThreads = 0 THEN "idle" ELSE @]
    /\ UNCHANGED <<m_status, m_waitingThreads, m_singleThread, m_bits, waitArg,
                   bitArg, ret>>

Call(t) ==
    /\ alive /\ at[t] = "idle"
    /\ \/ \E b \in BitArgs : Set(t, b) \/ Clear(t, b) \/ Cancel(t, b)
                             \/ \E name \in {"set", "clear", "cancel"} : Defer(t, name, b)
       \/ Delete(t) \/ Defer(t, "delete", {})

\* A thread asleep until the status is Set is notified: it goes on, or it finds
\* another cancel or delete in progress and sleeps again.
DeferredResume(t) ==
    /\ alive /\ t \in Deferred \cap woken
    /\ \/ at[t] = "set" /\ Set(t, bitArg[t])
       \/ at[t] = "clear" /\ Clear(t, bitArg[t])
       \/ at[t] = "cancel" /\ Cancel(t, bitArg[t])
       \/ at[t] = "delete" /\ Delete(t)
       \/ Defer(t, at[t], bitArg[t])

Resume(t) == WaitResume(t) \/ CancelDrained(t) \/ DeleteDrained(t) \/ DeferredResume(t)

FlagNext ==
    \E t \in Threads :
        \/ \E w \in WaitArgs : Wait(t, w)
        \/ Call(t)
        \/ WaitTimeout(t)
        \/ Resume(t)

FlagSpec == FlagInit /\ [][FlagNext]_flagVars

\* A notified thread is runnable and the mutex is held only for bounded
\* sections, so the host scheduler runs it eventually.  No caller is obliged to
\* make a call, and no timer is assumed to fire.
FlagFairSpec == FlagSpec /\ \A t \in Threads : WF_flagVars(Resume(t))

-----------------------------------------------------------------------------
TypeOK ==
    /\ m_status \in {"Set", "Canceled", "Deleted"}
    /\ m_waitingThreads \in Nat
    /\ m_singleThread \in BOOLEAN
    /\ m_bits \in SUBSET Bits
    /\ alive \in BOOLEAN
    /\ at \in [Threads -> {"idle", "wait", "set", "clear", "cancel", "delete",
                           "cancelDrain", "deleteDrain"}]
    /\ waitArg \in [Threads -> WaitArgs \cup {NoWait}]
    /\ bitArg \in [Threads -> SUBSET Bits]
    /\ woken \in SUBSET Threads
    /\ ret \in [Threads -> {"none", "Ok", "EPERM", "ETIMEDOUT", "ECANCELED", "EINTR"}]

\* m_waitingThreads is exactly the number of threads asleep in wait, over every
\* exit of wait (satisfied, timed out, cancelled, deleted).  cancel and the
\* destructor return on this count alone.
WaitersCounted == m_waitingThreads = Cardinality(Waiting)

\* A flag created for a single thread never has two waiters, although the test
\* and the increment of m_waitingThreads are far apart in time from the sleep.
SingleWaiter == m_singleThread => Cardinality(Waiting) <= 1

\* No thread sleeps through its condition: a thread that no notify has reached
\* still has a false predicate.  This is what makes the silent timeout exit of
\* wait harmless to cancel and to the destructor, which sleep on the count that
\* this exit decrements.
NoLostWakeup ==
    alive => \A t \in Threads \ woken :
        /\ t \in Waiting  => ~Satisfied(waitArg[t])
        /\ t \in Deferred => m_status # "Set"
        /\ t \in Draining => m_waitingThreads # 0

\* At most one thread is between the two halves of cancel or of the destructor,
\* and the status says which one: two overlapping cancels would each end the
\* other's drain.
OneDrain ==
    /\ \A s, t \in Draining : s = t
    /\ alive => (m_status = "Canceled" <=> \E t \in Threads : at[t] = "cancelDrain")
    /\ alive => (m_status = "Deleted"  <=> \E t \in Threads : at[t] = "deleteDrain")

\* What DrainEnds rests on.  While the flag drains, somebody is awake to carry on: the
\* drainer itself, or a waiter that will find its predicate true and leave by the exit
\* that notifies (the one of eventflag.cpp:126 does not).
DrainAwake ==
    alive /\ Draining # {} =>
        \E t \in woken : t \in Draining \/ (t \in Waiting /\ Satisfied(waitArg[t]))

\* Nobody starts to wait while the flag drains, so that the count the drainer sleeps on
\* (eventflag.cpp:63, 93) only goes down.
NoNewWaiters == [][m_status # "Set" => Waiting' \subseteq Waiting]_flagVars

\* The destructor does not return while a waiter still has to touch the object.
NoWaiterAfterDelete == ~alive => Waiting = {}

\* While cancel drains, nobody changes the bits it wrote: neither a deferred
\* set or clear nor the clear mode of a waiter on its way out.
CancelKeepsBits ==
    [][m_status = "Canceled" => m_bits' = m_bits]_flagVars

\* A thread that was asleep when cancel was called leaves with ECANCELED, even
\* when its timeout fires before it has the mutex back.
CancelledWaitersSeeIt ==
    [][\A t \in Threads :
          m_status = "Canceled" /\ at[t] = "wait" /\ at'[t] = "idle"
             => ret'[t] = "ECANCELED"]_flagVars

\* cancel and the destructor return, whatever new waiters, timeouts and other
\* cancels arrive meanwhile.
DrainEnds == \A t \in Threads : (at[t] \in {"cancelDrain", "deleteDrain"}) ~> (at[t] = "idle")
=============================================================================
