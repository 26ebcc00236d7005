----------------------------- MODULE EventQueue -----------------------------
(***************************************************************************)
(* The kernel event queue (core/kernel/eventqueue.cpp): a list of events,  *)
(* each named by its ident and filter (a key here), that threads trigger   *)
(* and other threads wait for.  A wait returns the first `num' triggered   *)
(* events in list order; those with EV_CLEAR are reset as they are         *)
(* returned, the others stay triggered.  A trigger releases m_mutex_cond   *)
(* before it notifies, so the notify is a step of its own.                 *)
(***************************************************************************)
EXTENDS Naturals, Sequences, FiniteSets

CONSTANTS
    Threads,
    Keys,         \* the (ident, filter) pairs
    Nums,         \* the capacities of the result arrays of the waits
    MaxTriggers   \* bound on fflags: no trigger of an event beyond it

ASSUME NumsAssumption == Nums \subseteq Nat \ {0}
ASSUME TriggersAssumption == MaxTriggers \in Nat

VARIABLES
    m_events,   \* records [key, edge, triggered, fflags] in list order
    m_closed,
    alive,
    at,         \* "idle", "waiting" on m_cond_var, or "notify"
    num,        \* the capacity of a waiting thread's result array
    timed,      \* the waiting threads that have a timeout
    woken,      \* the waiting threads a notify has reached
    ret         \* what each thread's last call returned

vars == <<m_events, m_closed, alive, at, num, timed, woken, ret>>

Waiting == {t \in Threads : at[t] = "waiting"}
Index == 1..Len(m_events)
\* hasEvents, the predicate of the waits.
hasEvents == \E i \in Index : m_events[i].triggered

\* find_if: the events with the key, of which there is at most one.
Positions(k) == {i \in Index : m_events[i].key = k}

Init ==
    /\ m_events = <<>>
    /\ m_closed = FALSE
    /\ alive = TRUE
    /\ at = [t \in Threads |-> "idle"]
    /\ num = [t \in Threads |-> 0]
    /\ timed = {}
    /\ woken = {}
    /\ ret = [t \in Threads |-> "none"]

Return(t, code) == ret' = [ret EXCEPT ![t] = code]
MayCall(t) == alive /\ at[t] = "idle"

-----------------------------------------------------------------------------
\* addEvent replaces an event with the same key, a pending trigger included, and
\* otherwise appends; the callers register events that are not triggered.
AddEvent(t, k, edge) ==
    LET new == [key |-> k, edge |-> edge, triggered |-> FALSE, fflags |-> 0]
    IN  /\ MayCall(t)
        /\ m_events' = IF Positions(k) = {} THEN Append(m_events, new)
                       ELSE [i \in Index |-> IF i \in Positions(k) THEN new ELSE m_events[i]]
        /\ Return(t, "Ok")
        /\ UNCHANGED <<m_closed, alive, at, num, timed, woken>>

Erase(p) == [i \in 1..(Len(m_events) - 1) |-> m_events[IF i < p THEN i ELSE i + 1]]

DeleteEvent(t, k) ==
    /\ MayCall(t)
    /\ \/ Positions(k) = {} /\ Return(t, "ENOENT") /\ UNCHANGED m_events
       \/ \E p \in Positions(k) : m_events' = Erase(p) /\ Return(t, "Ok")
    /\ UNCHANGED <<m_closed, alive, at, num, timed, woken>>

\* event_trigger_func and event_reset_func.
Triggered(e) ==
    [key |-> e.key, edge |-> e.edge, triggered |-> TRUE, fflags |-> e.fflags + 1]
Reset(e) == [e EXCEPT !.triggered = FALSE, !.fflags = 0]

\* triggerEvent marks the event under the mutex, then releases it and notifies.
TriggerEvent(t, k) ==
    /\ MayCall(t)
    /\ \A i \in Positions(k) : m_events[i].fflags < MaxTriggers
    /\ m_events' = [i \in Index |->
                       IF i \in Positions(k)
                       THEN Triggered(m_events[i])
                       ELSE m_events[i]]
    /\ IF Positions(k) = {}
       THEN Return(t, "ENOENT") /\ UNCHANGED at
       ELSE at' = [at EXCEPT ![t] = "notify"] /\ UNCHANGED ret
    /\ UNCHANGED <<m_closed, alive, num, timed, woken>>

\* Mutant of Notify: notify_one in the place of notify_all.
NotifyOne(t) ==
    /\ alive /\ at[t] = "notify"
    /\ IF Waiting = {} THEN UNCHANGED woken
       ELSE \E w \in Waiting : woken' = woken \cup {w}
    /\ at' = [at EXCEPT ![t] = "idle"]
    /\ Return(t, "Ok")
    /\ UNCHANGED <<m_events, m_closed, alive, num, timed>>

Notify(t) ==
    /\ alive /\ at[t] = "notify"
    /\ woken' = woken \cup Waiting
    /\ at' = [at EXCEPT ![t] = "idle"]
    /\ Return(t, "Ok")
    /\ UNCHANGED <<m_events, m_closed, alive, num, timed>>

-----------------------------------------------------------------------------
\* getTriggeredEvents: the positions it returns, and the list it leaves.
Delivered(n) ==
    {i \in Index : /\ m_events[i].triggered
                   /\ Cardinality({j \in 1..(i - 1) : m_events[j].triggered}) < n}

AfterDelivery(n) ==
    [i \in Index |-> IF i \in Delivered(n) /\ m_events[i].edge
                     THEN Reset(m_events[i])
                     ELSE m_events[i]]

\* The end of wait: with nothing to return it reports a timeout, unless the
\* timeout was zero (a poll).
Finish(t, n, poll) ==
    /\ m_events' = AfterDelivery(n)
    /\ at' = [at EXCEPT ![t] = "idle"]
    /\ num' = [num EXCEPT ![t] = 0]
    /\ timed' = timed \ {t}
    /\ woken' = woken \ {t}
    /\ Return(t, IF Delivered(n) = {} /\ ~poll THEN "ETIMEDOUT" ELSE "Ok")
    /\ UNCHANGED <<m_closed, alive>>

Poll(t, n) == MayCall(t) /\ Finish(t, n, TRUE)

Wait(t, n, tm) ==
    /\ MayCall(t)
    /\ IF hasEvents \/ m_closed
       THEN Finish(t, n, FALSE)
       ELSE /\ at' = [at EXCEPT ![t] = "waiting"]
            /\ num' = [num EXCEPT ![t] = n]
            /\ timed' = IF tm THEN timed \cup {t} ELSE timed
            /\ Return(t, "none")
            /\ UNCHANGED <<m_events, m_closed, alive, woken>>

WaitResume(t) ==
    /\ alive /\ at[t] = "waiting" /\ t \in woken
    /\ IF hasEvents \/ m_closed
       THEN Finish(t, num[t], FALSE)
       ELSE /\ woken' = woken \ {t}
            /\ UNCHANGED <<m_events, m_closed, alive, at, num, timed, ret>>

\* The timer fires; wait_for's result is not looked at, the list is.
WaitTimeout(t) ==
    /\ alive /\ at[t] = "waiting" /\ t \in timed
    /\ Finish(t, num[t], FALSE)

\* The destructor closes the queue and wakes the waiters, and does not wait for
\* them: what they do on the freed object is outside the model.
Destroy(t) ==
    /\ MayCall(t)
    /\ m_closed' = TRUE
    /\ woken' = woken \cup Waiting
    /\ alive' = FALSE
    /\ UNCHANGED <<m_events, at, num, timed, ret>>

-----------------------------------------------------------------------------
Call(t) ==
    \/ \E k \in Keys, edge \in BOOLEAN : AddEvent(t, k, edge)
    \/ \E k \in Keys : DeleteEvent(t, k) \/ TriggerEvent(t, k)
    \/ \E n \in Nums : Poll(t, n) \/ \E tm \in BOOLEAN : Wait(t, n, tm)
    \/ Destroy(t)

Run(t) == Notify(t) \/ WaitResume(t)

Next == \E t \in Threads : Call(t) \/ Run(t) \/ WaitTimeout(t)

Spec == Init /\ [][Next]_vars

\* Threads that are not asleep, or have been woken, are scheduled eventually; no
\* timer is assumed to fire.
FairSpec == Spec /\ \A t \in Threads : WF_vars(Run(t))

-----------------------------------------------------------------------------
EventRec == [key : Keys, edge : BOOLEAN, triggered : BOOLEAN, fflags : Nat]

TypeOK ==
    /\ m_events \in Seq(EventRec)
    /\ m_closed \in BOOLEAN /\ alive \in BOOLEAN
    /\ at \in [Threads -> {"idle", "waiting", "notify"}]
    /\ num \in [Threads -> Nums \cup {0}]
    /\ timed \in SUBSET Waiting
    /\ woken \in SUBSET Waiting
    /\ ret \in [Threads -> {"none", "Ok", "ENOENT", "ETIMEDOUT"}]

\* Every key is registered once, so find_if's first match is the event, however
\* adds and deletes of several threads interleave.
KeysUnique == \A i, j \in Index : m_events[i].key = m_events[j].key => i = j

\* No waiter sleeps while an event is triggered, unless it has been woken or the
\* trigger's notify is still on its way after the mutex was released.
NoLostWakeup ==
    alive /\ (\E t \in Waiting : t \notin woken) /\ (\A t \in Threads : at[t] # "notify")
        => ~hasEvents

\* The fflags of an event count its triggers since it was last returned: an
\* event that is not triggered has none, one that is triggered has at least one.
TriggersCounted == \A i \in Index : m_events[i].triggered <=> m_events[i].fflags > 0

\* A sleeping waiter returns, or the event that was triggered goes to someone else.
WaiterServed ==
    \A t \in Threads : (at[t] = "waiting" /\ hasEvents)
                          ~> (at[t] = "idle" \/ ~hasEvents \/ ~alive)
=============================================================================
