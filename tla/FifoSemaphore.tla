---------------------------- MODULE FifoSemaphore ----------------------------
(***************************************************************************)
(* What a counting semaphore with first-come first-served waiters          *)
(* promises: a signal adds to the value, a wait that cannot be served at   *)
(* once queues, and only the head of the queue is ever served.  This is    *)
(* the specification that SemaphoreFifo is checked against; it has no      *)
(* timeouts and no cancellation.                                           *)
(***************************************************************************)
EXTENDS Naturals, Sequences

CONSTANTS
    Threads,
    Needs,      \* the counts a wait or a poll may ask for
    Signals     \* the counts a signal may add

VARIABLES
    value,      \* the units available
    queue,      \* the waiting threads with their needs, oldest first
    granted     \* the threads whose last wait or poll has been served

vars == <<value, queue, granted>>

Waiters == {queue[i].thread : i \in 1..Len(queue)}

Init == value \in Nat /\ queue = <<>> /\ granted = {}

Signal(n) == value' = value + n /\ UNCHANGED <<queue, granted>>

\* A call is served at once only when nobody is waiting.
Take(t, n) ==
    /\ t \notin Waiters /\ queue = <<>> /\ n <= value
    /\ value' = value - n
    /\ granted' = granted \cup {t}
    /\ UNCHANGED queue

\* A poll or a try_wait that cannot be served leaves no trace.
Refuse(t, n) ==
    /\ t \notin Waiters /\ (queue # <<>> \/ n > value)
    /\ granted' = granted \ {t}
    /\ UNCHANGED <<value, queue>>

Enqueue(t, n) ==
    /\ t \notin Waiters /\ (queue # <<>> \/ n > value)
    /\ queue' = Append(queue, [thread |-> t, needs |-> n])
    /\ granted' = granted \ {t}
    /\ UNCHANGED value

Serve ==
    /\ queue # <<>> /\ Head(queue).needs <= value
    /\ value' = value - Head(queue).needs
    /\ granted' = granted \cup {Head(queue).thread}
    /\ queue' = Tail(queue)

Next ==
    \/ \E n \in Signals : Signal(n)
    \/ \E t \in Threads, n \in Needs : Take(t, n) \/ Refuse(t, n) \/ Enqueue(t, n)
    \/ Serve

\* The head of the queue is served once there is enough for it.
Spec == Init /\ [][Next]_vars /\ WF_vars(Serve)
=============================================================================
