---------------------------- MODULE ImageHandler ----------------------------
(***************************************************************************)
(* Hands out swapchain images (core/videoout/imageHandler.cpp).  A thread  *)
(* that asks for an image draws a ticket from m_waitId and sleeps until    *)
(* m_presentCount reaches it; the thread that presents the image advances  *)
(* m_presentCount, and so does a request that gives up (the `fake          *)
(* present').  vkAcquireNextImageKHR runs with m_mutexInt held.            *)
(*                                                                         *)
(* stop() sets m_stop and notifies without the mutex, so a thread that has *)
(* found its predicate false and a thread asleep are told apart.  The      *)
(* per-slot Vulkan objects that m_nextIndex rotates over are left out.     *)
(***************************************************************************)
EXTENDS Integers, FiniteSets

CONSTANTS
    Threads,
    m_maxImages,  \* 1 in the code
    Results,      \* what vkAcquireNextImageKHR may answer besides VK_SUCCESS
    SwapImages,   \* the images of the swapchain
    MayStop,      \* can the emulator shut down?
    MaxTicket     \* bound on m_waitId: no request beyond it

ASSUME ImagesAssumption == m_maxImages \in Nat \ {0} /\ SwapImages \in Nat
ASSUME ResultsAssumption ==
    Results \subseteq {"SUBOPTIMAL", "OUT_OF_DATE", "ERROR", "TIMEOUT"} /\ MayStop \in BOOLEAN
ASSUME TicketAssumption == MaxTicket \in Nat

VARIABLES
    m_waitId,
    m_presentCount,
    m_countImages,
    stopper,     \* stop(): "running", "notify" after m_stop is set, "done"
    at,          \* "idle", "tosleep", "asleep", "acquire" or "notify"
    ticket,      \* waitId of each thread's request
    numTries,    \* of the request that is acquiring
    woken,       \* the sleeping threads a notify has reached
    image,       \* the ticket of the image a thread's last request got, 0 for none
    inFlight,    \* the tickets of the images handed out and not yet presented
    presenter,   \* the thread in notify_done: "idle" or "notify"
    held         \* the swapchain images acquired and not given back

counters == <<m_waitId, m_presentCount, m_countImages>>
vars == <<m_waitId, m_presentCount, m_countImages, stopper, at, ticket, numTries,
          woken, image, inFlight, presenter, held>>

m_stop == stopper # "running"

\* A thread keeps m_mutexInt between two steps only here.
Locked == \E t \in Threads : at[t] \in {"tosleep", "acquire"}
Asleep == {t \in Threads : at[t] = "asleep"}

Init ==
    /\ m_waitId = 0
    /\ m_presentCount = 1
    /\ m_countImages = 0
    /\ stopper = "running"
    /\ at = [t \in Threads |-> "idle"]
    /\ ticket = [t \in Threads |-> 0]
    /\ numTries = 2
    /\ woken = {}
    /\ image = [t \in Threads |-> 0]
    /\ inFlight = {}
    /\ presenter = "idle"
    /\ held = 0

Goto(t, place) == at' = [at EXCEPT ![t] = place]
Return(t, k) == image' = [image EXCEPT ![t] = k]

-----------------------------------------------------------------------------
\* Mutant of Turn: any request may take the next image that is free.
TurnUnordered(n) == m_countImages < m_maxImages

\* The predicate of the wait, for the ticket n.
Turn(n) == n = m_presentCount /\ m_countImages < m_maxImages

\* One evaluation of the predicate with the mutex held.
Test(t, n) ==
    /\ IF m_stop
       THEN Goto(t, "idle") /\ Return(t, 0) /\ UNCHANGED numTries
       ELSE /\ IF Turn(n) THEN Goto(t, "acquire") /\ numTries' = 2
                          ELSE Goto(t, "tosleep") /\ UNCHANGED numTries
            /\ UNCHANGED image
    /\ UNCHANGED <<m_presentCount, m_countImages, stopper, inFlight, presenter, held>>

\* getImage_blocking up to its wait.
GetImage(t) ==
    /\ at[t] = "idle" /\ ~Locked /\ m_waitId < MaxTicket
    /\ m_waitId' = m_waitId + 1
    /\ ticket' = [ticket EXCEPT ![t] = m_waitId + 1]
    /\ Test(t, m_waitId + 1)
    /\ UNCHANGED woken

Sleep(t) ==
    /\ at[t] = "tosleep"
    /\ Goto(t, "asleep")
    /\ UNCHANGED <<counters, stopper, ticket, numTries, woken, image, inFlight, presenter, held>>

\* Mutant of Resume: the thread stays on the list of the woken.
ResumeKept(t) ==
    /\ at[t] = "asleep" /\ t \in woken /\ ~Locked
    /\ Test(t, ticket[t])
    /\ UNCHANGED <<m_waitId, ticket, woken>>

Resume(t) ==
    /\ at[t] = "asleep" /\ t \in woken /\ ~Locked
    /\ woken' = woken \ {t}
    /\ Test(t, ticket[t])
    /\ UNCHANGED <<m_waitId, ticket>>

-----------------------------------------------------------------------------
\* Mutant of Fail: no fake present.
FailSilent(t) ==
    /\ Goto(t, "notify")
    /\ Return(t, 0)
    /\ UNCHANGED <<m_presentCount, m_countImages, inFlight>>

\* The request gives up: a fake present, then the unlock.
Fail(t) ==
    /\ m_presentCount' = m_presentCount + 1
    /\ Goto(t, "notify")
    /\ Return(t, 0)
    /\ UNCHANGED <<m_countImages, inFlight>>

\* VK_SUCCESS.  The test `numTries <= 0' after the loop takes a success of the
\* last try for a failure, and the image that was acquired is never given back.
Acquired(t) ==
    /\ at[t] = "acquire" /\ held < SwapImages
    /\ held' = held + 1
    /\ IF numTries <= 0
       THEN Fail(t)
       ELSE /\ inFlight' = inFlight \cup {ticket[t]}
            /\ m_countImages' = m_countImages + 1
            /\ Goto(t, "idle")
            /\ Return(t, ticket[t])
            /\ UNCHANGED m_presentCount
    /\ UNCHANGED <<m_waitId, stopper, ticket, numTries, woken, presenter>>

\* Any result without a branch of its own, and VK_NOT_READY, uses up a try.
AcquireError(t) ==
    /\ at[t] = "acquire" /\ "ERROR" \in Results
    /\ numTries' = numTries - 1
    /\ IF numTries = 0 THEN Fail(t)
       ELSE UNCHANGED <<m_presentCount, m_countImages, at, image, inFlight>>
    /\ UNCHANGED <<m_waitId, stopper, ticket, woken, presenter, held>>

\* The swapchain is only replaced, and its images with it, when the window's
\* size has changed.  VK_SUBOPTIMAL_KHR is a success: it acquires an image too.
recreate(now) == held' = 0 \/ held' = now

AcquireRecreates(t) ==
    /\ at[t] = "acquire"
    /\ \/ "OUT_OF_DATE" \in Results /\ recreate(held)
       \/ "SUBOPTIMAL" \in Results /\ held < SwapImages /\ recreate(held + 1)
    /\ UNCHANGED <<counters, stopper, at, ticket, numTries, woken, image, inFlight, presenter>>

\* VK_TIMEOUT changes nothing and tries again, unless stop() has been called:
\* then the request returns, and its ticket is never passed on.
AcquireStopped(t) ==
    /\ at[t] = "acquire" /\ "TIMEOUT" \in Results /\ m_stop
    /\ Goto(t, "idle")
    /\ Return(t, 0)
    /\ UNCHANGED <<counters, stopper, ticket, numTries, woken, inFlight, presenter, held>>

\* notify_all after the fake present.
FailNotify(t) ==
    /\ at[t] = "notify"
    /\ Goto(t, "idle")
    /\ woken' = woken \cup Asleep
    /\ UNCHANGED <<counters, stopper, ticket, numTries, image, inFlight, presenter, held>>

-----------------------------------------------------------------------------
\* The image is presented, which gives it back to the swapchain, and notify_done
\* is called for it, up to its unlock.  The code does not look whether it is out.
notify_done(k) ==
    /\ presenter = "idle" /\ ~Locked
    /\ m_presentCount' = m_presentCount + 1
    /\ m_countImages' = m_countImages - 1
    /\ inFlight' = inFlight \ {k}
    /\ held' = held - 1
    /\ presenter' = "notify"
    /\ UNCHANGED <<m_waitId, stopper, at, ticket, numTries, woken, image>>

\* Mutant of DoneNotify: notify_one in the place of notify_all.
DoneNotifyOne ==
    /\ presenter = "notify"
    /\ presenter' = "idle"
    /\ IF Asleep = {} THEN UNCHANGED woken ELSE \E t \in Asleep : woken' = woken \cup {t}
    /\ UNCHANGED <<counters, stopper, at, ticket, numTries, image, inFlight, held>>

DoneNotify ==
    /\ presenter = "notify"
    /\ presenter' = "idle"
    /\ woken' = woken \cup Asleep
    /\ UNCHANGED <<counters, stopper, at, ticket, numTries, image, inFlight, held>>

Stop ==
    /\ MayStop /\ stopper = "running"
    /\ stopper' = "notify"
    /\ UNCHANGED <<counters, at, ticket, numTries, woken, image, inFlight, presenter, held>>

\* Mutant of StopNotify: notify_one in the place of notify_all.
StopNotifyOne ==
    /\ stopper = "notify"
    /\ stopper' = "done"
    /\ IF Asleep = {} THEN UNCHANGED woken ELSE \E t \in Asleep : woken' = woken \cup {t}
    /\ UNCHANGED <<counters, at, ticket, numTries, image, inFlight, presenter, held>>

StopNotify ==
    /\ stopper = "notify"
    /\ stopper' = "done"
    /\ woken' = woken \cup Asleep
    /\ UNCHANGED <<counters, at, ticket, numTries, image, inFlight, presenter, held>>

-----------------------------------------------------------------------------
\* The steps of a request after its ticket is drawn.
Run(t) ==
    \/ Sleep(t) \/ Resume(t) \/ Acquired(t) \/ AcquireError(t)
    \/ AcquireRecreates(t) \/ AcquireStopped(t) \/ FailNotify(t)

Present == DoneNotify \/ \E k \in inFlight : notify_done(k)

Next ==
    \/ \E t \in Threads : GetImage(t) \/ Run(t)
    \/ Present \/ Stop \/ StopNotify

Spec == Init /\ [][Next]_vars

\* The threads that have work are scheduled, the mutex is granted fairly, and
\* Vulkan ends by answering a request with an image when the swapchain has one.
\* (A thread is at one place at a time, so one condition covers all its steps.)
FairSpec ==
    /\ Spec /\ WF_vars(Present) /\ WF_vars(StopNotify)
    /\ \A t \in Threads : SF_vars(
          Sleep(t) \/ Resume(t) \/ Acquired(t) \/ AcquireStopped(t) \/ FailNotify(t))

-----------------------------------------------------------------------------
\* The threads whose request holds a ticket that has not been passed on.
Requesting == {t \in Threads : at[t] \in {"tosleep", "asleep", "acquire"}}

TypeOK ==
    /\ m_waitId \in Nat /\ m_presentCount \in Nat /\ m_countImages \in Nat
    /\ stopper \in {"running", "notify", "done"}
    /\ at \in [Threads -> {"idle", "tosleep", "asleep", "acquire", "notify"}]
    /\ ticket \in [Threads -> Nat]
    /\ numTries \in -1..2
    /\ woken \in SUBSET Asleep
    /\ image \in [Threads -> Nat]
    /\ inFlight \in SUBSET Nat
    /\ presenter \in {"idle", "notify"}
    /\ held \in Nat

\* One image at most is between getImage_blocking and notify_done, whatever
\* m_maxImages is, and m_countImages counts it; while a request is acquiring an
\* image no other is out, so the fence and command buffer it reuses are free.
OneInFlight ==
    /\ \A j, k \in inFlight : j = k
    /\ m_countImages = Cardinality(inFlight)
    /\ (\E t \in Threads : at[t] = "acquire") => inFlight = {}

\* Two requests never share a ticket, nor does a request hold the ticket of an
\* image that is out.
TicketsDistinct ==
    /\ \A s, t \in Requesting : ticket[s] = ticket[t] => s = t
    /\ \A t \in Requesting : ticket[t] \notin inFlight

\* Until stop, each ticket from m_presentCount on belongs to a request or to an
\* image that is out, whether requests give up or are served: no ticket is
\* lost, so the requests behind it are not stranded.
NoTicketLost ==
    ~m_stop => \A n \in m_presentCount..m_waitId :
                  n \in inFlight \/ \E t \in Requesting : ticket[t] = n

\* The request whose turn it is does not sleep on, unless the notify that is to
\* wake it is still to come after the mutex was released.
NoLostWakeup ==
    \A t \in Asleep : Turn(ticket[t]) =>
        \/ t \in woken \/ presenter = "notify"
        \/ \E s \in Threads : at[s] = "notify"

\* stop() does not take the mutex: the thread that had found its predicate false
\* and was about to sleep misses the notify.  Only one thread can be there.
StopStrandsOneAtMost ==
    stopper = "done" => Cardinality({t \in Threads :
        at[t] = "tosleep" \/ (at[t] = "asleep" /\ t \notin woken)}) <= 1

\* Images are handed out in the order in which the tickets were drawn.
InTicketOrder ==
    [][\A t \in Threads : image'[t] # image[t] /\ image'[t] # 0
          => \A s \in Requesting \ {t} : ticket[t] < ticket[s]]_vars

\* Every request returns, with an image or without, unless stop() is called or
\* every image of the swapchain has been leaked (see Acquired and recreate).
RequestReturns ==
    \A t \in Threads : t \in Requesting ~>
        (t \notin Requesting \/ m_stop \/ (held = SwapImages /\ inFlight = {}))
=============================================================================
