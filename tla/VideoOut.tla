------------------------------- MODULE VideoOut -------------------------------
(***************************************************************************)
(* The video output (core/videoout/videoout.cpp): guest threads (and the   *)
(* GPU's callback) submit flips, open and close windows and initialise SDL *)
(* subsystems; all of these become messages to the one SDL thread.  A flip *)
(* asks the ImageHandler for an image before its message is queued, and    *)
(* the SDL thread presents that image with m_mutexInt released.            *)
(*                                                                         *)
(* Each critical section of m_mutexInt is one action.  flipArg is the      *)
(* ticket of the flip's image request, which is unique.  The SDL thread    *)
(* waits on m_condSDL2 for one vblank at most and then looks at the queue, *)
(* so its notifications are left out, as are the vblank status and events. *)
(* Windows are array indices: handle i + 1 is the window i.  With an index *)
(* out of range the SDL thread reads and writes beside the array: it goes  *)
(* on or the program ends there.                                           *)
(***************************************************************************)
EXTENDS ImageHandler, Sequences

CONSTANTS
    WindowsMAX,
    Ops,       \* what the guest does: "flip", "open", "close", "subsystem", "event"
    MaxCalls   \* bound on the calls that wait for the SDL thread

ASSUME ThreadsAssumption == IsFiniteSet(Threads)
ASSUME WindowsAssumption == WindowsMAX \in Nat \ {0} /\ MaxCalls \in Nat
ASSUME OpsAssumption == Ops \subseteq {"flip", "open", "close", "subsystem", "event"}

VARIABLES
    opened,       \* the windows whose userId is not -1
    handles,      \* the windows whose handle open has returned
    created,      \* the windows SDL shows
    gcQueueNum,
    flipArg,
    eventFlip,    \* the windows with a flip event registered
    m_messages,   \* records [type, win, arg, who]
    result,       \* the static `result' of open, close and SDLInit
    sdl,          \* the SDL thread: "loop", "presenting", "notify", "done" or "crashed"
    call,         \* where each guest thread is
    win,          \* the window of its call
    what,         \* the kind of message it waits for
    condWoken,    \* the threads asleep on m_condDone a notify_one has reached
    submits,      \* m_graphics: submited() less submitDone()
    calls         \* the number of calls so far that wait for the SDL thread

windows == <<opened, handles, created, gcQueueNum, flipArg, eventFlip>>
threads == <<call, win, what, condWoken>>
videoVars == <<vars, windows, m_messages, result, sdl, threads, submits, calls>>

Windows == 0..(WindowsMAX - 1)
Kinds == {"open", "close", "subsystem"}

\* close deletes the window's events with m_mutexInt held, and the events' delete
\* function locks it again: the thread stays there.
KeptLocked == \E t \in Threads : call[t] = "relock"
Sleepers == {t \in Threads : call[t] = "asleep" /\ t \notin condWoken}

\* The state after init() has returned: the main window exists and is free.
VideoInit ==
    /\ Init
    /\ opened = {} /\ handles = {} /\ created = {0}
    /\ gcQueueNum = [i \in Windows |-> 0]
    /\ flipArg = [i \in Windows |-> 0]
    /\ eventFlip = {}
    /\ m_messages = <<>>
    /\ result = [k \in Kinds |-> -1]
    /\ sdl = "loop"
    /\ call = [t \in Threads |-> "idle"]
    /\ win = [t \in Threads |-> 0]
    /\ what = [t \in Threads |-> "open"]
    /\ condWoken = {}
    /\ submits = 0
    /\ calls = 0

GotoCall(t, place) == call' = [call EXCEPT ![t] = place]
Free(t, op) == op \in Ops /\ call[t] = "idle" /\ ~KeptLocked

\* Mutant of doFlip: gcQueueNum is left alone.
doFlipUncounted(i, pending) == gcQueueNum' = [gcQueueNum EXCEPT ![i] = pending]

\* doFlip; `pending' is gcQueueNum before it.  The flip event it triggers carries
\* the flipArg of flipStatus, which is left as it is.
doFlip(i, pending) == gcQueueNum' = [gcQueueNum EXCEPT ![i] = pending - 1]

\* The end of a call.
EndCall(t) ==
    /\ GotoCall(t, "idle")
    /\ win' = [win EXCEPT ![t] = 0]
    /\ what' = [what EXCEPT ![t] = "open"]

-----------------------------------------------------------------------------
\* Flips: submitFlip, and eventDoFlip, its twin for the GPU's thread.

\* submited() is called before the image is asked for.
SubmitFlip(t, i) ==
    /\ Free(t, "flip") /\ i \in handles
    /\ m_waitId + Cardinality({s \in Threads : call[s] = "submit"}) < MaxTicket
    /\ submits' = submits + 1
    /\ GotoCall(t, "submit")
    /\ win' = [win EXCEPT ![t] = i]
    /\ UNCHANGED <<vars, windows, m_messages, result, sdl, what, condWoken, calls>>

\* getImage_blocking, with m_mutexInt released.
StartImage(t) ==
    /\ call[t] = "submit"
    /\ GetImage(t)
    /\ GotoCall(t, "image")
    /\ UNCHANGED <<windows, m_messages, result, sdl, win, what, condWoken, submits, calls>>

RunImage(t) ==
    /\ call[t] = "image"
    /\ Run(t)
    /\ UNCHANGED <<windows, m_messages, result, sdl, threads, submits, calls>>

\* Mutant of FinishSubmit: a flip of a window that has been closed is dropped, and
\* its image with it.
FinishSubmitOpened(t) ==
    LET i == win[t]
    IN  /\ call[t] = "image" /\ at[t] = "idle" /\ ~KeptLocked
        /\ flipArg' = [flipArg EXCEPT ![i] = ticket[t]]
        /\ IF image[t] = 0 \/ i \notin opened
           THEN /\ submits' = submits - 1
                /\ doFlip(i, gcQueueNum[i] + 1)
                /\ UNCHANGED m_messages
           ELSE /\ gcQueueNum' = [gcQueueNum EXCEPT ![i] = @ + 1]
                /\ m_messages' = Append(m_messages,
                                    [type |-> "flip", win |-> i, arg |-> ticket[t], who |-> t])
                /\ UNCHANGED submits
        /\ EndCall(t)
        /\ UNCHANGED <<vars, opened, handles, created, eventFlip, result, sdl, condWoken, calls>>

\* Mutant of FinishSubmit: submitDone() is not called when there is no image.
FinishSubmitUndone(t) ==
    LET i == win[t]
    IN  /\ call[t] = "image" /\ at[t] = "idle" /\ ~KeptLocked
        /\ flipArg' = [flipArg EXCEPT ![i] = ticket[t]]
        /\ IF image[t] = 0
           THEN doFlip(i, gcQueueNum[i] + 1) /\ UNCHANGED m_messages
           ELSE /\ gcQueueNum' = [gcQueueNum EXCEPT ![i] = @ + 1]
                /\ m_messages' = Append(m_messages,
                                    [type |-> "flip", win |-> i, arg |-> ticket[t], who |-> t])
        /\ EndCall(t)
        /\ UNCHANGED <<vars, opened, handles, created, eventFlip, result, sdl, condWoken,
                       calls, submits>>

\* The rest of the submit: without an image the flip is done at once.
FinishSubmit(t) ==
    LET i == win[t]
    IN  /\ call[t] = "image" /\ at[t] = "idle" /\ ~KeptLocked
        /\ flipArg' = [flipArg EXCEPT ![i] = ticket[t]]
        /\ IF image[t] = 0
           THEN /\ submits' = submits - 1
                /\ doFlip(i, gcQueueNum[i] + 1)
                /\ UNCHANGED m_messages
           ELSE /\ gcQueueNum' = [gcQueueNum EXCEPT ![i] = @ + 1]
                /\ m_messages' = Append(m_messages,
                                    [type |-> "flip", win |-> i, arg |-> ticket[t], who |-> t])
                /\ UNCHANGED submits
        /\ EndCall(t)
        /\ UNCHANGED <<vars, opened, handles, created, eventFlip, result, sdl, condWoken, calls>>

-----------------------------------------------------------------------------
\* Calls that queue a message and wait until their static `result' is set.

Push(t, kind, i) ==
    /\ m_messages' = Append(m_messages, [type |-> kind, win |-> i, arg |-> 0, who |-> t])
    /\ GotoCall(t, "pushed")
    /\ what' = [what EXCEPT ![t] = kind]
    /\ calls' = calls + 1

\* open takes the first free window.
Open(t) ==
    /\ Free(t, "open") /\ calls < MaxCalls
    /\ \E i \in Windows \ opened :
        /\ \A j \in 0..(i - 1) : j \in opened
        /\ opened' = opened \cup {i}
        /\ gcQueueNum' = [gcQueueNum EXCEPT ![i] = 0]
        /\ flipArg' = [flipArg EXCEPT ![i] = 0]
        /\ win' = [win EXCEPT ![t] = i]
        /\ IF i = 0
           THEN /\ handles' = handles \cup {0}
                /\ calls' = calls + 1
                /\ UNCHANGED <<m_messages, call, what>>
           ELSE Push(t, "open", i) /\ UNCHANGED handles
    /\ UNCHANGED <<vars, created, eventFlip, result, sdl, condWoken, submits>>

\* With no window free the message names the index -1.
OpenNone(t) ==
    /\ Free(t, "open") /\ calls < MaxCalls /\ opened = Windows
    /\ Push(t, "open", -1)
    /\ UNCHANGED <<vars, windows, result, sdl, win, condWoken, submits>>

\* The message names the handle, i + 1, where the others name the index.
Close(t, i) ==
    /\ Free(t, "close") /\ i \in handles /\ calls < MaxCalls
    /\ opened' = opened \ {i}
    /\ handles' = handles \ {i}
    /\ win' = [win EXCEPT ![t] = i]
    /\ IF i \in eventFlip
       THEN GotoCall(t, "relock") /\ what' = [what EXCEPT ![t] = "close"] /\ UNCHANGED <<m_messages, calls>>
       ELSE Push(t, "close", i + 1)
    /\ UNCHANGED <<vars, created, gcQueueNum, flipArg, eventFlip, result, sdl, condWoken,
                   submits>>

SDLInit(t) ==
    /\ Free(t, "subsystem") /\ calls < MaxCalls
    /\ Push(t, "subsystem", 0)
    /\ UNCHANGED <<vars, windows, result, sdl, win, condWoken, submits>>

\* The wait on m_condDone: its predicate reads the static of the function.
AwaitDone(t) ==
    /\ call[t] = "pushed" \/ t \in condWoken
    /\ ~KeptLocked
    /\ condWoken' = condWoken \ {t}
    /\ IF result[what[t]] >= 0
       THEN /\ EndCall(t)
            /\ handles' = IF what[t] = "open" THEN handles \cup {win[t]} ELSE handles
       ELSE GotoCall(t, "asleep") /\ UNCHANGED <<handles, win, what>>
    /\ UNCHANGED <<vars, opened, created, gcQueueNum, flipArg, eventFlip, m_messages, result,
                   sdl, submits, calls>>

\* addEvent for VIDEO_OUT_EVENT_FLIP, with a queue that is not null.
AddEvent(t, i) ==
    /\ Free(t, "event") /\ i \in handles
    /\ eventFlip' = eventFlip \cup {i}
    /\ UNCHANGED <<vars, opened, handles, created, gcQueueNum, flipArg, m_messages, result, sdl,
                   threads, submits, calls>>

-----------------------------------------------------------------------------
\* The SDL thread.  A message stays at the head of the queue while it is handled.

NotifyOne ==
    IF Sleepers = {} THEN UNCHANGED condWoken
    ELSE \E t \in Sleepers : condWoken' = condWoken \cup {t}

HandleOutside ==
    /\ sdl = "loop" /\ ~KeptLocked /\ m_messages # <<>>
    /\ Head(m_messages).type \in Kinds /\ Head(m_messages).win \notin Windows
    /\ sdl' = "crashed"
    /\ UNCHANGED <<vars, windows, m_messages, result, threads, submits, calls>>

HandleCall ==
    LET m == Head(m_messages)
    IN  /\ sdl = "loop" /\ ~KeptLocked /\ m_messages # <<>> /\ m.type \in Kinds
        /\ \/ /\ m.type = "subsystem"
              /\ \E r \in {0, 1} : result' = [result EXCEPT !["subsystem"] = r]
              /\ UNCHANGED created
           \/ /\ m.type = "open"   \* of a further window: *item.result stays unset
              /\ created' = created \cup ({m.win} \cap Windows)
              /\ UNCHANGED result
           \/ /\ m.type = "close"
              /\ created' = created \ {m.win}
              /\ result' = [result EXCEPT !["close"] = 0]
        /\ NotifyOne
        /\ m_messages' = Tail(m_messages)
    /\ UNCHANGED <<vars, opened, handles, gcQueueNum, flipArg, eventFlip, sdl, call, win, what,
                   submits, calls>>

HandleFlip ==
    /\ sdl = "loop" /\ ~KeptLocked /\ m_messages # <<>> /\ Head(m_messages).type = "flip"
    /\ sdl' = "presenting"
    /\ UNCHANGED <<vars, windows, m_messages, result, threads, submits, calls>>

\* presentImage and notify_done, with m_mutexInt released.
PresentImage ==
    /\ sdl = "presenting"
    /\ notify_done(Head(m_messages).arg)
    /\ sdl' = "notify"
    /\ UNCHANGED <<windows, m_messages, result, threads, submits, calls>>

\* Mutant of NotifyDone: the notify is forgotten.
NotifyDoneSilent ==
    /\ sdl = "notify"
    /\ presenter' = "idle"
    /\ sdl' = "done"
    /\ UNCHANGED <<windows, m_messages, result, threads, submits, calls, m_waitId, held,
                   m_presentCount, m_countImages, stopper, at, ticket, numTries, woken, image, inFlight>>

NotifyDone ==
    /\ sdl = "notify"
    /\ DoneNotify
    /\ sdl' = "done"
    /\ UNCHANGED <<windows, m_messages, result, threads, submits, calls>>

\* Mutant of FinishFlip: the message is not popped.
FinishFlipUnpopped ==
    LET m == Head(m_messages)
    IN  /\ sdl = "done" /\ ~KeptLocked
        /\ submits' = submits - 1
        /\ doFlip(m.win, gcQueueNum[m.win])
        /\ sdl' = "loop"
        /\ UNCHANGED <<vars, opened, handles, created, flipArg, eventFlip, result, threads, calls,
                       m_messages>>

\* With m_mutexInt again: submitDone, doFlip and the pop.
FinishFlip ==
    LET m == Head(m_messages)
    IN  /\ sdl = "done" /\ ~KeptLocked
        /\ submits' = submits - 1
        /\ doFlip(m.win, gcQueueNum[m.win])
        /\ m_messages' = Tail(m_messages)
        /\ sdl' = "loop"
        /\ UNCHANGED <<vars, opened, handles, created, flipArg, eventFlip, result, threads, calls>>

-----------------------------------------------------------------------------
Call(t) ==
    \/ Open(t) \/ OpenNone(t) \/ SDLInit(t)
    \/ \E i \in Windows : SubmitFlip(t, i) \/ Close(t, i) \/ AddEvent(t, i)

Continue(t) == StartImage(t) \/ RunImage(t) \/ FinishSubmit(t) \/ AwaitDone(t)

SDLThread == HandleCall \/ HandleOutside \/ HandleFlip \/ PresentImage \/ NotifyDone \/ FinishFlip

VideoNext == SDLThread \/ \E t \in Threads : Call(t) \/ Continue(t)

VideoSpec == VideoInit /\ [][VideoNext]_videoVars

\* The SDL thread and the threads inside a call are scheduled, locks are granted
\* fairly, and Vulkan ends by answering with an image.  (A thread in a call is at
\* one place at a time, so one condition covers all its steps.)
FairVideoSpec ==
    /\ VideoSpec
    /\ SF_videoVars(SDLThread)
    /\ \A t \in Threads : SF_videoVars(
          \/ StartImage(t) \/ FinishSubmit(t) \/ AwaitDone(t)
          \/ RunImage(t) /\ (Sleep(t) \/ Resume(t) \/ Acquired(t) \/ FailNotify(t)))

-----------------------------------------------------------------------------
\* The messages of flips of the windows W, the one being presented included.
Flips(W) == {n \in DOMAIN m_messages : m_messages[n].type = "flip" /\ m_messages[n].win \in W}

\* The graphics' count of submits (`wait for flip') is that of the flips on their
\* way, whether they get an image or not.
SubmitsBalanced ==
    submits = Cardinality({t \in Threads : call[t] \in {"submit", "image"}})
                + Cardinality(Flips(Windows))

\* getPendingFlips never overstates: gcQueueNum counts no more than the flips of
\* the window in the queue.  (It may count fewer: open resets it while flips of the
\* window are still queued.)
PendingNeverOverstated == \A i \in Windows : gcQueueNum[i] <= Cardinality(Flips({i}))

\* One flip is queued at a time; a second joins it only after notify_done.
FlipsQueuedBounded ==
    Cardinality(Flips(Windows)) <= IF sdl \in {"notify", "done"} THEN 2 ELSE 1

\* The flips in the queue whose image has not been given back, and the threads
\* that have an image and have not queued their flip.
Unpresented ==
    {n \in DOMAIN m_messages :
        m_messages[n].type = "flip" /\ (n = 1 => sdl \notin {"notify", "done"})}
Holders == {t \in Threads : call[t] = "image" /\ at[t] = "idle" /\ image[t] # 0}

\* Every image that is out has one owner who will give it back, a flip in the queue
\* or the thread about to queue it, and each of those has an image that is out: no
\* flip is presented twice, or without its image, and no image is dropped.
ImagesOwned ==
    /\ inFlight = {m_messages[n].arg : n \in Unpresented} \cup {ticket[t] : t \in Holders}
    /\ \A m, n \in Unpresented : m_messages[m].arg = m_messages[n].arg => m = n
    /\ \A s, t \in Holders : ticket[s] = ticket[t] => s = t
    /\ \A n \in Unpresented, t \in Holders : m_messages[n].arg # ticket[t]

\* Every submit returns, unless a close has locked up m_mutexInt, the program has
\* ended, or every image of the swapchain has been leaked: waiting for an image,
\* with m_mutexInt released, never keeps the SDL thread from giving one back.
SubmitReturns ==
    \A t \in Threads : call[t] = "submit" ~>
        \/ call[t] = "idle"
        \/ KeptLocked \/ sdl = "crashed"
        \/ held = SwapImages /\ inFlight = {}

-----------------------------------------------------------------------------
\* What videoout.h promises and the code does not keep: close and SDLInit return
\* while the program runs: `Closes the window', `@return 0: success'.
CallsReturn ==
    \A t \in Threads : call[t] = "pushed" /\ what[t] # "open" ~>
        (call[t] = "idle" \/ sdl = "crashed")
=============================================================================
