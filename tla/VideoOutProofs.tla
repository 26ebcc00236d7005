--------------------------- MODULE VideoOutProofs ---------------------------
(***************************************************************************)
(* Proofs about ImageHandler and about VideoOut, which uses it, for any    *)
(* number of threads, windows, images and answers of Vulkan.               *)
(*                                                                         *)
(* The argument for ImageHandler is that of a ticket lock: every ticket    *)
(* not yet passed on lies between m_presentCount and m_waitId, no two      *)
(* requests share one, and whoever acquires an image, or has one that is   *)
(* out, holds the ticket m_presentCount.  That of VideoOut follows an      *)
(* image from the request to its presentation: it belongs to one thread    *)
(* or to one message in the queue, so that what the SDL thread gives back  *)
(* is out.  The two invariants are proved together: the first needs the    *)
(* second where an image is given back, the second the first everywhere.   *)
(***************************************************************************)
EXTENDS VideoOut, FiniteSetTheorems, FunctionTheorems, SequenceTheorems, TLAPS

\* At most one thread keeps the mutex.
LockExclusive ==
    \A s, t \in Threads :
        at[s] \in {"tosleep", "acquire"} /\ at[t] \in {"tosleep", "acquire"} => s = t

\* The tickets that have not been passed on.
TicketsInRange ==
    /\ 0 < m_presentCount /\ m_presentCount <= m_waitId + 1
    /\ \A t \in Requesting : m_presentCount <= ticket[t] /\ ticket[t] <= m_waitId

\* The image that is out, and the one being acquired, belong to the ticket
\* m_presentCount.
Served ==
    /\ \/ inFlight = {} /\ m_countImages = 0
       \/ inFlight = {m_presentCount} /\ m_countImages = 1 /\ m_presentCount <= m_waitId /\ held > 0
    /\ \A t \in Threads : at[t] = "acquire" =>
          ticket[t] = m_presentCount /\ inFlight = {} /\ numTries \in 0..2

\* A thread about to sleep has found its predicate false, and the mutex it keeps
\* lets nobody make it true.
SleepJustified == \A t \in Threads : at[t] = "tosleep" => ~Turn(ticket[t])

IInv ==
    /\ TypeOK /\ LockExclusive /\ TicketsInRange /\ TicketsDistinct /\ Served
    /\ SleepJustified /\ NoLostWakeup /\ NoTicketLost

LEMMA ServedOne == ASSUME IInv PROVE OneInFlight
  <1>1. Cardinality({}) = 0 /\ Cardinality({m_presentCount}) = 1
    BY FS_EmptySet, FS_Singleton
  <1>2. QED
    BY <1>1 DEF IInv, Served, OneInFlight

LEMMA InitIInv == ASSUME Init PROVE IInv
  BY TicketAssumption
  DEF Init, IInv, TypeOK, LockExclusive, TicketsInRange, TicketsDistinct, Served, Requesting,
      SleepJustified, NoLostWakeup, NoTicketLost, Asleep, m_stop

\* The three outcomes of the predicate.
LEMMA TestCases ==
    ASSUME NEW t \in Threads, NEW n \in Nat, Test(t, n)
    PROVE  /\ UNCHANGED <<m_presentCount, m_countImages, stopper, inFlight, presenter, held>>
           /\ \/ m_stop /\ at' = [at EXCEPT ![t] = "idle"] /\ image' = [image EXCEPT ![t] = 0]
                        /\ numTries' = numTries
              \/ /\ ~m_stop /\ Turn(n) /\ at' = [at EXCEPT ![t] = "acquire"]
                 /\ image' = image /\ numTries' = 2
              \/ /\ ~m_stop /\ ~Turn(n) /\ at' = [at EXCEPT ![t] = "tosleep"]
                 /\ image' = image /\ numTries' = numTries
  <1>1. CASE m_stop
    BY <1>1 DEF Test, Goto, Return
  <1>2. CASE ~m_stop /\ Turn(n)
    BY <1>2 DEF Test, Goto
  <1>3. CASE ~m_stop /\ ~Turn(n)
    BY <1>3 DEF Test, Goto
  <1>4. QED
    BY <1>1, <1>2, <1>3

LEMMA GetImageStep == ASSUME IInv, NEW t \in Threads, GetImage(t) PROVE IInv'
  <1> USE DEF IInv
  <1>1. m_waitId + 1 \in Nat /\ Test(t, m_waitId + 1)
    BY DEF GetImage, TypeOK
  <1>2. /\ m_waitId' = m_waitId + 1 /\ ticket' = [ticket EXCEPT ![t] = m_waitId + 1]
        /\ at[t] = "idle" /\ woken' = woken /\ \A s \in Threads : at[s] \notin {"tosleep", "acquire"}
        /\ UNCHANGED <<m_presentCount, m_countImages, stopper, inFlight, presenter, held>>
    BY <1>1, TestCases DEF GetImage, Locked
  <1>3. /\ \A s \in Threads \ {t} : at'[s] = at[s] /\ ticket'[s] = ticket[s]
        /\ ticket'[t] = m_waitId + 1 /\ ticket' \in [Threads -> Nat]
        /\ at'[t] \in {"idle", "acquire", "tosleep"}
        /\ at' \in [Threads -> {"idle", "tosleep", "asleep", "acquire", "notify"}]
    BY <1>1, <1>2, TestCases DEF TypeOK
  <1>4. /\ m_stop \/ at'[t] # "idle"
        /\ at'[t] = "acquire" => Turn(m_waitId + 1) /\ numTries' = 2
        /\ at'[t] = "tosleep" => ~Turn(m_waitId + 1)
    BY <1>1, TestCases DEF TypeOK
  <1>5. TypeOK' /\ Asleep' = Asleep
    <2>1. Asleep' = Asleep
      BY <1>2, <1>3 DEF Asleep
    <2>2. image' \in [Threads -> Nat] /\ numTries' \in -1..2
      BY <1>1, TestCases DEF TypeOK
    <2>3. QED
      BY <1>2, <1>3, <2>1, <2>2 DEF TypeOK
  <1>6. Requesting' \subseteq Requesting \cup {t} /\ Requesting \subseteq Requesting' /\ t \notin Requesting
    BY <1>2, <1>3 DEF Requesting
  <1>7. \A k \in inFlight : k <= m_waitId
    BY DEF Served, TypeOK
  <1>8. LockExclusive' /\ TicketsInRange' /\ TicketsDistinct'
    BY <1>2, <1>3, <1>6, <1>7 DEF LockExclusive, TicketsInRange, TicketsDistinct, TypeOK, Requesting
  <1>9. Served'
    BY <1>2, <1>3, <1>4 DEF Served, Turn, TypeOK, TicketsInRange
  <1>10. SleepJustified' /\ NoLostWakeup'
    BY <1>2, <1>3, <1>4, <1>5 DEF SleepJustified, NoLostWakeup, Turn, Asleep, TypeOK
  <1>11. NoTicketLost'
    BY <1>2, <1>3, <1>4, <1>6 DEF NoTicketLost, m_stop, TypeOK, Requesting
  <1>12. QED
    BY <1>5, <1>8, <1>9, <1>10, <1>11

LEMMA SleepStep == ASSUME IInv, NEW t \in Threads, Sleep(t) PROVE IInv'
  <1> USE DEF IInv
  <1>1. Requesting' = Requesting /\ Asleep' = Asleep \cup {t} /\ ~Turn(ticket[t])
    BY DEF Sleep, Goto, TypeOK, Requesting, Asleep, SleepJustified
  <1>2. TypeOK' /\ LockExclusive' /\ TicketsInRange' /\ TicketsDistinct' /\ NoTicketLost'
    BY <1>1 DEF Sleep, Goto, counters, TypeOK, LockExclusive, TicketsInRange, TicketsDistinct,
                NoTicketLost, m_stop
  <1>3. Served' /\ SleepJustified'
    BY DEF Sleep, Goto, counters, TypeOK, Served, SleepJustified, Turn
  <1>4. NoLostWakeup'
    BY <1>1 DEF Sleep, Goto, counters, TypeOK, NoLostWakeup, Turn, Asleep
  <1>5. QED
    BY <1>2, <1>3, <1>4

LEMMA ResumeStep == ASSUME IInv, NEW t \in Threads, Resume(t) PROVE IInv'
  <1> USE DEF IInv
  <1>1. ticket[t] \in Nat /\ Test(t, ticket[t])
    BY DEF Resume, TypeOK
  <1>2. /\ at[t] = "asleep" /\ woken' = woken \ {t}
        /\ \A s \in Threads : at[s] \notin {"tosleep", "acquire"}
        /\ UNCHANGED <<m_waitId, ticket, m_presentCount, m_countImages, stopper, inFlight, presenter, held>>
    BY <1>1, TestCases DEF Resume, Locked
  <1>3. /\ \A s \in Threads \ {t} : at'[s] = at[s]
        /\ at'[t] \in {"idle", "acquire", "tosleep"}
        /\ at' \in [Threads -> {"idle", "tosleep", "asleep", "acquire", "notify"}]
    BY <1>1, <1>2, TestCases DEF TypeOK
  <1>4. /\ m_stop \/ at'[t] # "idle"
        /\ at'[t] = "acquire" => Turn(ticket[t]) /\ numTries' = 2
        /\ at'[t] = "tosleep" => ~Turn(ticket[t])
    BY <1>1, TestCases DEF TypeOK
  <1>5. TypeOK' /\ Asleep' = Asleep \ {t}
    <2>1. Asleep' = Asleep \ {t}
      BY <1>2, <1>3 DEF Asleep
    <2>2. image' \in [Threads -> Nat] /\ numTries' \in -1..2
      BY <1>1, TestCases DEF TypeOK
    <2>3. QED
      BY <1>2, <1>3, <2>1, <2>2 DEF TypeOK
  <1>6. Requesting' \subseteq Requesting /\ t \in Requesting /\ (m_stop \/ Requesting' = Requesting)
    BY <1>2, <1>3, <1>4 DEF Requesting
  <1>8. LockExclusive' /\ TicketsInRange' /\ TicketsDistinct' /\ NoTicketLost'
    BY <1>2, <1>3, <1>6 DEF LockExclusive, TicketsInRange, TicketsDistinct, NoTicketLost, m_stop, TypeOK
  <1>9. Served'
    <2>1. inFlight = {m_presentCount} => m_presentCount # ticket[t]
      BY <1>6 DEF TicketsDistinct
    <2>2. QED
      BY <1>2, <1>3, <1>4, <2>1 DEF Served, Turn, TypeOK
  <1>10. SleepJustified' /\ NoLostWakeup'
    BY <1>2, <1>3, <1>4, <1>5 DEF SleepJustified, NoLostWakeup, Turn, Asleep, TypeOK
  <1>12. QED
    BY <1>5, <1>8, <1>9, <1>10

\* A fake present: the ticket of the request that acquires is passed on.
LEMMA FailStep ==
    ASSUME IInv, NEW t \in Threads, at[t] = "acquire", Fail(t), numTries' \in -1..2, held' \in Nat,
           UNCHANGED <<m_waitId, stopper, ticket, woken, presenter>>
    PROVE  IInv'
  <1> USE DEF IInv
  <1>1. /\ m_presentCount' = m_presentCount + 1 /\ ticket[t] = m_presentCount /\ inFlight = {}
        /\ at' = [at EXCEPT ![t] = "notify"] /\ image' = [image EXCEPT ![t] = 0]
        /\ m_countImages' = m_countImages /\ inFlight' = {}
        /\ \A s \in Threads : at[s] \in {"tosleep", "acquire"} => s = t
    BY DEF Fail, Goto, Return, Served, LockExclusive
  <1>2. Requesting' = Requesting \ {t} /\ t \in Requesting /\ Asleep' = Asleep
    BY <1>1 DEF Requesting, Asleep, TypeOK
  <1>3. TypeOK' /\ LockExclusive' /\ SleepJustified'
    BY <1>1, <1>2 DEF TypeOK, LockExclusive, SleepJustified
  <1>4. TicketsInRange' /\ TicketsDistinct' /\ NoTicketLost'
    <2>1. \A s \in Requesting \ {t} : ticket[s] > m_presentCount
      BY <1>1, <1>2 DEF TicketsInRange, TicketsDistinct, Requesting, TypeOK
    <2>2. m_presentCount <= m_waitId
      BY <1>1, <1>2 DEF TicketsInRange
    <2>3. QED
      BY <1>1, <1>2, <2>1, <2>2 DEF TicketsInRange, TicketsDistinct, NoTicketLost, TypeOK, m_stop, Requesting
  <1>5. Served' /\ NoLostWakeup'
    BY <1>1, <1>2 DEF Served, NoLostWakeup, TypeOK
  <1>6. QED
    BY <1>3, <1>4, <1>5

LEMMA AcquiredStep == ASSUME IInv, NEW t \in Threads, Acquired(t) PROVE IInv'
  <1> USE DEF IInv
  <1>1. CASE numTries <= 0
    BY <1>1, FailStep DEF Acquired, TypeOK
  <1>2. CASE ~(numTries <= 0)
    <2>0. /\ at[t] = "acquire" /\ ticket[t] = m_presentCount /\ inFlight = {} /\ m_countImages = 0
          /\ inFlight' = inFlight \cup {ticket[t]} /\ m_countImages' = m_countImages + 1
      BY <1>2 DEF Acquired, Served
    <2>1. /\ inFlight' = {m_presentCount} /\ inFlight = {} /\ m_countImages = 0 /\ m_countImages' = 1
          /\ ticket[t] = m_presentCount /\ at' = [at EXCEPT ![t] = "idle"] /\ at[t] = "acquire"
          /\ image' = [image EXCEPT ![t] = ticket[t]] /\ held' = held + 1
          /\ UNCHANGED <<m_presentCount, m_waitId, stopper, ticket, numTries, woken, presenter>>
          /\ \A s \in Threads : at[s] \in {"tosleep", "acquire"} => s = t
      BY <1>2, <2>0 DEF Acquired, Goto, Return, LockExclusive
    <2>2. Requesting' = Requesting \ {t} /\ t \in Requesting /\ Asleep' = Asleep
      BY <2>1 DEF Requesting, Asleep, TypeOK
    <2>3. TypeOK' /\ LockExclusive' /\ SleepJustified'
      BY <2>1, <2>2 DEF TypeOK, LockExclusive, SleepJustified
    <2>4. TicketsInRange' /\ TicketsDistinct' /\ NoTicketLost'
      BY <2>1, <2>2 DEF TicketsInRange, TicketsDistinct, NoTicketLost, TypeOK, m_stop
    <2>5. Served'
      BY <2>1, <2>2 DEF Served, TypeOK, TicketsInRange
    <2>6. NoLostWakeup'
      <3>1. \A s \in Asleep : ticket[s] # m_presentCount
        BY <2>1, <2>2 DEF TicketsDistinct, Asleep, Requesting
      <3>2. QED
        BY <2>1, <2>2, <3>1 DEF NoLostWakeup, Turn, Asleep
    <2>7. QED
      BY <2>3, <2>4, <2>5, <2>6
  <1>3. QED
    BY <1>1, <1>2

LEMMA AcquireErrorStep == ASSUME IInv, NEW t \in Threads, AcquireError(t) PROVE IInv'
  <1> USE DEF IInv
  <1>1. numTries \in 0..2 /\ held \in Nat
    BY DEF AcquireError, Served, TypeOK
  <1>2. CASE numTries = 0
    BY <1>1, <1>2, FailStep DEF AcquireError
  <1>3. CASE numTries # 0
    <2>1. UNCHANGED <<m_presentCount, m_countImages, at, image, inFlight, m_waitId, stopper,
                      ticket, woken, presenter, held>>
      BY <1>3 DEF AcquireError
    <2>2. numTries' \in 0..2
      BY <1>1, <1>3 DEF AcquireError
    <2>3. QED
      BY <2>1, <2>2 DEF TypeOK, LockExclusive, TicketsInRange, TicketsDistinct, Served, Requesting,
           SleepJustified, NoLostWakeup, NoTicketLost, Asleep, m_stop, Turn
  <1>4. QED
    BY <1>2, <1>3

LEMMA AcquireOtherStep ==
    ASSUME IInv, NEW t \in Threads, AcquireRecreates(t) \/ AcquireStopped(t)
    PROVE  IInv'
  <1> USE DEF IInv
  <1>1. CASE AcquireRecreates(t)
    <2>1. held' \in Nat /\ inFlight = {}
      BY <1>1 DEF AcquireRecreates, recreate, TypeOK, Served
    <2>2. QED
      BY <1>1, <2>1 DEF AcquireRecreates, counters, TypeOK, LockExclusive, TicketsInRange,
         TicketsDistinct, Served, Requesting, SleepJustified, NoLostWakeup, NoTicketLost,
         Asleep, m_stop, Turn
  <1>2. CASE AcquireStopped(t)
    <2>1. Requesting' \subseteq Requesting /\ Asleep' = Asleep
      BY <1>2 DEF AcquireStopped, Goto, Requesting, Asleep, TypeOK
    <2>2. QED
      BY <1>2, <2>1 DEF AcquireStopped, Goto, Return, counters, TypeOK, LockExclusive, TicketsInRange,
         TicketsDistinct, Served, SleepJustified, NoLostWakeup, NoTicketLost, m_stop, Turn
  <1>3. QED
    BY <1>1, <1>2

\* A notify wakes every sleeper: the steps that only notify.
LEMMA NotifySteps ==
    ASSUME IInv, (\E t \in Threads : FailNotify(t)) \/ DoneNotify \/ Stop \/ StopNotify
    PROVE  IInv'
  <1> USE DEF IInv
  <1>1. ASSUME NEW t \in Threads, FailNotify(t) PROVE IInv'
    <2>1. Requesting' = Requesting /\ Asleep' = Asleep
      BY <1>1 DEF FailNotify, Goto, Requesting, Asleep, TypeOK
    <2>2. QED
      BY <1>1, <2>1 DEF FailNotify, Goto, counters, TypeOK, LockExclusive, TicketsInRange,
         TicketsDistinct, Served, SleepJustified, NoLostWakeup, NoTicketLost, m_stop, Turn
  <1>2. ASSUME DoneNotify \/ Stop \/ StopNotify PROVE IInv'
    <2>1. /\ UNCHANGED <<m_waitId, m_presentCount, m_countImages, at, ticket, numTries, image, inFlight, held>>
          /\ (woken' = woken /\ presenter' = presenter) \/ woken' = woken \cup Asleep
          /\ presenter' \in {"idle", "notify"} /\ stopper' \in {"running", "notify", "done"}
          /\ m_stop => m_stop'
      BY <1>2 DEF DoneNotify, Stop, StopNotify, counters, TypeOK, m_stop
    <2>2. QED
      BY <2>1 DEF TypeOK, LockExclusive, TicketsInRange, TicketsDistinct, Served, Requesting,
         SleepJustified, NoLostWakeup, NoTicketLost, Asleep, Turn
  <1>3. QED
    BY <1>1, <1>2

LEMMA NotifyDoneStep == ASSUME IInv, NEW k \in inFlight, notify_done(k) PROVE IInv'
  <1> USE DEF IInv
  <1>1. /\ inFlight = {m_presentCount} /\ k = m_presentCount /\ m_countImages = 1 /\ held > 0
        /\ m_presentCount <= m_waitId
    BY DEF Served
  <1>2. /\ inFlight' = {} /\ m_countImages' = 0 /\ held' = held - 1 /\ presenter' = "notify"
        /\ m_presentCount' = m_presentCount + 1
        /\ UNCHANGED <<m_waitId, stopper, at, ticket, numTries, woken, image>>
        /\ \A s \in Threads : at[s] \notin {"tosleep", "acquire"}
    BY <1>1 DEF notify_done, Locked
  <1>3. \A s \in Requesting : ticket[s] > m_presentCount
    BY <1>1 DEF TicketsInRange, TicketsDistinct, Requesting, TypeOK
  <1>4. TypeOK' /\ LockExclusive' /\ SleepJustified' /\ NoLostWakeup' /\ Served'
    BY <1>1, <1>2 DEF TypeOK, LockExclusive, SleepJustified, NoLostWakeup, Served, Asleep
  <1>5. TicketsInRange' /\ TicketsDistinct' /\ NoTicketLost'
    BY <1>1, <1>2, <1>3 DEF TicketsInRange, TicketsDistinct, NoTicketLost, Requesting, TypeOK, m_stop
  <1>6. QED
    BY <1>4, <1>5

LEMMA NextIInv == ASSUME IInv, [Next]_vars PROVE IInv'
  <1>1. CASE UNCHANGED vars
    BY <1>1 DEF vars, IInv, TypeOK, LockExclusive, TicketsInRange, TicketsDistinct, Served,
       Requesting, SleepJustified, NoLostWakeup, NoTicketLost, Asleep, m_stop, Turn
  <1>2. ASSUME NEW t \in Threads, GetImage(t) \/ Run(t) PROVE IInv'
    BY <1>2, GetImageStep, SleepStep, ResumeStep, AcquiredStep, AcquireErrorStep,
       AcquireOtherStep, NotifySteps DEF Run
  <1>3. CASE Present \/ Stop \/ StopNotify
    BY <1>3, NotifySteps, NotifyDoneStep DEF Present
  <1>4. QED
    BY <1>1, <1>2, <1>3 DEF Next

\* All parts of the invariant hold together, for any requests, answers of Vulkan and
\* a stop at any moment (imageHandler.cpp).
THEOREM Inductive == Spec => []IInv
  <1>1. Init => IInv
    BY InitIInv
  <1>2. IInv /\ [Next]_vars => IInv'
    BY NextIInv
  <1>3. QED
    BY <1>1, <1>2, PTL DEF Spec

\* The variables stay in their ranges (imageHandler.cpp's counters and flags).
THEOREM TypeCorrect == Spec => []TypeOK
  BY Inductive, PTL DEF IInv

\* For any m_maxImages, one image at most is between getImage_blocking and
\* notify_done, and none while another request acquires.
THEOREM OneImageOut == Spec => []OneInFlight
  BY Inductive, ServedOne, PTL

\* Requests and images never share a ticket.
THEOREM TicketsAreDistinct == Spec => []TicketsDistinct
  BY Inductive, PTL DEF IInv

\* Until stop, no ticket is lost, whichever requests give up.
THEOREM TicketsAreKept == Spec => []NoTicketLost
  BY Inductive, PTL DEF IInv

\* The request whose turn it is has been woken, or a notify is on its way.
THEOREM NoWakeupIsLost == Spec => []NoLostWakeup
  BY Inductive, PTL DEF IInv

\* Images are handed out in the order of the tickets.
THEOREM ServedInTicketOrder == Spec => InTicketOrder
  <1> DEFINE A == \A t \in Threads : image'[t] # image[t] /\ image'[t] # 0
                    => \A s \in Requesting \ {t} : ticket[t] < ticket[s]
  <1>1. IInv /\ [Next]_vars => [A]_vars
    <2> SUFFICES ASSUME IInv, Next, NEW t \in Threads, image'[t] # image[t], image'[t] # 0,
                        NEW s \in Requesting \ {t}
                 PROVE  ticket[t] < ticket[s]
      OBVIOUS
    <2>1. image \in [Threads -> Nat]
      BY DEF IInv, TypeOK
    <2>2. PICK r \in Threads : GetImage(r) \/ Run(r)
      BY DEF Next, Present, DoneNotify, notify_done, Stop, StopNotify
    <2>3. Acquired(r)
      <3>1. CASE GetImage(r)
        <4>1. m_waitId + 1 \in Nat /\ Test(r, m_waitId + 1)
          BY <3>1 DEF GetImage, IInv, TypeOK
        <4>2. QED
          BY <2>1, <4>1, TestCases
      <3>2. CASE Resume(r)
        <4>1. ticket[r] \in Nat /\ Test(r, ticket[r])
          BY <3>2 DEF Resume, IInv, TypeOK
        <4>2. QED
          BY <2>1, <4>1, TestCases
      <3>3. QED
        BY <2>1, <2>2, <3>1, <3>2
           DEF Run, Sleep, AcquireError, Fail, Return, AcquireRecreates, AcquireStopped, FailNotify
    <2>4. r = t /\ at[t] = "acquire"
      BY <2>1, <2>3 DEF Acquired, Fail, Return
    <2>5. ticket[t] = m_presentCount /\ t \in Requesting
      BY <2>4 DEF IInv, Served, Requesting
    <2>6. ticket[s] # ticket[t] /\ m_presentCount <= ticket[s]
      BY <2>5 DEF IInv, TicketsDistinct, TicketsInRange
    <2>7. QED
      BY <2>5, <2>6 DEF IInv, TypeOK, Requesting
  <1>2. QED
    BY Inductive, <1>1, PTL DEF Spec, InTicketOrder
-----------------------------------------------------------------------------
\* The threads a stop has not reached.
Missed(t) == at[t] = "tosleep" \/ (at[t] = "asleep" /\ t \notin woken)
MissedOne == stopper = "done" => \A s, t \in Threads : Missed(s) /\ Missed(t) => s = t

LEMMA MissedStep == ASSUME IInv, MissedOne, [Next]_vars PROVE MissedOne'
  <1> SUFFICES ASSUME stopper' = "done"
               PROVE  \A s, t \in Threads : Missed(s)' /\ Missed(t)' => s = t
    BY DEF MissedOne
  <1>1. CASE StopNotify
    <2>1. \A s \in Threads : Missed(s)' => at[s] = "tosleep"
      BY <1>1 DEF StopNotify, Missed, Asleep
    <2>2. QED
      BY <2>1 DEF IInv, LockExclusive
  <1>2. CASE ~StopNotify
    <2>1. stopper = "done" /\ m_stop
      <3>1. CASE UNCHANGED vars
        BY <3>1 DEF vars, m_stop
      <3>2. ASSUME NEW t \in Threads, GetImage(t) \/ Run(t) PROVE stopper' = stopper
        BY <3>2 DEF GetImage, Run, Sleep, Resume, Test, Acquired, AcquireError, AcquireRecreates,
                    AcquireStopped, FailNotify
      <3>3. CASE Present \/ Stop
        BY <3>3 DEF Present, DoneNotify, notify_done, Stop, m_stop
      <3>4. QED
        BY <1>2, <3>1, <3>2, <3>3 DEF Next, m_stop
    <2>2. \A s \in Threads : Missed(s)' => Missed(s)
      <3>1. CASE UNCHANGED vars
        BY <3>1 DEF vars, Missed
      <3>2. ASSUME NEW t \in Threads, GetImage(t) \/ Resume(t), NEW s \in Threads, Missed(s)'
            PROVE  Missed(s)
        <4>1. PICK n \in Nat : Test(t, n)
          BY <3>2 DEF GetImage, Resume, IInv, TypeOK
        <4>2. at' = [at EXCEPT ![t] = "idle"]
          BY <2>1, <4>1, TestCases
        <4>3. /\ \A u \in Threads \ {t} : at'[u] = at[u] /\ (u \in woken => u \in woken')
              /\ at'[t] = "idle"
          BY <3>2, <4>2 DEF GetImage, Resume, IInv, TypeOK
        <4>4. QED
          BY <3>2, <4>3 DEF Missed
      <3>3. ASSUME NEW t \in Threads, Sleep(t) PROVE \A s \in Threads : Missed(s)' => Missed(s)
        BY <3>3 DEF Sleep, Goto, Missed, IInv, TypeOK
      <3>4. ASSUME NEW t \in Threads,
                   \/ Acquired(t) \/ AcquireError(t) \/ AcquireRecreates(t)
                   \/ AcquireStopped(t) \/ FailNotify(t)
            PROVE  \A s \in Threads : Missed(s)' => Missed(s)
        BY <3>4 DEF Acquired, AcquireError, AcquireRecreates, AcquireStopped, FailNotify, Fail,
                    Goto, Missed, IInv, TypeOK
      <3>5. CASE Present \/ Stop
        BY <3>5 DEF Present, DoneNotify, notify_done, Stop, Missed
      <3>6. QED
        BY <1>2, <3>1, <3>2, <3>3, <3>4, <3>5 DEF Next, Run
    <2>3. QED
      BY <2>1, <2>2 DEF MissedOne
  <1>3. QED
    BY <1>1, <1>2

\* stop() sets its flag without the mutex, and strands one thread at most.
THEOREM StopStrandsOne == Spec => []StopStrandsOneAtMost
  <1>1. Init => MissedOne
    BY DEF Init, MissedOne
  <1>2. IInv /\ MissedOne /\ [Next]_vars => MissedOne'
    BY MissedStep
  <1>3. MissedOne => StopStrandsOneAtMost
    <2> DEFINE S == {t \in Threads : at[t] = "tosleep" \/ (at[t] = "asleep" /\ t \notin woken)}
    <2> SUFFICES ASSUME MissedOne, stopper = "done"
                 PROVE  Cardinality(S) <= 1
      BY DEF StopStrandsOneAtMost
    <2>1. CASE S = {}
      BY <2>1, FS_EmptySet
    <2>2. ASSUME NEW s \in S PROVE S = {s}
      BY <2>2 DEF MissedOne, Missed
    <2>3. ASSUME NEW s \in S PROVE Cardinality(S) = 1
      BY <2>2, <2>3, FS_Singleton
    <2>4. QED
      BY <2>1, <2>3
  <1>4. QED
    BY Inductive, <1>1, <1>2, <1>3, PTL DEF Spec
-----------------------------------------------------------------------------
(* The video output. *)

Message == [type : Kinds \cup {"flip"}, win : Int, arg : Nat, who : Threads]
Places == {"idle", "submit", "image", "pushed", "asleep", "relock"}

VideoTypesOK ==
    /\ gcQueueNum \in [Windows -> Int]
    /\ m_messages \in Seq(Message)
    /\ sdl \in {"loop", "presenting", "notify", "done", "crashed"}
    /\ call \in [Threads -> Places]
    /\ win \in [Threads -> Windows] /\ what \in [Threads -> Kinds]
    /\ submits \in Int

\* The flips in the queue are of windows; the one the SDL thread is at is the head.
QueueOK ==
    /\ \A n \in DOMAIN m_messages : m_messages[n].type = "flip" => m_messages[n].win \in Windows
    /\ sdl \in {"presenting", "notify", "done"} =>
          m_messages # <<>> /\ m_messages[1].type = "flip"
    /\ \A t \in condWoken : t \in Threads /\ call[t] = "asleep"

\* An image that is out belongs to a flip or to a thread, and there is one at most.
ImagesHeld ==
    /\ inFlight # {} => Unpresented # {} \/ Holders # {}
    /\ \A n \in Unpresented : m_messages[n].arg \in inFlight
    /\ \A t \in Holders : ticket[t] \in inFlight
    /\ \A m, n \in Unpresented : m = n
    /\ \A s, t \in Holders : s = t
    /\ Unpresented = {} \/ Holders = {}
    /\ \A t \in Threads : /\ at[t] = "notify" => image[t] = 0
                          /\ at[t] # "idle" => call[t] = "image"

VideoInv ==
    /\ VideoTypesOK /\ QueueOK /\ ImagesHeld
    /\ SubmitsBalanced /\ PendingNeverOverstated

LEMMA FlipsCount ==
    ASSUME m_messages \in Seq(Message), NEW W
    PROVE  /\ Flips(W) \in SUBSET Nat /\ IsFiniteSet(Flips(W)) /\ Cardinality(Flips(W)) \in Nat
  <1>1. Flips(W) \subseteq 1..Len(m_messages) /\ Len(m_messages) \in Nat
    BY DEF Flips
  <1>2. IsFiniteSet(Flips(W))
    <2>1. IsFiniteSet(1..Len(m_messages))
      BY <1>1, FS_Interval
    <2>2. QED
      BY <1>1, <2>1, FS_Subset
  <1>3. QED
    BY <1>1, <1>2, FS_CardinalityType

\* A message joins the queue: a flip of a window of W counts.
LEMMA Queued ==
    ASSUME m_messages \in Seq(Message), NEW x \in Message, m_messages' = Append(m_messages, x)
    PROVE  /\ m_messages' \in Seq(Message) /\ m_messages' # <<>>
           /\ DOMAIN m_messages' = DOMAIN m_messages \cup {Len(m_messages) + 1}
           /\ Len(m_messages) + 1 \notin DOMAIN m_messages
           /\ \A n \in DOMAIN m_messages : m_messages'[n] = m_messages[n]
           /\ m_messages'[Len(m_messages) + 1] = x
           /\ \A W : Cardinality(Flips(W)') =
                 Cardinality(Flips(W)) + (IF x.type = "flip" /\ x.win \in W THEN 1 ELSE 0)
  <1> DEFINE l == Len(m_messages) + 1
  <1>1. /\ m_messages' \in Seq(Message) /\ m_messages' # <<>>
        /\ DOMAIN m_messages' = DOMAIN m_messages \cup {l}
        /\ l \notin DOMAIN m_messages
        /\ \A n \in DOMAIN m_messages : m_messages'[n] = m_messages[n]
        /\ m_messages'[l] = x
    OBVIOUS
  <1> HIDE DEF l
  <1>2. ASSUME NEW W
        PROVE  Cardinality(Flips(W)') =
                 Cardinality(Flips(W)) + (IF x.type = "flip" /\ x.win \in W THEN 1 ELSE 0)
    <2>1. IsFiniteSet(Flips(W)) /\ Cardinality(Flips(W)) \in Nat /\ l \notin Flips(W)
      BY <1>1, FlipsCount DEF Flips
    <2>2. CASE x.type = "flip" /\ x.win \in W
      <3>1. Flips(W)' = Flips(W) \cup {l}
        BY <1>1, <2>2 DEF Flips
      <3>2. QED
        BY <2>1, <2>2, <3>1, FS_AddElement
    <2>3. CASE ~(x.type = "flip" /\ x.win \in W)
      <3>1. Flips(W)' = Flips(W)
        BY <1>1, <2>3 DEF Flips
      <3>2. QED
        BY <2>1, <2>3, <3>1
    <2>4. QED
      BY <2>2, <2>3
  <1>3. QED
    BY <1>1, <1>2 DEF l

\* The head leaves the queue, and the others move up.
LEMMA Popped ==
    ASSUME m_messages \in Seq(Message), m_messages # <<>>, m_messages' = Tail(m_messages)
    PROVE  /\ m_messages' \in Seq(Message) /\ 1 \in DOMAIN m_messages
           /\ Head(m_messages) = m_messages[1] /\ m_messages[1] \in Message
           /\ \A n : n \in DOMAIN m_messages' <=> n \in Nat \ {0} /\ n + 1 \in DOMAIN m_messages
           /\ \A n \in DOMAIN m_messages' : m_messages'[n] = m_messages[n + 1]
           /\ \A W : Cardinality(Flips(W)') = Cardinality(Flips(W)) - (IF 1 \in Flips(W) THEN 1 ELSE 0)
  <1>1. /\ m_messages' \in Seq(Message) /\ 1 \in DOMAIN m_messages
        /\ Head(m_messages) = m_messages[1] /\ m_messages[1] \in Message
        /\ \A n : n \in DOMAIN m_messages' <=> n \in Nat \ {0} /\ n + 1 \in DOMAIN m_messages
        /\ \A n \in DOMAIN m_messages' : m_messages'[n] = m_messages[n + 1]
    OBVIOUS
  <1>2. ASSUME NEW W
        PROVE  Cardinality(Flips(W)') = Cardinality(Flips(W)) - (IF 1 \in Flips(W) THEN 1 ELSE 0)
    <2> DEFINE S == Flips(W) \ {1}
               f == [n \in S |-> n - 1]
    <2>1. IsFiniteSet(Flips(W)) /\ Cardinality(Flips(W)) \in Nat /\ Flips(W) \subseteq Nat
      BY FlipsCount
    <2>2. \A n \in S : n - 1 \in Nat \ {0} /\ (n - 1) + 1 = n
      BY DEF Flips
    <2>3. \A n : n \in Flips(W)' <=> n \in Nat \ {0} /\ n + 1 \in Flips(W)
      BY <1>1 DEF Flips
    <2>4. f \in Bijection(S, Flips(W)')
      <3>1. f \in [S -> Flips(W)']
        BY <2>2, <2>3
      <3>2. \A m, n \in S : f[m] = f[n] => m = n
        BY <2>1
      <3>3. \A n \in Flips(W)' : \E m \in S : f[m] = n
        <4> TAKE n \in Flips(W)'
        <4>1. n \in Nat \ {0} /\ n + 1 \in S /\ (n + 1) - 1 = n
          BY <2>3
        <4>2. QED
          BY <4>1
      <3>4. QED
        BY <3>1, <3>2, <3>3 DEF Bijection, Injection, IsInjective, Surjection
    <2>5. IsFiniteSet(S) /\ Cardinality(S) = Cardinality(Flips(W)) - (IF 1 \in Flips(W) THEN 1 ELSE 0)
      <3>1. /\ IsFiniteSet(S)
            /\ Cardinality(S) = IF 1 \in Flips(W) THEN Cardinality(Flips(W)) - 1
                                                 ELSE Cardinality(Flips(W))
        BY <2>1, FS_RemoveElement
      <3>2. QED
        BY <2>1, <3>1
    <2>6. Cardinality(Flips(W)') = Cardinality(S)
      BY <2>4, <2>5, FS_Bijection DEF ExistsBijection
    <2>7. QED
      BY <2>5, <2>6
  <1>3. QED
    BY <1>1, <1>2

Submitting == {t \in Threads : call[t] \in {"submit", "image"}}

\* One thread moves: it may join the submits or leave them.
LEMMA Moved ==
    ASSUME VideoTypesOK, NEW t \in Threads, NEW p \in Places, call' = [call EXCEPT ![t] = p]
    PROVE  /\ call' \in [Threads -> Places] /\ call'[t] = p
           /\ \A u \in Threads : u # t => call'[u] = call[u]
           /\ Cardinality(Submitting) \in Nat
           /\ Cardinality(Submitting') = Cardinality(Submitting)
                 - (IF call[t] \in {"submit", "image"} THEN 1 ELSE 0)
                 + (IF p \in {"submit", "image"} THEN 1 ELSE 0)
  <1>1. /\ call' \in [Threads -> Places] /\ call'[t] = p
        /\ \A u \in Threads : u # t => call'[u] = call[u]
    BY DEF VideoTypesOK
  <1>2. IsFiniteSet(Submitting)
    BY ThreadsAssumption, FS_Subset DEF Submitting
  <1>3. Cardinality(Submitting) \in Nat
    BY <1>2, FS_CardinalityType
  <1> DEFINE rest == Submitting \ {t}
  <1>4. /\ IsFiniteSet(rest)
        /\ Cardinality(rest) = IF t \in Submitting THEN Cardinality(Submitting) - 1
                                                   ELSE Cardinality(Submitting)
    BY <1>2, FS_RemoveElement
  <1>5. t \in Submitting <=> call[t] \in {"submit", "image"}
    BY DEF Submitting
  <1>6. CASE p \in {"submit", "image"}
    <2>1. Submitting' = rest \cup {t} /\ t \notin rest
      BY <1>1, <1>6 DEF Submitting
    <2>2. Cardinality(Submitting') = Cardinality(rest) + 1
      BY <1>4, <2>1, FS_AddElement
    <2>3. QED
      BY <1>1, <1>3, <1>4, <1>5, <1>6, <2>2
  <1>7. CASE p \notin {"submit", "image"}
    <2>1. Submitting' = rest
      BY <1>1, <1>7 DEF Submitting
    <2>2. QED
      BY <1>1, <1>3, <1>4, <1>5, <1>7, <2>1
  <1>8. QED
    BY <1>6, <1>7

LEMMA Balance ==
    /\ SubmitsBalanced <=> submits = Cardinality(Submitting) + Cardinality(Flips(Windows))
    /\ SubmitsBalanced' <=> submits' = Cardinality(Submitting') + Cardinality(Flips(Windows)')
  BY DEF SubmitsBalanced, Submitting

\* Images change hands only where a thread gets one, queues its flip or gives it back.
LEMMA ImagesKept ==
    ASSUME ImagesHeld, UNCHANGED vars, NEW d \in {0, 1},
           \A n \in Unpresented' : /\ n \in Nat /\ n + d \in Unpresented
                                   /\ m_messages'[n].arg = m_messages[n + d].arg,
           Unpresented # {} => Unpresented' # {},
           \A t \in Threads : call'[t] = "image" <=> call[t] = "image"
    PROVE  ImagesHeld'
  <1>1. Holders' = Holders
    BY DEF Holders, vars
  <1>2. \A m, n \in Unpresented' : m = n
    <2> TAKE m, n \in Unpresented'
    <2>1. m + d = n + d /\ m \in Nat /\ n \in Nat /\ d \in Nat
      BY DEF ImagesHeld
    <2>2. QED
      BY <2>1
  <1>3. QED
    BY <1>1, <1>2 DEF ImagesHeld, vars

\* With the queue and the SDL thread as they are.
LEMMA QueueSame ==
    ASSUME VideoInv, UNCHANGED <<m_messages, sdl>>
    PROVE  /\ Unpresented' = Unpresented /\ Unpresented \subseteq Nat
           /\ \A W : Flips(W)' = Flips(W)
           /\ \A n \in DOMAIN m_messages : m_messages'[n] = m_messages[n]
  BY DEF Unpresented, Flips, VideoInv, VideoTypesOK

\* A call other than a flip joins the queue.
LEMMA PushStep ==
    ASSUME VideoInv, NEW t \in Threads, NEW kind \in Kinds, NEW i \in Int, Push(t, kind, i),
           call[t] = "idle", UNCHANGED <<vars, sdl, condWoken, submits>>
    PROVE  /\ m_messages' \in Seq(Message) /\ call' \in [Threads -> Places]
           /\ what' \in [Threads -> Kinds]
           /\ QueueOK' /\ ImagesHeld' /\ SubmitsBalanced'
           /\ \A W : Cardinality(Flips(W)') = Cardinality(Flips(W))
  <1> DEFINE x == [type |-> kind, win |-> i, arg |-> 0, who |-> t]
             l == Len(m_messages) + 1
  <1>1. /\ m_messages \in Seq(Message) /\ m_messages' = Append(m_messages, x)
        /\ x \in Message /\ x.type # "flip" /\ x.type = kind
    BY DEF VideoInv, VideoTypesOK, Push, Message, Kinds
  <1> HIDE DEF x
  <1>2. call' = [call EXCEPT ![t] = "pushed"] /\ "pushed" \in Places /\ what' = [what EXCEPT ![t] = kind]
    BY DEF Push, GotoCall, Places
  <1>3. /\ m_messages' \in Seq(Message) /\ m_messages' # <<>>
        /\ DOMAIN m_messages' = DOMAIN m_messages \cup {l} /\ l \notin DOMAIN m_messages
        /\ \A n \in DOMAIN m_messages : m_messages'[n] = m_messages[n]
        /\ m_messages'[l] = x
        /\ \A W : Cardinality(Flips(W)') = Cardinality(Flips(W))
                     + (IF x.type = "flip" /\ x.win \in W THEN 1 ELSE 0)
    BY <1>1, Queued
  <1>4. \A W : Cardinality(Flips(W)) \in Nat /\ Cardinality(Flips(W)') = Cardinality(Flips(W))
    BY <1>1, <1>3, FlipsCount
  <1>5. /\ call' \in [Threads -> Places] /\ call'[t] = "pushed"
        /\ \A u \in Threads : u # t => call'[u] = call[u]
        /\ Cardinality(Submitting) \in Nat
        /\ Cardinality(Submitting') = Cardinality(Submitting) - 0 + 0
    BY <1>2, Moved DEF VideoInv
  <1>6. QueueOK'
    <2>1. m_messages # <<>> => 1 \in DOMAIN m_messages
      BY <1>1
    <2>2. \A u \in condWoken' : u \in Threads /\ call'[u] = "asleep"
      BY <1>5 DEF VideoInv, QueueOK
    <2>3. QED
      BY <1>1, <1>3, <2>1, <2>2 DEF VideoInv, QueueOK
  <1>7. ImagesHeld'
    <2>1. \A n \in Unpresented' : n \in Nat /\ n + 0 \in Unpresented /\ m_messages'[n].arg = m_messages[n + 0].arg
      BY <1>1, <1>3 DEF Unpresented
    <2>2. Unpresented # {} => Unpresented' # {}
      BY <1>1, <1>3 DEF Unpresented
    <2>3. QED
      BY <1>5, <2>1, <2>2, ImagesKept DEF VideoInv
  <1>8. SubmitsBalanced'
    BY <1>4, <1>5, Balance DEF VideoInv
  <1>9. what' \in [Threads -> Kinds]
    BY <1>2 DEF VideoInv, VideoTypesOK
  <1>10. QED
    BY <1>3, <1>4, <1>5, <1>6, <1>7, <1>8, <1>9

\* The end of a call that changes nothing but the caller's place and its window.
LEMMA CallStep ==
    ASSUME VideoInv, NEW t \in Threads, NEW p \in Places, call' = [call EXCEPT ![t] = p],
           call[t] \notin {"submit", "image"},
           \/ p = "submit" /\ submits' = submits + 1
           \/ p \notin {"submit", "image"} /\ submits' = submits,
           UNCHANGED <<vars, m_messages, sdl, gcQueueNum>>,
           \A u \in condWoken' : u \in condWoken /\ u # t,
           win' \in [Threads -> Windows], what' \in [Threads -> Kinds]
    PROVE  VideoInv'
  <1>1. /\ call' \in [Threads -> Places] /\ call'[t] = p
        /\ \A u \in Threads : u # t => call'[u] = call[u]
        /\ Cardinality(Submitting) \in Nat
        /\ Cardinality(Submitting') = Cardinality(Submitting)
              - (IF call[t] \in {"submit", "image"} THEN 1 ELSE 0)
              + (IF p \in {"submit", "image"} THEN 1 ELSE 0)
    BY Moved DEF VideoInv
  <1>2. VideoTypesOK'
    BY <1>1 DEF VideoInv, VideoTypesOK
  <1>3. QueueOK'
    BY <1>1 DEF VideoInv, QueueOK
  <1>4. ImagesHeld'
    <2>1. /\ \A n \in Unpresented' : n \in Nat /\ n + 0 \in Unpresented /\ m_messages'[n].arg = m_messages[n + 0].arg
          /\ Unpresented' = Unpresented
      BY QueueSame
    <2>2. QED
      BY <1>1, <2>1, ImagesKept DEF VideoInv
  <1>5. SubmitsBalanced'
    <2>1. Cardinality(Flips(Windows)') = Cardinality(Flips(Windows)) /\ Cardinality(Flips(Windows)) \in Nat
      BY QueueSame, FlipsCount DEF VideoInv, VideoTypesOK
    <2>2. QED
      BY <1>1, <2>1, Balance DEF VideoInv
  <1>6. PendingNeverOverstated'
    BY QueueSame DEF VideoInv, PendingNeverOverstated
  <1>7. QED
    BY <1>2, <1>3, <1>4, <1>5, <1>6 DEF VideoInv

LEMMA SubmitFlipStep ==
    ASSUME VideoInv, NEW t \in Threads, NEW i \in Windows, SubmitFlip(t, i)
    PROVE  VideoInv'
  <1>1. /\ call[t] = "idle" /\ submits' = submits + 1 /\ submits \in Int
        /\ call' = [call EXCEPT ![t] = "submit"] /\ "submit" \in Places
        /\ win' \in [Threads -> Windows] /\ what' \in [Threads -> Kinds]
        /\ UNCHANGED <<vars, m_messages, sdl, gcQueueNum, condWoken>>
    BY DEF SubmitFlip, Free, GotoCall, Places, VideoInv, VideoTypesOK, windows
  <1>2. \A u \in condWoken' : u \in condWoken /\ u # t
    BY <1>1 DEF VideoInv, QueueOK
  <1>3. QED
    BY <1>1, <1>2, CallStep

LEMMA StartImageStep ==
    ASSUME IInv, VideoInv, NEW t \in Threads, StartImage(t)
    PROVE  VideoInv'
  <1>1. /\ call[t] = "submit" /\ call' = [call EXCEPT ![t] = "image"] /\ "image" \in Places
        /\ UNCHANGED <<windows, m_messages, sdl, win, what, condWoken, submits>>
        /\ GetImage(t)
    BY DEF StartImage, GotoCall, Places
  <1>2. /\ call' \in [Threads -> Places] /\ call'[t] = "image"
        /\ \A u \in Threads : u # t => call'[u] = call[u]
        /\ Cardinality(Submitting') = Cardinality(Submitting)
    <2>1. call[t] = "submit" /\ call' = [call EXCEPT ![t] = "image"] /\ "image" \in Places
      BY <1>1
    <2>2. /\ call' \in [Threads -> Places] /\ call'[t] = "image"
          /\ \A u \in Threads : u # t => call'[u] = call[u]
          /\ Cardinality(Submitting) \in Nat
          /\ Cardinality(Submitting') = Cardinality(Submitting) - 1 + 1
      BY <2>1, Moved DEF VideoInv
    <2>3. QED
      BY <2>2
  <1>3. /\ \A u \in Threads : u # t => at'[u] = at[u] /\ image'[u] = image[u] /\ ticket'[u] = ticket[u]
        /\ at'[t] \in {"idle", "acquire", "tosleep"} /\ (at'[t] = "idle" => image'[t] = 0)
        /\ inFlight' = inFlight
    <2>1. m_waitId + 1 \in Nat /\ Test(t, m_waitId + 1)
      BY <1>1 DEF GetImage, IInv, TypeOK
    <2>2. ticket' = [ticket EXCEPT ![t] = m_waitId + 1]
      BY <1>1 DEF GetImage
    <2>3. QED
      BY <2>1, <2>2, TestCases DEF IInv, TypeOK
  <1>4. VideoTypesOK' /\ QueueOK'
    <2>1. VideoTypesOK'
      BY <1>1, <1>2 DEF VideoInv, VideoTypesOK, windows
    <2>2. \A u \in condWoken' : u \in Threads /\ call'[u] = "asleep"
      BY <1>1, <1>2 DEF VideoInv, QueueOK
    <2>3. QED
      BY <1>1, <2>1, <2>2 DEF VideoInv, QueueOK
  <1>5. ImagesHeld'
    <2>1. Holders' = Holders
      BY <1>1, <1>2, <1>3 DEF Holders
    <2>2. t \notin Holders
      BY <1>1 DEF Holders
    <2>3. \A u \in Threads : /\ at'[u] = "notify" => image'[u] = 0
                             /\ at'[u] # "idle" => call'[u] = "image"
      BY <1>2, <1>3 DEF VideoInv, ImagesHeld
    <2>4. \A u \in Holders' : ticket'[u] \in inFlight'
      BY <1>3, <2>1, <2>2 DEF VideoInv, ImagesHeld, Holders
    <2>5. QED
      BY <1>1, <1>3, <2>1, <2>3, <2>4, QueueSame DEF VideoInv, ImagesHeld
  <1>6. SubmitsBalanced' /\ PendingNeverOverstated'
    BY <1>1, <1>2, QueueSame, Balance DEF VideoInv, PendingNeverOverstated, windows
  <1>7. QED
    BY <1>4, <1>5, <1>6 DEF VideoInv

\* Whoever gets an image gets the only one: no flip has one and no other thread.
LEMMA RunImageStep ==
    ASSUME IInv, VideoInv, NEW t \in Threads, RunImage(t)
    PROVE  VideoInv'
  <1>1. /\ call[t] = "image" /\ Run(t)
        /\ UNCHANGED <<windows, m_messages, sdl, call, win, what, condWoken, submits>>
    BY DEF RunImage, threads
  <1>2. VideoTypesOK' /\ QueueOK'
    BY <1>1 DEF VideoInv, VideoTypesOK, QueueOK, windows
  <1>3. SubmitsBalanced' /\ PendingNeverOverstated'
    <2>1. Submitting' = Submitting
      BY <1>1 DEF Submitting
    <2>2. QED
      BY <1>1, <2>1, QueueSame, Balance DEF VideoInv, PendingNeverOverstated, windows
  <1>4. /\ \A u \in Threads : u # t => at'[u] = at[u] /\ image'[u] = image[u]
        /\ ticket' = ticket /\ at[t] # "idle"
        /\ \/ /\ inFlight' = inFlight
              /\ at'[t] = "notify" => image'[t] = 0
              /\ at'[t] = "idle" => image'[t] = 0
           \/ /\ at[t] = "acquire" /\ inFlight' = inFlight \cup {ticket[t]}
              /\ at'[t] = "idle" /\ image'[t] = ticket[t]
    <2>1. ticket[t] \in Nat /\ at[t] # "idle" /\ (at[t] = "notify" => image[t] = 0)
      BY <1>1 DEF IInv, TypeOK, Run, Sleep, Resume, Acquired, AcquireError, AcquireRecreates,
                  AcquireStopped, FailNotify, VideoInv, ImagesHeld
    <2>2. CASE Resume(t)
      <3>1. Test(t, ticket[t]) /\ ticket' = ticket
        BY <2>2 DEF Resume
      <3>2. QED
        BY <2>1, <3>1, TestCases DEF IInv, TypeOK
    <2>3. CASE Sleep(t) \/ FailNotify(t) \/ AcquireRecreates(t) \/ AcquireStopped(t)
      BY <2>1, <2>3 DEF Sleep, FailNotify, AcquireRecreates, AcquireStopped, Goto, Return, IInv, TypeOK
    <2>4. CASE AcquireError(t)
      BY <2>1, <2>4 DEF AcquireError, Fail, Goto, Return, IInv, TypeOK
    <2>5. CASE Acquired(t)
      BY <2>1, <2>5 DEF Acquired, Fail, Goto, Return, IInv, TypeOK
    <2>6. QED
      BY <1>1, <2>2, <2>3, <2>4, <2>5 DEF Run
  <1>5. ImagesHeld'
    <2>1. /\ Unpresented' = Unpresented
          /\ \A n \in Unpresented : m_messages'[n].arg = m_messages[n].arg
      BY <1>1, QueueSame DEF Unpresented
    <2>2. \A u \in Threads : /\ at'[u] = "notify" => image'[u] = 0
                             /\ at'[u] # "idle" => call'[u] = "image"
      BY <1>1, <1>4 DEF VideoInv, ImagesHeld
    <2>3. CASE inFlight' = inFlight /\ (at'[t] = "idle" => image'[t] = 0)
      <3>1. Holders' = Holders
        BY <1>1, <1>4, <2>3 DEF Holders
      <3>2. QED
        BY <1>4, <2>1, <2>2, <2>3, <3>1 DEF VideoInv, ImagesHeld
    <2>4. CASE /\ at[t] = "acquire" /\ inFlight' = inFlight \cup {ticket[t]}
               /\ at'[t] = "idle" /\ image'[t] = ticket[t]
      <3>1. inFlight = {}
        BY <2>4 DEF IInv, Served
      <3>2. Unpresented = {} /\ Holders = {}
        BY <3>1 DEF VideoInv, ImagesHeld
      <3>3. Holders' = {t}
        <4>1. ticket[t] # 0
          BY <2>4 DEF IInv, Served, TicketsInRange, TypeOK
        <4>2. QED
          BY <1>1, <1>4, <2>4, <3>2, <4>1 DEF Holders
      <3>4. QED
        BY <1>4, <2>1, <2>2, <2>4, <3>2, <3>3 DEF ImagesHeld
    <2>5. QED
      BY <1>4, <2>3, <2>4
  <1>6. QED
    BY <1>2, <1>3, <1>5 DEF VideoInv

\* The image goes from the thread to the message it queues.
LEMMA FinishSubmitStep ==
    ASSUME IInv, VideoInv, NEW t \in Threads, FinishSubmit(t)
    PROVE  VideoInv'
  <1> DEFINE i == win[t]
             x == [type |-> "flip", win |-> i, arg |-> ticket[t], who |-> t]
             l == Len(m_messages) + 1
  <1>1. /\ call[t] = "image" /\ at[t] = "idle" /\ i \in Windows
        /\ win' = [win EXCEPT ![t] = 0] /\ what' = [what EXCEPT ![t] = "open"]
        /\ UNCHANGED <<vars, sdl, condWoken>>
    BY DEF FinishSubmit, EndCall, VideoInv, VideoTypesOK
  <1>2. call' = [call EXCEPT ![t] = "idle"] /\ "idle" \in Places
    BY DEF FinishSubmit, EndCall, GotoCall, Places
  <1>3. /\ call' \in [Threads -> Places] /\ call'[t] = "idle"
        /\ \A u \in Threads : u # t => call'[u] = call[u]
        /\ Cardinality(Submitting) \in Nat
        /\ Cardinality(Submitting') = Cardinality(Submitting) - 1
    <2>1. call[t] \in {"submit", "image"} /\ "idle" \notin {"submit", "image"}
      BY <1>1
    <2>2. /\ call' \in [Threads -> Places] /\ call'[t] = "idle"
          /\ \A u \in Threads : u # t => call'[u] = call[u]
          /\ Cardinality(Submitting) \in Nat
          /\ Cardinality(Submitting') = Cardinality(Submitting) - 1 + 0
      BY <1>2, <2>1, Moved DEF VideoInv
    <2>3. QED
      BY <2>2
  <1>4. win' \in [Threads -> Windows] /\ what' \in [Threads -> Kinds]
    BY <1>1, WindowsAssumption DEF VideoInv, VideoTypesOK, Windows, Kinds
  <1>5. \A u \in condWoken' : u \in Threads /\ call'[u] = "asleep"
    BY <1>1, <1>3 DEF VideoInv, QueueOK
  <1>6. m_messages \in Seq(Message) /\ gcQueueNum \in [Windows -> Int] /\ submits \in Int
    BY DEF VideoInv, VideoTypesOK
  <1>7. /\ \A W : Cardinality(Flips(W)) \in Nat
        /\ Cardinality(Flips(Windows)) \in Nat
        /\ submits = Cardinality(Submitting) + Cardinality(Flips(Windows))
    BY <1>6, FlipsCount, Balance DEF VideoInv
  <1>8. Holders' = Holders \ {t} /\ vars' = vars /\ (t \in Holders <=> image[t] # 0)
    BY <1>1, <1>3 DEF Holders, vars
  <1>9. \A u \in Threads : /\ at'[u] = "notify" => image'[u] = 0
                           /\ at'[u] # "idle" => call'[u] = "image"
    BY <1>1, <1>3 DEF VideoInv, ImagesHeld, vars
  <1>10. CASE image[t] = 0
    <2>1. submits' = submits - 1 /\ UNCHANGED m_messages
          /\ gcQueueNum' = [gcQueueNum EXCEPT ![i] = (gcQueueNum[i] + 1) - 1]
      BY <1>10 DEF FinishSubmit, doFlip
    <2>2. gcQueueNum' = gcQueueNum
      BY <1>1, <1>6, <2>1
    <2>3. VideoTypesOK' /\ QueueOK'
      BY <1>1, <1>3, <1>4, <1>5, <2>1, <2>2 DEF VideoInv, VideoTypesOK, QueueOK
    <2>4. /\ Unpresented' = Unpresented /\ Holders' = Holders
          /\ \A n \in Unpresented : m_messages'[n] = m_messages[n]
      BY <1>1, <1>8, <1>10, <2>1, QueueSame DEF Unpresented
    <2>5. ImagesHeld'
      BY <1>1, <1>9, <2>4 DEF VideoInv, ImagesHeld, vars
    <2>6. SubmitsBalanced' /\ PendingNeverOverstated'
      <3>1. \A W : Flips(W)' = Flips(W)
        BY <1>1, <2>1, QueueSame
      <3>2. submits' = Cardinality(Submitting') + Cardinality(Flips(Windows)')
        BY <1>3, <1>7, <2>1, <3>1
      <3>3. QED
        BY <2>2, <3>1, <3>2, Balance DEF VideoInv, PendingNeverOverstated
    <2>7. QED
      BY <2>3, <2>5, <2>6 DEF VideoInv
  <1>11. CASE image[t] # 0
    <2>1. /\ submits' = submits /\ m_messages' = Append(m_messages, x)
          /\ gcQueueNum' = [gcQueueNum EXCEPT ![i] = gcQueueNum[i] + 1]
      BY <1>11 DEF FinishSubmit
    <2>2. x \in Message /\ x.type = "flip" /\ x.win = i /\ x.arg = ticket[t]
      BY <1>1, WindowsAssumption DEF Message, Windows, IInv, TypeOK
    <2> HIDE DEF x
    <2>3. /\ m_messages' \in Seq(Message) /\ m_messages' # <<>>
          /\ DOMAIN m_messages' = DOMAIN m_messages \cup {l} /\ l \notin DOMAIN m_messages
          /\ \A n \in DOMAIN m_messages : m_messages'[n] = m_messages[n]
          /\ m_messages'[l] = x
          /\ \A W : Cardinality(Flips(W)') = Cardinality(Flips(W))
                       + (IF x.type = "flip" /\ x.win \in W THEN 1 ELSE 0)
      BY <1>6, <2>1, <2>2, Queued
    <2>4. VideoTypesOK'
      BY <1>1, <1>3, <1>4, <1>6, <2>1, <2>3 DEF VideoInv, VideoTypesOK
    <2>5. QueueOK'
      <3>1. m_messages # <<>> => 1 \in DOMAIN m_messages
        BY <1>6
      <3>2. \A n \in DOMAIN m_messages' : m_messages'[n].type = "flip" => m_messages'[n].win \in Windows
        BY <1>1, <2>2, <2>3 DEF VideoInv, QueueOK
      <3>3. sdl' \in {"presenting", "notify", "done"} => m_messages' # <<>> /\ m_messages'[1].type = "flip"
        BY <1>1, <2>3, <3>1 DEF VideoInv, QueueOK
      <3>4. QED
        BY <1>5, <3>2, <3>3 DEF QueueOK
    <2>6. t \in Holders /\ ticket[t] \in inFlight /\ Unpresented = {} /\ Holders = {t}
      BY <1>1, <1>11 DEF Holders, VideoInv, ImagesHeld
    <2>7. Unpresented' = {l} /\ Holders' = {}
      <3>1. \A n \in DOMAIN m_messages : n \in Unpresented' => n \in Unpresented
        BY <1>1, <2>3 DEF Unpresented
      <3>2. l \in Unpresented'
        <4>1. l = 1 => sdl \in {"loop", "crashed"}
          BY <1>6 DEF VideoInv, QueueOK, VideoTypesOK
        <4>2. QED
          BY <1>1, <2>2, <2>3, <4>1 DEF Unpresented
      <3>3. QED
        BY <1>8, <2>3, <2>6, <3>1, <3>2 DEF Unpresented
    <2>8. ImagesHeld'
      BY <1>1, <1>9, <2>2, <2>3, <2>6, <2>7 DEF ImagesHeld, vars
    <2>9. \A j \in Windows : Cardinality(Flips({j})') = Cardinality(Flips({j})) + (IF j = i THEN 1 ELSE 0)
      BY <2>2, <2>3
    <2>10. PendingNeverOverstated'
      <3> SUFFICES ASSUME NEW j \in Windows
                   PROVE  gcQueueNum'[j] <= Cardinality(Flips({j})')
        BY DEF PendingNeverOverstated
      <3>1. /\ gcQueueNum[j] \in Int /\ Cardinality(Flips({j})) \in Nat
            /\ gcQueueNum[j] <= Cardinality(Flips({j}))
        BY <1>6, <1>7 DEF VideoInv, PendingNeverOverstated
      <3>2. gcQueueNum'[j] = gcQueueNum[j] + (IF j = i THEN 1 ELSE 0)
        BY <1>1, <1>6, <2>1
      <3>3. QED
        BY <2>9, <3>1, <3>2
    <2>11. Cardinality(Flips(Windows)') = Cardinality(Flips(Windows)) + 1
      BY <1>1, <2>2, <2>3
    <2>12. SubmitsBalanced'
      <3>1. submits' = Cardinality(Submitting') + Cardinality(Flips(Windows)')
        BY <1>3, <1>7, <2>1, <2>11
      <3>2. QED
        BY <3>1, Balance
    <2>13. QED
      BY <2>4, <2>5, <2>8, <2>10, <2>12 DEF VideoInv
  <1>12. QED
    BY <1>10, <1>11

LEMMA AwaitDoneStep ==
    ASSUME VideoInv, NEW t \in Threads, AwaitDone(t)
    PROVE  VideoInv'
  <1>1. call[t] \in {"pushed", "asleep"} /\ t \in Threads
    BY DEF AwaitDone, VideoInv, QueueOK
  <1>2. /\ condWoken' = condWoken \ {t} /\ submits' = submits
        /\ UNCHANGED <<vars, m_messages, sdl, gcQueueNum>>
    BY DEF AwaitDone
  <1>3. \A u \in condWoken' : u \in condWoken /\ u # t
    BY <1>2
  <1>4. CASE result[what[t]] >= 0
    <2>1. /\ call' = [call EXCEPT ![t] = "idle"] /\ "idle" \in Places
          /\ win' = [win EXCEPT ![t] = 0] /\ what' = [what EXCEPT ![t] = "open"]
      BY <1>4 DEF AwaitDone, EndCall, GotoCall, Places
    <2>2. 0 \in Windows /\ "open" \in Kinds
      BY WindowsAssumption DEF Windows, Kinds
    <2>3. win' \in [Threads -> Windows] /\ what' \in [Threads -> Kinds]
      BY <2>1, <2>2 DEF VideoInv, VideoTypesOK
    <2>4. QED
      BY <1>1, <1>2, <1>3, <2>1, <2>3, CallStep
  <1>5. CASE ~(result[what[t]] >= 0)
    <2>1. /\ call' = [call EXCEPT ![t] = "asleep"] /\ "asleep" \in Places
          /\ win' \in [Threads -> Windows] /\ what' \in [Threads -> Kinds]
        BY <1>2, <1>5 DEF AwaitDone, GotoCall, Places, VideoInv, VideoTypesOK
    <2>2. QED
      BY <1>1, <1>2, <1>3, <2>1, CallStep
  <1>6. QED
    BY <1>4, <1>5

\* A queued call; open has set gcQueueNum of its window to zero.
LEMMA PushedStep ==
    ASSUME VideoInv, NEW t \in Threads, NEW kind \in Kinds, NEW i \in Int, Push(t, kind, i),
           call[t] = "idle", UNCHANGED <<vars, sdl, condWoken, submits>>,
           win' \in [Threads -> Windows], gcQueueNum' \in [Windows -> Int],
           \A j \in Windows : gcQueueNum'[j] = gcQueueNum[j] \/ gcQueueNum'[j] = 0
    PROVE  VideoInv'
  <1>1. /\ m_messages' \in Seq(Message) /\ call' \in [Threads -> Places]
        /\ what' \in [Threads -> Kinds]
        /\ QueueOK' /\ ImagesHeld' /\ SubmitsBalanced'
        /\ \A W : Cardinality(Flips(W)') = Cardinality(Flips(W))
    BY PushStep
  <1>2. VideoTypesOK'
    BY <1>1 DEF VideoInv, VideoTypesOK
  <1>3. \A W : Cardinality(Flips(W)) \in Nat
    BY FlipsCount DEF VideoInv, VideoTypesOK
  <1>4. PendingNeverOverstated'
    <2> SUFFICES ASSUME NEW j \in Windows
                 PROVE  gcQueueNum'[j] <= Cardinality(Flips({j})')
      BY DEF PendingNeverOverstated
    <2>1. /\ gcQueueNum[j] <= Cardinality(Flips({j})) /\ gcQueueNum[j] \in Int
          /\ Cardinality(Flips({j})) \in Nat
          /\ Cardinality(Flips({j})') = Cardinality(Flips({j}))
      BY <1>1, <1>3 DEF VideoInv, VideoTypesOK, PendingNeverOverstated
    <2>2. gcQueueNum'[j] = gcQueueNum[j] \/ gcQueueNum'[j] = 0
      OBVIOUS
    <2>3. QED
      BY <2>1, <2>2
  <1>5. QED
    BY <1>1, <1>2, <1>4 DEF VideoInv

LEMMA OpenStep ==
    ASSUME VideoInv, NEW t \in Threads, Open(t)
    PROVE  VideoInv'
  <1>1. PICK i \in Windows :
            /\ gcQueueNum' = [gcQueueNum EXCEPT ![i] = 0]
            /\ win' = [win EXCEPT ![t] = i]
            /\ IF i = 0 THEN UNCHANGED <<m_messages, call, what>>
                        ELSE Push(t, "open", i)
    BY DEF Open
  <1>2. call[t] = "idle" /\ UNCHANGED <<vars, sdl, condWoken, submits>>
    BY DEF Open, Free
  <1>3. /\ win' \in [Threads -> Windows] /\ gcQueueNum' \in [Windows -> Int]
        /\ \A j \in Windows : gcQueueNum'[j] = gcQueueNum[j] \/ gcQueueNum'[j] = 0
    BY <1>1 DEF VideoInv, VideoTypesOK
  <1>4. i \in Nat /\ "open" \in Kinds
    BY WindowsAssumption DEF Windows, Kinds
  <1>5. CASE i # 0
    BY <1>1, <1>2, <1>3, <1>4, <1>5, PushedStep
  <1>6. CASE i = 0
    <2>1. UNCHANGED <<m_messages, call, what>>
      BY <1>1, <1>6
    <2>2. VideoTypesOK' /\ QueueOK'
      BY <1>2, <1>3, <2>1 DEF VideoInv, VideoTypesOK, QueueOK
    <2>3. Unpresented' = Unpresented /\ Unpresented \subseteq Nat /\ \A W : Flips(W)' = Flips(W)
      BY <1>2, <2>1, QueueSame
    <2>4. ImagesHeld'
      BY <1>2, <2>1, <2>3 DEF VideoInv, ImagesHeld, Holders, vars
    <2>5. SubmitsBalanced'
      BY <1>2, <2>1, <2>3 DEF VideoInv, SubmitsBalanced
    <2>6. \A W : Cardinality(Flips(W)) \in Nat
      BY FlipsCount DEF VideoInv, VideoTypesOK
    <2>7. PendingNeverOverstated'
      BY <1>3, <2>3, <2>6 DEF VideoInv, PendingNeverOverstated
    <2>8. QED
      BY <2>2, <2>4, <2>5, <2>7 DEF VideoInv
  <1>7. QED
    BY <1>5, <1>6

LEMMA OtherCallStep ==
    ASSUME VideoInv, NEW t \in Threads, NEW i \in Windows,
           Close(t, i) \/ OpenNone(t) \/ SDLInit(t) \/ AddEvent(t, i)
    PROVE  VideoInv'
  <1>1. call[t] = "idle" /\ UNCHANGED <<vars, sdl, condWoken, submits, gcQueueNum>>
    BY DEF Close, OpenNone, SDLInit, AddEvent, Free, windows, threads
  <1>2. win' \in [Threads -> Windows]
    BY DEF Close, OpenNone, SDLInit, AddEvent, VideoInv, VideoTypesOK, threads
  <1>3. /\ gcQueueNum' \in [Windows -> Int]
        /\ \A j \in Windows : gcQueueNum'[j] = gcQueueNum[j] \/ gcQueueNum'[j] = 0
    BY <1>1 DEF VideoInv, VideoTypesOK
  <1>4. \A u \in condWoken' : u \in condWoken /\ u # t
    BY <1>1 DEF VideoInv, QueueOK
  <1>5. /\ i + 1 \in Int /\ 0 \in Int /\ -1 \in Int
        /\ "close" \in Kinds /\ "open" \in Kinds /\ "subsystem" \in Kinds
    BY WindowsAssumption DEF Windows, Kinds
  <1>6. CASE SDLInit(t)
    BY <1>1, <1>2, <1>3, <1>5, <1>6, PushedStep DEF SDLInit
  <1>7. CASE Close(t, i) /\ i \notin eventFlip
    BY <1>1, <1>2, <1>3, <1>5, <1>7, PushedStep DEF Close
  <1>8. CASE Close(t, i) /\ i \in eventFlip
    <2>1. /\ call' = [call EXCEPT ![t] = "relock"] /\ "relock" \in Places
          /\ what' \in [Threads -> Kinds] /\ UNCHANGED m_messages
      BY <1>5, <1>8 DEF Close, GotoCall, Places, VideoInv, VideoTypesOK
    <2>2. QED
      BY <1>1, <1>2, <1>4, <2>1, CallStep
  <1>9. CASE AddEvent(t, i)
    <2>1. /\ call' = [call EXCEPT ![t] = "idle"] /\ "idle" \in Places
          /\ what' \in [Threads -> Kinds] /\ UNCHANGED m_messages
      BY <1>1, <1>9 DEF AddEvent, Places, VideoInv, VideoTypesOK, threads
    <2>2. QED
      BY <1>1, <1>2, <1>4, <2>1, CallStep
  <1>10. CASE OpenNone(t)
    BY <1>1, <1>2, <1>3, <1>5, <1>10, PushedStep DEF OpenNone
  <1>11. QED
    BY <1>6, <1>7, <1>8, <1>9, <1>10

\* The head that is popped is not a flip.
LEMMA HandleCallStep ==
    ASSUME VideoInv, HandleCall
    PROVE  VideoInv'
  <1>1. /\ sdl = "loop" /\ m_messages # <<>> /\ Head(m_messages).type \in Kinds
        /\ m_messages' = Tail(m_messages) /\ NotifyOne
        /\ UNCHANGED <<vars, gcQueueNum, sdl, call, win, what, submits>>
    BY DEF HandleCall
  <1>2. m_messages \in Seq(Message)
    BY DEF VideoInv, VideoTypesOK
  <1>3. /\ m_messages' \in Seq(Message) /\ 1 \in DOMAIN m_messages
        /\ Head(m_messages) = m_messages[1] /\ m_messages[1] \in Message
        /\ \A n : n \in DOMAIN m_messages' <=> n \in Nat \ {0} /\ n + 1 \in DOMAIN m_messages
        /\ \A n \in DOMAIN m_messages' : m_messages'[n] = m_messages[n + 1]
        /\ \A W : Cardinality(Flips(W)') = Cardinality(Flips(W)) - (IF 1 \in Flips(W) THEN 1 ELSE 0)
    BY <1>1, <1>2, Popped
  <1>4. \A W : 1 \notin Flips(W)
    BY <1>1, <1>3 DEF Flips, Kinds
  <1>5. \A W : Cardinality(Flips(W)') = Cardinality(Flips(W))
    BY <1>2, <1>3, <1>4, FlipsCount
  <1>6. VideoTypesOK'
    BY <1>1, <1>3 DEF VideoInv, VideoTypesOK
  <1>7. QueueOK'
    <2>1. \A t \in condWoken' : t \in Threads /\ call'[t] = "asleep"
      BY <1>1 DEF NotifyOne, Sleepers, VideoInv, QueueOK
    <2>2. QED
      BY <1>1, <1>3, <2>1 DEF VideoInv, QueueOK
  <1>8. ImagesHeld'
    <2>1. \A n \in Unpresented' : n \in Nat /\ n + 1 \in Unpresented /\ m_messages'[n].arg = m_messages[n + 1].arg
      BY <1>1, <1>3 DEF Unpresented
    <2>2. ASSUME NEW n \in Unpresented PROVE n - 1 \in Unpresented'
      <3>1. n # 1 /\ n \in Nat \ {0}
        BY <1>1, <1>2, <1>3, <2>2 DEF Unpresented, Kinds
      <3>2. n - 1 \in Nat \ {0} /\ (n - 1) + 1 = n
        BY <3>1
      <3>3. n - 1 \in DOMAIN m_messages' /\ m_messages'[n - 1] = m_messages[n]
        BY <1>3, <2>2, <3>2 DEF Unpresented
      <3>4. QED
        BY <1>1, <2>2, <3>3 DEF Unpresented
    <2>3. QED
      BY <1>1, <2>1, <2>2, ImagesKept DEF VideoInv
  <1>9. SubmitsBalanced' /\ PendingNeverOverstated'
    BY <1>1, <1>5 DEF VideoInv, SubmitsBalanced, PendingNeverOverstated
  <1>10. QED
    BY <1>6, <1>7, <1>8, <1>9 DEF VideoInv

\* The program goes on beside the array, or ends there.
LEMMA HandleOutsideStep ==
    ASSUME VideoInv, HandleOutside
    PROVE  VideoInv'
  <1>1. /\ sdl = "loop" /\ sdl' = "crashed"
        /\ UNCHANGED <<vars, gcQueueNum, m_messages, call, win, what, condWoken, submits>>
    BY DEF HandleOutside, windows, threads
  <1>2. VideoTypesOK' /\ QueueOK'
    BY <1>1 DEF VideoInv, VideoTypesOK, QueueOK
  <1>3. ImagesHeld'
    <2>1. /\ \A n \in Unpresented' : n \in Nat /\ n + 0 \in Unpresented /\ m_messages'[n].arg = m_messages[n + 0].arg
          /\ Unpresented' = Unpresented
      BY <1>1 DEF Unpresented, VideoInv, VideoTypesOK
    <2>2. QED
      BY <1>1, <2>1, ImagesKept DEF VideoInv
  <1>4. SubmitsBalanced' /\ PendingNeverOverstated'
    BY <1>1 DEF VideoInv, SubmitsBalanced, PendingNeverOverstated, Flips
  <1>5. QED
    BY <1>2, <1>3, <1>4 DEF VideoInv

LEMMA HandleFlipStep ==
    ASSUME VideoInv, HandleFlip
    PROVE  VideoInv'
  <1>1. /\ sdl = "loop" /\ m_messages # <<>> /\ Head(m_messages).type = "flip"
        /\ sdl' = "presenting"
        /\ UNCHANGED <<vars, gcQueueNum, m_messages, call, win, what, condWoken, submits>>
    BY DEF HandleFlip, windows, threads
  <1>2. m_messages[1].type = "flip"
    BY <1>1 DEF VideoInv, VideoTypesOK
  <1>3. VideoTypesOK' /\ QueueOK'
    BY <1>1, <1>2 DEF VideoInv, VideoTypesOK, QueueOK
  <1>4. ImagesHeld'
    <2>1. /\ \A n \in Unpresented' : n \in Nat /\ n + 0 \in Unpresented /\ m_messages'[n].arg = m_messages[n + 0].arg
          /\ Unpresented' = Unpresented
      BY <1>1 DEF Unpresented, VideoInv, VideoTypesOK
    <2>2. QED
      BY <1>1, <2>1, ImagesKept DEF VideoInv
  <1>5. SubmitsBalanced' /\ PendingNeverOverstated'
    BY <1>1 DEF VideoInv, SubmitsBalanced, PendingNeverOverstated, Flips
  <1>6. QED
    BY <1>3, <1>4, <1>5 DEF VideoInv

\* The head is the only flip with an image, and gives it back.
LEMMA PresentImageStep ==
    ASSUME IInv, VideoInv, PresentImage
    PROVE  VideoInv'
  <1> DEFINE k == Head(m_messages).arg
  <1>1. /\ sdl = "presenting" /\ sdl' = "notify" /\ notify_done(k)
        /\ UNCHANGED <<gcQueueNum, m_messages, call, win, what, condWoken, submits>>
    BY DEF PresentImage, windows, threads
  <1>2. m_messages # <<>> /\ m_messages[1].type = "flip" /\ 1 \in DOMAIN m_messages
    BY <1>1 DEF VideoInv, VideoTypesOK, QueueOK
  <1>3. 1 \in Unpresented
    BY <1>1, <1>2 DEF Unpresented
  <1>4. Holders = {} /\ \A n \in Unpresented : n = 1
    BY <1>3 DEF VideoInv, ImagesHeld
  <1>5. UNCHANGED <<at, ticket, image>> /\ inFlight' = {}
    <2>1. k \in inFlight
      BY <1>2, <1>3 DEF VideoInv, VideoTypesOK, ImagesHeld
    <2>2. QED
      BY <1>1, <2>1 DEF notify_done, IInv, Served
  <1>6. Unpresented' = {} /\ Holders' = {}
    <2>1. Holders' = Holders
      BY <1>1, <1>5 DEF Holders
    <2>2. \A n \in Unpresented' : n \in Unpresented /\ n # 1
      BY <1>1 DEF Unpresented
    <2>3. QED
      BY <1>4, <2>1, <2>2
  <1>7. ImagesHeld'
    BY <1>1, <1>5, <1>6 DEF VideoInv, ImagesHeld
  <1>8. VideoTypesOK' /\ QueueOK'
    BY <1>1, <1>2 DEF VideoInv, VideoTypesOK, QueueOK
  <1>9. SubmitsBalanced' /\ PendingNeverOverstated'
    BY <1>1 DEF VideoInv, SubmitsBalanced, PendingNeverOverstated, Flips
  <1>10. QED
    BY <1>7, <1>8, <1>9 DEF VideoInv

LEMMA NotifyDoneLastStep ==
    ASSUME VideoInv, NotifyDone
    PROVE  VideoInv'
  <1>1. /\ sdl = "notify" /\ sdl' = "done" /\ DoneNotify
        /\ UNCHANGED <<gcQueueNum, m_messages, call, win, what, condWoken, submits>>
    BY DEF NotifyDone, windows, threads
  <1>2. UNCHANGED <<at, ticket, image, inFlight>>
    BY <1>1 DEF DoneNotify
  <1>3. Unpresented' = Unpresented /\ Holders' = Holders
    BY <1>1, <1>2 DEF Unpresented, Holders
  <1>4. ImagesHeld'
    BY <1>1, <1>2, <1>3 DEF VideoInv, ImagesHeld
  <1>5. VideoTypesOK' /\ QueueOK'
    BY <1>1 DEF VideoInv, VideoTypesOK, QueueOK
  <1>6. SubmitsBalanced' /\ PendingNeverOverstated'
    BY <1>1 DEF VideoInv, SubmitsBalanced, PendingNeverOverstated, Flips
  <1>7. QED
    BY <1>4, <1>5, <1>6 DEF VideoInv

\* The head that is popped is the flip that has been presented.
LEMMA FinishFlipStep ==
    ASSUME VideoInv, FinishFlip
    PROVE  VideoInv'
  <1> DEFINE i == m_messages[1].win
  <1>1. m_messages \in Seq(Message) /\ m_messages # <<>>
    BY DEF FinishFlip, VideoInv, VideoTypesOK, QueueOK
  <1>2. /\ sdl = "done" /\ sdl' = "loop" /\ submits' = submits - 1
        /\ gcQueueNum' = [gcQueueNum EXCEPT ![i] = gcQueueNum[i] - 1]
        /\ m_messages' = Tail(m_messages)
        /\ UNCHANGED <<vars, call, win, what, condWoken>>
    <2>1. Head(m_messages) = m_messages[1]
      BY <1>1
    <2>2. /\ sdl = "done" /\ sdl' = "loop" /\ submits' = submits - 1
          /\ doFlip(i, gcQueueNum[i]) /\ m_messages' = Tail(m_messages)
          /\ UNCHANGED <<vars, threads>>
      BY <2>1, Zenon DEF FinishFlip
    <2>3. QED
      BY <2>2 DEF doFlip, threads
  <1>3. /\ m_messages' \in Seq(Message) /\ 1 \in DOMAIN m_messages
        /\ \A n : n \in DOMAIN m_messages' <=> n \in Nat \ {0} /\ n + 1 \in DOMAIN m_messages
        /\ \A n \in DOMAIN m_messages' : m_messages'[n] = m_messages[n + 1]
        /\ \A W : Cardinality(Flips(W)') = Cardinality(Flips(W)) - (IF 1 \in Flips(W) THEN 1 ELSE 0)
    BY <1>1, <1>2, Popped
  <1>4. m_messages[1].type = "flip" /\ i \in Windows
    BY <1>2, <1>3 DEF VideoInv, QueueOK
  <1>5. \A W : (1 \in Flips(W) <=> i \in W) /\ Cardinality(Flips(W)) \in Nat
    BY <1>1, <1>3, <1>4, FlipsCount DEF Flips
  <1>6. gcQueueNum \in [Windows -> Int] /\ submits \in Int
    BY DEF VideoInv, VideoTypesOK
  <1>7. VideoTypesOK' /\ QueueOK'
    BY <1>2, <1>3, <1>4, <1>6 DEF VideoInv, VideoTypesOK, QueueOK
  <1>8. ImagesHeld'
    <2>1. \A n \in Unpresented' : n \in Nat /\ n + 1 \in Unpresented /\ m_messages'[n].arg = m_messages[n + 1].arg
      BY <1>2, <1>3 DEF Unpresented
    <2>2. ASSUME NEW n \in Unpresented PROVE n - 1 \in Unpresented'
      <3>1. n # 1 /\ n \in Nat \ {0}
        BY <1>1, <1>2, <2>2 DEF Unpresented
      <3>2. n - 1 \in Nat \ {0} /\ (n - 1) + 1 = n
        BY <3>1
      <3>3. n - 1 \in DOMAIN m_messages' /\ m_messages'[n - 1] = m_messages[n]
        BY <1>3, <2>2, <3>2 DEF Unpresented
      <3>4. QED
        BY <1>2, <2>2, <3>3 DEF Unpresented
    <2>3. QED
      BY <1>2, <2>1, <2>2, ImagesKept DEF VideoInv
  <1>9. SubmitsBalanced'
    <2>1. /\ submits = Cardinality(Submitting) + Cardinality(Flips(Windows))
          /\ Cardinality(Flips(Windows)) \in Nat /\ Submitting' = Submitting
          /\ Cardinality(Flips(Windows)') = Cardinality(Flips(Windows)) - 1
      BY <1>2, <1>3, <1>4, <1>5, Balance DEF VideoInv, Submitting
    <2>2. Cardinality(Submitting) \in Nat
      BY ThreadsAssumption, FS_Subset, FS_CardinalityType DEF Submitting
    <2>3. QED
      BY <1>2, <2>1, <2>2, Balance
  <1>10. PendingNeverOverstated'
    <2> SUFFICES ASSUME NEW j \in Windows
                 PROVE  gcQueueNum'[j] <= Cardinality(Flips({j})')
      BY DEF PendingNeverOverstated
    <2>1. /\ gcQueueNum[j] \in Int /\ Cardinality(Flips({j})) \in Nat
          /\ gcQueueNum[j] <= Cardinality(Flips({j}))
      BY <1>5, <1>6 DEF VideoInv, PendingNeverOverstated
    <2>2. gcQueueNum'[j] = gcQueueNum[j] - (IF j = i THEN 1 ELSE 0)
      BY <1>2, <1>4, <1>6
    <2>3. Cardinality(Flips({j})') = Cardinality(Flips({j})) - (IF j = i THEN 1 ELSE 0)
      BY <1>3, <1>5
    <2>4. QED
      BY <2>1, <2>2, <2>3
  <1>11. QED
    BY <1>7, <1>8, <1>9, <1>10 DEF VideoInv

LEMMA VideoStutter ==
    ASSUME VideoInv, UNCHANGED videoVars
    PROVE  VideoInv'
  <1>1. UNCHANGED <<at, ticket, image, inFlight, gcQueueNum, m_messages, sdl, call, win, what, condWoken, submits>>
    BY DEF videoVars, vars, windows, threads
  <1>2. VideoTypesOK' /\ QueueOK' /\ SubmitsBalanced' /\ PendingNeverOverstated'
    BY <1>1 DEF VideoInv, VideoTypesOK, QueueOK, SubmitsBalanced, PendingNeverOverstated, Flips
  <1>3. ImagesHeld'
    <2>1. Unpresented' = Unpresented /\ Holders' = Holders
      BY <1>1 DEF Unpresented, Holders
    <2>2. QED
      BY <1>1, <2>1 DEF VideoInv, ImagesHeld
  <1>4. QED
    BY <1>2, <1>3 DEF VideoInv

LEMMA VideoInitInv == ASSUME VideoInit PROVE VideoInv
  <1>1. VideoTypesOK /\ QueueOK /\ ImagesHeld
    BY WindowsAssumption
    DEF VideoInit, Init, VideoTypesOK, QueueOK, ImagesHeld, Unpresented, Holders, Places, Kinds, Windows
  <1>2. \A W : Flips(W) = {}
    BY DEF VideoInit, Flips
  <1>3. {t \in Threads : call[t] \in {"submit", "image"}} = {}
    BY DEF VideoInit
  <1>4. Cardinality({}) = 0
    BY FS_EmptySet
  <1>5. SubmitsBalanced
    <2>1. submits = 0 /\ Cardinality(Flips(Windows)) = 0
      BY <1>2, <1>4 DEF VideoInit
    <2>2. Cardinality({t \in Threads : call[t] \in {"submit", "image"}}) = 0
      BY <1>3, <1>4, Zenon
    <2>3. QED
      BY <2>1, <2>2 DEF SubmitsBalanced
  <1>6. PendingNeverOverstated
    <2>1. \A i \in Windows : gcQueueNum[i] = 0 /\ Cardinality(Flips({i})) = 0
      BY <1>2, <1>4 DEF VideoInit
    <2>2. QED
      BY <2>1 DEF PendingNeverOverstated
  <1>7. QED
    BY <1>1, <1>5, <1>6 DEF VideoInv

\* The image the SDL thread presents is out, as notify_done needs it.
LEMMA PresentsOneOut ==
    ASSUME VideoInv, PresentImage
    PROVE  Head(m_messages).arg \in inFlight
  <1>1. sdl = "presenting"
    BY DEF PresentImage
  <1>2. m_messages # <<>> /\ m_messages[1].type = "flip" /\ 1 \in DOMAIN m_messages
    BY <1>1 DEF VideoInv, VideoTypesOK, QueueOK
  <1>3. 1 \in Unpresented
    BY <1>1, <1>2 DEF Unpresented
  <1>4. QED
    BY <1>2, <1>3 DEF VideoInv, VideoTypesOK, ImagesHeld

\* A step of the video output is one of the image handler, or leaves it alone.
LEMMA VideoStepsImages == ASSUME VideoInv, [VideoNext]_videoVars PROVE [Next]_vars
  <1> SUFFICES ASSUME VideoNext, ~UNCHANGED vars
               PROVE  Next
    BY DEF videoVars
  <1>1. CASE SDLThread
    <2>1. PresentImage \/ NotifyDone
      BY <1>1 DEF SDLThread, HandleCall, HandleOutside, HandleFlip, FinishFlip
    <2>2. CASE PresentImage
      BY <2>2, PresentsOneOut DEF PresentImage, Next, Present
    <2>3. CASE NotifyDone
      BY <2>3 DEF NotifyDone, Next, Present
    <2>4. QED
      BY <2>1, <2>2, <2>3
  <1>2. ASSUME NEW t \in Threads, Call(t) \/ Continue(t)
        PROVE  Next
    <2>1. StartImage(t) \/ RunImage(t)
      BY <1>2 DEF Call, Continue, Open, OpenNone, SDLInit, SubmitFlip, Close, AddEvent,
                  FinishSubmit, AwaitDone
    <2>2. QED
      BY <2>1 DEF StartImage, RunImage, Next
  <1>3. QED
    BY <1>1, <1>2 DEF VideoNext

\* The invariant of the image handler and that of the flips hold together.
THEOREM VideoInductive == VideoSpec => [](IInv /\ VideoInv)
  <1>1. IInv /\ VideoInv /\ [VideoNext]_videoVars => IInv'
    BY VideoStepsImages, NextIInv
  <1>2. VideoInit => IInv /\ VideoInv
    BY VideoInitInv, InitIInv DEF VideoInit
  <1>3. IInv /\ VideoInv /\ [VideoNext]_videoVars => VideoInv'
    <2> SUFFICES ASSUME IInv, VideoInv, [VideoNext]_videoVars PROVE VideoInv'
      OBVIOUS
    <2>1. CASE UNCHANGED videoVars
      BY <2>1, VideoStutter
    <2>2. CASE SDLThread
      BY <2>2, HandleCallStep, HandleOutsideStep, HandleFlipStep, PresentImageStep, NotifyDoneLastStep, FinishFlipStep
         DEF SDLThread
    <2>3. ASSUME NEW t \in Threads, Call(t) \/ Continue(t) PROVE VideoInv'
      BY <2>3, OpenStep, OtherCallStep, SubmitFlipStep, StartImageStep, RunImageStep,
         FinishSubmitStep, AwaitDoneStep, WindowsAssumption DEF Call, Continue, Windows
    <2>4. QED
      BY <2>1, <2>2, <2>3 DEF VideoNext
  <1>4. QED
    BY <1>1, <1>2, <1>3, PTL DEF VideoSpec

\* Every image that is out has one owner, a flip in the queue or the thread about to
\* queue it, and nothing else is presented (videoout.cpp's Message::imageData).
THEOREM ImagesAreOwned == VideoSpec => []ImagesOwned
  <1>1. IInv /\ VideoInv => ImagesOwned
    <2> SUFFICES ASSUME IInv, VideoInv PROVE ImagesOwned
      OBVIOUS
    <2>1. inFlight \subseteq {m_presentCount}
      BY DEF IInv, Served
    <2>2. inFlight = {m_messages[n].arg : n \in Unpresented} \cup {ticket[t] : t \in Holders}
      BY <2>1 DEF VideoInv, ImagesHeld
    <2>3. QED
      BY <2>2 DEF VideoInv, ImagesHeld, ImagesOwned
  <1>2. QED
    BY VideoInductive, <1>1, PTL

\* The submits the graphics wait for are the flips on their way.
THEOREM SubmitsAreBalanced == VideoSpec => []SubmitsBalanced
  BY VideoInductive, PTL DEF VideoInv

\* No window reports more pending flips than it has in the queue.
THEOREM PendingIsNotOverstated == VideoSpec => []PendingNeverOverstated
  BY VideoInductive, PTL DEF VideoInv

\* One flip is queued, and a second only after notify_done for the first.
THEOREM FlipsAreBounded == VideoSpec => []FlipsQueuedBounded
  <1>1. VideoInv => FlipsQueuedBounded
    <2> SUFFICES ASSUME VideoInv PROVE FlipsQueuedBounded
      OBVIOUS
    <2> DEFINE S == Flips(Windows)
    <2>1. IsFiniteSet(S) /\ Cardinality(S) \in Nat
      BY FlipsCount DEF VideoInv, VideoTypesOK
    <2>2. S \subseteq Unpresented \cup (IF sdl \in {"notify", "done"} THEN {1} ELSE {})
      BY DEF Flips, Unpresented
    <2>3. \E n : Unpresented \subseteq {n}
      BY DEF VideoInv, ImagesHeld
    <2>4. PICK n : Unpresented \subseteq {n}
      BY <2>3
    <2>5. /\ IsFiniteSet({n}) /\ Cardinality({n}) = 1
          /\ IsFiniteSet({n} \cup {1}) /\ Cardinality({n} \cup {1}) <= 2
      <3>1. IsFiniteSet({n}) /\ Cardinality({n}) = 1
        BY FS_Singleton
      <3>2. /\ IsFiniteSet({n} \cup {1})
            /\ \/ Cardinality({n} \cup {1}) = Cardinality({n})
               \/ Cardinality({n} \cup {1}) = Cardinality({n}) + 1
        BY <3>1, FS_AddElement, Zenon
      <3>3. QED
        BY <3>1, <3>2
    <2>6. CASE sdl \in {"notify", "done"}
      <3>1. S \in SUBSET ({n} \cup {1})
        BY <2>2, <2>4, <2>6
      <3>2. Cardinality(S) <= Cardinality({n} \cup {1}) /\ Cardinality({n} \cup {1}) \in Nat
        BY <2>5, <3>1, FS_Subset, FS_CardinalityType
      <3>3. QED
        BY <2>1, <2>5, <2>6, <3>2 DEF FlipsQueuedBounded
    <2>7. CASE sdl \notin {"notify", "done"}
      <3>1. S \in SUBSET {n}
        BY <2>2, <2>4, <2>7
      <3>2. Cardinality(S) <= 1
        BY <2>5, <3>1, FS_Subset
      <3>3. QED
        BY <2>7, <3>2 DEF FlipsQueuedBounded
    <2>8. QED
      BY <2>6, <2>7
  <1>2. QED
    BY VideoInductive, <1>1, PTL
=============================================================================
