# Verification of the psOff emulator core

TLA+ models of the parts of psOff where several threads meet, the TLC runs that
check them on small instances, and TLAPS proofs of what holds for every size.
psOff runs the code of a PS4 title natively and supplies its operating system:
the kernel objects the guest synchronises with, the video output that turns its
frames into Vulkan presents, memory, files, threads and the libraries it links
against. Everything the guest calls runs on the guest's own threads, so nearly
every object below is entered by several threads at once.

## 1. Inventory

| Component (source) | State | Operations | What is hard |
|---|---|---|---|
| Event flag (`core/kernel/eventflag.cpp`) | bits, status Set / Canceled / Deleted, waiter count, two condition variables | set, clear, cancel, wait, poll, delete | cancel and the destructor drain the waiters by a count; timeouts leave without a notify |
| Semaphore (`core/kernel/semaphore_fifo.cpp`) | value, linked list of waiters through one node per thread, waiter count | signal, wait, try_wait, poll, cancel, delete | early unlock before each notify; nodes are reused; nothing reserves units for a marked waiter |
| Event queue (`core/kernel/eventqueue.cpp`) | list of events, one condition variable | addEvent, deleteEvent, triggerEvent, wait, delete | notify after the unlock; several waiters for one event; edge against level events |
| Mutexes, condition variables, read-write locks, once (`core/kernel/pthread.cpp`) | objects behind the guest's pointers, their kinds, owners and counts | init, destroy, lock, trylock, timedlock, unlock, wait, signal, broadcast, rd/wrlock, once | objects are created by their first use, by several threads at once; what is undone after a refused relock; a flag written beside the lock it describes |
| Thread life (`core/kernel/pthread.cpp`, `core/runtime/runtimeLinker.cpp`) | thread objects, detached and started flags, thread-local keys, modules being started | create, join, detach, exit, key create / delete / set, module start | who frees a thread's object; create waits for its thread with a mutex held; guest code runs under the linker's mutex |
| Direct and flexible memory (`core/dmem`, `mmap`/`munmap` of `core/kernel/filesystem.cpp`) | objects, mappings, used sizes, the manager's table, host pages | alloc, reserve, map, unmap, free, mmap, munmap, virtualQuery | partly filled objects, look-ups that settle for the nearest entry, two lock orders |
| Files (`core/fileManager`, `core/kernel/filesystem.cpp`) | handle table, file objects | open, close, unlink, rename, read, pread, preadv, lseek and their writing twins | pointers that outlive the table's lock; check then open; destructors of a module under the table's lock, its loading under the linker's |
| Image handler (`core/videoout/imageHandler.cpp`) | ticket counters, images in flight, stop flag | getImage_blocking, notify_done, stop | ticket order, failed requests, stop without the mutex, every answer of vkAcquireNextImageKHR |
| Video output (`core/videoout/videoout.cpp`) | windows, flip status, message queue of the SDL thread | submitFlip, open, close, SDLInit, addEvent, the SDL thread | the mutex is released around presents and image requests; one condition variable for three calls |
| Movie player (`modules/libSceAvPlayer/avplayer.cpp`) | packets, decode queues, codecs, a kept frame, flags | setFile, the decoder thread, getVideoData, getAudioData, stop, destructor | decoder and clients wait for each other; a codec refuses packets; stop and end of file come beside a sleep |
| ELF loader, code patching, symbol resolution, timer, networking, trophies, hotkeys, parameters, overlay, Vulkan set-up, other guest libraries, tools, `main.cpp` | see "Not modelled" | | parsing, tables, calls into libraries |

How they interact: the guest libraries in `src/modules` forward to `core`.
`VideoOut` owns one `ImageHandler` and calls it with its own mutex released; the
SDL thread is the only thread that handles `VideoOut`'s messages and presents.
`VideoOut` triggers flip and vblank events on `EventQueue`s the guest registered,
and asks the queues to drop them in `close`; the queues call back through the
event's delete function. The GPU library calls `eventDoFlip` from its thread.
The memory manager is called by its memory types with their mutex held and calls
them with its own; both types and `MapViewOfFile` take pages of one host address
space. A thread that ends calls the linker, which runs the guest's destructors;
closing the handle of a module runs its destructors inside the file table, and
loading one enters it there with the linker's mutex held.

What makes each component correct:

- event flag: nobody sleeps through its condition; cancel reaches exactly the
  threads that wait and returns; the object outlives its waiters;
- semaphore: first come, first served; no more units are granted than there are;
  a waiter that can be served is awake or about to be;
- event queue: a triggered event reaches a waiter;
- pthread objects: a thread holds what it was told it holds, and nobody else does;
  a routine runs once and before anybody returns; no broadcast is lost;
- thread life: an object is freed once and under nobody; a thread that exits ends;
  create returns;
- memory: mappings never share a page, whoever made them, and are backed; the
  sizes are those of the mappings; calls return;
- files: a call stays with the file its handle names; an exclusive open that is not
  the first gets the file only where it asked to truncate it; calls return;
- image handler: one image out, in ticket order, no ticket lost, requests return;
- video output: each submit is balanced by one completion, counters never show
  more flips than there are, calls return;
- movie player: frames come once and in order; nobody sleeps while the other
  sleeps too.

The list of what is hard to test, each item at its line, is under "hazards"
in PROJECT.json, with the properties that are about it.

## 2. Modules

| Module | Models | State and actions against the code |
|---|---|---|
| `GuestThreads` | (shared) the threads that call in | the constant `Threads`, common to `EventFlag` and `Pthread`, whose theorems share a module |
| `EventFlag` | `KernelEventFlag` | one action per critical section of `m_mutex_cond`; a wait is split where the condition variable releases it (`WaitSleep`, `WaitResume`, `WaitTimeout`); `Defer` is the wait for status Set at the top of set, clear, cancel and the destructor; bits are a set |
| `FifoSemaphore` | (abstract) a first-come first-served semaphore | value, queue, granted |
| `SemaphoreFifo` | `Semaphore` of `semaphore_fifo.cpp` | the list as `parent` / `child` fields; what runs after an early unlock is a step of its own (`Notify`, `TimeoutReset`), what a waiter has read before `m_isStop` is raised is its place `at` (`Inside`), and `--m_numWaiters` without the mutex is a load and a store; refines `FifoSemaphore` through `Queue` |
| `EventQueue` | `KernelEqueue` | `m_events` is a sequence; the notify after the unlock is `Notify` |
| `Pthread` | `pthread.cpp`: mutex, cond, rwlock, once | `cell` is the guest's pointer, `objects` all objects ever made; a call is looked up outside the locks and then runs step by step (`doing`): creation under the static lock and after a second look, the host's lock, the gap between the unlock of the guest's mutex and the host's wait, the flag `isWrite` |
| `Threads` | `pthread.cpp`: create, join, detach, `threadFunc`, cleanup; `runtimeLinker.cpp`: keys, `initTLS`, `destroyTLSKeys`, `loadStartModule` | a thread goes from "setup" over "running" and "cleanup" to "over"; `data` and `linker` are the two mutexes that are held across waits or guest code |
| `AddressMaps` | the shared look-ups | `Span`, the free places of an address range, and `IsNearest`, the `upper_bound` and step back that all tables use |
| `DirectMemory`, `FlexibleMemory` | the two `IMemoryType`s | one action per call, split (`work`, `heap`, `flexAddr`) where the type calls the manager with its mutex held; host and device pages are sets |
| `MemoryManager` | `memoryManager.cpp` over both types, with `mmap` and `munmap` | extends `DirectMemory` and is an INSTANCE of `FlexibleMemory`, with one `host`; `pending` is what a thread does between the manager and the type; `queries` holds the manager's mutex across a type's |
| `Files` | `fileManager.cpp`, `type_file.cpp`, the file calls of `filesystem.cpp` | a call looks its handle up (`Lookup`), and then uses `op[t].file` without the lock; `obj` are the file objects, freed when the table drops them; `m_mutext_int` and `linker` are the two mutexes held across the guest code of a module |
| `ImageHandler` | `ImageHandler` | the mutex is kept while a thread acquires or is between its predicate and its sleep, because `stop` ignores the mutex; `held` counts the swapchain images Vulkan has handed out |
| `VideoOut` | `VideoOut` and its SDL thread | extends `ImageHandler`, whose steps are steps of it; each critical section of `m_mutexInt` is an action; the SDL thread's place is `sdl` |
| `AvPlayer` | the player | the decoder thread's place is `decoder`, a client's `at`; a codec is a queue of `Capacity` packets that refuses the next |
| `*Proofs` | | theorems, section 5; eight modules, of which `SynchronisationProofs` is about `EventFlag` and `Pthread` and `VideoOutProofs` about `ImageHandler` and `VideoOut` |
| `MC*` | | threads, keys, names and arguments for TLC |

Threads are asleep on a condition variable until they are in `woken` (a notify
has reached them) or a timer fires; a woken thread re-evaluates its predicate
under the mutex. Spurious wakeups change nothing in these loops and are left out,
except that a timer may fire at any moment.

Undefined behaviour (a freed object that is used, an index out of range) ends a
behaviour in `life = "crashed"` (in `VideoOut`: `sdl = "crashed"`); an unhandled
C++ exception does the same. An
invariant must hold there too unless it says otherwise.

Abstractions: bit masks are sets of bits; times are left out, a timeout may fire
whenever a timed thread sleeps; the payload of an event is its trigger count; a
flip's argument is the ticket of its image request, which is unique; Vulkan is
the set of its answers; an address is a page and host memory a set of pages, of
which the host may hand out any free run; a file is its name and its mode, its
contents are left out; a codec is a bounded queue. A semaphore's critical section is one
action but for `m_isStop`, which is written without the mutex: the destructor may
raise it between a waiter's reads of it (lines 187 and 241) and what the waiter does
then. Definitions commented as
mutants are faulty variants of the definition they precede; the properties are
tested against them.

## 3. Runs

| Run | Question | Bounds |
|---|---|---|
| `event_flag` | count, wakeups, cancel and delete, and that cancel and delete return | 3 threads, 2 bits, one argument record per mode of wait |
| `semaphore` | does the list implement `FifoSemaphore`, with its liveness? | 3 threads, needs and signals 1 and 2, value up to 2; no timeouts, cancel or deletion, under which it does not |
| `semaphore_mixed` | all calls together: who may take units that are not there, and whom may a destructor still serve? | 2 threads, one of them destroys; needs, signals and cancels 1 and 2 |
| `event_queue` | lost wakeups, competition for an event | 3 threads, 2 events, capacities 1 and 2, two triggers |
| `pthread` | do locks, once and broadcasts keep their word through lazy creation? | 3 threads, one object of each kind with re-creation, 5 calls |
| `threads` | who frees a thread, and what can keep it or its creator waiting? | the first thread and 2 guest threads, 4 keys of which 1 is a program's, 5 calls |
| `memory` | mappings apart, sizes, the refinement of `DirectMemory`, and that calls return | 2 threads, 4 host and 3 device pages, lengths 1 and 2, 2 protections, a limit of 3 for flexible memory, 4 calls |
| `files` | does a call keep its file, who gets an exclusive open, do calls return? | 2 threads, 2 names, 2 handles, vectors of 2, 4 calls; exclusive opens with and without O_TRUNC, and O_EXLOCK |
| `imagehandler` | tickets, images, stop, return of requests | 3 threads, 4 tickets, 2 images, `m_maxImages` 2 (the code has 1; the order must not depend on it) |
| `videoout` | flips, windows and the SDL thread over `ImageHandler` | 2 guest threads, 2 windows, 3 flips, 3 other calls, requests that fail, and one swapchain image, which VK_SUBOPTIMAL_KHR leaks |
| `avplayer` | frames, and who waits for whom | 2 clients, short movies of both streams, a codec of 1 packet, 6 calls |
| `videoout_calls` | violation, see section 6 | 2 threads, 2 windows, 3 calls |

Why the bounds are enough: three threads give a thread that acts, one it should
wake and one that gets in between; where two are used, the third party is the
SDL thread, the decoder or the thread that was created. Four tickets let a request
fail and the three behind it queue; two windows tell "the first" from "a further"
one; three calls are an open, a close and a second open of the same window. Four
pages hold an object of two, a mapping inside it and a neighbour on either side,
and host and device addresses overlap, as the code's tables mix them. Four keys
are enough for the destructor of a key to read slot 2n and one beyond the table.
Two handles let a handle be closed and handed out again under a call. A codec that
takes one packet refuses the second. `MaxWaiters` bounds the drift of
`m_numWaiters`, whose unlocked decrements can lose updates; `MaxValue`,
`MaxTriggers`, `MaxTicket` and `MaxCalls` end runs that could go on. Deadlock is
not checked, because each instance may stop: the object is deleted, all threads
wait for a signal that need not come, or the bounded calls are used up.

Fairness. A notified or running thread is scheduled and gets the mutex. Where a
critical section is one action, weak fairness of the steps of a call that has
begun is enough (`EventFlag`, `EventQueue`, `SemaphoreFifo`, `MemoryManager`,
`Threads`, `Files`, `AvPlayer`). In `ImageHandler` and `VideoOut` a thread
keeps the mutex over several steps and others come and go, so the conditions are
strong: the host's mutexes are fair enough for a thread that keeps asking. The
SDL thread needs no notify, since its wait ends at the next vblank. Vulkan is
assumed to answer with an image in the end while the swapchain has one. Guest code
that runs under a lock (a module's entry, destructors) is assumed to end but for the
calls of it that are modelled. No call
need be made, no thread need exit, no mutex of the guest need be unlocked and no
timer need fire.

## 4. What the checks show

- Event flag: the timeout exit of wait tells nobody although cancel and the
  destructor sleep on the count it lowers. This is harmless: while they drain the
  predicate is true, so a timer that fires leads to the notifying exit
  (`NoLostWakeup`, `DrainEnds`). The destructor does not count the set, clear and
  cancel calls that sleep until the status is Set again; a flag must not be
  deleted while such calls are pending.
- Semaphore: without timeouts, cancel and deletion it is a first-come first-served
  semaphore. `NoOverdraw` extends to timeouts and deletion; only a cancel can spoil it
  (`disturbed`), when it zeroes the value under a marked waiter or marks waiters
  itself, whose timeouts may move `m_curStart` back behind one that was marked in
  the meantime (this takes four threads). Only then may the value wrap. The destructor
  raises `m_isStop` beside the mutex (line 64): the waiter that has read it as false,
  and a signal or a poll in progress, still change the value after that. But whoever
  sleeps at that moment is refused, those already marked included, and when the
  destructor waits for the waiters to leave nobody changes the value any more
  (`StopRefusesWaiters`). A wait that comes late is refused too, but unlinks a node
  that has no child and so empties the list under those that wait: they are not
  notified and the destructor waits for ever. The guest is assumed to start no call
  once the destructor waits. A cancel that reaches every waiter dereferences a
  null node (`life = "crashed"`), and a destructor with two waiters can end in a
  second `unlock` that throws (`ret = "lock_error"`); nothing in the repository
  promises otherwise for cancel, and the test of the destructor has one waiter.
- Event queue: the notify after the unlock loses nothing, and a waiter that loses
  its event to another goes on sleeping.
- Pthread: the look at a null pointer outside the lock is repaired by the second
  look, so an object is made once, whoever comes first. The one way to be told a lock
  that is not held is trylock or timedlock of a non-recursive mutex by its owner: the
  code unlocks it again and answers Ok (`relocked`, excepted in `HeldAsTold`).
- Threads: an object is freed once. The right to free it goes from the creator to
  the holder of the handle and from there to the joiner or the thread itself;
  the exception is a thread created detached, whose creator still reads the
  object. `create` keeps the mutex of all creates for ever when its thread has
  started before it waits (`Late`), because `started.wait(true)` sleeps while the
  value IS true; should it look again, the object of a detached thread may be gone
  (`LateLook`). A module whose entry joins a thread blocks that thread's end.
- Memory: free and unmap settle for the nearest entry below an address and take
  its end as inside, in a table that mixes host and device addresses. Even so no
  two mappings ever share a page and none outlives its object. `virtualQuery` takes
  the manager's mutex and then the type's, alloc, reserve, free and flexible map the
  other way round: this pair (`LockCycle`) is the only one that can wait for ever.
  A query of a table that is empty reads an entry that is not there, which ends the
  behaviour.
- Files: a call uses its file without the lock, and only a close of the very
  handle during the call can take it away; a reused handle hits no other call.
  Two exclusive opens that have both found no file get it both only if the later one
  has O_TRUNC (`SecondExclTruncates`): CREATE_ALWAYS takes what CREATE_NEW refuses.
  Calls wait for ever in two ways (`FileCallsReturn`): a module is closed whose
  destructors use a file; or its destructors, under the table's mutex, need the
  linker's, while a thread loads a module with the linker's and needs the table's, to
  enter the module or for the file calls of its entry (`LockCycle`).
- Image handler: `m_maxImages` is never the limit, the order of the tickets is.
  `stop` strands at most the one thread that was about to sleep. Images are
  leaked by VK_SUBOPTIMAL_KHR without a change of size and by a success on the last
  try; that is the only thing, besides stop, that keeps a request from returning.
- Video output: a submit's `submited` is balanced on every path, the SDL thread
  presents the message it popped, and image requests, which sleep with
  `m_mutexInt` released, cannot block the thread that would serve them. A close of
  a window with an event registered locks `m_mutexInt` twice (`KeptLocked`). The
  other ways a submit is kept are that the swapchain's images have all been leaked,
  and that the program has ended: an open with no window free pushes index -1 and a
  close pushes a handle, and the SDL thread indexes its windows by either.
  `SubmitReturns` excepts these three. Every image that is out is owned by one queued
  flip or one thread (`ImagesOwned`), whatever failed.
- Movie player: a refused packet is sent again and no frame is lost, doubled or
  overtaken. A client sleeps for ever only when the decoder thread is over (its last
  notify wakes one client, and may come before the sleep) or waits for a frame to be
  taken by a client that does not come.

## 5. What is proved

For any threads, arguments, keys, capacities, numbers of images, pages, lengths,
names and answers of Vulkan (the ASSUMEs of the modules are the only assumptions):

- `SynchronisationProofs`, first part, about `EventFlag`: type correctness,
  `WaitersCounted`, `SingleWaiter`, `NoLostWakeup`, `OneDrain`, `NoWaiterAfterDelete`,
  `CancelKeepsBits`, `CancelledWaitersSeeIt`. The invariants are inductive only together: that a
  drain cannot be slept through follows from the count, and the count's last
  decrement must be by a thread that notifies, which follows from the status
  being fixed while somebody drains (`OneDrain`). `DrainAwake` and `NoNewWaiters`
  are the safety that the liveness of a drain rests on: somebody is awake to carry it
  on, and the waiters it counts only get fewer.
- `EventQueueProofs`: type correctness, `KeysUnique`, `TriggersCounted`,
  `NoLostWakeup`. Lemmas about `Erase`, `Triggered` and `Reset` carry the list.
- `VideoOutProofs`, first part, about `ImageHandler` alone: type correctness,
  `OneInFlight`, `TicketsDistinct`, `NoTicketLost`, `NoLostWakeup`,
  `InTicketOrder`, `StopStrandsOneAtMost`. The strengthening is that of a
  ticket lock: the mutex has one owner, every live ticket lies in
  `m_presentCount..m_waitId`, and whoever acquires or has an image out holds the
  ticket `m_presentCount` (`Served`); `SleepJustified` carries the predicate over
  the gap between its evaluation and the sleep. `stop` ignores the mutex, so one
  thread may be in that gap, and not two, since it owns the mutex.
- `VideoOutProofs`, second part: `ImagesOwned`, `SubmitsBalanced`,
  `PendingNeverOverstated` and `FlipsQueuedBounded`. Its invariant
  `VideoInv` says that the SDL thread stands at a flip that heads the queue (`QueueOK`),
  and that the one image that may be out belongs either to one queued flip or to one
  thread between its request and its push (`ImagesHeld`). What is presented is out
  because of it, so the first part's invariant carries over to the composition, and
  the two are proved together.
- `SynchronisationProofs`, second part, about `Pthread`: `HeldAsTold`, `RwHeldAsTold`,
  `OnceRunsOnce`, `NoLostBroadcast`, `LocksExclude`, `MadeOnce`. The strengthening: the
  four pointers name four different objects, a thread inside a call on an object keeps
  it from being destroyed, and each step of a call says what its thread owns there.
  `RwHeldAsTold` speaks of threads outside all calls; `LocksExclude` holds in the
  middle of calls too, between a lock and its flag.
- `ThreadsProofs`: `NoUseAfterFree`. The strengthening: at any moment one party
  may free an object (its creator, the holder of the handle, the joiner, or
  the thread once it is detached), and the flags each of them reads say so.
  `MutexesOwned`: the two mutexes that are held across waits and guest code belong to
  the one thread whose place in the code is between their lock and their unlock.
- `FilesProofs`: `UsesItsFile`, `SecondExclTruncates`. The strengthening: an object is
  in the table under one handle, or in the hands of one opener, or free; and nobody
  who is about to open a name exclusively has had it since it is there.
  `OpenFilesStay` is an invariant beside it: a file that is open stays on the disk
  under its name, since unlink and rename are refused by the host, and is open in one
  mode only, and once with O_EXLOCK, since the host refuses an open that the first does
  not share with.
- `MemoryManagerProofs`, first part, about `DirectMemory` beside others that change
  the host's pages as `OthersUseHost` allows: type correctness, `MappingsBacked`,
  `MappingsDisjoint`. The strengthening: the committed ranges of two objects
  are disjoint and reserved in the host, and every mapping lies in the part of
  its object that is marked taken.
- `MemoryManagerProofs`, second part: the manager implements `DirectMemory`
  (`UsesDirectMemory`), and `MappingsApart` and `SizesCounted` hold in the
  composition. The first takes one fact of the manager, that the pages of flexible
  memory and of file views are reserved in the host apart from direct memory's; the
  second takes the theorems of the first part through it. `SizesCounted` says that a
  used size is the number of pages the table's entries cover: an entry
  that appears covers pages nobody covered (`CountGrows`), one that goes takes its
  own along (`CountShrinks`), both because entries are disjoint.
- `SemaphoreFifoProofs`:
  - `NoOverdraw` and `StopRefusesWaiters`, with all calls. At most one waiter is marked at a
    time, it is `m_curStart`, and the value covers its needs (`Marks`), whatever
    timeouts have done to the rest of the list; `disturbed` remembers the cancels
    that break this. One waiter at most is in the mutex with what it read before
    `m_isStop` was raised, and its units are there (`InsideOK`); the destructor gets the
    mutex after it (`StopInv`), so from its sleep on nobody subtracts.
  - `HeadIsWoken`, and every step is a step of `FifoSemaphore` or a stutter
    (`ImplementsFifo`), for threads that signal, wait, try and poll (`WaitsOnly`).
    The inductive invariant says there is a sequence of waiters that `parent`,
    `child`, `m_curStart` and `m_curBack` represent (`IsList`). A signal's walk
    down the list and the abstract grant to a prefix of the queue are recursive
    functions of different things, shown equal at the smallest index where
    they could differ (`Smallest`). `WaitsOnly` is needed: a timeout leaves from
    the middle of the list and a cancel marks out of turn, neither of which a
    first-come first-served semaphore does. That some thread calls wait at all
    (`Needs # {}`) is the other hypothesis. From the steps of the refinement
    follows `NobodyOvertakes`: the queue grows at its end and shrinks at its head, by
    a wait that takes what it asked for.
- `AvPlayerProofs`: `NoFrameLost` and `PendingHasFrame`, for movies of any length and
  codecs of any capacity. The invariant is one equation per stream: what the client
  has, the kept frame, the codec's packets, the decode queue and the unread rest of
  the movie, one after the other, are the stream from its start. Every step moves a
  packet from one of these to its neighbour (`PassesToQueue`, `PassesToCodec`,
  `PassesToFrame`), which leaves the concatenation alone. The packets of one stream
  are a recursive function `Of` of the movie's length; what it does to `Append` and
  `Tail` is shown at the least index where two such functions differ.
  `PendingHasFrame` is part of the same invariant: a codec refuses only what it has no
  room for, and whoever takes a frame from it clears `pending`.

Each proof has a lemma per action, an inductive invariant `IInv`, and temporal
theorems that follow from it.

`DrainAwake`, `NoNewWaiters`, `LocksExclude`, `MadeOnce`, `MutexesOwned`,
`OpenFilesStay` and `NobodyOvertakes` are proved and have no run of their own: they
say in the callers' terms, or about the steps, what the invariants that the runs check
come to.

Only model-checked is everything under fairness: `DrainEnds`, `WaiterServed`,
`RequestReturns`, `SubmitReturns`, `CallReturns`, `ThreadEnds`,
`CreateReturnsUnlessLate`, `FileCallsReturn`, `ClientServed` and the liveness half of
`Refines`. The prover has neither the fairness rules' ENABLED nor induction over
behaviours.

## 6. Where the code does not do what it says

- `videoout_calls`: open, close and SDLInit share `m_condDone` and the SDL thread
  wakes one waiter, which may be the wrong one.

Seen while modelling and present in the models as they are, without a run of their
own, because nothing in the repository states the contrary:

- VideoOut: opening a second window never returns (videoout.cpp:995), close sends
  the handle where the SDL thread expects the index (492), close locks its mutex
  again through `removeEvent` (479), a second SDLInit returns the stale result of
  the first (544), a window reopened with a flip on its way ends with a negative
  `gcQueueNum` (446), a flip's event can carry the next flip's argument (583).
- Semaphore: a wait that comes while the destructor is at its mutex may leave other
  waiters without a notify (semaphore_fifo.cpp:187, 245); a timed-out last waiter leaves `m_curBack` set, and every later poll
  and try_wait is refused (semaphore_fifo.cpp:215). A waiter keeps its served
  predecessor as parent; if it then times out it is taken for the middle of the
  list, `m_curStart` stays on its idle node, and those behind it are not served
  (197, 255). A cancel
  followed by two timeouts can mark two waiters for the same units (105).
- Threads: the destructor of key n is passed the value of slot 2n less the number
  of programs (runtimeLinker.cpp:720); a detach that comes after the thread's end
  leaks its object (pthread.cpp:1238); the creator of a detached thread
  reads its object after the thread may have freed it (1166); a module that is
  loaded when no key is left goes on with the index -1 (runtimeLinker.cpp:579).
- Memory: map of direct memory registers nothing with the manager, so munmap of
  its address finds no type or a neighbour's (directmem.cpp:358); virtualQuery steps
  back from the end of an empty table (memoryManager.cpp:95, directmem.cpp:491, 503,
  flexiblemem.cpp:242).
- Files: O_CREAT with O_EXCL and O_TRUNC may give one new file to two threads
  (filesystem.cpp:258, type_file.cpp:38); the table's and the linker's mutex are taken
  in both orders (fileManager.cpp:190 and runtimeLinker.cpp:632 against
  runtimeLinker.cpp:542 and 251); O_CREAT without O_TRUNC on a file that exists gives a handle without a
  file, whose reads and writes fail (type_file.cpp:40); unlink of an open file
  throws (filesystem.cpp:323); an error sticks to the file and ends later vectored
  calls early (filesystem.cpp:214).
- Movie player: a second setFile replaces a running thread, which ends the
  program (avplayer.cpp:268); a read error ends the decoder without a notify (522); the
  destructor closes the input while the decoder may read it (126); stop frees the
  texture the guest is using (186); the decoder polls while a codec is full,
  since the predicate of its wait is true (549).

Read in the code and outside the models: the cache of getMappedPath outlives
clearMountPoint (fileManager.cpp:114); a destructor that registers another one
grows the list that is iterated (runtimeLinker.cpp:404); stopModule takes a module
out of the list of programs without the linker's mutex (748); registerBuffers counts its
sets without the mutex (videoout.cpp:707); the vblank is not ticked while messages
are queued (866); a deleted event queue stays registered with the video output
(eventqueue.cpp:158).

## 7. Plan

Done: the kernel objects, the pthread objects and thread life, memory, files, video
output with its image handler, and the movie player; every invariant and action
property that a run checks is a theorem. Next, in this order:

1. `VideoOut`: the vblank status, buffer registration and the destructor.
2. `libSceAudioOut`: ports, whose output runs beside close and the hot-plug events.
3. `Files`: mount points with the path cache, directory iteration.

Modules are written so that they can be proved about: no RECURSIVE operators, one
action per critical section, invariants as conjunctions of named parts.

## Not modelled

- ELF loader, relocation and code patching (`core/runtime/formats`, 1542 lines, and
  `core/runtime/util`), trophies and init parameters: they parse files and fill
  tables once, on one thread; there is no control between steps for a model to explore.
- Vulkan set-up, overlay, the GPU interface, networking (sockets and libcurl), pads
  and keyboards: sequences of calls into libraries, whose outcome is theirs.
- The guest libraries under `src/modules`: most exports forward to `core`, where
  they are modelled, or are stubs that log and return. Those with state of their own
  (`libSceAudioOut`, `libSceNgs2`, `libSceSaveData`, `libSceUlt`) are left out
  except for the movie player.
- Of the modelled components: vblank status, buffer registration, SDL events and
  the destructor of `VideoOut`; Vulkan objects of `ImageHandler`; attributes, names,
  priorities, affinity and cleanup handlers of threads; stacks, directQuery and the
  GPU's notice of memory; mount points, directories, stat and contents of files;
  loop, conversion and times of the movie player.

These parts hold most of the repository's lines, so the map covers a
small share of them; what it covers is where threads meet.
