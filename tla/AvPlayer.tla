------------------------------ MODULE AvPlayer -------------------------------
(***************************************************************************)
(* The player of movies (modules/libSceAvPlayer/avplayer.cpp): a decoder   *)
(* thread reads packets from the file and sends them to the codec of their *)
(* stream; guest threads take the frames out.  The codecs and the file are *)
(* libavcodec's: here a codec is a queue of at most Capacity packets, each *)
(* of which gives one frame.  Decoding errors, conversion and times are    *)
(* left out: a video frame may be early.                                   *)
(***************************************************************************)
EXTENDS Naturals, Sequences

CONSTANTS
    Clients, NoClient,
    Movies,         \* the files: sequences of streams, "v" or "a"
    Stream0,        \* the stream with index 0
    Capacity,       \* packets a codec takes before it answers EAGAIN
    MaxCalls        \* bound on the clients' calls

Streams == {"v", "a"}
Flush == <<"flush", 0>>     \* an empty packet

ASSUME AvPlayerAssumption ==
    /\ Movies \subseteq Seq(Streams) /\ Stream0 \in Streams
    /\ Capacity \in Nat \ {0} /\ NoClient \notin Clients

VARIABLES
    player,         \* "new", "open", "gone"
    movie,          \* its packets, for the properties
    unread,         \* the packets not read yet
    isEOF,
    decodeQueue, codec, pending,    \* per stream
    active,         \* m_isVideoActive, m_isAudioActive
    frame,          \* m_video.frame, when getNewFrame is false: at most one
    getNewFrame,
    started,        \* m_startTime is set
    got,            \* per stream, the frames handed out
    closed,         \* destroyAVData has freed what libavcodec gave
    videoBuffer,    \* "none", "live", "freed"
    m_isStop,
    decoder,        \* the decoder thread: the step it is at, "none" and "done"
    m_mutexDecode,  \* the client that has it and is about to sleep
    at,             \* per client: [step, stream]
    calls, life

fileVars == <<player, movie, unread, isEOF>>
frameVars == <<active, frame, getNewFrame, started, got>>
endVars == <<closed, videoBuffer>>
vars == <<fileVars, decodeQueue, codec, pending, frameVars, endVars, m_isStop, decoder,
          m_mutexDecode, at, calls, life>>

Out == [step |-> "out", stream |-> "none"]

Init ==
    /\ player = "new" /\ movie = <<>> /\ unread = <<>> /\ isEOF = FALSE
    /\ decodeQueue = [s \in Streams |-> <<>>]
    /\ codec = [s \in Streams |-> <<>>]
    /\ pending = [s \in Streams |-> FALSE]
    /\ active = [s \in Streams |-> FALSE]
    /\ frame = <<>> /\ getNewFrame = TRUE /\ started = FALSE
    /\ got = [s \in Streams |-> <<>>]
    /\ closed = FALSE /\ videoBuffer = "none"
    /\ m_isStop = FALSE /\ decoder = "none" /\ m_mutexDecode = NoClient
    /\ at = [c \in Clients |-> Out]
    /\ calls = 0 /\ life = "running"

Call(c) == life = "running" /\ at[c] = Out /\ calls < MaxCalls /\ calls' = calls + 1
At(c, step) == life = "running" /\ at[c].step = step /\ UNCHANGED calls
Go(c, step) == at' = [at EXCEPT ![c].step = step]
Return(c) == at' = [at EXCEPT ![c] = Out]
Unlocked == m_mutexDecode = NoClient

\* notify_one of the stream's condition variable; f is the clients without it.
Notify(s, f) ==
    LET Waiting == {c \in Clients : f[c] = [step |-> "waiting", stream |-> s]} IN
    IF Waiting = {} THEN at' = f
    ELSE \E c \in Waiting : at' = [f EXCEPT ![c].step = "retry"]

-----------------------------------------------------------------------------
\* setFile, which a player survives once: a second assignment destroys the thread
\* object of a thread that nobody has joined.
SetFile(c, m) ==
    /\ Call(c)
    /\ IF player = "open" THEN life' = "crashed" /\ UNCHANGED <<fileVars, active, videoBuffer, decoder>>
       ELSE /\ player = "new" /\ player' = "open"
            /\ movie' = [i \in DOMAIN m |-> <<m[i], i>>] /\ unread' = movie'
            /\ active' = [s \in Streams |-> TRUE]
            /\ videoBuffer' = "live" /\ decoder' = "read"
            /\ UNCHANGED <<isEOF, life>>
    /\ UNCHANGED <<decodeQueue, codec, pending, frame, getNewFrame, started, got, closed,
                   m_isStop, m_mutexDecode, at>>

Decoder(from, to) == life = "running" /\ decoder = from /\ decoder' = to

\* The decoder thread's loop, and the one in it, test m_isStop without the mutex.
ReadNext ==
    /\ Decoder("read", IF m_isStop THEN "done" ELSE IF isEOF THEN "loop" ELSE "reading")
    /\ UNCHANGED <<fileVars, decodeQueue, codec, pending, frameVars, endVars, m_isStop,
                   m_mutexDecode, at, calls, life>>

\* av_read_frame.  At the end of the file the packet is empty, and its index is 0.
ReadFrame ==
    /\ \/ /\ ~closed
          /\ \/ /\ unread # <<>> /\ Decoder("reading", "loop")
                /\ decodeQueue' = [decodeQueue EXCEPT ![Head(unread)[1]] = Append(@, Head(unread))]
                /\ unread' = Tail(unread) /\ UNCHANGED isEOF
             \/ /\ unread = <<>> /\ Decoder("reading", "loop")
                /\ decodeQueue' = [decodeQueue EXCEPT ![Stream0] = Append(@, Flush)]
                /\ isEOF' = TRUE /\ UNCHANGED unread
             \/ Decoder("reading", "done") /\ UNCHANGED <<decodeQueue, unread, isEOF>>  \* an error
          /\ UNCHANGED life
       \/ closed /\ Decoder("reading", "done") /\ life' = "crashed"
          /\ UNCHANGED <<decodeQueue, unread, isEOF>>
    /\ UNCHANGED <<player, movie, codec, pending, frameVars, endVars, m_isStop, m_mutexDecode,
                   at, calls>>

Loop ==
    /\ Decoder("loop", IF m_isStop THEN "ending" ELSE "v")
    /\ UNCHANGED <<fileVars, decodeQueue, codec, pending, frameVars, endVars, m_isStop,
                   m_mutexDecode, at, calls, life>>

After(s) == IF s = "v" THEN "a" ELSE "test"
Sent(s) == IF s = "v" THEN "sent v" ELSE "sent a"

\* Mutant of Send: the packet the codec does not take is dropped.
SendDropped(s) ==
    /\ \/ /\ pending[s] \/ decodeQueue[s] = <<>>
          /\ Decoder(s, After(s))
          /\ UNCHANGED <<codec, pending, decodeQueue>>
       \/ /\ ~pending[s] /\ decodeQueue[s] # <<>> /\ Unlocked
          /\ IF Len(codec[s]) < Capacity
             THEN /\ codec' = [codec EXCEPT ![s] = Append(@, Head(decodeQueue[s]))]
                  /\ Decoder(s, Sent(s)) /\ UNCHANGED <<pending, decodeQueue>>
             ELSE /\ pending' = [pending EXCEPT ![s] = TRUE]
                  /\ decodeQueue' = [decodeQueue EXCEPT ![s] = Tail(@)]
                  /\ Decoder(s, After(s)) /\ UNCHANGED codec
    /\ UNCHANGED <<fileVars, frameVars, endVars, m_isStop, m_mutexDecode, at, calls, life>>

\* sendFunc: a packet to the codec of the stream, or what makes it return.
Send(s) ==
    /\ \/ /\ pending[s] \/ decodeQueue[s] = <<>>
          /\ Decoder(s, After(s))
          /\ UNCHANGED <<codec, pending, life>>
       \/ /\ ~pending[s] /\ decodeQueue[s] # <<>> /\ Unlocked /\ closed
          /\ Decoder(s, "done") /\ life' = "crashed"
          /\ UNCHANGED <<codec, pending>>
       \/ /\ ~pending[s] /\ decodeQueue[s] # <<>> /\ Unlocked /\ ~closed
          /\ IF Len(codec[s]) < Capacity
             THEN /\ codec' = [codec EXCEPT ![s] = Append(@, Head(decodeQueue[s]))]
                  /\ Decoder(s, Sent(s)) /\ UNCHANGED pending
             ELSE /\ pending' = [pending EXCEPT ![s] = TRUE]
                  /\ Decoder(s, After(s)) /\ UNCHANGED codec
          /\ UNCHANGED life
    /\ UNCHANGED <<fileVars, decodeQueue, frameVars, endVars, m_isStop, m_mutexDecode, at, calls>>

\* Mutant of NotifyClient: it only notifies when the queue is empty again.
NotifyClientLast(s) ==
    /\ Decoder(Sent(s), s)
    /\ IF Len(decodeQueue[s]) = 1 /\ isEOF THEN Notify(s, at) ELSE UNCHANGED at
    /\ decodeQueue' = [decodeQueue EXCEPT ![s] = Tail(@)]
    /\ UNCHANGED <<fileVars, codec, pending, frameVars, endVars, m_isStop, m_mutexDecode, calls, life>>

NotifyClient(s) ==
    /\ Decoder(Sent(s), s)
    /\ Notify(s, at)
    /\ decodeQueue' = [decodeQueue EXCEPT ![s] = Tail(@)]
    /\ UNCHANGED <<fileVars, codec, pending, frameVars, endVars, m_isStop, m_mutexDecode, calls, life>>

\* The wait on m_condDecode is for m_video.pending, which holds: it never sleeps.
Test ==
    /\ Unlocked
    /\ Decoder("test", IF \A s \in Streams : pending[s] /\ decodeQueue[s] # <<>>
                       THEN "loop" ELSE "ending")
    /\ UNCHANGED <<fileVars, decodeQueue, codec, pending, frameVars, endVars, m_isStop,
                   m_mutexDecode, at, calls, life>>

AllSent == isEOF /\ \A s \in Streams : decodeQueue[s] = <<>>

Ending ==
    /\ Decoder("ending", IF AllSent THEN "end v" ELSE "read")
    /\ m_isStop' = (m_isStop \/ AllSent)
    /\ UNCHANGED <<fileVars, decodeQueue, codec, pending, frameVars, endVars, m_mutexDecode,
                   at, calls, life>>

EndNotify(s) ==
    /\ IF s = "v" THEN Decoder("end v", "end a") ELSE Decoder("end a", "done")
    /\ Notify(s, at)
    /\ UNCHANGED <<fileVars, decodeQueue, codec, pending, frameVars, endVars, m_isStop,
                   m_mutexDecode, calls, life>>

DecoderStep ==
    \/ ReadNext \/ ReadFrame \/ Loop \/ Test \/ Ending
    \/ \E s \in Streams : Send(s) \/ NotifyClient(s) \/ EndNotify(s)

-----------------------------------------------------------------------------
\* getVideoData and getAudioData.
GetData(c, s) ==
    /\ Call(c) /\ player = "open"
    /\ at' = [at EXCEPT ![c] = [step |-> "enter", stream |-> s]]
    /\ UNCHANGED <<fileVars, decodeQueue, codec, pending, frameVars, endVars, m_isStop, decoder,
                   m_mutexDecode, life>>

Entered(c) == life = "running" /\ at[c].step \in {"enter", "retry"} /\ Unlocked /\ UNCHANGED calls
Receives(c) == at[c].stream = "a" \/ getNewFrame
HasFrame(s) == codec[s] # <<>> /\ Head(codec[s]) # Flush

\* false at once: the stream has ended.  (Who comes back from its wait is not asked.)
GetNone(c) ==
    /\ Entered(c) /\ at[c].step = "enter" /\ ~active[at[c].stream]
    /\ Return(c)
    /\ UNCHANGED <<fileVars, decodeQueue, codec, pending, frameVars, endVars, m_isStop, decoder,
                   m_mutexDecode, life>>

Gets(c) == Entered(c) /\ (at[c].step = "enter" => active[at[c].stream])

\* AVERROR_EOF, or EAGAIN after a stop.
GetEnd(c) ==
    LET s == at[c].stream IN
    /\ Gets(c) /\ Receives(c)
    /\ \/ codec[s] = <<>> /\ m_isStop
       \/ codec[s] # <<>> /\ Head(codec[s]) = Flush
    /\ active' = [active EXCEPT ![s] = FALSE]
    /\ pending' = [pending EXCEPT ![s] = FALSE]
    /\ getNewFrame' = (getNewFrame /\ s # "v")
    /\ Return(c)
    /\ UNCHANGED <<fileVars, decodeQueue, codec, frame, started, got, endVars, m_isStop, decoder,
                   m_mutexDecode, life>>

\* EAGAIN: m_isStop is tested, and then the client sleeps; stop needs no mutex.
GetNothingYet(c) ==
    /\ Gets(c) /\ Receives(c) /\ codec[at[c].stream] = <<>> /\ ~m_isStop
    /\ m_mutexDecode' = c
    /\ Go(c, "to wait")
    /\ UNCHANGED <<fileVars, decodeQueue, codec, pending, frameVars, endVars, m_isStop, decoder, life>>

Sleep(c) ==
    /\ At(c, "to wait")
    /\ m_mutexDecode' = NoClient
    /\ Go(c, "waiting")
    /\ UNCHANGED <<fileVars, decodeQueue, codec, pending, frameVars, endVars, m_isStop, decoder, life>>

\* Mutant of Served: the decoder is told of the end of the stream only.
ServedLate(s) == UNCHANGED pending

\* The decoder may go on.
Served(s) == pending' = [pending EXCEPT ![s] = @ /\ m_isStop]

GetAudio(c) ==
    /\ Gets(c) /\ at[c].stream = "a" /\ HasFrame("a")
    /\ codec' = [codec EXCEPT !["a"] = Tail(@)]
    /\ got' = [got EXCEPT !["a"] = Append(@, Head(codec["a"]))]
    /\ started' = TRUE
    /\ Served("a")
    /\ Return(c)
    /\ UNCHANGED <<fileVars, decodeQueue, active, frame, getNewFrame, endVars, m_isStop, decoder,
                   m_mutexDecode, life>>

\* The frame, from the codec or from an earlier call: handed out, or kept when it is
\* early or waits for the first audio.  Where there is none the caller that came back
\* from its wait shows what is not there; after stop the texture is not.
GetVideo(c) ==
    LET f == IF getNewFrame THEN <<Head(codec["v"])>> ELSE frame IN
    /\ Gets(c) /\ at[c].stream = "v" /\ (getNewFrame => HasFrame("v"))
    /\ codec' = IF getNewFrame THEN [codec EXCEPT !["v"] = Tail(@)] ELSE codec
    /\ \/ /\ frame' = f /\ getNewFrame' = FALSE
          /\ started' = (started \/ ~active["a"])
          /\ UNCHANGED <<got, pending, life>>
       \/ /\ started \/ ~active["a"]
          /\ started' = TRUE
          /\ frame' = <<>> /\ getNewFrame' = TRUE
          /\ got' = [got EXCEPT !["v"] = @ \o f]
          /\ life' = IF f = <<>> \/ videoBuffer # "live" THEN "crashed" ELSE life
          /\ Served("v")
    /\ Return(c)
    /\ UNCHANGED <<fileVars, decodeQueue, active, endVars, m_isStop, decoder, m_mutexDecode>>

-----------------------------------------------------------------------------
\* stop takes no mutex, and frees the texture.
Stop(c) ==
    /\ Call(c) /\ player = "open"
    /\ m_isStop' = TRUE
    /\ at' = [at EXCEPT ![c] = [step |-> "stop", stream |-> "v"]]
    /\ UNCHANGED <<fileVars, decodeQueue, codec, pending, frameVars, endVars, decoder,
                   m_mutexDecode, life>>

StopNotify(c) ==
    /\ At(c, "stop")
    /\ Notify(at[c].stream, IF at[c].stream = "v" THEN [at EXCEPT ![c].stream = "a"]
                            ELSE [at EXCEPT ![c].step = "free"])
    /\ UNCHANGED <<fileVars, decodeQueue, codec, pending, frameVars, endVars, m_isStop, decoder,
                   m_mutexDecode, life>>

Free(c) ==
    /\ At(c, "free")
    /\ videoBuffer' = "freed"
    /\ Return(c)
    /\ UNCHANGED <<fileVars, decodeQueue, codec, pending, frameVars, closed, m_isStop, decoder,
                   m_mutexDecode, life>>

\* The destructor, when no other client is in a call.
Close(c) ==
    /\ Call(c) /\ player = "open" /\ \A d \in Clients : at[d] = Out
    /\ player' = "gone"
    /\ m_isStop' = TRUE
    /\ Go(c, "destroy")
    /\ UNCHANGED <<movie, unread, isEOF, decodeQueue, codec, pending, frameVars, endVars, decoder,
                   m_mutexDecode, life>>

Destroy(c) ==
    /\ At(c, "destroy") /\ Unlocked
    /\ active' = [s \in Streams |-> FALSE]
    /\ closed' = TRUE
    /\ Go(c, "join")
    /\ UNCHANGED <<fileVars, decodeQueue, codec, pending, frame, getNewFrame, started, got, videoBuffer,
                   m_isStop, decoder, m_mutexDecode, life>>

Join(c) ==
    /\ At(c, "join") /\ decoder = "done"
    /\ videoBuffer' = "freed"
    /\ Return(c)
    /\ UNCHANGED <<fileVars, decodeQueue, codec, pending, frameVars, closed, m_isStop, decoder,
                   m_mutexDecode, life>>

ClientStep(c) ==
    \/ GetNone(c) \/ GetEnd(c) \/ GetNothingYet(c) \/ GetAudio(c) \/ GetVideo(c)
    \/ Sleep(c) \/ StopNotify(c) \/ Free(c) \/ Destroy(c) \/ Join(c)

Next ==
    \/ DecoderStep
    \/ \E c \in Clients :
        \/ ClientStep(c) \/ Stop(c) \/ Close(c)
        \/ \E m \in Movies : SetFile(c, m)
        \/ \E s \in Streams : GetData(c, s)

Spec == Init /\ [][Next]_vars
FairSpec == Spec /\ WF_vars(DecoderStep) /\ \A c \in Clients : WF_vars(ClientStep(c))

-----------------------------------------------------------------------------
\* The packets of a stream, in their order.
Of(s, packets) ==
    LET of[i \in 0..Len(packets)] ==
            IF i = 0 THEN <<>>
            ELSE IF packets[i][1] = s THEN Append(of[i - 1], packets[i]) ELSE of[i - 1]
    IN  of[Len(packets)]
\* What the decoder has sent is still in its queue until the notify.
Queued(s) == IF decoder = Sent(s) THEN Tail(decodeQueue[s]) ELSE decodeQueue[s]

\* Every frame of the movie is handed out once and in order, or still on its way: the
\* packet the codec refuses (avplayer.cpp:486) stays in the queue, and the early video
\* frame (avplayer.cpp:319) is kept for the next call, whoever makes it.
NoFrameLost ==
    \A s \in Streams :
        life = "running" =>
            got[s] \o (IF s = "v" THEN frame ELSE <<>>) \o Of(s, codec[s]) \o Of(s, Queued(s))
                \o Of(s, unread) = Of(s, movie)

\* The decoder waits for the client of a stream (pending) only when that client has a
\* frame to take: else each waits for the other.
PendingHasFrame ==
    \A s \in Streams : pending[s] /\ ~m_isStop => codec[s] # <<>> \/ (s = "v" /\ frame # <<>>)

\* A client does not sleep for ever, unless the decoder thread is over (its last notify
\* wakes one client, and comes too early for one that has just tested m_isStop), or
\* waits for a client: to take a frame of the other stream, or to come back for the
\* video frame that was early.
ClientServed ==
    \A c \in Clients :
        at[c].step = "waiting" ~>
            \/ at[c].step # "waiting"
            \/ decoder = "done" \/ life = "crashed"
            \/ \E s \in Streams : pending[s] /\ (s # at[c].stream \/ frame # <<>>)
=============================================================================
