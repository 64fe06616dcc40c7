------------------------------- MODULE Session ------------------------------
(***************************************************************************)
(* One session with the cloud after login: cloud_wait_forever (espush.c),  *)
(* the select loop (select.c), the receive buffer and the resources of the *)
(* loop (protoframe.c), and the lights it controls.                        *)
(*                                                                         *)
(* Three actors: the cloud at the other end of the TCP connection, the     *)
(* espush thread that runs the loop, and the timer thread that runs        *)
(* heart_timeout and hands heartbeats to the loop through a pipe.          *)
(***************************************************************************)
EXTENDS FiniteSets, Sequences, LightControl

CONSTANTS
  Cap,          \* MAX_RECV_BUFFER_LENGTH, buf->cap
  RecvMax,      \* sizeof(rcv_buf) in async_sock_recv
  PipeCap,      \* PIPE_BUFSZ
  PipeReadMax,  \* sizeof(rcv_buf) in async_pipe_read
  HeartLen,     \* sizeof(heart_buf) in heart_timeout
  NullStore,    \* what out->data[left-2] = 0 may do when data is NULL
  Traffic,      \* the frames the cloud may send
  Pipelined,    \* may it send one before the last was served?
  MaxFrames,    \* bound: frames sent in a session
  MaxBeats      \* bound: times the heart timer fires in a session

\* An empty buffer is not full.
ASSUME CapAssumption == Cap \in Nat /\ Cap > 4

ASSUME SessionAssumption ==
  /\ RecvMax \in Nat \ {0} /\ PipeCap \in Nat \ {0}
  /\ PipeReadMax \in Nat \ {0} /\ HeartLen \in Nat \ {0}
  /\ PipeReadMax <= PipeCap
  /\ NullStore \subseteq {"ignored", "fault"}
  /\ Traffic \subseteq Frames /\ \A f \in Traffic : IsFrame(f)
  /\ Pipelined \in BOOLEAN
  /\ MaxFrames \in Nat /\ MaxBeats \in Nat

-----------------------------------------------------------------------------
(* The receive buffer (struct Buffer): a buffer is the sequence of the     *)
(* bytes it holds, its length is buf->len.  A byte stands for its position *)
(* in the TCP stream: the byte that was sent n-th is the number n, so that *)
(* losing, repeating or swapping bytes is visible, while their values are  *)
(* not modelled.                                                           *)

\* Two bytes of length, one of method, one of txid.
HeadLen == 4

\* Fault variants, for sensitivity checks of the properties: no length check,
\* one byte more waited for, one byte too few dropped.
buffer_accepts_any(b, len) == TRUE
buffer_try_extract_strict(b, frameLen) ==
  IF Len(b) >= HeadLen /\ Len(b) > frameLen THEN frameLen ELSE 0
buffer_shrink_short(b, len) == SubSeq(b, len, Len(b))

\* buffer_add_data accepts len more bytes.
buffer_accepts(b, len) == Len(b) + len <= Cap

buffer_add_data(b, data) == b \o data

\* The bytes that make up the first frame, 0 while it is not complete.
\* frameLen is what the length field at the front of b announces, plus 2.
buffer_try_extract(b, frameLen) ==
  IF Len(b) >= HeadLen /\ Len(b) >= frameLen THEN frameLen ELSE 0

buffer_shrink(b, len) == SubSeq(b, len + 1, Len(b))

\* The buffer counts as full four bytes before it is.
buffer_is_full(b) == Len(b) + HeadLen >= Cap

\* The bytes a recv of n bytes returns when got bytes were received before.
Segment(got, n) == [i \in 1..n |-> got + i]

\* b holds the last bytes of the got received so far, in order.
IsTail(b, got) ==
  /\ Len(b) <= got
  /\ \A i \in 1..Len(b) : b[i] = got - Len(b) + i

-----------------------------------------------------------------------------
VARIABLES
  sent,      \* the frames sent, each with its place .at in the stream
  peer,      \* the connection: "open", "closed" by the cloud, "reset"
  pc,        \* where the espush thread is
  ready,     \* the descriptors select reported
  got,       \* bytes received
  buf,       \* the receive buffer
  handled,   \* history: indices of the frames given to handle_frame
  lines,     \* the GPIO lines
  pending,   \* the answer being written to the socket
  replies,   \* history: the answers written
  pipe,      \* bytes in the pipe
  relay,     \* bytes read from the pipe, being written to the socket
  relayed,   \* heartbeat bytes written to the socket
  timer,     \* the timer thread: "off", "armed", "writing" (blocked)
  owed,      \* bytes heart_timeout still has to write
  beats,     \* times the heart timer fired
  backlog,   \* history: more was in the pipe than one read takes
  res,       \* resources held
  leaked     \* heap blocks of handled frames nobody frees

cloudVars == <<sent, peer>>
recvVars  == <<got, buf, handled, lines>>
pipeVars  == <<relay, relayed>>
timerVars == <<timer, owed, beats, backlog>>
vars == <<sent, peer, pc, ready, recvVars, pending, replies, pipe, pipeVars,
          timerVars, res, leaked>>

Resources == {"state", "buffer", "pipe", "timer"}
InLoop    == {"select", "sock", "reply", "pipe", "relay"}
Teardown  == {"free_timer", "free_pipe", "free_buffer", "free_state", "close"}

\* The length of the byte stream sent so far.
TotalSent ==
  IF sent = <<>> THEN 0 ELSE sent[Len(sent)].at + sent[Len(sent)].len

\* Where frame k starts; the next frame starts where the stream ends.
StartOf(k) == IF k \in DOMAIN sent THEN sent[k].at ELSE TotalSent

\* Frames that start with byte b.
FrameOf(b) == {k \in DOMAIN sent : sent[k].at + 1 = b}

Smaller(a, b) == IF a <= b THEN a ELSE b

Init ==
  /\ sent = <<>> /\ peer = "open"
  /\ pc = "start" /\ ready = {}
  /\ got = 0 /\ buf = <<>> /\ handled = <<>>
  /\ lines \in [Lines -> BOOLEAN]
  /\ pending = NoAnswer /\ replies = <<>>
  /\ pipe = 0 /\ relay = 0 /\ relayed = 0
  /\ timer = "off" /\ owed = 0 /\ beats = 0 /\ backlog = FALSE
  /\ res = {} /\ leaked = 0

-----------------------------------------------------------------------------
(* The cloud and the network.                                              *)

\* The cloud writes one more frame.
CloudSend ==
  /\ peer = "open" /\ Len(sent) < MaxFrames
  /\ Pipelined \/ Len(handled) = Len(sent)
  /\ \E f \in Traffic :
       sent' = Append(sent, [method |-> f.method, len |-> f.len, cmd |-> f.cmd,
                             line |-> f.line, on |-> f.on, at |-> TotalSent])
  /\ UNCHANGED <<peer, pc, ready, recvVars, pending, replies, pipe, pipeVars,
                 timerVars, res, leaked>>

\* The cloud closes after what it sent, or the connection breaks.
PeerGone ==
  /\ peer = "open"
  /\ peer' \in {"closed", "reset"}
  /\ UNCHANGED <<sent, pc, ready, recvVars, pending, replies, pipe, pipeVars,
                 timerVars, res, leaked>>

-----------------------------------------------------------------------------
(* The espush thread: setting up.                                          *)

\* Fault variant: a timer that cannot be created skips resource_free.
BeginLeaks ==
  /\ pc = "start"
  /\ res' = Resources \ {"timer"} /\ timer' = timer /\ pc' = "free_state"
  /\ UNCHANGED <<cloudVars, ready, recvVars, pending, replies, pipe, pipeVars,
                 owed, beats, backlog, leaked>>

\* cloud_wait_forever and _nonblock_wait_recv up to the loop: the state, then
\* buffer and pipe, then the timer; each may fail and leads to the clean-up
\* of what there is.
Begin ==
  /\ pc = "start"
  /\ \/ res' = Resources /\ timer' = "armed" /\ pc' = "select"
     \/ res' = Resources \ {"timer"} /\ timer' = timer /\ pc' = "free_pipe"
     \/ res' = {"state"} /\ timer' = timer /\ pc' = "free_state"
     \/ res' = {} /\ timer' = timer /\ pc' = "close"
  /\ UNCHANGED <<cloudVars, ready, recvVars, pending, replies, pipe, pipeVars,
                 owed, beats, backlog, leaked>>

-----------------------------------------------------------------------------
(* The espush thread: the select loop.                                     *)

Readable ==
  {d \in {"sock", "pipe"} :
     \/ d = "sock" /\ (got < TotalSent \/ peer # "open")
     \/ d = "pipe" /\ pipe > 0}

\* select_handle: the socket is looked after before the pipe.
Select ==
  /\ pc = "select" /\ Readable # {}
  /\ ready' = Readable
  /\ pc' = IF "sock" \in Readable THEN "sock" ELSE "pipe"
  /\ UNCHANGED <<cloudVars, recvVars, pending, replies, pipe, pipeVars,
                 timerVars, res, leaked>>

SelectFails ==
  /\ pc = "select"
  /\ pc' = "free_timer"
  /\ UNCHANGED <<cloudVars, ready, recvVars, pending, replies, pipe, pipeVars,
                 timerVars, res, leaked>>

\* Where select_handle goes on after async_sock_recv returned 0 or more.
AfterSock == IF "pipe" \in ready THEN "pipe" ELSE "select"

\* Blocks malloc_empty_frame and deserialize_frame allocate for f.
Blocks(f) == IF f.len = HeadLen THEN 1 ELSE 2

\* handle_frame of frame k: the methods that only log.
HandleQuietly(k) ==
  /\ \/ sent[k].method \in {"heart", "upgrade", "reboot"}
     \/ sent[k].method = "uart" /\ ~IsLightRequest(sent[k])
  /\ pc' = AfterSock
  /\ leaked' = leaked + Blocks(sent[k])
  /\ UNCHANGED <<lines, pending>>

\* Fault variant: without memory for the answer the request is dropped.
HandleLightDrops(k) ==
  /\ IsLightRequest(sent[k])
  /\ \/ /\ lines' = handle_uart_buffer(lines, sent[k])
        /\ pending' = Answer(lines', sent[k], k) /\ pc' = "reply"
     \/ lines' = lines /\ pending' = NoAnswer /\ pc' = AfterSock
  /\ leaked' = leaked + Blocks(sent[k])

\* handle_uart_transport_frame: take effect, then answer if memory allows; the
\* frame that carries the answer is never freed.
HandleLight(k) ==
  /\ IsLightRequest(sent[k])
  /\ lines' = handle_uart_buffer(lines, sent[k])
  /\ \/ /\ pending' = Answer(lines', sent[k], k)
        /\ pc' = "reply"
        /\ leaked' = leaked + Blocks(sent[k]) + 1
     \/ /\ pending' = NoAnswer                  \* no memory for the frame
        /\ pc' = AfterSock
        /\ leaked' = leaked + Blocks(sent[k])
     \/ /\ pending' = NoAnswer                  \* no memory to serialise it
        /\ pc' = AfterSock
        /\ leaked' = leaked + Blocks(sent[k]) + 1

\* handle_server_probe_frame.
HandleProbe(k) ==
  /\ sent[k].method = "probe"
  /\ pending' = ProbeAnswer(k)
  /\ pc' = "reply"
  /\ UNCHANGED <<lines, leaked>>

\* The default branch returns rc, which nothing has set: below 0, the frame is
\* freed and the connection dropped; else as any other frame.
HandleUnknown(k) ==
  /\ sent[k].method = "other"
  /\ \/ pc' = AfterSock /\ leaked' = leaked + Blocks(sent[k])
     \/ pc' = "free_timer" /\ leaked' = leaked
  /\ UNCHANGED <<lines, pending>>

handle_frame(k) ==
  /\ handled' = Append(handled, k)
  /\ HandleQuietly(k) \/ HandleLight(k) \/ HandleProbe(k) \/ HandleUnknown(k)

\* handle_buffer drops the connection: there is no memory for the frame or for
\* its body, which is nearly 2^32 bytes if less than a head is announced.
NoMemory(b, k, n) ==
  /\ \/ buf' = b
     \/ sent[k].len # HeadLen /\ buf' = buffer_shrink(b, n)
  /\ pc' = "free_timer"
  /\ UNCHANGED <<handled, lines, pending, leaked>>

\* The terminating zero of a frame without body goes through a NULL pointer.  Of
\* less than a head the body is nearly 2^32 bytes, which the allocator may round up
\* to none: copying it leaves the memory there is.
StoreFaults(b, k) ==
  /\ sent[k].len = HeadLen => "fault" \in NullStore
  /\ sent[k].len <= HeadLen
  /\ buf' = b /\ pc' = "fault"
  /\ UNCHANGED <<handled, lines, pending, leaked>>

\* Fault variant: the frame stays in the buffer.
TakeFrameKeeps(b, k, n) ==
  /\ buf' = b
  /\ handle_frame(k)

\* The frame k of n bytes in front of b is taken out and handled.
TakeFrame(b, k, n) ==
  /\ sent[k].len >= HeadLen
  /\ sent[k].len = HeadLen => "ignored" \in NullStore
  /\ buf' = buffer_shrink(b, n)
  /\ handle_frame(k)

\* The bytes in front of b as a complete frame: {<<index, length>>} or {}.
Complete(b) ==
  {<<k, sent[k].len>> : k \in {j \in DOMAIN sent :
      /\ b # <<>>
      /\ j \in FrameOf(b[1])
      /\ buffer_try_extract(b, sent[j].len) > 0}}

\* handle_buffer: at most one frame is taken out per call.
handle_buffer(b) ==
  \/ /\ buffer_is_full(b)
     /\ buf' = b /\ pc' = "free_timer"
     /\ UNCHANGED <<handled, lines, pending, leaked>>
  \/ /\ ~buffer_is_full(b) /\ Complete(b) = {}
     /\ buf' = b /\ pc' = AfterSock
     /\ UNCHANGED <<handled, lines, pending, leaked>>
  \/ /\ ~buffer_is_full(b)
     /\ \E c \in Complete(b) :
          NoMemory(b, c[1], c[2]) \/ StoreFaults(b, c[1]) \/ TakeFrame(b, c[1], c[2])

\* Fault variant: a recv of 0 bytes counts as nothing to do.
RecvEndIgnored ==
  /\ pc = "sock"
  /\ peer = "reset" \/ (peer = "closed" /\ got = TotalSent)
  /\ pc' = IF peer = "reset" THEN "free_timer" ELSE AfterSock
  /\ UNCHANGED <<cloudVars, ready, recvVars, pending, replies, pipe, pipeVars,
                 timerVars, res, leaked>>

\* async_sock_recv: the end of the stream or an error ends the session;
\* otherwise any part of what is under way arrives, up to the size of rcv_buf.
RecvEnd ==
  /\ pc = "sock"
  /\ peer = "reset" \/ (peer = "closed" /\ got = TotalSent)
  /\ pc' = "free_timer"
  /\ UNCHANGED <<cloudVars, ready, recvVars, pending, replies, pipe, pipeVars,
                 timerVars, res, leaked>>

RecvData ==
  /\ pc = "sock" /\ peer # "reset"
  /\ \E n \in 1..RecvMax :
       /\ n <= TotalSent - got
       /\ got' = got + n
       /\ IF buffer_accepts(buf, n)
            THEN handle_buffer(buffer_add_data(buf, Segment(got, n)))
            ELSE /\ pc' = "free_timer"
                 /\ UNCHANGED <<buf, handled, lines, pending, leaked>>
  /\ UNCHANGED <<cloudVars, ready, replies, pipe, pipeVars, timerVars, res>>

\* The answer is written to the socket.  write_lightproto_frame ignores a
\* failing send, handle_server_probe_frame reports it.
ReplySent ==
  /\ pc = "reply" /\ peer # "reset"
  /\ replies' = Append(replies, pending)
  /\ pending' = NoAnswer
  /\ pc' = AfterSock
  /\ leaked' = IF pending.kind = "probe"
                 THEN leaked + Blocks(sent[pending.frame]) ELSE leaked
  /\ UNCHANGED <<cloudVars, ready, recvVars, pipe, pipeVars, timerVars, res>>

ReplyFails ==
  /\ pc = "reply" /\ peer # "open"
  /\ peer' = "reset"
  /\ pending' = NoAnswer
  /\ pc' = IF pending.kind = "probe" THEN "free_timer" ELSE AfterSock
  /\ UNCHANGED <<sent, ready, recvVars, replies, pipe, pipeVars, timerVars, res,
                 leaked>>

\* Fault variant: one byte at a time.
PipeReadByte ==
  /\ pc = "pipe"
  /\ relay' = Smaller(pipe, 1)
  /\ pipe' = pipe - relay'
  /\ pc' = "relay"
  /\ UNCHANGED <<cloudVars, ready, recvVars, pending, replies, relayed,
                 timerVars, res, leaked>>

\* async_pipe_read: read, then send; send's result is ignored.
PipeRead ==
  /\ pc = "pipe"
  /\ relay' = Smaller(pipe, PipeReadMax)
  /\ pipe' = pipe - relay'
  /\ pc' = "relay"
  /\ UNCHANGED <<cloudVars, ready, recvVars, pending, replies, relayed,
                 timerVars, res, leaked>>

RelaySent ==
  /\ pc = "relay" /\ peer # "reset"
  /\ relayed' = relayed + relay /\ relay' = 0
  /\ pc' = "select"
  /\ UNCHANGED <<cloudVars, ready, recvVars, pending, replies, pipe, timerVars,
                 res, leaked>>

RelayFails ==
  /\ pc = "relay" /\ peer # "open"
  /\ peer' = "reset"
  /\ relay' = 0
  /\ pc' = "select"
  /\ UNCHANGED <<sent, ready, recvVars, pending, replies, pipe, relayed,
                 timerVars, res, leaked>>

-----------------------------------------------------------------------------
(* The espush thread: resource_free, state_connection_free, closesocket.   *)

Free(at, r, next) ==
  /\ pc = at
  /\ pc' = next
  /\ res' = res \ r
  /\ UNCHANGED <<cloudVars, ready, recvVars, pending, replies, pipe, pipeVars,
                 owed, beats, backlog, leaked>>

\* Fault variant: the timer survives the resources.
FreeTimerNot == Free("free_timer", {}, "free_pipe") /\ timer' = timer

\* resource_heart_timer_deinit; a callback that is already running goes on.
FreeTimer ==
  /\ Free("free_timer", {"timer"}, "free_pipe")
  /\ timer' = IF timer = "writing" THEN timer ELSE "off"

FreePipe   == Free("free_pipe", {"pipe"}, "free_buffer") /\ timer' = timer
FreeBuffer == Free("free_buffer", {"buffer"}, "free_state") /\ timer' = timer
FreeState  == Free("free_state", {"state"}, "close") /\ timer' = timer
CloseSock  == Free("close", {}, "closed") /\ timer' = timer

\* The session is over; sock_task returns.
Over == pc \in {"closed", "fault"} /\ UNCHANGED vars

-----------------------------------------------------------------------------
(* The timer thread.                                                       *)

\* heart_timeout: write blocks when the pipe has no room for all of it.
HeartFires ==
  /\ timer = "armed" /\ pc # "fault" /\ beats < MaxBeats
  /\ beats' = beats + 1
  /\ IF pipe + HeartLen <= PipeCap
       THEN pipe' = pipe + HeartLen /\ UNCHANGED <<timer, owed>>
       ELSE /\ pipe' = PipeCap
            /\ owed' = HeartLen - (PipeCap - pipe)
            /\ timer' = "writing"
  /\ backlog' = (backlog \/ pipe + HeartLen > PipeReadMax)
  /\ UNCHANGED <<cloudVars, pc, ready, recvVars, pending, replies, pipeVars,
                 res, leaked>>

\* The blocked write goes on when there is room again; if the pipe is deleted
\* under it, it waits for ever.
HeartResumes ==
  /\ timer = "writing" /\ pc # "fault" /\ "pipe" \in res /\ pipe < PipeCap
  /\ LET n == Smaller(owed, PipeCap - pipe)
     IN  /\ pipe' = pipe + n
         /\ owed' = owed - n
         /\ timer' = IF n < owed THEN "writing"
                     ELSE IF "timer" \in res THEN "armed" ELSE "off"
  /\ UNCHANGED <<cloudVars, pc, ready, recvVars, pending, replies, pipeVars,
                 beats, backlog, res, leaked>>

-----------------------------------------------------------------------------
Loop == \/ Select \/ RecvEnd \/ RecvData \/ ReplySent \/ ReplyFails
        \/ PipeRead \/ RelaySent \/ RelayFails

CleanUp == FreeTimer \/ FreePipe \/ FreeBuffer \/ FreeState \/ CloseSock

Next ==
  \/ CloudSend \/ PeerGone
  \/ Begin \/ Loop \/ SelectFails \/ CleanUp \/ Over
  \/ HeartFires \/ HeartResumes

Spec == Init /\ [][Next]_vars

\* The espush thread is scheduled again and again, and so is the timer thread,
\* above it in priority; nothing makes the cloud act or select fail.  A cloud
\* that never reads could block ReplySent and RelaySent for ever: fairness of
\* Loop assumes that it reads, or goes.
Fairness == WF_vars(Begin \/ Loop \/ CleanUp) /\ WF_vars(HeartResumes)

FairSpec == Spec /\ Fairness

-----------------------------------------------------------------------------
(* Properties.                                                             *)

Placed == [method : Methods, len : Nat, cmd : Commands, line : Nat,
           on : BOOLEAN, at : Nat]

\* Every variable has its type, and the buffer never holds more than Cap bytes.
TypeOK ==
  /\ sent \in Seq(Placed) /\ peer \in {"open", "closed", "reset"}
  /\ pc \in InLoop \cup Teardown \cup {"start", "closed", "fault"}
  /\ ready \subseteq {"sock", "pipe"}
  /\ got \in Nat /\ buf \in Seq(Nat) /\ Len(buf) <= Cap
  /\ handled \in Seq(Nat)
  /\ lines \in [Lines -> BOOLEAN]
  /\ pending \in Answers(Len(sent)) /\ replies \in Seq(Answers(Len(sent)))
  /\ pipe \in 0..PipeCap /\ relay \in 0..PipeReadMax /\ relayed \in Nat
  /\ timer \in {"off", "armed", "writing"} /\ owed \in Nat
  /\ beats \in Nat /\ backlog \in BOOLEAN
  /\ res \subseteq Resources /\ leaked \in Nat

\* The frames sent lie one after another in the stream.
SentInPlace ==
  /\ \A k \in DOMAIN sent : IsFrame(sent[k]) /\ StartOf(k) + sent[k].len <= TotalSent
  /\ \A j, k \in DOMAIN sent : j < k => sent[j].at + sent[j].len <= sent[k].at
  /\ \A k \in DOMAIN sent : StartOf(k + 1) = sent[k].at + sent[k].len
  /\ sent # <<>> => sent[1].at = 0
  /\ got <= TotalSent

\* However the network cuts the stream into segments and whatever the loop took
\* out before, the buffer holds the last bytes received, in order, and starts
\* where the next frame to be handled starts (buffer_add_data, buffer_shrink
\* and handle_buffer together), with room for a head whenever select is called.
BufferIsStreamTail ==
  pc \in InLoop =>
    /\ IsTail(buf, got)
    /\ got - Len(buf) = StartOf(Len(handled) + 1)
    /\ ~buffer_is_full(buf)

\* Frames reach handle_frame in the order sent, each once, none skipped.
HandledInOrder == \A i \in DOMAIN handled : handled[i] = i

\* Whenever the timer thread may enter heart_timeout, what that dereferences is
\* there: conn->state (asserted there) and conn->res with its pipe.  Inside it,
\* blocked in its write, it can be robbed of them by the clean-up, but only after
\* a backlog and once the timer has been stopped.
HeartFindsItsState ==
  /\ timer = "armed" => {"state", "pipe", "buffer"} \subseteq res
  /\ timer = "writing" =>
       backlog /\ ("timer" \in res => {"state", "pipe", "buffer"} \subseteq res)

\* What is held at each point of the espush thread: the whole set in the loop,
\* less and less during the clean-up, nothing before and after.
HeldAt ==
  /\ pc \in InLoop \cup {"free_timer"} => res = Resources
  /\ pc = "free_pipe" => res = Resources \ {"timer"}
  /\ pc = "free_buffer" => res = {"state", "buffer"}
  /\ pc = "free_state" => res = {"state"}
  /\ pc \in {"start", "close", "closed"} => res = {}
  /\ pc = "fault" => res = Resources

\* A timer that may fire is held.
TimerHeld == timer = "armed" => "timer" \in res

\* The inductive strengthening of the invariants of the receive path: before
\* the loop nothing was received or handled.
SessionInv ==
  /\ TypeOK /\ SentInPlace /\ HeldAt
  /\ pc = "start" => buf = <<>> /\ got = 0 /\ handled = <<>>
  /\ BufferIsStreamTail
  /\ HandledInOrder /\ Len(handled) <= Len(sent)

\* As long as the heartbeats queued never exceeded what one read of the pipe
\* takes, heart_timeout has never blocked and an answer never goes out in the
\* middle of a heartbeat: what the cloud reads are whole frames.
WholeFramesUnlessBacklog ==
  ~backlog =>
    /\ timer # "writing"
    /\ relayed % HeartLen = 0

\* Its inductive strengthening: whole heartbeats at every station on the way.
BeatsWhole ==
  ~backlog =>
    /\ timer # "writing" /\ pipe <= PipeReadMax
    /\ pipe % HeartLen = 0 /\ relay % HeartLen = 0 /\ relayed % HeartLen = 0

\* An answer is owed exactly while the espush thread is writing one.
OwedInReply == (pending # NoAnswer) = (pc = "reply")

\* Whatever the path out of the session, from a failing set-up to the end of
\* the loop, it holds no resource any more when the socket is closed
\* (resource_free, state_connection_free).
ResourcesReleased == pc \in {"close", "closed"} => res = {}

\* The frames in the words of LightService.
Request(f) == [method |-> f.method, len |-> f.len, cmd |-> f.cmd,
               line |-> f.line, on |-> f.on]

Service == INSTANCE LightService WITH
  sent    <- [k \in DOMAIN sent |-> Request(sent[k])],
  served  <- Len(handled),
  owed    <- pending,
  written <- replies

\* The session does to the lights, and answers, what LightService allows.
ServiceSpec == Service!Spec

\* A session whose peer went away comes to its end (select loop and clean-up).
SessionEnds == (peer # "open") ~> (pc = "closed")

\* A frame of a head at least is handled, or the session ends: with one under
\* way at a time the loop never waits for more bytes than there are.
EveryFrameHandled ==
  \A k \in 1..MaxFrames :
    (Len(sent) >= k) ~> (Len(handled) >= k \/ pc \notin InLoop)
=============================================================================
