--------------------------- MODULE Session_proofs ---------------------------
(* The invariants of Session hold for every capacity, every mix of frames   *)
(* and every bound: SessionInv is inductive.                                *)
EXTENDS Session, TLAPS

-----------------------------------------------------------------------------
(* The receive buffer, for every capacity and every segment.               *)

\* What a recv returns is a sequence of the next n positions of the stream.
LEMMA SegmentFacts ==
  ASSUME NEW g \in Nat, NEW n \in Nat
  PROVE  /\ Segment(g, n) \in Seq(Nat)
         /\ Len(Segment(g, n)) = n
         /\ \A i \in 1..n : Segment(g, n)[i] = g + i
BY DEF Segment

\* async_sock_recv and buffer_add_data: appending the next segment to the last
\* bytes of the stream gives the last bytes of the longer stream.
THEOREM AddKeepsTail ==
  ASSUME NEW b \in Seq(Nat), NEW g \in Nat, NEW n \in Nat, IsTail(b, g)
  PROVE  LET c == buffer_add_data(b, Segment(g, n))
         IN  c \in Seq(Nat) /\ Len(c) = Len(b) + n /\ IsTail(c, g + n)
<1> DEFINE s == Segment(g, n)
           c == buffer_add_data(b, s)
<1>1. s \in Seq(Nat) /\ Len(s) = n /\ \A i \in 1..n : s[i] = g + i
  BY SegmentFacts
<1> HIDE DEF s
<1>2. c \in Seq(Nat) /\ Len(c) = Len(b) + n
  BY <1>1 DEF buffer_add_data
<1>3. ASSUME NEW i \in 1..(Len(b) + n)
      PROVE  c[i] = g - Len(b) + i
  <2>1. c[i] = IF i <= Len(b) THEN b[i] ELSE s[i - Len(b)]
    BY <1>1, <1>3 DEF buffer_add_data
  <2>2. CASE i <= Len(b)
    BY <2>1, <2>2, <1>3 DEF IsTail
  <2>3. CASE i > Len(b)
    <3>1. i - Len(b) \in 1..n
      BY <2>3, <1>3
    <3> QED
      BY <2>1, <2>3, <3>1, <1>1, <1>3
  <2> QED
    BY <2>2, <2>3, <1>3
<1>4. IsTail(c, g + n)
  BY <1>2, <1>3 DEF IsTail
<1> QED
  BY <1>2, <1>4 DEF s

\* buffer_shrink: dropping the first len bytes of a tail of the stream leaves a
\* tail of the stream, shorter by len.
THEOREM ShrinkKeepsTail ==
  ASSUME NEW b \in Seq(Nat), NEW g \in Nat, IsTail(b, g),
         NEW len \in Nat, len <= Len(b)
  PROVE  LET c == buffer_shrink(b, len)
         IN  c \in Seq(Nat) /\ Len(c) = Len(b) - len /\ IsTail(c, g)
<1> DEFINE c == buffer_shrink(b, len)
<1>1. c \in Seq(Nat) /\ Len(c) = Len(b) - len
  BY DEF buffer_shrink
<1>2. ASSUME NEW i \in 1..(Len(b) - len)
      PROVE  c[i] = b[len + i] /\ len + i \in 1..Len(b)
  <2>1. PICK n \in Nat : n = Len(b)
    OBVIOUS
  <2>2. i \in Nat /\ len + i \in 1..n /\ i \in 1..(n - (len + 1) + 1)
    BY <1>2, <2>1
  <2>3. c[i] = b[(len + 1) + i - 1]
    BY <2>1, <2>2 DEF buffer_shrink
  <2> QED
    BY <2>1, <2>2, <2>3
<1> HIDE DEF c
<1>3. IsTail(c, g)
  <2>1. Len(c) <= g
    BY <1>1 DEF IsTail
  <2>2. ASSUME NEW i \in 1..Len(c)
        PROVE  c[i] = g - Len(c) + i
    <3>1. i \in 1..(Len(b) - len)
      BY <1>1
    <3>2. c[i] = b[len + i] /\ len + i \in 1..Len(b)
      BY <1>2, <3>1
    <3>3. b[len + i] = g - Len(b) + (len + i)
      BY <3>2 DEF IsTail
    <3> QED
      BY <1>1, <3>1, <3>2, <3>3
  <2> QED
    BY <2>1, <2>2 DEF IsTail
<1> QED
  BY <1>1, <1>3 DEF c

-----------------------------------------------------------------------------
(* Types.                                                                   *)

LEMMA SentType ==
  ASSUME TypeOK, NEW k \in DOMAIN sent
  PROVE  /\ k \in Nat /\ k \in 1..Len(sent)
         /\ sent[k] \in Placed
         /\ sent[k].len \in Nat /\ sent[k].at \in Nat
<1>1. sent \in Seq(Placed)
  BY DEF TypeOK
<1>2. k \in 1..Len(sent) /\ sent[k] \in Placed
  BY <1>1
<1> QED
  BY <1>1, <1>2 DEF Placed

LEMMA TotalSentType == ASSUME TypeOK PROVE TotalSent \in Nat
<1>1. sent \in Seq(Placed)
  BY DEF TypeOK
<1>2. sent # <<>> => Len(sent) \in DOMAIN sent
  BY <1>1
<1> QED
  BY <1>2, SentType DEF TotalSent

\* An answer that names one of n frames names one of m >= n.
LEMMA AnswersGrow ==
  ASSUME NEW n \in Nat, NEW m \in Nat, n <= m
  PROVE  Answers(n) \subseteq Answers(m) /\ Seq(Answers(n)) \subseteq Seq(Answers(m))
BY DEF Answers

LEMMA AnswerType ==
  ASSUME NEW n \in Nat, NEW k \in 1..n, NEW ls \in [Lines -> BOOLEAN], NEW f \in Placed
  PROVE  /\ IsLightRequest(f) => Answer(ls, f, k) \in Answers(n)
         /\ ProbeAnswer(k) \in Answers(n)
         /\ NoAnswer \in Answers(n)
BY DEF Answers, Answer, ProbeAnswer, IsLightRequest, device_get_lines_state

LEMMA LightType ==
  ASSUME NEW ls \in [Lines -> BOOLEAN], NEW f \in Placed
  PROVE  handle_uart_buffer(ls, f) \in [Lines -> BOOLEAN]
BY DEF handle_uart_buffer, line_pin, handle_proto_set_batch, Placed

LEMMA BlocksType == ASSUME NEW f PROVE Blocks(f) \in Nat
BY DEF Blocks

\* What handle_frame does to the variables it touches.
LEMMA HandleFrameType ==
  ASSUME TypeOK, NEW k \in DOMAIN sent, handle_frame(k)
  PROVE  /\ handled' \in Seq(Nat)
         /\ lines' \in [Lines -> BOOLEAN]
         /\ pending' \in Answers(Len(sent))
         /\ pc' \in InLoop \cup {"free_timer"}
         /\ leaked' \in Nat
<1>0. /\ handled \in Seq(Nat) /\ lines \in [Lines -> BOOLEAN]
      /\ pending \in Answers(Len(sent)) /\ leaked \in Nat
      /\ Len(sent) \in Nat
  BY DEF TypeOK
<1>1. k \in Nat /\ k \in 1..Len(sent) /\ sent[k] \in Placed
  BY SentType
<1>2. Blocks(sent[k]) \in Nat /\ AfterSock \in InLoop
  BY BlocksType DEF AfterSock, InLoop
<1>3. handled' \in Seq(Nat)
  BY <1>0, <1>1 DEF handle_frame
<1>4. CASE HandleQuietly(k)
  BY <1>0, <1>2, <1>3, <1>4 DEF HandleQuietly
<1>5. CASE HandleLight(k)
  <2>1. lines' \in [Lines -> BOOLEAN]
    BY <1>0, <1>1, <1>5, LightType DEF HandleLight
  <2>2. pending' \in Answers(Len(sent))
    BY <1>0, <2>1, <1>1, <1>5, AnswerType DEF HandleLight
  <2> QED
    BY <1>0, <2>1, <2>2, <1>2, <1>3, <1>5 DEF HandleLight, InLoop
<1>6. CASE HandleProbe(k)
  BY <1>0, <1>1, <1>3, <1>6, AnswerType DEF HandleProbe, InLoop
<1>7. CASE HandleUnknown(k)
  BY <1>0, <1>2, <1>3, <1>7 DEF HandleUnknown
<1> QED
  BY <1>4, <1>5, <1>6, <1>7 DEF handle_frame

\* What handle_buffer does to them, given the buffer b.
LEMMA HandleBufferType ==
  ASSUME TypeOK, NEW b \in Seq(Nat), Len(b) <= Cap, handle_buffer(b)
  PROVE  /\ buf' \in Seq(Nat) /\ Len(buf') <= Cap
         /\ handled' \in Seq(Nat)
         /\ lines' \in [Lines -> BOOLEAN]
         /\ pending' \in Answers(Len(sent))
         /\ pc' \in InLoop \cup {"free_timer", "fault"}
         /\ leaked' \in Nat
<1>0. AfterSock \in InLoop
  BY DEF AfterSock, InLoop
<1>1. CASE buf' = b /\ pc' \in {"free_timer", AfterSock}
           /\ UNCHANGED <<handled, lines, pending, leaked>>
  BY <1>0, <1>1 DEF TypeOK
<1>2. ASSUME NEW k \in DOMAIN sent, NoMemory(b, k, sent[k].len) PROVE
        /\ buf' \in Seq(Nat) /\ Len(buf') <= Cap
        /\ pc' = "free_timer" /\ UNCHANGED <<handled, lines, pending, leaked>>
  <2>1. sent[k].len \in Nat
    BY SentType
  <2>2. buffer_shrink(b, sent[k].len) \in Seq(Nat)
        /\ Len(buffer_shrink(b, sent[k].len)) <= Cap
    BY <2>1, CapAssumption DEF buffer_shrink
  <2> QED
    BY <1>2, <2>2 DEF NoMemory
<1>3. ASSUME NEW k \in DOMAIN sent, StoreFaults(b, k) PROVE
        /\ buf' \in Seq(Nat) /\ Len(buf') <= Cap
        /\ pc' = "fault" /\ UNCHANGED <<handled, lines, pending, leaked>>
  BY <1>3 DEF StoreFaults
<1>4. ASSUME NEW k \in DOMAIN sent, TakeFrame(b, k, sent[k].len) PROVE
        /\ buf' \in Seq(Nat) /\ Len(buf') <= Cap
        /\ handle_frame(k)
  <2>1. sent[k].len \in Nat
    BY SentType
  <2> QED
    BY <1>4, <2>1, CapAssumption DEF TakeFrame, buffer_shrink
<1>5. \/ buf' = b /\ pc' \in {"free_timer", AfterSock}
         /\ UNCHANGED <<handled, lines, pending, leaked>>
      \/ \E k \in DOMAIN sent : \/ NoMemory(b, k, sent[k].len)
                                \/ StoreFaults(b, k)
                                \/ TakeFrame(b, k, sent[k].len)
  BY DEF handle_buffer, Complete
<1> QED
  BY <1>1, <1>2, <1>3, <1>4, <1>5, HandleFrameType DEF TypeOK

THEOREM TypeInit == Init => TypeOK
<1> SUFFICES ASSUME Init PROVE TypeOK
  OBVIOUS
<1>1. NoAnswer \in Answers(Len(sent)) /\ replies \in Seq(Answers(Len(sent)))
  BY DEF Init, Answers
<1>2. /\ sent \in Seq(Placed) /\ buf \in Seq(Nat) /\ handled \in Seq(Nat)
      /\ Len(buf) <= Cap
  BY CapAssumption DEF Init
<1>3. /\ pipe \in 0..PipeCap /\ relay \in 0..PipeReadMax
      /\ got \in Nat /\ relayed \in Nat /\ owed \in Nat /\ beats \in Nat /\ leaked \in Nat
  BY SessionAssumption DEF Init
<1>4. pending \in Answers(Len(sent))
  BY <1>1 DEF Init
<1> QED
  BY <1>1, <1>2, <1>3, <1>4 DEF Init, TypeOK

THEOREM TypeStep == TypeOK /\ [Next]_vars => TypeOK'
<1> SUFFICES ASSUME TypeOK, [Next]_vars PROVE TypeOK'
  OBVIOUS
<1> USE SessionAssumption DEF TypeOK
<1>1. CASE CloudSend
  <2>1. PICK f \in Traffic :
          sent' = Append(sent, [method |-> f.method, len |-> f.len, cmd |-> f.cmd,
                                line |-> f.line, on |-> f.on, at |-> TotalSent])
    BY <1>1 DEF CloudSend
  <2>2. sent' \in Seq(Placed) /\ Len(sent') = Len(sent) + 1
    <3>1. sent \in Seq(Placed)
      OBVIOUS
    <3>2. [method |-> f.method, len |-> f.len, cmd |-> f.cmd,
           line |-> f.line, on |-> f.on, at |-> TotalSent] \in Placed
      BY TotalSentType DEF IsFrame, Placed
    <3> QED
      BY <2>1, <3>1, <3>2
  <2>3. pending' \in Answers(Len(sent')) /\ replies' \in Seq(Answers(Len(sent')))
    BY <1>1, <2>2, AnswersGrow, Len(sent) \in Nat DEF CloudSend
  <2> QED
    BY <1>1, <2>2, <2>3 DEF CloudSend, recvVars, pipeVars, timerVars
<1>2. CASE PeerGone
  BY <1>2 DEF PeerGone, recvVars, pipeVars, timerVars
<1>3. CASE Begin
  BY <1>3 DEF Begin, cloudVars, recvVars, pipeVars, Resources, InLoop, Teardown
<1>4. CASE Select \/ SelectFails \/ RecvEnd
  BY <1>4 DEF Select, SelectFails, RecvEnd, Readable, cloudVars, recvVars, pipeVars,
              timerVars, InLoop, Teardown
<1>5. CASE RecvData
  <2>1. PICK n \in 1..RecvMax :
          /\ got' = got + n
          /\ IF buffer_accepts(buf, n)
               THEN handle_buffer(buffer_add_data(buf, Segment(got, n)))
               ELSE /\ pc' = "free_timer"
                    /\ UNCHANGED <<buf, handled, lines, pending, leaked>>
    BY <1>5 DEF RecvData
  <2>2. UNCHANGED <<sent, peer, ready, replies, pipe, relay, relayed, timer, owed,
                    beats, backlog, res>>
    BY <1>5 DEF RecvData, cloudVars, pipeVars, timerVars
  <2> DEFINE b == buffer_add_data(buf, Segment(got, n))
  <2>3. CASE buffer_accepts(buf, n)
    <3>1. b \in Seq(Nat) /\ Len(b) <= Cap
      <4>1. buf \in Seq(Nat) /\ got \in Nat /\ n \in Nat /\ Len(buf) + n <= Cap
        BY <2>3 DEF buffer_accepts
      <4>2. Segment(got, n) \in Seq(Nat) /\ Len(Segment(got, n)) = n
        BY <4>1, SegmentFacts
      <4> QED
        <5> DEFINE s == Segment(got, n)
        <5>1. s \in Seq(Nat) /\ Len(s) = n
          BY <4>2
        <5> HIDE DEF s
        <5>2. buf \o s \in Seq(Nat) /\ Len(buf \o s) = Len(buf) + n
          BY ONLY <4>1, <5>1
        <5>3. b = buf \o s
          BY Zenon DEF buffer_add_data, s
        <5> QED
          BY ONLY <4>1, <5>2, <5>3
    <3>2. handle_buffer(b)
      BY <2>1, <2>3
    <3> HIDE DEF b
    <3>3. /\ buf' \in Seq(Nat) /\ Len(buf') <= Cap
          /\ handled' \in Seq(Nat)
          /\ lines' \in [Lines -> BOOLEAN]
          /\ pending' \in Answers(Len(sent))
          /\ pc' \in InLoop \cup {"free_timer", "fault"}
          /\ leaked' \in Nat
      BY <3>1, <3>2, HandleBufferType
    <3> QED
      BY <3>3, <2>1, <2>2 DEF Teardown
  <2>4. CASE ~buffer_accepts(buf, n)
    BY <2>1, <2>2, <2>4 DEF Teardown
  <2> QED
    BY <2>3, <2>4
<1>6. CASE ReplySent
  <2>1. AfterSock \in InLoop /\ Blocks(sent[pending.frame]) \in Nat
    BY BlocksType DEF AfterSock, InLoop
  <2>2. NoAnswer \in Answers(Len(sent))
    BY DEF Answers
  <2> QED
    BY <1>6, <2>1, <2>2 DEF ReplySent, cloudVars, recvVars, pipeVars, timerVars
<1>7. CASE ReplyFails
  <2>1. AfterSock \in InLoop /\ "free_timer" \in Teardown
    BY DEF AfterSock, InLoop, Teardown
  <2>2. NoAnswer \in Answers(Len(sent))
    BY DEF Answers
  <2> QED
    BY <1>7, <2>1, <2>2 DEF ReplyFails, recvVars, pipeVars, timerVars
<1>8. CASE PipeRead \/ RelaySent \/ RelayFails
  <2>1. CASE PipeRead
    <3>1. relay' \in 0..PipeReadMax /\ pipe' \in 0..PipeCap
      <4>1. relay' = Smaller(pipe, PipeReadMax) /\ pipe' = pipe - relay'
        BY <2>1 DEF PipeRead
      <4>2. pipe \in 0..PipeCap /\ PipeReadMax \in Nat /\ PipeCap \in Nat
        OBVIOUS
      <4> QED
        BY ONLY <4>1, <4>2 DEF Smaller
    <3> QED
      BY <2>1, <3>1 DEF PipeRead, cloudVars, recvVars, timerVars, InLoop
  <2>2. CASE RelaySent
    BY <2>2 DEF RelaySent, cloudVars, recvVars, timerVars, InLoop
  <2>3. CASE RelayFails
    BY <2>3 DEF RelayFails, recvVars, timerVars, InLoop
  <2> QED
    BY <1>8, <2>1, <2>2, <2>3
<1>9. CASE CleanUp
  BY <1>9 DEF CleanUp, FreeTimer, FreePipe, FreeBuffer, FreeState, CloseSock, Free,
              cloudVars, recvVars, pipeVars, timerVars, Teardown
<1>10. CASE HeartFires
  BY <1>10 DEF HeartFires, cloudVars, recvVars, pipeVars
<1>11. CASE HeartResumes
  BY <1>11 DEF HeartResumes, Smaller, cloudVars, recvVars, pipeVars
<1>12. CASE Over \/ UNCHANGED vars
  BY <1>12 DEF Over, vars, recvVars, pipeVars, timerVars
<1> QED
  BY <1>1, <1>2, <1>3, <1>4, <1>5, <1>6, <1>7, <1>8, <1>9, <1>10, <1>11, <1>12
     DEF Next, Loop

\* Every variable keeps its type and the buffer its bound (Session!TypeOK).
THEOREM TypeCorrect == Spec => []TypeOK
BY TypeInit, TypeStep, PTL DEF Spec

-----------------------------------------------------------------------------
(* The stream: what is in the buffer, and which frame comes next.           *)

\* The places of the frames are those of the stream.
LEMMA PlaceFacts ==
  ASSUME TypeOK, SentInPlace
  PROVE  /\ Len(sent) \in Nat /\ DOMAIN sent = 1..Len(sent)
         /\ \A k \in 1..Len(sent) : /\ sent[k].at \in Nat /\ sent[k].len \in Nat
                                    /\ sent[k].len >= 2
                                    /\ StartOf(k) = sent[k].at
                                    /\ sent[k].at + sent[k].len <= TotalSent
                                    /\ StartOf(k + 1) = sent[k].at + sent[k].len
         /\ StartOf(Len(sent) + 1) = TotalSent
         /\ TotalSent \in Nat /\ got \in Nat /\ got <= TotalSent
         /\ sent = <<>> => TotalSent = 0
         /\ sent # <<>> => TotalSent = sent[Len(sent)].at + sent[Len(sent)].len
<1>1. sent \in Seq(Placed) /\ got \in Nat
  BY DEF TypeOK
<1>2. Len(sent) \in Nat /\ DOMAIN sent = 1..Len(sent)
  BY <1>1
<1>3. \A k \in 1..Len(sent) : sent[k].at \in Nat /\ sent[k].len \in Nat
  BY <1>2, SentType
<1>4. \A k \in 1..Len(sent) : sent[k].len >= 2 /\ StartOf(k) = sent[k].at
  BY <1>2 DEF SentInPlace, IsFrame, StartOf
<1>5. \A k \in 1..Len(sent) : /\ sent[k].at + sent[k].len <= TotalSent
                             /\ StartOf(k + 1) = sent[k].at + sent[k].len
  BY <1>2, <1>4 DEF SentInPlace
<1>6. StartOf(Len(sent) + 1) = TotalSent
  BY <1>2 DEF StartOf
<1> QED
  BY <1>1, <1>2, <1>3, <1>4, <1>5, <1>6, TotalSentType DEF SentInPlace, TotalSent

\* A frame more does not move the ones there are, and starts at the end.
LEMMA CloudSendPlaces ==
  ASSUME TypeOK, SentInPlace, CloudSend
  PROVE  /\ SentInPlace'
         /\ Len(sent') = Len(sent) + 1
         /\ \A k \in 1..(Len(sent) + 1) : StartOf(k)' = StartOf(k)
<1>1. PICK f \in Traffic :
        sent' = Append(sent, [method |-> f.method, len |-> f.len, cmd |-> f.cmd,
                              line |-> f.line, on |-> f.on, at |-> TotalSent])
  BY DEF CloudSend
<1>2. IsFrame(f) /\ f.len \in Nat /\ f.len >= 2
  BY SessionAssumption DEF IsFrame
<1>0. PICK n \in Nat : n = Len(sent)
  BY PlaceFacts
<1> DEFINE new == [method |-> f.method, len |-> f.len, cmd |-> f.cmd,
                   line |-> f.line, on |-> f.on, at |-> TotalSent]
<1>3. sent \in Seq(Placed) /\ n \in Nat /\ DOMAIN sent = 1..n /\ n = Len(sent)
  BY <1>0, PlaceFacts DEF TypeOK
<1>4. /\ Len(sent') = n + 1 /\ DOMAIN sent' = 1..(n + 1)
      /\ sent'[n + 1] = new /\ \A k \in 1..n : sent'[k] = sent[k]
      /\ sent' # <<>>
  BY <1>1, <1>3
<1>5. TotalSent' = TotalSent + f.len
  BY <1>4 DEF TotalSent
<1>6. \A k \in 1..(n + 1) : StartOf(k)' = StartOf(k)
  <2>1. \A k \in 1..n : StartOf(k)' = sent[k].at /\ StartOf(k) = sent[k].at
    BY <1>3, <1>4 DEF StartOf
  <2>2. StartOf(n + 1) = TotalSent
    BY <1>0, PlaceFacts
  <2>3. StartOf(n + 1)' = TotalSent
    BY <1>3, <1>4 DEF StartOf
  <2>4. ASSUME NEW k \in 1..(n + 1) PROVE StartOf(k)' = StartOf(k)
    <3>1. k \in 1..n \/ k = n + 1
      BY <1>3
    <3> QED
      BY <2>1, <2>2, <2>3, <3>1
  <2> QED
    BY <2>4
<1>7. StartOf(n + 2)' = TotalSent'
  BY <1>3, <1>4 DEF StartOf
<1>8. IsFrame(new)
  BY <1>2 DEF IsFrame
<1>9. \A k \in 1..(n + 1) : IsFrame(sent'[k]) /\ StartOf(k)' + sent'[k].len <= TotalSent'
  <2>1. \A k \in 1..n : IsFrame(sent[k])
    BY <1>3 DEF SentInPlace
  <2>2. ASSUME NEW k \in 1..n PROVE StartOf(k)' + sent'[k].len <= TotalSent'
    <3>1. StartOf(k)' = sent[k].at /\ sent'[k].len = sent[k].len
      <4>1. k \in 1..(n + 1)
        BY <1>3
      <4> QED
        BY <1>0, <1>4, <1>6, <4>1, PlaceFacts
    <3>2. sent[k].at + sent[k].len <= TotalSent /\ TotalSent \in Nat
          /\ sent[k].at \in Nat /\ sent[k].len \in Nat
      BY <1>0, PlaceFacts
    <3> QED
      BY <1>2, <1>5, <3>1, <3>2
  <2>3. StartOf(n + 1)' = TotalSent /\ sent'[n + 1].len = f.len
    BY <1>3, <1>4, <1>6, PlaceFacts
  <2>4. StartOf(n + 1)' + sent'[n + 1].len <= TotalSent'
    BY <1>2, <1>5, <2>3, PlaceFacts
  <2>5. ASSUME NEW k \in 1..(n + 1)
        PROVE  IsFrame(sent'[k]) /\ StartOf(k)' + sent'[k].len <= TotalSent'
    <3>1. k \in 1..n \/ k = n + 1
      BY <1>3
    <3> QED
      BY <1>4, <1>8, <2>1, <2>2, <2>4, <3>1
  <2> QED
    BY <2>5
<1>10. \A j, k \in 1..(n + 1) : j < k => sent'[j].at + sent'[j].len <= sent'[k].at
  <2>1. \A j, k \in 1..n : j < k => sent[j].at + sent[j].len <= sent[k].at
    BY <1>3 DEF SentInPlace
  <2>2. \A j \in 1..n : sent[j].at + sent[j].len <= TotalSent
    BY <1>0, PlaceFacts
  <2> QED
    BY <1>3, <1>4, <2>1, <2>2
<1>11. \A k \in 1..(n + 1) : StartOf(k + 1)' = sent'[k].at + sent'[k].len
  <2>1. ASSUME NEW k \in 1..n PROVE StartOf(k + 1)' = sent'[k].at + sent'[k].len
    <3>1. k + 1 \in 1..(n + 1)
      BY <1>3
    <3>2. StartOf(k + 1)' = StartOf(k + 1)
      BY <1>6, <3>1
    <3> QED
      BY <1>0, <1>4, <3>2, PlaceFacts
  <2>2. StartOf(n + 2)' = sent'[n + 1].at + sent'[n + 1].len
    BY <1>4, <1>5, <1>7
  <2>3. ASSUME NEW k \in 1..(n + 1)
        PROVE  StartOf(k + 1)' = sent'[k].at + sent'[k].len
    <3>1. k \in 1..n \/ (k = n + 1 /\ k + 1 = n + 2)
      BY <1>3
    <3> QED
      BY <2>1, <2>2, <3>1
  <2> QED
    BY <2>3
<1>12. sent'[1].at = 0
  BY <1>3, <1>4, PlaceFacts DEF SentInPlace
<1>13. got' = got /\ got <= TotalSent'
  BY <1>2, <1>5, PlaceFacts DEF CloudSend, recvVars
<1> QED
  BY <1>0, <1>4, <1>6, <1>9, <1>10, <1>11, <1>12, <1>13 DEF SentInPlace

\* The frame that starts with the first byte of the buffer is the next one.
LEMMA NextFrame ==
  ASSUME TypeOK, SentInPlace, Len(handled) <= Len(sent),
         NEW o \in Nat, o = StartOf(Len(handled) + 1), NEW k \in FrameOf(o + 1)
  PROVE  k = Len(handled) + 1
<1>1. Len(handled) \in Nat /\ Len(sent) \in Nat
  BY DEF TypeOK
<1>2. k \in 1..Len(sent) /\ sent[k].at = o
  BY PlaceFacts DEF FrameOf
<1>3. CASE Len(handled) = Len(sent)
  <2>1. o = TotalSent
    BY <1>3, PlaceFacts
  <2>2. /\ sent[k].at + sent[k].len <= TotalSent /\ sent[k].len >= 2
        /\ sent[k].at \in Nat /\ sent[k].len \in Nat
    BY <1>2, PlaceFacts
  <2> QED
    BY <1>2, <2>1, <2>2
<1>4. CASE Len(handled) < Len(sent)
  <2> DEFINE h == Len(handled) + 1
  <2>1. h \in 1..Len(sent) /\ sent[h].at = o
    BY <1>1, <1>4, PlaceFacts
  <2>2. \A i, j \in 1..Len(sent) : i < j => sent[i].at + sent[i].len <= sent[j].at
    BY PlaceFacts DEF SentInPlace
  <2>3. \A i \in 1..Len(sent) : sent[i].at \in Nat /\ sent[i].len \in Nat /\ sent[i].len >= 2
    BY PlaceFacts
  <2>4. sent[k].len >= 2 /\ sent[h].len >= 2 /\ sent[k].len \in Nat /\ sent[h].len \in Nat
    BY <1>2, <2>1, <2>3
  <2>5. ~(k < h)
    <3> SUFFICES ASSUME k < h PROVE FALSE
      OBVIOUS
    <3>1. sent[k].at + sent[k].len <= sent[h].at
      BY <1>2, <2>1, <2>2
    <3> QED
      BY <1>2, <2>1, <2>4, <3>1
  <2>6. ~(h < k)
    <3> SUFFICES ASSUME h < k PROVE FALSE
      OBVIOUS
    <3>1. sent[h].at + sent[h].len <= sent[k].at
      BY <1>2, <2>1, <2>2
    <3> QED
      BY <1>2, <2>1, <2>4, <3>1
  <2> QED
    BY <1>1, <1>2, <2>5, <2>6
<1> QED
  BY <1>1, <1>3, <1>4

\* handle_buffer on a buffer b that is a tail of the stream and starts where the
\* next frame starts: it takes out exactly that frame, or ends the session, or
\* leaves everything for later.
LEMMA HandleBufferStream ==
  ASSUME SessionInv, NEW b \in Seq(Nat), NEW g \in Nat, IsTail(b, g),
         g - Len(b) = StartOf(Len(handled) + 1), handle_buffer(b)
  PROVE  \/ /\ pc' \in InLoop /\ handled' = handled
            /\ IsTail(buf', g) /\ g - Len(buf') = StartOf(Len(handled) + 1)
            /\ ~buffer_is_full(buf')
         \/ /\ pc' \in InLoop \cup {"free_timer"}
            /\ handled' = Append(handled, Len(handled) + 1)
            /\ Len(handled) + 1 \in 1..Len(sent)
            /\ IsTail(buf', g) /\ g - Len(buf') = StartOf(Len(handled) + 2)
            /\ ~buffer_is_full(buf')
         \/ pc' \in {"free_timer", "fault"} /\ handled' = handled
<1>0. AfterSock \in InLoop
  BY DEF AfterSock, InLoop
<1>1. CASE buffer_is_full(b)
  BY <1>1 DEF handle_buffer
<1>2. CASE ~buffer_is_full(b) /\ Complete(b) = {}
  BY <1>0, <1>2 DEF handle_buffer
<1>3. ASSUME ~buffer_is_full(b), NEW c \in Complete(b),
             NoMemory(b, c[1], c[2]) \/ StoreFaults(b, c[1])
      PROVE  pc' \in {"free_timer", "fault"} /\ handled' = handled
  BY <1>3 DEF NoMemory, StoreFaults
<1>4. ASSUME ~buffer_is_full(b), NEW c \in Complete(b), TakeFrame(b, c[1], c[2])
      PROVE  /\ pc' \in InLoop \cup {"free_timer"}
             /\ handled' = Append(handled, Len(handled) + 1)
             /\ Len(handled) + 1 \in 1..Len(sent)
             /\ IsTail(buf', g) /\ g - Len(buf') = StartOf(Len(handled) + 2)
             /\ ~buffer_is_full(buf')
  <2>1. PICK k \in DOMAIN sent :
          /\ c = <<k, sent[k].len>> /\ b # <<>> /\ k \in FrameOf(b[1])
          /\ buffer_try_extract(b, sent[k].len) > 0
    BY DEF Complete
  <2>2. /\ TypeOK /\ SentInPlace /\ Len(handled) <= Len(sent)
        /\ Len(handled) \in Nat /\ handled \in Seq(Nat)
    BY DEF SessionInv, TypeOK
  <2> DEFINE o == g - Len(b)
  <2>3. o \in Nat /\ b[1] = o + 1 /\ Len(b) \in Nat
    <3>1. 1 \in 1..Len(b)
      BY <2>1
    <3> QED
      BY <3>1 DEF IsTail
  <2>4. k = Len(handled) + 1
    BY <2>1, <2>2, <2>3, NextFrame
  <2>5. sent[k].len \in Nat /\ sent[k].len <= Len(b) /\ sent[k].len >= 2
    <3>1. sent[k].len \in Nat
      BY <2>2, SentType
    <3>2. sent[k].len >= 2
      BY <2>2 DEF SentInPlace, IsFrame
    <3> QED
      BY <2>1, <3>1, <3>2 DEF buffer_try_extract
  <2>6. buf' = buffer_shrink(b, sent[k].len) /\ handle_frame(k)
    BY <1>4, <2>1 DEF TakeFrame
  <2>7. IsTail(buf', g) /\ Len(buf') = Len(b) - sent[k].len
    BY <2>3, <2>5, <2>6, ShrinkKeepsTail
  <2>8. g - Len(buf') = StartOf(Len(handled) + 2)
    <3>1. StartOf(k) = sent[k].at /\ StartOf(k + 1) = sent[k].at + sent[k].len
          /\ sent[k].at \in Nat
      BY <2>1, <2>2, PlaceFacts
    <3>2. k + 1 = Len(handled) + 2
      BY <2>2, <2>4
    <3> QED
      BY <2>3, <2>4, <2>5, <2>7, <3>1, <3>2
  <2>9. ~buffer_is_full(buf')
    BY <1>4, <2>3, <2>5, <2>7, CapAssumption DEF buffer_is_full, HeadLen
  <2>10. pc' \in InLoop \cup {"free_timer"} /\ handled' = Append(handled, k)
    BY <2>2, <2>6, HandleFrameType DEF handle_frame
  <2>11. k \in 1..Len(sent)
    BY <2>2, PlaceFacts
  <2> QED
    BY <2>4, <2>7, <2>8, <2>9, <2>10, <2>11
<1> QED
  BY <1>1, <1>2, <1>3, <1>4 DEF handle_buffer

\* Appending the next index keeps a history of indices in order.
LEMMA OrderGrows ==
  ASSUME NEW h \in Seq(Nat), \A i \in DOMAIN h : h[i] = i
  PROVE  LET g == Append(h, Len(h) + 1)
         IN  Len(g) = Len(h) + 1 /\ \A i \in DOMAIN g : g[i] = i
OBVIOUS

THEOREM SessionInvInit == Init => SessionInv
<1> SUFFICES ASSUME Init PROVE SessionInv
  OBVIOUS
<1>1. TypeOK
  BY TypeInit
<1>2. TotalSent = 0 /\ DOMAIN sent = {} /\ Len(sent) = 0 /\ Len(handled) = 0 /\ DOMAIN handled = {}
  BY DEF Init, TotalSent
<1>3. SentInPlace
  BY <1>2 DEF Init, SentInPlace
<1>4. HeldAt /\ BufferIsStreamTail /\ HandledInOrder
  BY <1>2 DEF Init, HeldAt, BufferIsStreamTail, HandledInOrder, InLoop
<1> QED
  BY <1>1, <1>2, <1>3, <1>4 DEF SessionInv, Init

\* The steps that touch neither what was sent nor what was received and leave
\* the loop only for the clean-up.
LEMMA QuietStep ==
  ASSUME SessionInv, TypeOK', HeldAt', UNCHANGED <<sent, recvVars>>,
         pc' = "start" => pc = "start",
         pc' \in InLoop => pc \in InLoop \cup {"start"}
  PROVE  SessionInv'
<1>1. UNCHANGED <<sent, got, buf, handled>>
  BY DEF recvVars
<1>2. SentInPlace'
  BY <1>1 DEF SessionInv, SentInPlace, StartOf, TotalSent
<1>3. BufferIsStreamTail'
  <2>1. CASE pc \in InLoop
    BY <1>1, <2>1 DEF SessionInv, BufferIsStreamTail, StartOf, TotalSent
  <2>2. CASE pc = "start"
    <3>1. buf = <<>> /\ got = 0 /\ handled = <<>>
      BY <2>2 DEF SessionInv
    <3>2. Len(buf) = 0 /\ Len(handled) = 0
      BY <3>1
    <3>3. StartOf(1) = 0
      BY PlaceFacts DEF SessionInv, SentInPlace, StartOf
    <3> QED
      <4>1. IsTail(buf, got) /\ ~buffer_is_full(buf)
        BY <3>1, <3>2, CapAssumption DEF IsTail, buffer_is_full, HeadLen
      <4>2. got - Len(buf) = StartOf(Len(handled) + 1)
        BY <3>1, <3>2, <3>3
      <4>3. StartOf(Len(handled) + 1)' = StartOf(Len(handled) + 1)
        BY <1>1 DEF StartOf, TotalSent
      <4> QED
        BY <1>1, <4>1, <4>2, <4>3 DEF BufferIsStreamTail
  <2> QED
    BY <2>1, <2>2 DEF BufferIsStreamTail
<1> QED
  BY <1>1, <1>2, <1>3 DEF SessionInv, HandledInOrder

THEOREM SessionInvStep == SessionInv /\ [Next]_vars => SessionInv'
<1> SUFFICES ASSUME SessionInv, [Next]_vars PROVE SessionInv'
  OBVIOUS
<1>0. TypeOK /\ TypeOK'
  BY TypeStep DEF SessionInv
<1> USE DEF HeldAt, InLoop, Resources
<1>1. CASE CloudSend
  <2>1. /\ UNCHANGED <<pc, got, buf, handled, res>>
        /\ SentInPlace' /\ Len(sent') = Len(sent) + 1
        /\ \A k \in 1..(Len(sent) + 1) : StartOf(k)' = StartOf(k)
    BY <1>0, <1>1, CloudSendPlaces DEF SessionInv, CloudSend, recvVars
  <2>2. Len(handled) <= Len(sent) /\ Len(sent) \in Nat /\ Len(handled) \in Nat
    <3>1. sent \in Seq(Placed) /\ handled \in Seq(Nat) /\ Len(handled) <= Len(sent)
      BY <1>0 DEF SessionInv, TypeOK
    <3> QED
      BY <3>1
  <2>3. PICK h \in Nat : h = Len(handled) + 1
    BY <2>2
  <2>4. StartOf(h)' = StartOf(h)
    BY <2>1, <2>3, <2>2
  <2>5. StartOf(Len(handled) + 1)' = StartOf(h)' /\ StartOf(Len(handled) + 1) = StartOf(h)
    BY <2>1, <2>3
  <2>6. BufferIsStreamTail'
    BY <2>1, <2>4, <2>5 DEF SessionInv, BufferIsStreamTail
  <2> QED
    BY <1>0, <2>1, <2>2, <2>6 DEF SessionInv, HandledInOrder
<1>2. CASE RecvData
  <2>1. PICK n \in 1..RecvMax :
          /\ n <= TotalSent - got
          /\ got' = got + n
          /\ IF buffer_accepts(buf, n)
               THEN handle_buffer(buffer_add_data(buf, Segment(got, n)))
               ELSE /\ pc' = "free_timer"
                    /\ UNCHANGED <<buf, handled, lines, pending, leaked>>
    BY <1>2 DEF RecvData
  <2>2. pc = "sock" /\ UNCHANGED <<sent, res>>
    BY <1>2 DEF RecvData, cloudVars
  <2>3. /\ got \in Nat /\ n \in Nat /\ got' \in Nat /\ got' <= TotalSent /\ TotalSent' = TotalSent
        /\ \A k : StartOf(k)' = StartOf(k)
    <3>1. got \in Nat /\ n \in Nat /\ TotalSent \in Nat
      <4>1. got \in Nat
        BY <1>0 DEF TypeOK
      <4>2. n \in Nat
        BY SessionAssumption
      <4> QED
        BY <1>0, <4>1, <4>2, TotalSentType
    <3>2. TotalSent' = TotalSent
      BY <2>2 DEF TotalSent
    <3>3. \A k : StartOf(k)' = StartOf(k)
      BY <2>2, <3>2 DEF StartOf
    <3> QED
      BY <2>1, <3>1, <3>2, <3>3
  <2>4. SentInPlace'
    BY <2>2, <2>3 DEF SessionInv, SentInPlace
  <2>5. handled \in Seq(Nat) /\ Len(handled) \in Nat /\ Len(handled) <= Len(sent)
    BY <1>0 DEF SessionInv, TypeOK
  <2>6. CASE ~buffer_accepts(buf, n)
    BY <1>0, <2>1, <2>2, <2>4, <2>5, <2>6 DEF SessionInv, BufferIsStreamTail, HandledInOrder
  <2>7. CASE buffer_accepts(buf, n)
    <3>1. PICK b \in Seq(Nat) :
            /\ b = buffer_add_data(buf, Segment(got, n))
            /\ Len(b) = Len(buf) + n /\ IsTail(b, got + n)
      <4>1. buf \in Seq(Nat) /\ IsTail(buf, got)
        BY <1>0, <2>2 DEF SessionInv, BufferIsStreamTail, TypeOK
      <4> QED
        BY <2>3, <4>1, AddKeepsTail
    <3>2. PICK g \in Nat : g = got + n
      BY <2>3
    <3>3. g - Len(b) = StartOf(Len(handled) + 1)
      <4>1. got - Len(buf) = StartOf(Len(handled) + 1) /\ Len(buf) \in Nat
        BY <1>0, <2>2 DEF SessionInv, BufferIsStreamTail, TypeOK
      <4> QED
        BY <2>3, <3>1, <3>2, <4>1
    <3>4. handle_buffer(b)
      BY <2>1, <2>7, <3>1
    <3>5. \/ /\ pc' \in InLoop /\ handled' = handled
             /\ IsTail(buf', g) /\ g - Len(buf') = StartOf(Len(handled) + 1)
             /\ ~buffer_is_full(buf')
          \/ /\ pc' \in InLoop \cup {"free_timer"}
             /\ handled' = Append(handled, Len(handled) + 1)
             /\ Len(handled) + 1 \in 1..Len(sent)
             /\ IsTail(buf', g) /\ g - Len(buf') = StartOf(Len(handled) + 2)
             /\ ~buffer_is_full(buf')
          \/ pc' \in {"free_timer", "fault"} /\ handled' = handled
      BY <3>1, <3>2, <3>3, <3>4, HandleBufferStream
    <3>6. HeldAt' /\ pc' # "start"
      BY <2>2, <3>5 DEF SessionInv
    <3>7. CASE handled' = handled
      <4>1. BufferIsStreamTail'
        <5>1. Len(handled) + 1 # Len(handled) + 2
          BY <2>5
        <5>2. handled # Append(handled, Len(handled) + 1)
          BY <2>5
        <5> QED
          BY <2>1, <2>3, <3>2, <3>5, <3>7, <5>2 DEF BufferIsStreamTail
      <4> QED
        BY <1>0, <2>2, <2>4, <3>6, <3>7, <4>1 DEF SessionInv, HandledInOrder
    <3>8. CASE handled' = Append(handled, Len(handled) + 1) /\ handled' # handled
      <4>1. Len(handled') = Len(handled) + 1 /\ Len(handled') + 1 = Len(handled) + 2
        BY <2>5, <3>8
      <4>2. HandledInOrder'
        BY <2>5, <3>8, OrderGrows DEF SessionInv, HandledInOrder
      <4>3. BufferIsStreamTail'
        BY <2>1, <2>3, <3>2, <3>5, <3>8, <4>1 DEF BufferIsStreamTail
      <4> QED
        BY <1>0, <2>2, <2>4, <3>5, <3>6, <3>8, <4>1, <4>2, <4>3 DEF SessionInv
    <3> QED
      BY <3>5, <3>7, <3>8
  <2> QED
    BY <2>6, <2>7
<1>3. CASE PeerGone
  BY <1>0, <1>3, QuietStep DEF PeerGone, recvVars, SessionInv
<1>4. CASE Begin
  BY <1>0, <1>4, QuietStep DEF Begin, cloudVars, SessionInv
<1>5. CASE Select \/ SelectFails \/ RecvEnd
  BY <1>0, <1>5, QuietStep DEF Select, SelectFails, RecvEnd, Readable, cloudVars, SessionInv
<1>6. CASE ReplySent \/ ReplyFails
  BY <1>0, <1>6, QuietStep DEF ReplySent, ReplyFails, AfterSock, cloudVars, SessionInv
<1>7. CASE PipeRead \/ RelaySent \/ RelayFails
  BY <1>0, <1>7, QuietStep DEF PipeRead, RelaySent, RelayFails, cloudVars, SessionInv
<1>8. CASE CleanUp
  BY <1>0, <1>8, QuietStep DEF CleanUp, FreeTimer, FreePipe, FreeBuffer, FreeState, CloseSock,
     Free, cloudVars, SessionInv
<1>9. CASE HeartFires \/ HeartResumes
  BY <1>0, <1>9, QuietStep DEF HeartFires, HeartResumes, cloudVars, SessionInv
<1>10. CASE Over \/ UNCHANGED vars
  BY <1>0, <1>10, QuietStep DEF Over, vars, SessionInv
<1> QED
  BY <1>1, <1>2, <1>3, <1>4, <1>5, <1>6, <1>7, <1>8, <1>9, <1>10 DEF Next, Loop

THEOREM SessionCorrect == Spec => []SessionInv
BY SessionInvInit, SessionInvStep, PTL DEF Spec

\* The buffer is the part of the stream from the next frame on, whatever the
\* segments, the capacity and the frames (Session!BufferIsStreamTail).
THEOREM StreamTail == Spec => []BufferIsStreamTail
<1>1. SessionInv => BufferIsStreamTail
  BY DEF SessionInv
<1> QED
  BY <1>1, SessionCorrect, PTL

\* Frames are handled in the order sent, each once, none skipped
\* (Session!HandledInOrder).
THEOREM InOrder == Spec => []HandledInOrder
<1>1. SessionInv => HandledInOrder
  BY DEF SessionInv
<1> QED
  BY <1>1, SessionCorrect, PTL

\* Whatever way a session ends, it holds no resource when its socket is closed
\* (Session!ResourcesReleased).
THEOREM NothingHeld == Spec => []ResourcesReleased
<1>1. SessionInv => ResourcesReleased
  BY DEF SessionInv, HeldAt, ResourcesReleased
<1> QED
  BY <1>1, SessionCorrect, PTL

-----------------------------------------------------------------------------
(* Heartbeats: the timer thread, the pipe and the relay.                    *)

LEMMA MultiplesAdd ==
  ASSUME NEW m \in Nat \ {0}, NEW a \in Nat, NEW b \in Nat, a % m = 0, b % m = 0
  PROVE  (a + b) % m = 0
<1>1. a = m * (a \div m) + (a % m) /\ b = m * (b \div m) + (b % m)
      /\ a \div m \in Int /\ b \div m \in Int
  OBVIOUS
<1>2. \A i, j \in Int : m * i + m * j = m * (i + j)
  OBVIOUS
<1>3. a + b = m * ((a \div m) + (b \div m))
  <2>1. a = m * (a \div m) /\ b = m * (b \div m)
    BY <1>1
  <2> QED
    BY <1>1, <1>2, <2>1
<1>4. \A k \in Int : (m * k) % m = 0
  OBVIOUS
<1>5. (a \div m) + (b \div m) \in Int
  BY <1>1
<1> QED
  BY <1>3, <1>4, <1>5

LEMMA BeatsInit == Init => BeatsWhole
BY SessionAssumption DEF Init, BeatsWhole

LEMMA BeatsStep == TypeOK /\ BeatsWhole /\ [Next]_vars => BeatsWhole'
<1> SUFFICES ASSUME TypeOK, BeatsWhole, [Next]_vars PROVE BeatsWhole'
  OBVIOUS
<1>0. /\ HeartLen \in Nat \ {0} /\ PipeReadMax \in Nat /\ PipeCap \in Nat
      /\ PipeReadMax <= PipeCap /\ pipe \in Nat /\ relay \in Nat /\ relayed \in Nat
      /\ 0 % HeartLen = 0 /\ HeartLen % HeartLen = 0
  BY SessionAssumption DEF TypeOK
<1>1. CASE UNCHANGED <<timer, backlog, pipe, relay, relayed>>
  BY <1>1 DEF BeatsWhole
<1>2. CASE Begin \/ CleanUp
  BY <1>2 DEF Begin, CleanUp, FreeTimer, FreePipe, FreeBuffer, FreeState, CloseSock,
              Free, pipeVars, BeatsWhole
<1>3. CASE PipeRead
  <2>1. ~backlog => relay' = pipe /\ pipe' = 0
    BY <1>0, <1>3 DEF PipeRead, Smaller, BeatsWhole
  <2> QED
    BY <1>0, <1>3, <2>1 DEF PipeRead, timerVars, BeatsWhole
<1>4. CASE RelaySent \/ RelayFails
  <2>1. ~backlog => (relayed + relay) % HeartLen = 0
    BY <1>0, MultiplesAdd DEF BeatsWhole
  <2> QED
    BY <1>0, <1>4, <2>1 DEF RelaySent, RelayFails, timerVars, BeatsWhole
<1>5. CASE HeartFires
  <2> SUFFICES ASSUME ~backlog' PROVE BeatsWhole'
    BY DEF BeatsWhole
  <2>1. /\ ~backlog /\ pipe + HeartLen <= PipeReadMax
        /\ relay' = relay /\ relayed' = relayed
    <3>1. backlog' = (backlog \/ pipe + HeartLen > PipeReadMax)
      BY <1>5 DEF HeartFires
    <3>2. ~backlog /\ ~(pipe + HeartLen > PipeReadMax)
      BY <3>1, Zenon
    <3> QED
      BY <1>0, <1>5, <3>2 DEF HeartFires, pipeVars
  <2>2. pipe' = pipe + HeartLen /\ timer' = timer
    BY <1>0, <1>5, <2>1 DEF HeartFires, BeatsWhole
  <2>3. (pipe + HeartLen) % HeartLen = 0
    BY <1>0, <2>1, MultiplesAdd DEF BeatsWhole
  <2> QED
    BY <2>1, <2>2, <2>3 DEF BeatsWhole
<1>6. CASE HeartResumes
  BY <1>6 DEF HeartResumes, pipeVars, BeatsWhole
<1>7. CASE CloudSend \/ PeerGone \/ Select \/ SelectFails \/ RecvEnd \/ RecvData
           \/ ReplySent \/ ReplyFails \/ Over \/ UNCHANGED vars
  BY <1>1, <1>7 DEF CloudSend, PeerGone, Select, SelectFails, RecvEnd, RecvData,
                    ReplySent, ReplyFails, Over, vars, pipeVars, timerVars
<1> QED
  BY <1>2, <1>3, <1>4, <1>5, <1>6, <1>7 DEF Next, Loop

\* For every capacity of the pipe, every size of its reads and of a heartbeat,
\* and however the cloud, the loop and the timer thread interleave: as long as
\* the queue never exceeded one read, heart_timeout is not blocked and only
\* whole heartbeats went out.
THEOREM WholeFrames == Spec => []WholeFramesUnlessBacklog
<1>1. BeatsWhole => WholeFramesUnlessBacklog
  BY DEF BeatsWhole, WholeFramesUnlessBacklog
<1>2. Init => BeatsWhole
  BY BeatsInit
<1>3. TypeOK /\ BeatsWhole /\ [Next]_vars => BeatsWhole'
  BY BeatsStep
<1> QED
  BY <1>1, <1>2, <1>3, TypeCorrect, PTL DEF Spec

\* A timer that may fire is held: only Begin and HeartResumes arm it.
LEMMA ArmedStep == SessionInv /\ TimerHeld /\ [Next]_vars => TimerHeld'
<1> SUFFICES ASSUME SessionInv, TimerHeld, [Next]_vars PROVE TimerHeld'
  OBVIOUS
<1>1. CASE UNCHANGED <<timer, res>>
  BY <1>1 DEF TimerHeld
<1>2. CASE Begin
  <2>1. "timer" \notin res
    BY <1>2 DEF Begin, SessionInv, HeldAt
  <2> QED
    BY <1>2, <2>1 DEF Begin, TimerHeld, Resources
<1>3. CASE FreeTimer
  BY <1>3 DEF FreeTimer, TimerHeld
<1>4. CASE FreePipe \/ FreeBuffer \/ FreeState \/ CloseSock
  BY <1>4 DEF FreePipe, FreeBuffer, FreeState, CloseSock, Free, TimerHeld
<1>5. CASE HeartFires
  BY <1>5 DEF HeartFires, TimerHeld
<1>6. CASE HeartResumes
  BY <1>6 DEF HeartResumes, TimerHeld
<1> QED
  BY <1>1, <1>2, <1>3, <1>4, <1>5, <1>6
  DEF Next, Loop, CleanUp, CloudSend, PeerGone, Select, RecvEnd, RecvData, ReplySent, ReplyFails,
      PipeRead, RelaySent, RelayFails, SelectFails, Over, vars, timerVars

\* A callback that may be entered finds what it uses, and one in the middle of
\* its write, too, unless there was a backlog and the clean-up has begun
\* (Session!HeartFindsItsState).
THEOREM HeartSafe == Spec => []HeartFindsItsState
<1>1. SessionInv => ("timer" \in res => {"state", "pipe", "buffer"} \subseteq res)
  BY DEF SessionInv, HeldAt, TypeOK, InLoop, Teardown, Resources
<1>2. SessionInv /\ WholeFramesUnlessBacklog /\ TimerHeld => HeartFindsItsState
  BY <1>1 DEF TimerHeld, WholeFramesUnlessBacklog, HeartFindsItsState
<1>3. Init => TimerHeld
  BY DEF Init, TimerHeld
<1> QED
  BY <1>2, <1>3, ArmedStep, SessionCorrect, WholeFrames, PTL DEF Spec

-----------------------------------------------------------------------------
(* A session implements LightService: each of its steps is one of the       *)
(* service's, or none.                                                      *)

LEMMA RequestSame ==
  ASSUME NEW f, NEW ls, NEW k
  PROVE  /\ IsLightRequest(Request(f)) = IsLightRequest(f)
         /\ handle_uart_buffer(ls, Request(f)) = handle_uart_buffer(ls, f)
         /\ Answer(ls, Request(f), k) = Answer(ls, f, k)
         /\ Request(f).method = f.method
BY DEF Request, IsLightRequest, handle_uart_buffer, Answer

LEMMA AnswersSomething ==
  ASSUME NEW f, NEW ls, NEW k
  PROVE  /\ IsLightRequest(f) => Answer(ls, f, k) # NoAnswer
         /\ ProbeAnswer(k) # NoAnswer
BY DEF IsLightRequest, Answer, ProbeAnswer, NoAnswer

\* The part of the state the service sees apart from what was sent.
LEMMA HandleFrameServes ==
  ASSUME NEW k \in DOMAIN sent, handle_frame(k), pc = "sock", OwedInReply
  PROVE  /\ OwedInReply'
         /\ pending = NoAnswer
         /\ lines' = IF IsLightRequest(sent[k])
                       THEN handle_uart_buffer(lines, sent[k]) ELSE lines
         /\ \/ pending' = NoAnswer
            \/ IsLightRequest(sent[k]) /\ pending' = Answer(lines', sent[k], k)
            \/ sent[k].method = "probe" /\ pending' = ProbeAnswer(k)
<1>1. pending = NoAnswer
  BY DEF OwedInReply
<1>2. AfterSock # "reply"
  BY DEF AfterSock
<1>3. CASE HandleQuietly(k)
  BY <1>1, <1>2, <1>3 DEF HandleQuietly, IsLightRequest, OwedInReply
<1>4. CASE HandleLight(k)
  BY <1>1, <1>2, <1>4, AnswersSomething DEF HandleLight, OwedInReply
<1>5. CASE HandleProbe(k)
  BY <1>1, <1>5, AnswersSomething DEF HandleProbe, IsLightRequest, OwedInReply
<1>6. CASE HandleUnknown(k)
  BY <1>1, <1>2, <1>6 DEF HandleUnknown, IsLightRequest, OwedInReply
<1> QED
  BY <1>3, <1>4, <1>5, <1>6 DEF handle_frame

\* What a recv does to the service: nothing, or it serves one frame.
LEMMA RecvDataServes ==
  ASSUME RecvData
  PROVE  \/ UNCHANGED <<handled, lines, pending>>
            /\ pc' \in {"pipe", "select", "free_timer", "fault"}
         \/ \E k \in DOMAIN sent : handle_frame(k)
<1>1. AfterSock \in {"pipe", "select"}
  BY DEF AfterSock
<1>2. PICK n \in 1..RecvMax :
        \/ handle_buffer(buffer_add_data(buf, Segment(got, n)))
        \/ pc' = "free_timer" /\ UNCHANGED <<buf, handled, lines, pending, leaked>>
  BY DEF RecvData
<1>3. ASSUME NEW b, handle_buffer(b)
      PROVE  \/ UNCHANGED <<handled, lines, pending>>
                /\ pc' \in {"pipe", "select", "free_timer", "fault"}
             \/ \E k \in DOMAIN sent : handle_frame(k)
  BY <1>1, <1>3 DEF handle_buffer, Complete, NoMemory, StoreFaults, TakeFrame
<1> QED
  BY <1>2, <1>3

LEMMA OwedInit == Init => OwedInReply
BY DEF Init, OwedInReply

LEMMA OwedStep == OwedInReply /\ [Next]_vars => OwedInReply'
<1> SUFFICES ASSUME OwedInReply, [Next]_vars PROVE OwedInReply'
  OBVIOUS
<1>1. CASE CloudSend \/ PeerGone \/ HeartFires \/ HeartResumes \/ Over \/ UNCHANGED vars
  BY <1>1 DEF CloudSend, PeerGone, HeartFires, HeartResumes, Over, vars, OwedInReply
<1>2. CASE Begin \/ Select \/ SelectFails \/ RecvEnd
  BY <1>2 DEF Begin, Select, SelectFails, RecvEnd, OwedInReply
<1>3. CASE RecvData
  <2>1. pc = "sock"
    BY <1>3 DEF RecvData
  <2> QED
    BY <1>3, <2>1, RecvDataServes, HandleFrameServes DEF OwedInReply
<1>4. CASE ReplySent \/ ReplyFails
  BY <1>4 DEF ReplySent, ReplyFails, AfterSock, OwedInReply
<1>5. CASE PipeRead \/ RelaySent \/ RelayFails
  BY <1>5 DEF PipeRead, RelaySent, RelayFails, OwedInReply
<1>6. CASE CleanUp
  BY <1>6 DEF CleanUp, FreeTimer, FreePipe, FreeBuffer, FreeState, CloseSock, Free,
              OwedInReply
<1> QED
  BY <1>1, <1>2, <1>3, <1>4, <1>5, <1>6 DEF Next, Loop

\* The service speaks of the same lines, requests and answers.
LEMMA ServiceSame ==
  /\ Service!Lines = Lines /\ Service!NoAnswer = NoAnswer
  /\ \A k : Service!ProbeAnswer(k) = ProbeAnswer(k)
  /\ \A f : Service!IsLightRequest(f) = IsLightRequest(f)
  /\ \A ls, f : Service!handle_uart_buffer(ls, f) = handle_uart_buffer(ls, f)
  /\ \A ls, f, k : Service!Answer(ls, f, k) = Answer(ls, f, k)
<1>1. Service!Lines = Lines /\ Service!NoAnswer = NoAnswer
  BY DEF Service!Lines, Lines, Service!NoAnswer, NoAnswer
<1>2. \A k : Service!ProbeAnswer(k) = ProbeAnswer(k)
  BY DEF Service!ProbeAnswer, ProbeAnswer
<1>3. \A f : Service!IsLightRequest(f) = IsLightRequest(f)
  BY DEF Service!IsLightRequest, IsLightRequest, Service!LightLen, LightLen
<1>4. \A ls, f : Service!handle_uart_buffer(ls, f) = handle_uart_buffer(ls, f)
  BY <1>1 DEF Service!handle_uart_buffer, handle_uart_buffer, Service!line_pin, line_pin,
              Service!handle_proto_set_batch, handle_proto_set_batch
<1>5. \A ls, f, k : Service!Answer(ls, f, k) = Answer(ls, f, k)
  BY <1>1 DEF Service!Answer, Answer, Service!device_get_lines_state,
              device_get_lines_state
<1> QED
  BY <1>1, <1>2, <1>3, <1>4, <1>5

LEMMA ServiceSends ==
  ASSUME TypeOK, CloudSend
  PROVE  Service!Send
<1> DEFINE seen == [k \in DOMAIN sent |-> Request(sent[k])]
<1>1. PICK f \in Traffic :
        sent' = Append(sent, [method |-> f.method, len |-> f.len, cmd |-> f.cmd,
                              line |-> f.line, on |-> f.on, at |-> TotalSent])
  BY DEF CloudSend
<1>2. sent \in Seq(Placed) /\ Len(sent) \in Nat /\ DOMAIN sent = 1..Len(sent)
  BY DEF TypeOK
<1>3. f \in Frames
  BY SessionAssumption
<1>4. /\ DOMAIN sent' = 1..(Len(sent) + 1)
      /\ \A k \in 1..Len(sent) : sent'[k] = sent[k]
      /\ Request(sent'[Len(sent) + 1]) = f
  BY <1>1, <1>2, <1>3 DEF Request, Frames
<1>5. [k \in DOMAIN sent' |-> Request(sent'[k])] = Append(seen, f)
  <2>1. DOMAIN seen = 1..Len(sent) /\ Len(seen) = Len(sent)
    BY <1>2
  <2>2. Append(seen, f) = [k \in 1..(Len(seen) + 1) |->
                             IF k = Len(seen) + 1 THEN f ELSE seen[k]]
    BY <1>2, <2>1
  <2> QED
    BY <1>2, <1>4, <2>1, <2>2
<1> QED
  BY <1>5 DEF CloudSend, recvVars, Service!Send

LEMMA ServiceServes ==
  ASSUME SessionInv, SessionInv', OwedInReply, RecvData,
         NEW k \in DOMAIN sent, handle_frame(k)
  PROVE  Service!Serve
<1> DEFINE seen == [j \in DOMAIN sent |-> Request(sent[j])]
<1>1. /\ pc = "sock" /\ sent' = sent /\ replies' = replies
  BY DEF RecvData, cloudVars
<1>2. /\ sent \in Seq(Placed) /\ Len(sent) \in Nat /\ DOMAIN sent = 1..Len(sent)
      /\ handled \in Seq(Nat) /\ Len(handled) \in Nat
  <2>1. TypeOK
    BY DEF SessionInv
  <2> QED
    BY ONLY <2>1 DEF TypeOK
<1>3. handled' = Append(handled, k)
  BY DEF handle_frame
<1>4. k = Len(handled) + 1 /\ Len(handled') = Len(handled) + 1
  <2>1. k \in Nat
    BY <1>2
  <2>2. Len(handled') = Len(handled) + 1 /\ handled'[Len(handled) + 1] = k
    BY <1>2, <1>3, <2>1
  <2>3. Len(handled) + 1 \in DOMAIN handled'
    BY <1>2, <1>3, <2>1
  <2> QED
    BY <2>2, <2>3 DEF SessionInv, HandledInOrder
<1>5. Len(seen) = Len(sent) /\ seen[Len(handled) + 1] = Request(sent[k])
  BY <1>2, <1>4
<1>6. Len(handled) < Len(seen)
  BY <1>2, <1>4, <1>5
<1>7. /\ pending = NoAnswer
      /\ lines' = IF IsLightRequest(sent[k])
                    THEN handle_uart_buffer(lines, sent[k]) ELSE lines
      /\ \/ pending' = NoAnswer
         \/ IsLightRequest(sent[k]) /\ pending' = Answer(lines', sent[k], k)
         \/ sent[k].method = "probe" /\ pending' = ProbeAnswer(k)
  BY <1>1, HandleFrameServes
<1> DEFINE f == Request(sent[k])
<1>8. /\ lines' = IF IsLightRequest(f) THEN handle_uart_buffer(lines, f) ELSE lines
      /\ \/ pending' = NoAnswer
         \/ IsLightRequest(f) /\ pending' = Answer(lines', f, k)
         \/ f.method = "probe" /\ pending' = ProbeAnswer(k)
  <2> HIDE DEF f
  <2>1. /\ IsLightRequest(f) = IsLightRequest(sent[k]) /\ f.method = sent[k].method
        /\ handle_uart_buffer(lines, f) = handle_uart_buffer(lines, sent[k])
        /\ Answer(lines', f, k) = Answer(lines', sent[k], k)
    BY RequestSame DEF f
  <2> QED
    BY ONLY <1>7, <2>1
<1> HIDE DEF f
<1>9. seen[Len(handled) + 1] = f
  BY <1>5 DEF f
<1> HIDE DEF seen
<1>10. Service!Serve
  BY <1>1, <1>4, <1>6, <1>7, <1>8, <1>9, ServiceSame DEF Service!Serve, seen
<1> QED
  BY <1>10

LEMMA ServiceStep ==
  ASSUME SessionInv, SessionInv', OwedInReply, [Next]_vars
  PROVE  [Service!Next]_(Service!vars)
<1>1. CASE CloudSend
  BY <1>1, ServiceSends DEF SessionInv, Service!Next
<1>2. CASE RecvData
  <2>1. UNCHANGED <<sent, replies>>
    BY <1>2 DEF RecvData, cloudVars
  <2>2. CASE UNCHANGED <<handled, lines, pending>>
    BY <2>1, <2>2 DEF Service!vars
  <2> QED
    BY <1>2, <2>2, RecvDataServes, ServiceServes DEF Service!Next
<1>3. CASE ReplySent \/ ReplyFails
  <2>1. pending # NoAnswer
    BY <1>3 DEF ReplySent, ReplyFails, OwedInReply
  <2>2. /\ pending' = NoAnswer /\ replies' \in {replies, Append(replies, pending)}
        /\ UNCHANGED <<sent, handled, lines>>
    BY <1>3 DEF ReplySent, ReplyFails, cloudVars, recvVars
  <2> QED
    BY <2>1, <2>2, ServiceSame DEF Service!Next, Service!Write
<1>4. CASE UNCHANGED <<sent, handled, lines, pending, replies>>
  BY <1>4 DEF Service!vars
<1>5. CASE PeerGone \/ Begin \/ Select \/ SelectFails \/ RecvEnd
  BY <1>4, <1>5 DEF PeerGone, Begin, Select, SelectFails, RecvEnd, cloudVars, recvVars
<1>6. CASE PipeRead \/ RelaySent \/ RelayFails \/ HeartFires \/ HeartResumes
  BY <1>4, <1>6 DEF PipeRead, RelaySent, RelayFails, HeartFires, HeartResumes,
                    cloudVars, recvVars
<1>7. CASE CleanUp
  BY <1>4, <1>7 DEF CleanUp, FreeTimer, FreePipe, FreeBuffer, FreeState, CloseSock,
                    Free, cloudVars, recvVars
<1>8. CASE Over \/ UNCHANGED vars
  BY <1>4, <1>8 DEF Over, vars, recvVars
<1> QED
  BY <1>1, <1>2, <1>3, <1>5, <1>6, <1>7, <1>8 DEF Next, Loop

LEMMA ServiceInit == Init => Service!Init
<1> SUFFICES ASSUME Init PROVE Service!Init
  OBVIOUS
<1>1. [k \in DOMAIN sent |-> Request(sent[k])] = <<>> /\ Len(handled) = 0
  BY DEF Init
<1> QED
  BY <1>1, ServiceSame DEF Init, Service!Init

\* However the stream is cut and the threads interleave, the lights do what
\* LightService allows: each frame is served once and in order, with its whole
\* effect, and at most one answer that tells the lines of that moment, before
\* the next frame is served (handle_frame and what it calls).
THEOREM ImplementsService == Spec => ServiceSpec
<1>1. Init => Service!Init
  BY ServiceInit
<1>2. SessionInv /\ SessionInv' /\ OwedInReply /\ [Next]_vars
        => [Service!Next]_(Service!vars)
  BY ServiceStep
<1>3. Spec => []OwedInReply
  BY OwedInit, OwedStep, PTL DEF Spec
<1> QED
  BY <1>1, <1>2, <1>3, SessionCorrect, PTL DEF Spec, ServiceSpec, Service!Spec
=============================================================================
