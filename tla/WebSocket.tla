----------------------------- MODULE WebSocket -----------------------------
(***************************************************************************)
(* Websocket frames in mongoose.c: the sender of frames                    *)
(* (mg_send_websocket_frame) and the receiver, which puts the fragments of *)
(* a message together inside nc->recv_mbuf (mg_deliver_websocket_data).    *)
(*                                                                         *)
(* The buffer is a sequence of bytes.  A byte is what the sender meant it  *)
(* to be: a header, a length, a mask, a byte of data; the receiver's own   *)
(* are the size of what it put together, four bytes.                       *)
(***************************************************************************)
EXTENDS Integers, SequencesExt

CONSTANTS
  Programs,    \* what is sent: set of sequences of frames [fin, op, data]
  Roles,       \* subset of {"server", "client"}: whose receiver this is
  Len7, Len16  \* lengths below are in the first byte (126), in two more (65535)

Ops == {"continue", "text", "close", "ping"}
WebSocketAssumption ==
  /\ Roles \subseteq {"server", "client"} /\ Len7 \in Nat /\ Len16 \in Nat
  /\ \A p \in Programs : \A i \in DOMAIN p : p[i].fin \in BOOLEAN /\ p[i].op \in Ops

VARIABLES
  coming,     \* bytes on their way
  recv_mbuf,
  delivered,  \* messages handed to the program
  closing,    \* MG_F_SEND_AND_CLOSE
  undefined,  \* the receiver did what C leaves undefined
  over,       \* the connection is closed
  role, program

svars == <<coming, recv_mbuf, delivered, closing, undefined, over, role, program>>

-----------------------------------------------------------------------------
(* The sender                                                              *)

Head1(fin, op) == <<"head", fin, op>>
Byte(v)        == <<"data", v>>
Masked(v)      == <<"masked", v>>
Tagged(kind, n, k) == [i \in 1 .. k |-> <<kind, n, i>>]

\* mg_send_ws_header: only clients mask.
LengthBytes(masked, n) ==
  CASE n < Len7  -> <<<<"length", masked, n>>>>
    [] n >= Len7 /\ n < Len16 -> <<<<"length", masked, 126>>>> \o Tagged("len16", n, 2)
    [] OTHER -> <<<<"length", masked, 127>>>> \o Tagged("len64", n, 8)
MaskBytes(masked) == IF masked THEN Tagged("mask", 0, 4) ELSE <<>>
mg_send_websocket_frame(f, masked) ==
  <<Head1(f.fin, f.op)>> \o LengthBytes(masked, Len(f.data)) \o MaskBytes(masked)
    \o [i \in DOMAIN f.data |-> IF masked THEN Masked(f.data[i]) ELSE Byte(f.data[i])]

-----------------------------------------------------------------------------
(* The receiver                                                            *)

\* A byte that was overwritten with zero reads as a continuation, or as a
\* length of nothing.
Zero == Byte(0)
IsHead(b)   == b[1] = "head" \/ b = Zero
AsHead(b)   == IF b = Zero THEN Head1(FALSE, "continue") ELSE b
AsLength(b) == IF b = Zero THEN <<"length", FALSE, 0>> ELSE b

mg_is_ws_fragment(h)       == ~h[2] \/ h[3] = "continue"
mg_is_ws_first_fragment(h) == ~h[2] /\ h[3] # "continue"

\* The size of the message that is being put together, kept behind the
\* first byte; -1 if there is none.
SizeBytes(n) == Tagged("size", n, 4)
Kept(m) == IF Len(m) >= 5 /\ m[2][1] = "size" THEN m[2][2] ELSE -1
InProgress(m) == Kept(m) >= 0 /\ mg_is_ws_fragment(AsHead(m[1]))

\* Data is read as a header: what comes of it is not followed.
Misread(buf) == Len(buf) >= 2 /\ (~IsHead(buf[1]) \/ (buf[2][1] # "length" /\ buf[2] # Zero))

\* The lengths of a frame's header and data, 0 and 0 if they are not known
\* yet.
MaskLen(b) == IF b[2] THEN 4 ELSE 0
Sizes(buf) ==
  LET b == AsLength(buf[2])
  IN IF Len(buf) < 2 \/ Misread(buf) THEN <<0, 0>>
     ELSE CASE b[3] < 126 -> <<2 + MaskLen(b), b[3]>>
            [] Len(buf) >= 4 + MaskLen(b) /\ b[3] = 126  -> <<4 + MaskLen(b), buf[3][2]>>
            [] Len(buf) >= 10 + MaskLen(b) /\ b[3] = 127 -> <<10 + MaskLen(b), buf[3][2]>>
            [] OTHER -> <<0, 0>>

Unmask(b) == IF b[1] = "masked" THEN Byte(b[2]) ELSE b
Plain(buf, h, n) == [i \in DOMAIN buf |-> IF i \in h + 1 .. h + n THEN Unmask(buf[i]) ELSE buf[i]]

\* The first fragment: its header is replaced by that of a continuation and
\* the size, which is written before the data is moved.  A header without
\* mask is shorter than the two: the size lands on data.
Stomped(buf, h) == [i \in DOMAIN buf |-> IF i > h /\ i <= 5 THEN Zero ELSE buf[i]]
Begun(buf, h, n) ==
  <<Head1(FALSE, "continue")>> \o SizeBytes(n) \o SubSeq(Stomped(buf, h), h + 1, Len(buf))
\* A later one loses its header (at is where it begins).
Grown_last(m, at, h, n) ==
  <<m[1]>> \o SizeBytes(n) \o SubSeq(m, 6, at) \o SubSeq(m, at + h + 1, Len(m))
Grown(m, at, h, n) ==
  <<m[1]>> \o SizeBytes(Kept(m) + n) \o SubSeq(m, 6, at) \o SubSeq(m, at + h + 1, Len(m))

Values(s) == [i \in DOMAIN s |-> s[i][2]]
Message(head, s) == [op |-> head[3], data |-> Values(s)]

\* Whether the receiver closes the connection: it looks at buf[0] after it
\* has moved data there or removed the frame, and finds the next byte there,
\* or the old one if there is no next.
LooksLikeClose_control(b) == b[1] = "head" /\ b[3] \in {"close", "ping"}
LooksLikeClose(b) == (b[1] = "head" /\ b[3] = "close") \/ b = Byte(8)
Look_next(m, at, old) == Len(m) > at /\ LooksLikeClose(m[at + 1])
Look(m, at, old) == LooksLikeClose(IF Len(m) > at THEN m[at + 1] ELSE old)

Result(m, msgs, close, bad, more) ==
  [m |-> m, msgs |-> msgs, close |-> close, bad |-> bad, more |-> more]

\* A message in one frame.
Whole(m, h, n) ==
  LET rest == SubSeq(m, h + n + 1, Len(m))
  IN Result(rest, <<Message(m[1], SubSeq(m, h + 1, h + n))>>, Look(rest, 0, m[1]), FALSE, TRUE)
\* The last fragment of one; it has the flags of that fragment.
Finished(g, at, head) ==
  LET rest == SubSeq(g, 6 + Kept(g), Len(g))
  IN Result(rest, <<Message(head, SubSeq(g, 6, 5 + Kept(g)))>>,
            Look(rest, at, IF Len(g) > at THEN g[at + 1] ELSE head), FALSE, TRUE)

\* mg_deliver_websocket_data.  moved: mbuf_resize moves the buffer, and the
\* receiver goes on with the old one.
mg_deliver_websocket_data(m, moved) ==
  LET at   == IF InProgress(m) THEN 5 + Kept(m) ELSE 0
      buf  == SubSeq(m, at + 1, Len(m))
      z    == IF buf = <<>> THEN <<0, 0>> ELSE Sizes(buf)
      p    == Plain(buf, z[1], z[2])
      head == AsHead(buf[1])
      g    == Grown(SubSeq(m, 1, at) \o p, at, z[1], z[2])
  IN IF Misread(buf) THEN Result(m, <<>>, FALSE, TRUE, FALSE)
     ELSE IF z[1] = 0 \/ z[1] + z[2] > Len(buf) THEN Result(m, <<>>, FALSE, FALSE, FALSE)
     ELSE IF at = 0 /\ head[3] = "continue" THEN Result(m, <<>>, FALSE, TRUE, FALSE)
     ELSE IF at = 0 /\ ~mg_is_ws_fragment(head) THEN Whole(p, z[1], z[2])
     ELSE IF mg_is_ws_first_fragment(head)
       THEN Result(Begun(p, z[1], z[2]), <<>>, Look(Begun(p, z[1], z[2]), 5, Zero), moved, TRUE)
     ELSE IF head[2] THEN Finished(g, at, head)
     ELSE Result(g, <<>>, Look(g, at, head), FALSE, TRUE)

\* mg_ws_handler: as long as there are frames.
RECURSIVE Deliver(_, _)
Deliver(m, moved) ==
  LET r == mg_deliver_websocket_data(m, moved)
      s == Deliver(r.m, moved)
  IN IF ~r.more \/ r.bad THEN r
     ELSE [s EXCEPT !.msgs = r.msgs \o @, !.close = r.close \/ @]

Receive ==
  /\ ~over /\ ~undefined
  /\ \E n \in 1 .. Len(coming), moved \in BOOLEAN :
       LET r == Deliver(recv_mbuf \o SubSeq(coming, 1, n), moved)
       IN /\ coming' = SubSeq(coming, n + 1, Len(coming))
          /\ recv_mbuf' = r.m /\ delivered' = delivered \o r.msgs
          /\ closing' = (closing \/ r.close) /\ undefined' = r.bad
  /\ UNCHANGED <<over, role, program>>

\* mg_mgr_poll closes the connection when nothing is left to send.
Close ==
  /\ closing /\ ~over /\ over' = TRUE
  /\ UNCHANGED <<coming, recv_mbuf, delivered, closing, undefined, role, program>>

Sent(p, r) == FlattenSeq([i \in DOMAIN p |-> mg_send_websocket_frame(p[i], r = "server")])

Init ==
  /\ role \in Roles /\ program \in Programs /\ coming = Sent(program, role)
  /\ recv_mbuf = <<>> /\ delivered = <<>> /\ closing = FALSE /\ undefined = FALSE /\ over = FALSE

Next == Receive \/ Close
WebSocketSpec == Init /\ [][Next]_svars

-----------------------------------------------------------------------------
\* Every variable has a value of its type.
TypeOK ==
  /\ closing \in BOOLEAN /\ undefined \in BOOLEAN /\ over \in BOOLEAN
  /\ role \in Roles /\ program \in Programs /\ IsSuffix(coming, Sent(program, role))
  /\ \A i \in DOMAIN delivered : delivered[i].op \in Ops

\* The messages of a program: the fragments of each put together.  A message
\* of fragments has the operation of its last one.
Joined(st, f) ==
  LET data == st.held \o f.data
  IN IF f.fin THEN [held |-> <<>>, msgs |-> Append(st.msgs, [op |-> f.op, data |-> data])]
     ELSE [st EXCEPT !.held = data]
Messages(p) == FoldLeft(Joined, [held |-> <<>>, msgs |-> <<>>], p).msgs

Control(f)  == f.op \in {"close", "ping"}
Fragments(p) == \E i \in DOMAIN p : ~p[i].fin
\* Nothing comes between the fragments of a message.
Undivided(p) == \A i \in DOMAIN p : i > 1 /\ ~p[i - 1].fin => p[i].op = "continue"
\* What the receiver is made for: a client sends fragments, a server whole messages.
Fit == Undivided(program) /\ (role = "client" => ~Fragments(program))

\* However the bytes are cut, the program gets the messages in order, and
\* all of them once all has arrived and the connection was not closed.
MessagesInOrder ==
  Fit /\ ~undefined => /\ IsPrefix(delivered, Messages(program))
                       /\ coming = <<>> => delivered = Messages(program)

\* The connection is closed only for a CLOSE of which at least the first byte
\* is here, or for data of a fragment that looks like one.
Here == Len(Sent(program, role)) - Len(coming)
CloseBegun ==
  \E i \in DOMAIN program : program[i].op = "close"
    /\ Here > Len(Sent(SubSeq(program, 1, i - 1), role))
Lookalike == Fragments(program) /\ \E i \in DOMAIN program : program[i].data # <<>> /\ program[i].data[1] = 8
ClosesForClose == closing /\ Fit => CloseBegun \/ Lookalike

\* A CLOSE with nothing behind it closes the connection.
CloseIsSeen ==
  Fit /\ ~undefined /\ coming = <<>> /\ program[Len(program)].op = "close" => closing
=============================================================================
