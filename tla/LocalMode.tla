----------------------------- MODULE LocalMode -----------------------------
(***************************************************************************)
(* The local HTTP mode (local_mode.c) on the event loop of mongoose, with  *)
(* its socket interface, its connections and its HTTP protocol handler     *)
(* (mongoose.c).  One thread polls: it selects, reads, answers and writes  *)
(* each connection, then closes those that are done.  Clients connect,     *)
(* send their requests in any portions, end or reset their connections.    *)
(*                                                                         *)
(* A request is a sequence of pieces: the lines of its header, the blank   *)
(* line, and what its body consists of.  An answer is the three pieces     *)
(* that handle_device_info and handle_404 print.                           *)
(***************************************************************************)
EXTENDS Integers, SequencesExt

CONSTANTS
  Clients,
  Streams,      \* Streams[c]: the sequences of requests that c may send
  Quitters,     \* the clients that may end or reset their connections early
  MaxRequest,   \* MG_MAX_HTTP_REQUEST_SIZE, in pieces
  MaxOom        \* bound: allocations that fail

LocalModeAssumption ==
  /\ Quitters \subseteq Clients /\ MaxRequest \in Nat \ {0} /\ MaxOom \in Nat
  /\ \A c \in Clients, s \in UNION {Streams[k] : k \in Clients} : \A i \in DOMAIN s :
       /\ s[i].uri \in {"info", "other"} /\ s[i].parts \in Nat
       /\ s[i].coding \in {"none", "length", "chunked", "endless", "junk"}

\* The pieces of a request.  A chunk is its size and its data.
Piece(kind, r) == <<kind, r>>
Kind(p)        == p[1]

Chunks(r) == [i \in 1 .. 2 * r.parts |-> Piece(IF i % 2 = 1 THEN "size" ELSE "data", r)]

BodyPieces(r) == CASE r.coding \in {"length", "endless"} -> [i \in 1 .. r.parts |-> Piece("data", r)]
                   [] r.coding = "chunked" -> Append(Chunks(r), Piece("zero", r))
                   [] OTHER                -> <<>>
Request(r) == IF r.coding = "junk" THEN <<Piece("junk", r)>>
              ELSE <<Piece("head", r), Piece("blank", r)>> \o BodyPieces(r)
Text(s)    == FlattenSeq([i \in DOMAIN s |-> Request(s[i])])

\* mg_send_response_line (two mg_printf) and the mg_printf of the body.
Response(u) == <<<<"line", u>>, <<"fields", u>>, <<"body", u>>>>

VARIABLES
  poll,      \* where mg_mgr_poll is: "wait_network", "select", "handle", "off", "aborted"
  readable,  \* connections select found readable, and not handled yet
  writable,  \* the same for writing
  listener,  \* the listener is readable, and not handled yet
  conn,      \* the mg_connection of a client
  client,    \* the client and what is under way to it or from it
  oom,       \* history: allocations that failed
  starved    \* history: clients that lost something by it

vars == <<poll, readable, writable, listener, conn, client, oom, starved>>

\* SEND_AND_CLOSE and CLOSE_IMMEDIATELY; chunk.body_len of the protocol data.
NoConn == [sock |-> "none", recv_mbuf |-> <<>>, send_mbuf |-> <<>>,
           send_and_close |-> FALSE, close_immediately |-> FALSE, body_len |-> 0]

Init ==
  /\ poll = "wait_network" /\ readable = {} /\ writable = {} /\ listener = FALSE
  /\ conn = [c \in Clients |-> NoConn]
  /\ client \in [Clients -> UNION {{[stream |-> s, left |-> Text(s), net |-> <<>>, fin |-> FALSE,
                                     rst |-> FALSE, got |-> <<>>] : s \in Streams[k]} : k \in Clients}]
  /\ \A c \in Clients : client[c].stream \in Streams[c]
  /\ oom = 0 /\ starved = {}

-----------------------------------------------------------------------------
(* The clients.                                                            *)

Connect(c) ==
  /\ conn[c].sock = "none" /\ client[c].left # <<>> /\ poll \notin {"wait_network", "off"}
  /\ conn' = [conn EXCEPT ![c].sock = "backlog"]
  /\ UNCHANGED <<poll, readable, writable, listener, client, oom, starved>>

Connected(c) == conn[c].sock \in {"backlog", "open"} /\ ~client[c].fin /\ ~client[c].rst

Send(c) ==
  /\ Connected(c)
  /\ \E k \in 1 .. Len(client[c].left) :
       client' = [client EXCEPT ![c].net = @ \o SubSeq(client[c].left, 1, k),
                                ![c].left = SubSeq(@, k + 1, Len(@))]
  /\ UNCHANGED <<poll, readable, writable, listener, conn, oom, starved>>

\* It sends no more, but still receives.
Finish(c) ==
  /\ Connected(c) /\ c \in Quitters
  /\ client' = [client EXCEPT ![c].fin = TRUE]
  /\ UNCHANGED <<poll, readable, writable, listener, conn, oom, starved>>

Reset(c) ==
  /\ Connected(c) /\ c \in Quitters
  /\ client' = [client EXCEPT ![c].rst = TRUE, ![c].net = <<>>]
  /\ UNCHANGED <<poll, readable, writable, listener, conn, oom, starved>>

-----------------------------------------------------------------------------
(* lmode_task and mg_mgr_poll.                                             *)

\* wait_network, then mg_bind_opt: without memory or port there is no server.
mg_bind_opt ==
  /\ poll = "wait_network" /\ poll' \in {"select", "off"}
  /\ UNCHANGED <<readable, writable, listener, conn, client, oom, starved>>

Readable(c) == conn[c].sock = "open" /\ (client[c].net # <<>> \/ client[c].fin \/ client[c].rst)
Writable(c) == conn[c].sock = "open" /\ conn[c].send_mbuf # <<>>

Select ==
  /\ poll = "select" /\ poll' = "handle"
  /\ readable' = {c \in Clients : Readable(c)}
  /\ writable' = {c \in Clients : Writable(c)}
  /\ listener' = (\E c \in Clients : conn[c].sock = "backlog")
  /\ UNCHANGED <<conn, client, oom, starved>>

\* mg_accept_conn: one at a time; of no memory the socket is closed at once.
mg_accept_conn(c) ==
  /\ poll = "handle" /\ listener /\ conn[c].sock = "backlog"
  /\ listener' = FALSE
  /\ \/ conn' = [conn EXCEPT ![c].sock = "open"] /\ UNCHANGED <<oom, starved>>
     \/ /\ oom < MaxOom /\ oom' = oom + 1 /\ starved' = starved \union {c}
        /\ conn' = [conn EXCEPT ![c].sock = "closed"]
  /\ UNCHANGED <<poll, readable, writable, client>>

\* mg_handle_tcp_read when there is nothing more, nobody, or no memory.
EndOfStream(c) ==
  /\ c \in readable /\ client[c].net = <<>> /\ client[c].fin /\ ~client[c].rst
  /\ conn' = [conn EXCEPT ![c].send_and_close = TRUE]
  /\ readable' = readable \ {c}
  /\ UNCHANGED <<poll, writable, listener, client, oom, starved>>

RecvFails(c) ==
  /\ c \in readable /\ client[c].rst
  /\ conn' = [conn EXCEPT ![c].close_immediately = TRUE]
  /\ readable' = readable \ {c} /\ writable' = writable \ {c}
  /\ UNCHANGED <<poll, listener, client, oom, starved>>

NoMemoryToRecv(c) ==
  /\ c \in readable /\ oom < MaxOom
  /\ oom' = oom + 1 /\ readable' = readable \ {c}
  /\ UNCHANGED <<poll, writable, listener, conn, client, starved>>

-----------------------------------------------------------------------------
(* mg_http_handler on what is in recv_mbuf.                                *)

\* mg_http_get_request_len: -1 if malformed, 0 if the header is not all there.
\* Where the beginning of a request is missing, what is received is read from
\* its first header on, and a last chunk ends what stands before it.
Heads(io)  == {i \in DOMAIN io : Kind(io[i]) = "head"}
RequestLen(io) ==
  LET Headed(i) == \E h \in Heads(io) : h < i
      ends == {i \in DOMAIN io : Kind(io[i]) \in {"junk", "zero"} \/ (Kind(io[i]) = "blank" /\ Headed(i))}
  IN  IF ends = {} THEN 0
      ELSE IF Kind(io[Min(ends)]) = "junk" \/ ~Headed(Min(ends)) THEN -1 ELSE Min(ends)

\* mg_parse_http: whose header it is.
Parsed(io) == io[Min(Heads(io))][2]
Behind(io) == SubSeq(io, RequestLen(io) + 1, Len(io))

\* mg_handle_chunked: behind the bytes that are reassembled already, so many
\* chunks are buffered as a whole; with the last one the body is complete.
Chunked(s, i)      == i < Len(s) /\ Kind(s[i]) = "size" /\ Kind(s[i + 1]) = "data"
Pairs(s, from)     == CHOOSE k \in 0 .. Len(s) :
                        /\ \A i \in 1 .. k : Chunked(s, from + 2 * i - 1)
                        /\ ~Chunked(s, from + 2 * k + 1)

\* Fault variant: something must follow the last chunk.
Zero_followed(s, i) == i + 1 < Len(s) /\ Kind(s[i + 1]) = "zero"

Zero(s, i)         == i + 1 <= Len(s) /\ Kind(s[i + 1]) = "zero"
Data(s, from, k)   == [i \in 1 .. k |-> s[from + 2 * i]]

\* Fault variant: body_len counts what was buffered.
Collapse_raw(s, from, k) ==
  [body |-> from + 2 * k,
   whole |-> Zero(s, from + 2 * k),
   text |-> SubSeq(s, 1, from) \o Data(s, from, k)
              \o SubSeq(s, from + 2 * k + (IF Zero(s, from + 2 * k) THEN 2 ELSE 1), Len(s))]

Collapse(s, from, k) ==
  [body |-> from + k,
   whole |-> Zero(s, from + 2 * k),
   text |-> SubSeq(s, 1, from) \o Data(s, from, k)
              \o SubSeq(s, from + 2 * k + (IF Zero(s, from + 2 * k) THEN 2 ELSE 1), Len(s))]
Reassembled(s, from) == Collapse(s, from, Pairs(s, from))

\* What of recv_mbuf is the message, as MG_EV_HTTP_REQUEST leaves it: without
\* an end to its body a POST is never complete, and behind a last chunk all
\* that is buffered is taken for it.
Plain(io, from) ==
  LET r    == Parsed(io)
      size == RequestLen(io) + (IF r.coding = "length" THEN r.parts ELSE 0)
  IN  [complete |-> r.coding # "endless" /\ size <= Len(io),
       rest |-> SubSeq(io, size + 1, Len(io)), io |-> io, body_len |-> from]
Joined(io, c) == [complete |-> c.whole, rest |-> <<>>,
                  io |-> SubSeq(io, 1, RequestLen(io)) \o c.text, body_len |-> c.body]
Message(io, from) ==
  IF Parsed(io).coding = "chunked" THEN Joined(io, Reassembled(Behind(io), from))
                                   ELSE Plain(io, from)

\* handle_http_request: the pieces for which there is memory.
Answer(u, keep) == SelectSeq(Response(u), LAMBDA p : p[1] \in keep)
Pieces          == {"line", "fields", "body"}

\* So many allocations fail, and the client loses something by them.
Starves(c, fails) ==
  /\ oom + fails <= MaxOom /\ oom' = oom + fails
  /\ starved' = IF fails = 0 THEN starved ELSE starved \union {c}

handle_http_request(c, k, u, m, lost) ==
  \E keep \in SUBSET Pieces :
    /\ Starves(c, lost + (IF keep = Pieces THEN 0 ELSE 1))
    /\ conn' = [conn EXCEPT ![c] = [k EXCEPT !.send_mbuf = @ \o Answer(u, keep),
                                             !.send_and_close = TRUE,
                                             !.recv_mbuf = m.rest, !.body_len = m.body_len]]

mg_http_handler(c, k, io, lost) ==
  \/ /\ RequestLen(io) = -1 \/ (RequestLen(io) = 0 /\ Len(io) >= MaxRequest)
     /\ conn' = [conn EXCEPT ![c] = [k EXCEPT !.recv_mbuf = io, !.close_immediately = TRUE]]
     /\ Starves(c, lost)
  \/ /\ RequestLen(io) = 0 /\ Len(io) < MaxRequest
     /\ conn' = [conn EXCEPT ![c] = [k EXCEPT !.recv_mbuf = io]]
     /\ Starves(c, lost)
  \/ /\ RequestLen(io) > 0 /\ ~Message(io, k.body_len).complete
     /\ conn' = [conn EXCEPT ![c] = [k EXCEPT !.recv_mbuf = Message(io, k.body_len).io,
                                              !.body_len = Message(io, k.body_len).body_len]]
     /\ Starves(c, lost)
  \/ /\ RequestLen(io) > 0 /\ Message(io, k.body_len).complete
     /\ handle_http_request(c, k, Parsed(io).uri, Message(io, k.body_len), lost)

\* The assertion of mg_handle_chunked: body_len is that of the message before.
Asserts(io, from) == /\ RequestLen(io) > 0 /\ Parsed(io).coding = "chunked"
                     /\ Len(Behind(io)) < from

\* mbuf_append: without memory to add them to what is there, the bytes received
\* are dropped, and the handler is told all the same.
Buffered(c, lost) == conn[c].recv_mbuf \o (IF lost = 0 THEN client[c].net ELSE <<>>)
Lost(c)           == {n \in {0, 1} : n = 1 => conn[c].recv_mbuf # <<>> /\ oom < MaxOom}

mg_recv_common(c) ==
  /\ c \in readable /\ client[c].net # <<>>
  /\ \E lost \in Lost(c) : /\ ~Asserts(Buffered(c, lost), conn[c].body_len)
                            /\ mg_http_handler(c, conn[c], Buffered(c, lost), lost)
  /\ client' = [client EXCEPT ![c].net = <<>>]
  /\ readable' = readable \ {c}
  /\ UNCHANGED <<poll, writable, listener>>

AssertionFails(c) ==
  /\ c \in readable /\ client[c].net # <<>>
  /\ \E lost \in Lost(c) : Asserts(Buffered(c, lost), conn[c].body_len)
  /\ poll' = "aborted" /\ readable' = {} /\ writable' = {}
  /\ UNCHANGED <<listener, conn, client, oom, starved>>

-----------------------------------------------------------------------------
(* Writing and closing.                                                    *)

\* Fault variant: mbuf_remove is missing.
Unsent_all(io, n) == io

Unsent(io, n) == SubSeq(io, n + 1, Len(io))

mg_write_to_socket(c) ==
  /\ c \in writable \ readable
  /\ writable' = writable \ {c}
  /\ \/ ~client[c].rst /\ ~conn[c].close_immediately
        /\ \E n \in 1 .. Len(conn[c].send_mbuf) :
             /\ client' = [client EXCEPT ![c].got = @ \o SubSeq(conn[c].send_mbuf, 1, n)]
             /\ conn' = [conn EXCEPT ![c].send_mbuf = Unsent(@, n)]
     \/ client[c].rst /\ ~conn[c].close_immediately
        /\ conn' = [conn EXCEPT ![c].close_immediately = TRUE] /\ UNCHANGED client
     \/ conn[c].close_immediately /\ UNCHANGED <<conn, client>>
  /\ UNCHANGED <<poll, readable, listener, oom, starved>>

\* Fault variant: it closes when it should after sending.
Done_early(k) == k.sock = "open" /\ (k.close_immediately \/ k.send_and_close)

Done(k) == k.sock = "open" /\ (k.close_immediately \/ (k.send_and_close /\ k.send_mbuf = <<>>))

\* mg_close_conn of all that are done.  MG_EV_CLOSE may have the handler answer
\* what is left in recv_mbuf: into a buffer that is freed next.
Closed == [NoConn EXCEPT !.sock = "closed"]

mg_close_conn ==
  /\ poll = "handle" /\ readable = {} /\ writable = {} /\ ~listener
  /\ conn' = [c \in Clients |-> IF Done(conn[c]) THEN Closed ELSE conn[c]]
  /\ poll' = "select"
  /\ UNCHANGED <<readable, writable, listener, client, oom, starved>>

-----------------------------------------------------------------------------
Poll(c) == \/ mg_accept_conn(c) \/ EndOfStream(c) \/ RecvFails(c) \/ NoMemoryToRecv(c)
           \/ mg_recv_common(c) \/ AssertionFails(c) \/ mg_write_to_socket(c)

Thread == mg_bind_opt \/ Select \/ mg_close_conn \/ \E c \in Clients : Poll(c)

Next == Thread \/ \E c \in Clients : Connect(c) \/ Send(c) \/ Finish(c) \/ Reset(c)

Spec == Init /\ [][Next]_vars

\* lmode_task polls for ever: while it polls it has a next step (this is
\* WF_vars(Thread), with the condition under which Thread is enabled).
Polls    == poll \notin {"off", "aborted"}
FairSpec == Spec /\ ([]<>~Polls \/ []<><<Thread>>_vars)

-----------------------------------------------------------------------------
(* Properties.                                                             *)

\* Every variable has a value of its type.
TypeOK ==
  /\ poll \in {"wait_network", "select", "handle", "off", "aborted"}
  /\ readable \subseteq Clients /\ writable \subseteq Clients /\ listener \in BOOLEAN
  /\ \A c \in Clients :
       /\ conn[c].sock \in {"none", "backlog", "open", "closed"}
       /\ conn[c].send_and_close \in BOOLEAN /\ conn[c].close_immediately \in BOOLEAN
       /\ conn[c].body_len \in 0 .. Len(Text(client[c].stream))
       /\ Len(conn[c].recv_mbuf) <= Len(Text(client[c].stream))
  /\ oom \in 0 .. MaxOom /\ starved \subseteq Clients

Answers(s) == FlattenSeq([i \in DOMAIN s |-> Response(s[i].uri)])

\* A client gets the answers to its own requests, in their order, each behind
\* the other and none in part before the next, unless memory ran out.
AnswersInOrder ==
  \A c \in Clients \ starved : IsPrefix(client[c].got, Answers(client[c].stream))

\* A first request that ends, and nothing malformed behind it: of two chunked
\* requests the last chunk of the first may swallow the header of the second.
Answerable(s) == /\ s # <<>> /\ Head(s).coding # "endless"
                 /\ \A i \in DOMAIN s : s[i].coding # "junk"
                 /\ \A i, j \in DOMAIN s : s[i].coding = "chunked" /\ s[j].coding = "chunked" => i = j
SentFirst(c)  == client[c].stream # <<>> /\ Len(client[c].left) <= Len(Text(Tail(client[c].stream)))
HasFirst(c)   == client[c].stream # <<>> /\ Len(client[c].got) >= Len(Response(Head(client[c].stream).uri))

\* The connection of a client that sent its request and did not give up is not
\* closed before it has the whole answer, even if it had half closed it.
ClosedAfterAnswer ==
  \A c \in Clients \ starved :
    /\ conn[c].sock = "closed" /\ Answerable(client[c].stream) /\ ~client[c].rst /\ SentFirst(c)
    => HasFirst(c)

\* The length of a reassembled body is kept beyond its message: only a client
\* that sends a second chunked request on its connection meets the assertion.
AbortsOnlyOnSecondChunked ==
  poll = "aborted" =>
    \E c \in Clients : Cardinality({i \in DOMAIN client[c].stream :
                                      client[c].stream[i].coding = "chunked"}) > 1

\* Who has sent a request gets its answer.
Served ==
  \A c \in Clients :
    Answerable(client[c].stream) /\ Connected(c) /\ SentFirst(c)
      ~> HasFirst(c) \/ c \in starved \/ client[c].rst \/ poll = "aborted"
=============================================================================
