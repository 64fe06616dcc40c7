----------------------------- MODULE WebClient -----------------------------
(***************************************************************************)
(* An HTTP request of the webclient package (webclient.c), made by         *)
(* bootstrap (bootstrap.c: webclient_request2, parse_response), by         *)
(* webclient_request (a POST) or by the file functions (webclient_file.c), *)
(* against a server that answers, redirects, is slow, or goes away.  Plain *)
(* TCP: this build has no TLS.                                             *)
(*                                                                         *)
(* What the server sends is a sequence of lines and bytes.  A line arrives *)
(* as a whole or not in time; bytes arrive in any portions.  Sessions are  *)
(* numbered: 1 is the caller's, each redirection makes the next.           *)
(***************************************************************************)
EXTENDS Integers, SequencesExt

CONSTANTS
  Ops,           \* callers: subset of {"bootstrap", "request", "get_file", "post_file"}
  Replies,       \* what a server may answer
  Buf,           \* WEBCLIENT_RESPONSE_BUFSZ
  MaxRedirects,  \* bound: redirections of a request
  MaxLate        \* bound: receptions that time out although more is to come

WebClientAssumption ==
  /\ Ops \subseteq {"bootstrap", "request", "get_file", "post_file"}
  /\ Buf \in Nat \ {0} /\ MaxRedirects \in Nat /\ MaxLate \in Nat
  /\ \A r \in Replies : /\ r.status \in Nat /\ r.location \in BOOLEAN
                        /\ r.coding \in {"length", "chunked", "close"}
                        /\ \A i \in DOMAIN r.chunks : Len(r.chunks[i]) > 0
                        /\ r.doc \in {"address", "other", "junk"}

Line(kind, n) == <<kind, n>>
Byte(b)       == <<"byte", b>>
IsLine(t)     == t[1] # "byte"

Payload(r) == FlattenSeq(r.chunks)
Bytes(s)   == [i \in DOMAIN s |-> Byte(s[i])]
Chunk(c)   == <<Line("size", Len(c))>> \o Bytes(c) \o <<Line("crlf", 0)>>

Coding(r) == CASE r.coding = "length"  -> <<Line("length", Len(Payload(r)))>>
               [] r.coding = "chunked" -> <<Line("chunked", 0)>>
               [] r.coding = "close"   -> <<>>
Body(r) == IF r.coding = "chunked"
             THEN FlattenSeq([i \in DOMAIN r.chunks |-> Chunk(r.chunks[i])])
                    \o <<Line("size", 0), Line("crlf", 0)>>
             ELSE Bytes(Payload(r))
Stream(r) == <<Line("status", r.status)>>
               \o (IF r.location THEN <<Line("location", 0)>> ELSE <<>>)
               \o Coding(r) \o <<Line("blank", 0)>> \o Body(r)

Sessions == 1 .. MaxRedirects + 1

NoReply == [status |-> 0, location |-> FALSE, coding |-> "close", chunks |-> <<>>,
            doc |-> "junk"]

VARIABLES
  pc,       \* where the caller's thread is
  op,       \* who makes the request
  cur,      \* the session of the innermost webclient_get
  block,    \* a session's memory: "none", "live", "freed"
  socket,   \* its socket: "none", "open", "closed"
  s,        \* fields of session cur
  hdr,      \* header lines read
  wire,     \* what is to be received, and ...
  shut,     \* ... whether the end of the connection follows
  part,     \* webclient_read: total_read and what is left
  body,     \* what the caller got
  rsp_code, answer,
  lost,     \* blocks nothing points to any more
  reply,    \* history: the last answer of a server
  late,     \* history: receptions that timed out
  upset     \* history: the connection was cut, a send or an allocation failed

vars == <<pc, op, cur, block, socket, s, hdr, wire, shut, part, body, rsp_code, answer,
          lost, reply, late, upset>>

Fresh == [chunk_sz |-> 0, chunk_offset |-> 0, content_length |-> -1,
          content_remainder |-> 0, resp_status |-> 0, guess |-> FALSE]

Init ==
  /\ pc = "create" /\ op \in Ops /\ cur = 1
  /\ block = [k \in Sessions |-> "none"] /\ socket = [k \in Sessions |-> "none"]
  /\ s = Fresh /\ hdr = {} /\ wire = <<>> /\ shut = FALSE
  /\ part = [got |-> 0, left |-> 0] /\ body = <<>>
  /\ rsp_code = 0 /\ answer = "none" /\ lost = {}
  /\ reply = NoReply /\ late = 0 /\ upset = FALSE

conn  == <<wire, shut, reply>>
taken == <<part, body>>

-----------------------------------------------------------------------------
(* The connection.                                                         *)

\* recv of up to n bytes.  On a closed socket, and while w is all that comes
\* but not the end, it fails; it may also fail because the rest is late.
Open        == socket[cur] = "open"
Receives(n) == {k \in 1 .. n : Open /\ k <= Len(wire)}
Ended(w)    == Open /\ w = <<>> /\ shut
Fails(w)    == \/ (~Open \/ (w = <<>> /\ ~shut)) /\ late' = late
               \/ Open /\ w # <<>> /\ late < MaxLate /\ late' = late + 1

\* webclient_read_line takes everything up to the end of a line.  What does
\* not consist of that line alone is no number to strtol.
LineEnd(w)   == SelectInSeq(w, IsLine)
HasLine(w)   == Open /\ LineEnd(w) # 0
FirstLine(w) == w[LineEnd(w)]
Behind(w)    == SubSeq(w, LineEnd(w) + 1, Len(w))
Number(w)    == IF LineEnd(w) = 1 /\ w[1][1] = "size" THEN w[1][2] ELSE 0

\* A line does not come: it ends before, or is late.
LineFails(w) == Fails(w) \/ (Open /\ LineEnd(w) = 0 /\ shut /\ late' = late)

\* The server goes away, and the rest of what it sent with it.
Cut ==
  /\ pc \notin {"create", "done", "wild"} /\ ~upset /\ wire # <<>>
  /\ \E n \in 0 .. Len(wire) - 1 : wire' = SubSeq(wire, 1, n)
  /\ shut' = TRUE /\ upset' = TRUE
  /\ UNCHANGED <<pc, op, cur, block, socket, s, hdr, taken, rsp_code, answer, lost, reply, late>>

-----------------------------------------------------------------------------
(* Request and header.                                                     *)

\* webclient_session_create.
webclient_session_create ==
  /\ pc = "create" /\ block[cur] = "none"
  /\ block' = [block EXCEPT ![cur] = "live"]
  /\ s' = Fresh /\ hdr' = {}
  /\ lost' = IF op = "post_file" THEN lost \union {"header"} ELSE lost
  /\ pc' = "connect"
  /\ UNCHANGED <<op, cur, socket, conn, taken, rsp_code, answer, late, upset>>

\* Of no memory: the caller has rsp_code 0 then; in a redirection, it goes on
\* with the session that was closed, and new_url is lost.
webclient_session_create_fails ==
  /\ pc = "create" /\ block[cur] = "none" /\ ~upset
  /\ upset' = TRUE
  /\ IF cur = 1
       THEN pc' = "close" /\ UNCHANGED <<rsp_code, lost>>
       ELSE pc' = "close" /\ rsp_code' = -3 /\ lost' = lost \union {"new_url"}
  /\ UNCHANGED <<op, cur, block, socket, s, hdr, conn, taken, answer, late>>

webclient_connect ==
  /\ pc = "connect"
  /\ socket' = [socket EXCEPT ![cur] = "open"]
  /\ pc' = "send"
  /\ UNCHANGED <<op, cur, block, s, hdr, conn, taken, rsp_code, answer, lost, late, upset>>

\* Not resolved, no socket, or refused: the negative code is the rsp_code.
webclient_connect_fails ==
  /\ pc = "connect" /\ ~upset
  /\ upset' = TRUE /\ rsp_code' = -6 /\ pc' = "close"
  /\ UNCHANGED <<op, cur, block, socket, s, hdr, conn, taken, answer, lost, late>>

\* webclient_send_header, webclient_post and their webclient_write: sent, and
\* the server answers.  post_file does not wait for the answer.
webclient_write ==
  /\ pc = "send"
  /\ \E r \in Replies :
       /\ r.location /\ r.status \in {301, 302} => cur < MaxRedirects + 1
       /\ reply' = r /\ wire' = Stream(r)
       /\ shut' \in IF r.coding = "close" THEN {TRUE} ELSE BOOLEAN
  /\ pc' = IF op = "post_file" THEN "close" ELSE "head"
  /\ UNCHANGED <<op, cur, block, socket, s, hdr, taken, rsp_code, answer, lost, late, upset>>

\* No memory to put the request line before the caller's fields.
webclient_send_header_fails ==
  /\ pc = "send" /\ op = "request" /\ ~upset
  /\ upset' = TRUE /\ rsp_code' = -3 /\ pc' = "close"
  /\ UNCHANGED <<op, cur, block, socket, s, hdr, conn, taken, answer, lost, late>>

\* Part of it is sent, or the connection is gone; the result is not looked at.
webclient_write_fails ==
  /\ pc = "send" /\ ~upset
  /\ upset' = TRUE
  /\ socket' \in {socket, [socket EXCEPT ![cur] = "closed"]}
  /\ wire' = <<>> /\ shut' = FALSE /\ reply' = NoReply
  /\ pc' = IF op = "post_file" THEN "close" ELSE "head"
  /\ UNCHANGED <<op, cur, block, s, hdr, taken, rsp_code, answer, lost, late>>

\* webclient_handle_response reads a line; the blank one ends the header.
ReadHeaderLine ==
  /\ pc = "head" /\ HasLine(wire)
  /\ hdr' = hdr \union {FirstLine(wire)}
  /\ wire' = Behind(wire)
  /\ pc' = IF FirstLine(wire)[1] = "blank" THEN "fields" ELSE "head"
  /\ UNCHANGED <<op, cur, block, socket, s, shut, reply, taken, rsp_code, answer, lost, late,
                 upset>>

\* The end of the connection is the end of the header, too.
HeaderEnds ==
  /\ pc = "head" /\ Ended(wire)
  /\ pc' = "fields"
  /\ UNCHANGED <<op, cur, block, socket, s, hdr, conn, taken, rsp_code, answer, lost, late, upset>>

HeaderFails ==
  /\ pc = "head" /\ Fails(wire)
  /\ rsp_code' = -1 /\ pc' = "close"
  /\ UNCHANGED <<op, cur, block, socket, s, hdr, conn, taken, answer, lost, upset>>

\* webclient_header_fields_get.
Has(kind)   == \E l \in hdr : l[1] = kind
Field(kind) == (CHOOSE l \in hdr : l[1] = kind)[2]

\* content_remainder is unsigned: without a length, or with 0, nothing ends it.
Endless == 2147483647

Length == IF Has("length") THEN Field("length") ELSE -1
\* Fault variant: the length as it is.
Remainder_signed(n) == n

Remainder(n) == IF n > 0 THEN n ELSE Endless

Fields ==
  [Fresh EXCEPT !.resp_status = IF Has("status") THEN Field("status") ELSE 0,
                !.content_length = Length, !.content_remainder = Remainder(Length)]

\* Redirected: the session is closed, and another made for the new URL.
Redirects(f) == f.resp_status \in {301, 302} /\ Has("location")
               /\ op \in {"bootstrap", "get_file"}

\* What webclient_get and webclient_post make of the header.
Judge(f) ==
  /\ s' = f
  /\ IF Redirects(f)
       THEN /\ block' = [block EXCEPT ![cur] = "freed"]
            /\ socket' = [socket EXCEPT ![cur] = "closed"]
            /\ cur <= MaxRedirects /\ cur' = cur + 1 /\ pc' = "create"
            /\ UNCHANGED rsp_code
       ELSE /\ rsp_code' = f.resp_status
            /\ pc' = IF f.resp_status = 200 THEN "use" ELSE "close"
            /\ UNCHANGED <<block, socket, cur>>

\* Without chunks; with chunks the size of the first is read.
HandleFields ==
  /\ pc = "fields"
  /\ \/ ~Has("chunked") /\ Judge(Fields) /\ UNCHANGED <<wire, late>>
     \/ /\ Has("chunked") /\ HasLine(wire)
        /\ Judge([Fields EXCEPT !.chunk_sz = Number(wire)])
        /\ wire' = Behind(wire) /\ UNCHANGED late
     \* ... but if it does not come, strtol gets an uninitialized line.
     \/ /\ Has("chunked") /\ LineFails(wire)
        /\ \E n \in -1 .. 1 : Judge([Fields EXCEPT !.chunk_sz = n, !.guess = TRUE])
        /\ UNCHANGED wire
  /\ hdr' = {}
  /\ UNCHANGED <<op, shut, reply, taken, answer, lost, upset>>

\* No memory for the copy of the header, or for new_url.
HandleFieldsFails ==
  /\ pc = "fields" /\ ~upset
  /\ upset' = TRUE /\ rsp_code' = -3 /\ pc' = "close"
  /\ UNCHANGED <<op, cur, block, socket, s, hdr, conn, taken, answer, lost, late>>

-----------------------------------------------------------------------------
(* The body: webclient_response, and the loop of webclient_get_file.       *)

Least(a, b) == IF a < b THEN a ELSE b

\* What the caller asks webclient_read for: webclient_get_file a bufferful,
\* webclient_response all the rest if it knows how much that is.
Rest             == s.content_length - Len(body)
AskedForFile     == IF s.content_length < 0 THEN Buf ELSE Least(Buf, Rest)
AskedForResponse == IF s.content_length < 0 THEN Buf ELSE Rest
Asked            == IF op = "get_file" THEN AskedForFile ELSE AskedForResponse

MoreToRead == s.content_length < 0 \/ Len(body) < s.content_length

\* The caller's session may be one that a redirection closed: what is then
\* read and written is no session.
Use ==
  /\ pc = "use"
  /\ pc' = IF block[1] = "freed" THEN "wild" ELSE "read"
  /\ UNCHANGED <<op, cur, block, socket, s, hdr, conn, taken, rsp_code, answer, lost, late, upset>>

\* webclient_get_file cannot open the file, or has no memory for its buffer.
UseFails ==
  /\ pc = "use" /\ op = "get_file" /\ ~upset
  /\ upset' = TRUE /\ rsp_code' = -1 /\ pc' = "close"
  /\ UNCHANGED <<op, cur, block, socket, s, hdr, conn, taken, answer, lost, late>>

\* Enough; or webclient_read has nothing more; or no memory for more.
ReadsNoMore ==
  /\ pc = "read"
  /\ \/ ~MoreToRead /\ UNCHANGED upset
     \/ s.chunk_sz < 0 /\ UNCHANGED upset
     \/ socket[1] = "closed" /\ UNCHANGED upset
     \/ op # "get_file" /\ ~upset /\ upset' = TRUE
  /\ pc' = "close"
  /\ UNCHANGED <<op, cur, block, socket, s, hdr, conn, taken, rsp_code, answer, lost, late>>

\* Fault variant: the empty line is taken for a size.
SizeLine_empty(w) == w

\* webclient_next_chunk: behind the bytes of a chunk is an empty line, then the
\* size of the next.  The socket is closed behind the last chunk, and when a
\* line does not come.
SizeLine(w) == IF HasLine(w) /\ FirstLine(w) = Line("crlf", 0) THEN Behind(w) ELSE w

webclient_next_chunk(w) ==
  \/ /\ HasLine(SizeLine(w)) /\ UNCHANGED late
     /\ LET n == Number(SizeLine(w)) IN
          /\ s' = [s EXCEPT !.chunk_sz = IF n = 0 THEN -1 ELSE n, !.chunk_offset = 0]
          /\ socket' = IF n = 0 THEN [socket EXCEPT ![1] = "closed"] ELSE socket
     /\ wire' = Behind(SizeLine(w))
  \/ /\ LineFails(SizeLine(w))
     /\ socket' = [socket EXCEPT ![1] = "closed"]
     /\ wire' = <<>> /\ s' = [s EXCEPT !.chunk_offset = s.chunk_sz]

\* Fault variant: as many as the caller has room for.
ChunkRoom_any == Asked

\* webclient_read in a chunk: one recv, never across its end.
ChunkRoom == Least(Asked, s.chunk_sz - s.chunk_offset)

ReadChunk ==
  /\ pc = "read" /\ MoreToRead /\ s.chunk_sz > 0
  /\ \E k \in Receives(ChunkRoom) :
       /\ body' = body \o SubSeq(wire, 1, k)
       /\ IF s.chunk_offset + k >= s.chunk_sz
            THEN webclient_next_chunk(SubSeq(wire, k + 1, Len(wire)))
            ELSE /\ s' = [s EXCEPT !.chunk_offset = @ + k]
                 /\ wire' = SubSeq(wire, k + 1, Len(wire))
                 /\ UNCHANGED <<socket, late>>
  /\ UNCHANGED <<pc, op, cur, block, hdr, shut, reply, part, rsp_code, answer, lost, upset>>

ReadChunkFails ==
  /\ pc = "read" /\ MoreToRead /\ s.chunk_sz > 0 /\ Open
  /\ \/ Fails(wire) /\ UNCHANGED socket
     \/ Ended(wire) /\ socket' = [socket EXCEPT ![1] = "closed"] /\ UNCHANGED late
  /\ pc' = "close"
  /\ UNCHANGED <<op, cur, block, s, hdr, conn, taken, rsp_code, answer, lost, upset>>

\* webclient_read without chunks: until it has all it was asked for, ...
ReadPlain ==
  /\ pc = "read" /\ MoreToRead /\ s.chunk_sz = 0 /\ Open
  /\ part' = [got |-> 0, left |-> IF s.content_length > 0
                                    THEN Least(Asked, s.content_remainder) ELSE Asked]
  /\ pc' = "part"
  /\ UNCHANGED <<op, cur, block, socket, s, hdr, conn, body, rsp_code, answer, lost, late, upset>>

Returns(n) ==
  /\ pc' = "read"
  /\ s' = IF s.content_length > 0 THEN [s EXCEPT !.content_remainder = @ - n] ELSE s

ReceivePart ==
  /\ pc = "part"
  /\ \E k \in Receives(part.left) :
       /\ body' = body \o SubSeq(wire, 1, k)
       /\ wire' = SubSeq(wire, k + 1, Len(wire))
       /\ part' = [got |-> part.got + k, left |-> part.left - k]
       /\ IF k = part.left THEN Returns(part.got + k) ELSE UNCHANGED <<pc, s>>
  /\ UNCHANGED <<op, cur, block, socket, hdr, shut, reply, rsp_code, answer, lost, late, upset>>

\* ... or no more comes: then it has what it has, if anything.  A recv that
\* gets nothing is not tried again.
GivesUp_never == FALSE
GivesUp == TRUE
PartFails ==
  /\ pc = "part"
  /\ \/ /\ part.got > 0 /\ (Fails(wire) \/ (Ended(wire) /\ UNCHANGED late))
        /\ Returns(part.got) /\ UNCHANGED socket
     \/ /\ part.got = 0 /\ GivesUp /\ Fails(wire)
        /\ pc' = "close" /\ UNCHANGED <<s, socket>>
     \/ /\ part.got = 0 /\ Ended(wire) /\ UNCHANGED late
        /\ pc' = "close" /\ socket' = [socket EXCEPT ![1] = "closed"] /\ UNCHANGED s
  /\ UNCHANGED <<op, cur, block, hdr, conn, taken, rsp_code, answer, lost, upset>>

-----------------------------------------------------------------------------
(* The end.                                                                *)

\* Fault variant: the memory is freed, the socket is not closed.
webclient_close_open ==
  /\ pc = "close"
  /\ \/ /\ block[1] = "live"
        /\ block' = [block EXCEPT ![1] = "freed"]
        /\ pc' = "result"
     \/ block[1] = "none" /\ pc' = "result" /\ UNCHANGED block
     \/ block[1] = "freed" /\ pc' = "wild" /\ UNCHANGED block
  /\ UNCHANGED <<op, cur, socket, s, hdr, conn, taken, rsp_code, answer, lost, late, upset>>

\* webclient_close of the caller's session; behind a redirection that is one
\* closed before.
webclient_close ==
  /\ pc = "close"
  /\ \/ /\ block[1] = "live"
        /\ block' = [block EXCEPT ![1] = "freed"]
        /\ socket' = [socket EXCEPT ![1] = IF @ = "open" THEN "closed" ELSE @]
        /\ pc' = "result"
     \/ block[1] = "none" /\ pc' = "result" /\ UNCHANGED <<block, socket>>
     \/ block[1] = "freed" /\ pc' = "wild" /\ UNCHANGED <<block, socket>>
  /\ UNCHANGED <<op, cur, s, hdr, conn, taken, rsp_code, answer, lost, late, upset>>

Outcome(a, blocks) == [answer |-> a, lost |-> blocks]

HasResponse == rsp_code = 200 /\ body # <<>>

\* webclient_post_file looks at nothing that came; webclient_get_file does not
\* ask how much was read.
OutcomeOfPost    == Outcome("done", {})
OutcomeOfFile    == Outcome(IF rsp_code = 200 THEN "done" ELSE "failed", {})
OutcomeOfRequest == Outcome(IF HasResponse THEN "done" ELSE "failed", {})

\* parse_response: what is no whole document is none; fields that are missing
\* cost the tree and, as in any failure, the response.
parse_response ==
  IF body # Bytes(Payload(reply)) \/ reply.doc = "junk"
    THEN Outcome("failed", {"response"})
  ELSE IF reply.doc = "other" THEN Outcome("failed", {"response", "tree"})
  ELSE Outcome("address", {})

\* Without a response bootstrap is refused when there is any code.
OutcomeOfBootstrap ==
  IF HasResponse THEN parse_response
  ELSE Outcome(IF rsp_code # 0 THEN "refused" ELSE "failed", {})

Result ==
  /\ pc = "result" /\ pc' = "done"
  /\ LET o == CASE op = "post_file" -> OutcomeOfPost [] op = "get_file"  -> OutcomeOfFile
                [] op = "request"   -> OutcomeOfRequest
                [] op = "bootstrap" -> OutcomeOfBootstrap
     IN  answer' = o.answer /\ lost' = lost \union o.lost
  /\ UNCHANGED <<op, cur, block, socket, s, hdr, conn, taken, rsp_code, late, upset>>

-----------------------------------------------------------------------------
Next ==
  \/ webclient_session_create \/ webclient_session_create_fails
  \/ webclient_connect \/ webclient_connect_fails \/ webclient_send_header_fails
  \/ webclient_write \/ webclient_write_fails
  \/ ReadHeaderLine \/ HeaderEnds \/ HeaderFails \/ HandleFields \/ HandleFieldsFails
  \/ Use \/ UseFails \/ ReadsNoMore \/ ReadChunk \/ ReadChunkFails \/ ReadPlain \/ ReceivePart \/ PartFails
  \/ webclient_close \/ Result \/ Cut

Spec == Init /\ [][Next]_vars

Over == pc \in {"done", "wild"}

\* Every recv returns, after its timeout if not before.  A send that times out
\* with nothing sent is done again, a step that changes nothing: the other side
\* takes the request in the end or is gone.
\* (This is WF_vars(Next): until it is over a request has a next step, at a
\* recv that gets nothing because the caller gives up.)
Works == ~Over /\ (pc = "part" /\ wire = <<>> => GivesUp)
FairSpec == Spec /\ ([]<>~Works \/ []<><<Next>>_vars)

-----------------------------------------------------------------------------
(* Properties.                                                             *)

\* Every variable has a value of its type.
TypeOK ==
  /\ pc \in {"create", "connect", "send", "head", "fields", "use", "read", "part", "close",
             "result", "done", "wild"}
  /\ op \in Ops /\ cur \in Sessions
  /\ block \in [Sessions -> {"none", "live", "freed"}]
  /\ socket \in [Sessions -> {"none", "open", "closed"}]
  /\ s.chunk_sz >= -1 /\ s.chunk_offset >= 0 /\ s.content_remainder >= 0
  /\ part.got >= 0 /\ part.left >= 0
  /\ late \in 0 .. MaxLate
  /\ answer \in {"none", "address", "done", "refused", "failed"}
  /\ lost \subseteq {"header", "new_url", "response", "tree"}

\* A body that starts with its last chunk is read as one without chunks, and
\* one whose first size came late as whatever was on the stack.
FirstSizeKnown == ~s.guess /\ (reply.coding = "chunked" => reply.chunks # <<>>)

\* The caller gets the bytes of the body in their order, none twice and none
\* of what is around them, in whatever portions they come and wherever the
\* connection breaks.
BodyInOrder ==
  FirstSizeKnown => IsPrefix(body, Bytes(Payload(reply)))

\* If nothing went wrong, it is the whole body.
WholeIfUndisturbed ==
  /\ pc = "done" /\ answer \in {"address", "done"} /\ op # "post_file"
  /\ FirstSizeKnown /\ ~upset /\ late = 0
  => body = Bytes(Payload(reply))

\* What a post_file and a redirection may lose.
Spent == IF op = "post_file" THEN {"header"} ELSE {}
Given == IF cur > 1 THEN {"new_url"} ELSE {}

\* Not redirected, a request gives back at its end all it took: no session is
\* left, no socket open, and of the other memory only what the failures of
\* bootstrap and post_file cost.  Redirected, it never does: the caller closes,
\* or reads from, its own session, which was closed; every session but the last
\* one and all their sockets are closed by then, and of the rest only a new_url
\* is lost.
Released ==
  /\ Over => (pc = "wild" <=> cur > 1)
  /\ pc = "wild" =>
       /\ \A k \in Sessions : block[k] = "live" \/ socket[k] = "open" => k = cur
       /\ lost \subseteq Spent \union Given
  /\ pc = "done" =>
       /\ \A k \in Sessions : block[k] # "live" /\ socket[k] # "open"
       /\ lost \subseteq CASE op = "bootstrap" /\ answer = "failed" -> {"response", "tree"}
                           [] op = "post_file" -> {"header"}
                           [] OTHER -> {}

\* What of it is inductive: sessions before the present one are closed, those
\* behind it are not made, and the caller's is looked at last.
ClosedBefore ==
  \A k \in Sessions : /\ k < cur => block[k] = "freed" /\ socket[k] = "closed"
                      /\ k > cur => block[k] = "none" /\ socket[k] = "none"
Working == pc \in {"connect", "send", "head", "fields", "use", "read", "part"}
Present ==
  /\ pc = "create" => block[cur] = "none" /\ socket[cur] = "none"
  /\ Working => block[cur] = "live" /\ (pc \in {"read", "part"} => cur = 1)
  /\ pc = "close" => block[cur] # "freed" /\ (block[cur] = "none" => socket[cur] # "open")
  /\ pc \in {"result", "done"} => cur = 1 /\ block[1] # "live" /\ socket[1] # "open"
ReleasedInv ==
  /\ pc \in {"create", "close", "result", "done", "wild"} \/ Working
  /\ op \in Ops /\ cur \in Sessions /\ block \in [Sessions -> {"none", "live", "freed"}]
  /\ socket \in [Sessions -> {"none", "open", "closed"}]
  /\ ClosedBefore /\ Present
  /\ pc # "done" => lost \subseteq Spent \union Given
  /\ Released

\* The end comes, however slow the server is.
Ends == <>Over
=============================================================================
