------------------------------ MODULE Multipart ------------------------------
(***************************************************************************)
(* A form with files sent to an HTTP server of mongoose.c that hands its   *)
(* parts on as they arrive, mg_http_multipart_continue.  The form may come *)
(* in any portions; the server looks for the boundary in what it has, and  *)
(* keeps back as much as could be the beginning of one.                    *)
(*                                                                         *)
(* Bytes are named: "r" and "n" end a line, "-" is a dash, the boundary    *)
(* consists of the bytes Boundary.  The line that names a part counts as   *)
(* one byte with its name, before its end.                                 *)
(***************************************************************************)
EXTENDS Integers, SequencesExt

CONSTANTS
  Boundary,   \* the boundary, without the dashes in front of it
  Names,      \* names of parts: the lines Content-Disposition
  Forms       \* what may be sent: sequences of [name, more, data]

MultipartAssumption ==
  /\ Boundary # <<>> /\ Len(Boundary) >= 2
  /\ \A f \in Forms : \A i \in DOMAIN f : f[i].name \in Names

VARIABLES
  form,    \* what the client sends
  rest,    \* bytes still to come
  mio,     \* recv_mbuf
  mp,      \* mp_stream: state, prev_io_len, processing_part
  busy,    \* mg_http_multipart_continue is running
  parts,   \* what the handler got: [name, data]
  ends,    \* MG_EV_HTTP_PART_END it got
  ended    \* MG_EV_HTTP_MULTIPART_REQUEST_END: "no", "done", "failed"; or "wild"

mvars == <<form, rest, mio, mp, busy, parts, ends, ended>>

\* Other head lines stand behind the name, "T" for each.
Crlf     == <<"r", "n">>
Line(b)  == <<b>> \o Crlf
Part(p)  == <<"-", "-">> \o Boundary \o Crlf \o Line(p.name) \o FlattenSeq([i \in 1 .. p.more |-> Line("T")])
              \o Crlf \o p.data \o Crlf
Body(f)  == FlattenSeq([i \in DOMAIN f |-> Part(f[i])]) \o <<"-", "-">> \o Boundary \o <<"-", "-">> \o Crlf

\* c_strnstr: the place of the boundary in what has arrived, 0 if there is none.
B == Len(Boundary)
IsBoundaryAt(s, i) == i + B - 1 <= Len(s) /\ SubSeq(s, i, i + B - 1) = Boundary
At(s) == IF \E i \in 1 .. Len(s) : IsBoundaryAt(s, i)
           THEN CHOOSE i \in 1 .. Len(s) : IsBoundaryAt(s, i) /\ \A j \in 1 .. i - 1 : ~IsBoundaryAt(s, j)
           ELSE 0
Behind(s, n) == SubSeq(s, n + 1, Len(s))

-----------------------------------------------------------------------------
(* One round of mg_http_multipart_continue                                 *)

Quiet     == UNCHANGED <<parts, ends, ended>>
Waits(s)  == busy' = FALSE /\ mp' = [mp EXCEPT !.state = s] /\ UNCHANGED mio /\ Quiet
Goes(s)   == busy' = TRUE /\ mp' = [mp EXCEPT !.state = s]

\* mg_http_multipart_wait_for_boundary: four bytes behind the boundary tell
\* whether it is the last.
Needed_5 == 5
Needed == 4
mg_http_multipart_wait_for_boundary ==
  /\ mp.state \in {"begin", "boundary"}
  /\ LET i   == At(mio)
         end == i + B - 1
     IN IF Len(mio) < B + 2 \/ i = 0 \/ Len(mio) - end < Needed THEN Waits("boundary")
        ELSE IF SubSeq(mio, end + 1, end + 4) = <<"-", "-", "r", "n">>
          THEN Goes("finalize") /\ mio' = Behind(mio, end + 4) /\ Quiet
        ELSE Goes("got boundary") /\ UNCHANGED mio /\ Quiet

\* mg_http_multipart_process_boundary: the lines of a part's head.  at is
\* block_begin, left data_size, which is not lowered by the other lines.
LineLen(s) == SelectInSeq(s, LAMBDA b : b = "n")
LeftBehind_kept(n, len) == n
LeftBehind(n, len) == n - len
HeadLine(a) ==
  LET len == LineLen(Behind(mio, a.at))
  IN IF a.found # "" THEN a
     ELSE IF len = 0 /\ a.at + a.left > Len(mio) THEN [a EXCEPT !.found = "outside"]
     ELSE IF len = 0 \/ len > a.left THEN [a EXCEPT !.found = "nothing"]
     ELSE IF mio[a.at + 1] \in Names
       THEN [a EXCEPT !.at = @ + len, !.left = LeftBehind(@, len), !.name = mio[a.at + 1]]
     ELSE IF len = 2 THEN [a EXCEPT !.found = "end", !.at = @ + 2]
     ELSE [a EXCEPT !.at = @ + len]
PartHead == LET from == At(mio) + B + 1
         IN FoldLeft(LAMBDA a, b : HeadLine(a),
                     [at |-> from, left |-> Len(mio) - from, name |-> "", found |-> ""], mio)

Begun_always(n) == TRUE
Begun(n) == n # 0
mg_http_multipart_process_boundary ==
  /\ mp.state = "got boundary"
  /\ CASE PartHead.found = "end" ->
            /\ mio' = Behind(mio, PartHead.at)
            /\ ends' = IF Begun(mp.part) THEN ends + 1 ELSE ends
            /\ parts' = Append(parts, [name |-> PartHead.name, data |-> <<>>])
            /\ mp' = [mp EXCEPT !.state = "chunk", !.part = @ + 1] /\ busy' = TRUE /\ UNCHANGED ended
       [] PartHead.found = "outside" -> \* reads behind the buffer: anything may be found there
            ended' = "wild" /\ busy' = FALSE /\ UNCHANGED <<mio, mp, parts, ends>>
       [] OTHER -> Waits("boundary")

\* MG_EV_HTTP_PART_DATA
Data(n) == /\ parts' = [parts EXCEPT ![Len(parts)].data = @ \o SubSeq(mio, 1, n)] /\ UNCHANGED <<ends, ended>>

\* mg_http_multipart_continue_wait_for_chunk: what was there the last time is
\* handed on once a boundary cannot begin in it.
Enough_any == Len(mio) > mp.prev
Enough == Len(mio) > mp.prev + B + 4
mg_http_multipart_continue_wait_for_chunk ==
  /\ mp.state = "chunk"
  /\ LET i == At(mio)
     IN IF Len(mio) < B + 6 THEN Waits("chunk")
        ELSE IF i # 0
          THEN /\ Data(i - 1 - 4) /\ mio' = Behind(mio, i - 1)
               /\ mp' = [mp EXCEPT !.prev = 0, !.state = "boundary"] /\ busy' = TRUE
        ELSE IF mp.prev = 0
          THEN mp' = [mp EXCEPT !.prev = Len(mio)] /\ busy' = FALSE /\ UNCHANGED mio /\ Quiet
        ELSE IF Enough THEN Goes("got chunk") /\ UNCHANGED mio /\ Quiet
        ELSE Waits("chunk")

mg_http_multipart_got_chunk ==
  /\ mp.state = "got chunk"
  /\ Data(mp.prev) /\ mio' = Behind(mio, mp.prev)
  /\ mp' = [mp EXCEPT !.prev = 0, !.state = "chunk"] /\ busy' = FALSE

\* mg_http_multipart_finalize: the last part ends, also if there was none;
\* what follows the form is thrown away.
mg_http_multipart_finalize ==
  /\ mp.state = "finalize"
  /\ ends' = ends + 1 /\ ended' = "done" /\ UNCHANGED parts
  /\ mp' = [state |-> "finished", prev |-> 0, part |-> 0]
  /\ mio' = <<>> /\ busy' = FALSE

mg_http_multipart_continue ==
  /\ busy
  /\ \/ mg_http_multipart_wait_for_boundary \/ mg_http_multipart_process_boundary
     \/ mg_http_multipart_continue_wait_for_chunk \/ mg_http_multipart_got_chunk
     \/ mg_http_multipart_finalize
  /\ UNCHANGED <<form, rest>>

-----------------------------------------------------------------------------
\* MG_EV_RECV of n bytes.
Receive ==
  /\ ~busy /\ ended = "no" /\ rest # <<>>
  /\ \E n \in 1 .. Len(rest) :
       mio' = mio \o SubSeq(rest, 1, n) /\ rest' = Behind(rest, n)
  /\ busy' = TRUE /\ UNCHANGED <<form, mp, parts, ends, ended>>

\* MG_EV_CLOSE in the middle of the form.
Close ==
  /\ ~busy /\ ended = "no"
  /\ ends' = ends + 1 /\ ended' = "failed" /\ UNCHANGED <<form, rest, mio, mp, busy, parts>>

\* mg_http_multipart_begin: the head of the request has arrived.
Init ==
  /\ form \in Forms /\ rest = Body(form) /\ mio = <<>> /\ busy = TRUE
  /\ mp = [state |-> "begin", prev |-> 0, part |-> 0]
  /\ parts = <<>> /\ ends = 0 /\ ended = "no"

Next == mg_http_multipart_continue \/ Receive \/ Close

-----------------------------------------------------------------------------
\* Every variable has a value of its type.
TypeOK ==
  /\ form \in Forms /\ busy \in BOOLEAN /\ ends \in 0 .. Len(form) + 1
  /\ ended \in {"no", "done", "failed", "wild"} /\ mp.prev \in 0 .. Len(Body(form)) /\ mp.part \in 0 .. Len(form)
  /\ mp.state \in {"begin", "boundary", "got boundary", "chunk", "got chunk", "finalize", "finished"}

\* However the form arrives, the handler gets the parts by their names and in
\* order, of each the data sent and nothing else, all of it when it ends.
DataAsSent ==
  \A i \in DOMAIN parts :
    /\ i <= Len(form) /\ parts[i].name = form[i].name /\ IsPrefix(parts[i].data, form[i].data)
    /\ (i < Len(parts) \/ ended = "done") => parts[i].data = form[i].data

\* The end of a part is told once, before the next begins or the form ends; a
\* form without a part, and a connection that closes before the first, tell
\* the end of a part that never began.
EndedOnce ==
  IF ended \in {"done", "failed"} THEN ends = (IF parts = <<>> THEN 1 ELSE Len(parts))
                                  ELSE ends = (IF parts = <<>> THEN 0 ELSE Len(parts) - 1)

\* A form that has arrived as a whole has been handed on as a whole.
Finishes == rest = <<>> /\ ~busy /\ ended # "failed" => ended \in {"done", "wild"} /\ (ended = "done" => Len(parts) = Len(form))

\* Nothing is read behind the buffer, unless a head with another line than the
\* name came in pieces.
ReadsInside == ended = "wild" => \E i \in DOMAIN form : form[i].more > 0
=============================================================================
