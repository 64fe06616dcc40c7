------------------------------- MODULE MgDns -------------------------------
(***************************************************************************)
(* DNS messages in mongoose.c: a query is made (mg_send_dns_query), parsed *)
(* by a server that answers it record by record (dns_server.c), and the    *)
(* answer is parsed and its first address taken (resolve_cb).  A message   *)
(* is its bytes and may be cut short on its way.                           *)
(*                                                                         *)
(* A name is a sequence of characters; its labels are what stands between  *)
(* the dots.                                                               *)
(***************************************************************************)
EXTENDS Integers, SequencesExt

CONSTANTS
  Names,       \* names that are asked for
  Records,     \* what a server may answer: set of [rtype, data]
  MaxAnswers,  \* MG_MAX_DNS_ANSWERS
  NameRoom,    \* room for a name that is put together
  MaxRecords,  \* bound: records a server tries to add
  Margin       \* bound: a message is cut at most this far from its end

Dot == 46
A == 1
CNAME == 5
DnsAssumption ==
  /\ MaxAnswers \in Nat \ {0} /\ NameRoom \in Nat /\ MaxRecords \in Nat /\ Margin \in Nat
  /\ \A n \in Names : \A i \in DOMAIN n : n[i] \in 0 .. 255
  /\ \A r \in Records : r.rtype \in {A, CNAME} /\ \A i \in DOMAIN r.data : r.data[i] \in 0 .. 255

VARIABLES
  asked,     \* the name
  query,     \* the bytes of the query
  reply,     \* the bytes of the reply (pkt of the server)
  given,     \* the records the server could add
  refused,   \* and how many it could not, which left bytes behind
  answer,    \* the message as it was parsed, and its first address
  step       \* "asking", "asked", "serving", "served", "heard"

dvars == <<asked, query, reply, given, refused, answer, step>>

-----------------------------------------------------------------------------
(* Writing                                                                 *)

Two(n) == <<n \div 256, n % 256>>

\* The labels of a name: a dot at the end leaves an empty one.
Labels(name) ==
  LET dots == SetToSortSeq({i \in DOMAIN name : name[i] = Dot} \union {0, Len(name) + 1}, <)
  IN [i \in 1 .. Len(dots) - 1 |-> SubSeq(name, dots[i] + 1, dots[i + 1] - 1)]

\* mg_dns_encode_name writes up to the first label that is too long.
Whole(ls) == \A i \in DOMAIN ls : Len(ls[i]) <= 127
Writable(ls) == IF Whole(ls) THEN Len(ls)
                ELSE (CHOOSE i \in DOMAIN ls : Len(ls[i]) > 127 /\ Whole(SubSeq(ls, 1, i - 1))) - 1
Encoded_dotted(name) ==
  LET ls == Labels(name)
  IN FlattenSeq([i \in DOMAIN ls |-> <<Len(ls[i]) + (IF i < Len(ls) THEN 1 ELSE 0)>> \o ls[i]]) \o <<0>>
Encoded(name) ==
  LET ls == Labels(name)
  IN FlattenSeq([i \in 1 .. Writable(ls) |-> <<Len(ls[i])>> \o ls[i]])
     \o (IF Whole(ls) THEN <<0>> ELSE <<>>)
Encodes(name) == Whole(Labels(name))

\* mg_dns_insert_header: transaction, flags, and the numbers of records.
mg_dns_insert_header(flags, questions, answers) ==
  Two(161) \o Two(flags) \o Two(questions) \o Two(answers) \o <<0, 0, 0, 0>>

\* mg_dns_encode_record.  The size of a name stands in front of it, and is
\* that of rclass until the name is written.
Question(name) == Encoded(name) \o Two(A) \o Two(1)
SizeOf_type(r, bytes) == Two(1)
SizeOf(r, bytes) == IF r.rtype = CNAME /\ ~Encodes(r.data) THEN Two(1) ELSE Two(Len(bytes))
Answer(name, r) ==
  LET bytes == IF r.rtype = CNAME THEN Encoded(r.data) ELSE r.data
  IN Encoded(name) \o (IF ~Encodes(name) THEN <<>>
       ELSE Two(r.rtype) \o Two(1) \o <<0, 0, 0, 60>> \o SizeOf(r, bytes) \o bytes)

-----------------------------------------------------------------------------
(* Parsing                                                                 *)

At(d, p)    == 256 * d[p] + d[p + 1]
Count(d, p) == At(d, p)

\* Where the name at p ends; a byte of 64 or more begins a pointer.
RECURSIVE NameEnd(_, _)
NameEnd(d, p) ==
  IF p > Len(d) \/ d[p] = 0 THEN p
  ELSE IF d[p] >= 64 THEN p + 1
  ELSE NameEnd(d, p + d[p] + 1)

\* mg_parse_dns_resource_record; next is where the following one begins.
NoRecord == [name |-> 0, rtype |-> 0, rdata |-> 0, size |-> 0, next |-> 0]
TailMissing(d, p) == p >= Len(d) - 5
mg_parse_dns_resource_record(d, p, isReply) ==
  LET e == NameEnd(d, p)
      q == [name |-> p, rtype |-> At(d, e + 1), rdata |-> 0, size |-> 0, next |-> e + 5]
  IN IF e > Len(d) - 4 THEN NoRecord
     ELSE IF ~isReply THEN q
     ELSE IF TailMissing(d, e + 5) THEN NoRecord
     ELSE [q EXCEPT !.rdata = e + 11, !.size = At(d, e + 9), !.next = e + 11 + At(d, e + 9)]

RECURSIVE Parse(_, _, _, _, _)
Parse(d, p, questions, answers, rs) ==
  LET r == mg_parse_dns_resource_record(d, p, questions = 0)
  IN IF questions = 0 /\ answers = 0 THEN [ok |-> TRUE, records |-> rs]
     ELSE IF r = NoRecord THEN [ok |-> FALSE, records |-> <<>>]
     ELSE IF questions > 0 THEN Parse(d, r.next, questions - 1, answers, Append(rs, r))
     ELSE Parse(d, r.next, 0, answers - 1, Append(rs, r))

Capped(n) == IF n > MaxAnswers THEN MaxAnswers ELSE n
\* mg_parse_dns
mg_parse_dns(d) ==
  IF Len(d) < 12 THEN [ok |-> FALSE, questions |-> 0, records |-> <<>>]
  ELSE LET qs == Capped(Count(d, 5))
           m  == Parse(d, 13, qs, Capped(Count(d, 7)), <<>>)
       IN [ok |-> m.ok, questions |-> qs, records |-> m.records]

\* mg_dns_uncompress_name: the labels of the name at p with dots between
\* them, as far as there is room.  It gives nothing if it meets the end.
RECURSIVE Uncompressed(_, _, _)
Uncompressed(d, p, dst) ==
  LET n == d[p]
      m == IF n > NameRoom - Len(dst) THEN NameRoom - Len(dst) ELSE n
      o == dst \o SubSeq(d, p + 1, p + m)
  IN IF n = 0 THEN (IF dst = <<>> THEN dst ELSE Front(dst))
     ELSE IF p + 1 > Len(d) THEN <<>>
     ELSE IF n >= 64
       THEN LET off == 256 * (n % 64) + d[p + 1]
            IN IF off >= Len(d) THEN <<>> ELSE Uncompressed(d, off + 1, dst)
     ELSE IF p + 1 + m > Len(d) THEN <<>>
     ELSE IF Len(o) = NameRoom THEN o
     ELSE Uncompressed(d, p + 1 + m, Append(o, Dot))
mg_dns_uncompress_name(d, p) == IF p > Len(d) THEN <<>> ELSE Uncompressed(d, p, <<>>)

\* mg_dns_parse_record_data for an address: four bytes, whatever the size
\* says, if they are there.
Present_any(d, r) == TRUE
Present(d, r) == r.rdata + 3 <= Len(d)
NoAddress == <<>>
ByteAt(d, p) == IF p <= Len(d) THEN d[p] ELSE 0
AddressOf(d, r) == IF Present(d, r) THEN [i \in 1 .. 4 |-> ByteAt(d, r.rdata + i - 1)] ELSE NoAddress

-----------------------------------------------------------------------------
(* The server                                                              *)

\* mg_dns_create_reply: the questions as they came.
Questions(d, m) == IF m.questions = 0 THEN <<>> ELSE SubSeq(d, 13, m.records[m.questions].next - 1)
\* mg_dns_reply_record asks for the name of the question.  If it gets none
\* it takes what is in rname, which nobody has set.
AskedName(d, m) == mg_dns_uncompress_name(d, m.records[1].name)
Rubbish == {<<35>>}

\* mg_dns_send_reply: the header goes in front when all records are there.
\* 33152 is reply, recursion wanted and allowed.
mg_dns_send_reply(body, m, n) == mg_dns_insert_header(33152, m.questions, n) \o body

\* A query that cannot be parsed is sent back behind a header that says so.
FormatError(d) == mg_dns_insert_header(32897, 0, 0) \o d

Cuts(n) == {i \in 0 .. n : i >= n - Margin}
Parsed == mg_parse_dns(query)

Ask ==
  /\ step = "asking" /\ step' = "asked"
  /\ query' = mg_dns_insert_header(256, 1, 0) \o Question(asked)
  /\ Encodes(asked)
  /\ UNCHANGED <<asked, reply, given, refused, answer>>

\* dns_handler of the server
Serve ==
  /\ step = "asked"
  /\ \E n \in Cuts(Len(query)) :
       LET d == SubSeq(query, 1, n)
           m == mg_parse_dns(d)
       IN IF m.ok THEN /\ step' = "serving" /\ query' = d /\ reply' = Questions(d, m)
          ELSE /\ step' = "served" /\ reply' = FormatError(d) /\ query' = d
  /\ UNCHANGED <<asked, given, refused, answer>>

\* mg_dns_reply_record: one that cannot be written is not counted, but what
\* was written of it stays.
mg_dns_reply_record ==
  /\ step = "serving" /\ Len(given) + refused < MaxRecords
  /\ \E r \in Records, name \in IF AskedName(query, Parsed) = <<>> THEN Rubbish ELSE {AskedName(query, Parsed)} :
       LET room  == Len(given) < MaxAnswers
           added == Encodes(name) /\ (r.rtype = CNAME => Encodes(r.data))
       IN /\ reply' = IF room THEN reply \o Answer(name, r) ELSE reply
          /\ given' = IF room /\ added THEN Append(given, r) ELSE given
          /\ refused' = refused + (IF room /\ ~added THEN 1 ELSE 0)
  /\ UNCHANGED <<asked, query, answer, step>>

SendReply ==
  /\ step = "serving" /\ step' = "served"
  /\ reply' = mg_dns_send_reply(reply, Parsed, Len(given))
  /\ UNCHANGED <<asked, query, given, refused, answer>>

\* mg_resolve_async_eh and resolve_cb: a message with a record, and of those
\* the first that is an address.
Heard(d) ==
  LET m  == mg_parse_dns(d)
      rs == SubSeq(m.records, m.questions + 1, Len(m.records))
      as == SelectSeq(rs, LAMBDA r : r.rtype = A)
      ok == m.ok /\ rs # <<>>
  IN [cut |-> Len(d) < Len(reply), ok |-> ok, records |-> IF ok THEN rs ELSE <<>>,
      address |-> IF ok /\ as # <<>> THEN AddressOf(d, as[1]) ELSE NoAddress, bytes |-> d]
Hear ==
  /\ step = "served" /\ step' = "heard"
  /\ \E n \in Cuts(Len(reply)) : answer' = Heard(SubSeq(reply, 1, n))
  /\ UNCHANGED <<asked, query, reply, given, refused>>

Init ==
  /\ asked \in Names /\ query = <<>> /\ reply = <<>> /\ given = <<>> /\ refused = 0
  /\ answer = [ok |-> FALSE] /\ step = "asking"

Next == Ask \/ Serve \/ mg_dns_reply_record \/ SendReply \/ Hear
DnsSpec == Init /\ [][Next]_dvars

-----------------------------------------------------------------------------
\* Every variable has a value of its type.
TypeOK ==
  /\ asked \in Names /\ refused \in 0 .. MaxRecords /\ Len(given) <= MaxAnswers
  /\ step \in {"asking", "asked", "serving", "served", "heard"}
  /\ \A i \in DOMAIN reply : reply[i] \in 0 .. 255

\* A name that DNS allows: labels of 1 to 63 characters, no dot at the end.
Proper(name) == \A i \in DOMAIN Labels(name) : Len(Labels(name)[i]) \in 1 .. 63

\* The server is asked for the name that was meant, if there is room for it.
QuestionComesBack ==
  step = "serving" /\ Proper(asked) /\ Len(asked) < NameRoom =>
    AskedName(query, Parsed) = asked

\* The records that were added arrive in their order with what they say,
\* unless one that could not be added left its beginning among them.
RecordData(d, r) ==
  IF r.rtype = A THEN AddressOf(d, r) ELSE mg_dns_uncompress_name(d, r.rdata)
AnswersAsGiven ==
  step = "heard" /\ answer.ok /\ ~answer.cut /\ refused = 0 /\ Proper(asked) =>
    /\ Len(answer.records) = Len(given)
    /\ \A i \in DOMAIN given :
         given[i].rtype = A \/ (Proper(given[i].data) /\ Len(given[i].data) < NameRoom) =>
           /\ answer.records[i].rtype = given[i].rtype
           /\ RecordData(answer.bytes, answer.records[i]) = given[i].data

\* From a reply that was cut short no other address is taken than from the
\* whole one.
CutGivesNoOther ==
  step = "heard" /\ answer.ok /\ refused = 0 /\ Proper(asked) =>
    answer.address \in {NoAddress} \union {given[i].data : i \in {j \in DOMAIN given : given[j].rtype = A}}
=============================================================================
