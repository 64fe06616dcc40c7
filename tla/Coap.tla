-------------------------------- MODULE Coap --------------------------------
(***************************************************************************)
(* CoAP in mongoose.c: a message is made with mg_coap_add_option, composed *)
(* into a datagram, cut short or not on its way, and parsed and handed to  *)
(* the program by coap_handler.  A datagram is its bytes.                  *)
(***************************************************************************)
EXTENDS Integers, SequencesExt

CONSTANTS
  Types,             \* types of messages: subset of 0 .. MG_COAP_MSG_MAX
  Tokens, Payloads,  \* what they carry (sequences of bytes)
  Numbers, Lengths,  \* numbers of options and lengths of their values
  MaxOptions,        \* bound: options of a message
  Margin             \* bound: a datagram is cut at most this far from its ends

CoapAssumption ==
  /\ Types \subseteq 0 .. 3 /\ MaxOptions \in Nat /\ Margin \in Nat
  /\ Numbers \subseteq Nat /\ Lengths \subseteq 0 .. 65535 + 269
  /\ \A t \in Tokens \union Payloads : \A i \in DOMAIN t : t[i] \in 0 .. 255

VARIABLES
  cm,        \* the message: type, class, detail, msg_id, token, options, tail, payload
  datagram,  \* what mg_coap_compose made of it
  got,       \* what arrived
  event,     \* what the program at the other end is called with
  moment,    \* "making", "sent", "refused", "heard"
  added      \* history: the options in the order they were added

avars == <<cm, datagram, got, event, moment, added>>

Option(n, len) == [number |-> n, value |-> [i \in 1 .. len |-> 255]]

-----------------------------------------------------------------------------
(* Making a message                                                        *)

\* mg_coap_add_option: behind the tail, or in front of the first option with
\* a greater number.  The tail is where it was.
Place(os, tail, o) ==
  IF os = <<>> \/ os[tail].number <= o.number THEN Len(os) + 1
  ELSE CHOOSE i \in DOMAIN os : os[i].number > o.number /\ \A j \in 1 .. i - 1 : os[j].number <= o.number
Tail_first(tail, at) == at
TailAt(tail, at)     == IF at > tail THEN at ELSE tail + 1
mg_coap_add_option(m, o) ==
  LET at == Place(m.options, m.tail, o)
  IN [m EXCEPT !.options = InsertAt(@, at, o), !.tail = TailAt(@, at)]

-----------------------------------------------------------------------------
(* Composing it                                                            *)

\* coap_get_ext_opt_size, coap_split_opt: a delta or a length is in the first
\* byte of the option, or in one or two bytes behind it.
coap_get_ext_opt_size_byte(v) == CASE v < 13 -> 0 [] v \in 13 .. 255 -> 1 [] OTHER -> 2
coap_get_ext_opt_size(v) == CASE v < 13 -> 0 [] v \in 13 .. 255 + 13 -> 1 [] OTHER -> 2
Base(v) == CASE v < 13 -> v [] v \in 13 .. 255 + 13 -> 13 [] OTHER -> 14
coap_add_opt_info_13(v) ==
  CASE v < 13 -> <<>> [] v \in 13 .. 255 + 13 -> <<v - 13>>
    [] OTHER  -> <<((v - 13) \div 256) % 256, (v - 13) % 256>>
coap_add_opt_info(v) ==
  CASE v < 13 -> <<>> [] v \in 13 .. 255 + 13 -> <<v - 13>>
    [] OTHER  -> <<((v - 269) \div 256) % 256, (v - 269) % 256>>

Before(os, i) == IF i = 1 THEN 0 ELSE os[i - 1].number
Delta(os, i)  == os[i].number - Before(os, i)

\* coap_calculate_packet_size: the order of the options is checked, and the
\* room counted.
Composable(m) ==
  /\ Len(m.token) <= 8
  /\ \A i \in DOMAIN m.options : /\ i > 1 => Delta(m.options, i) >= 0
                                 /\ Delta(m.options, i) <= 65535 + 269
                                 /\ Len(m.options[i].value) <= 65535 + 269
OptionSize(os, i) ==
  1 + coap_get_ext_opt_size(Delta(os, i)) + coap_get_ext_opt_size(Len(os[i].value)) + Len(os[i].value)
coap_calculate_packet_size(m) ==
  4 + Len(m.token) + (IF m.payload = <<>> THEN 0 ELSE Len(m.payload) + 1)
    + FoldLeftDomain(LAMBDA n, i : n + OptionSize(m.options, i), 0, m.options)

\* mg_coap_compose
ComposeHeader(m) ==
  <<64 + 16 * m.type + Len(m.token), 32 * m.class + m.detail, m.msg_id \div 256, m.msg_id % 256>>
ComposeOption(os, i) ==
  <<16 * Base(Delta(os, i)) + Base(Len(os[i].value))>> \o coap_add_opt_info(Delta(os, i))
    \o coap_add_opt_info(Len(os[i].value)) \o os[i].value
mg_coap_compose(m) ==
  ComposeHeader(m) \o m.token
    \o FlattenSeq([i \in DOMAIN m.options |-> ComposeOption(m.options, i)])
    \o (IF m.payload = <<>> THEN <<>> ELSE <<255>> \o m.payload)

-----------------------------------------------------------------------------
(* Parsing it                                                              *)

Parsed(flag, os, rest) == [flag |-> flag, options |-> os, rest |-> rest]
Bad(flag) == Parsed(flag, <<>>, 0)

\* coap_get_ext_opt: the value of a delta or length, and the bytes it took;
\* -1 if there are not enough.  Values have 16 bits.
coap_get_ext_opt_lax(d, p, base) ==
  CASE base = 13 /\ p <= Len(d)     -> <<d[p] + 13, 1>>
    [] base = 14 /\ p + 1 <= Len(d) -> <<(256 * d[p] + d[p + 1] + 269) % 65536, 2>>
    [] OTHER                        -> <<base, 0>>
coap_get_ext_opt(d, p, base) ==
  CASE base = 13 /\ p <= Len(d)     -> <<d[p] + 13, 1>>
    [] base = 14 /\ p + 1 <= Len(d) -> <<(256 * d[p] + d[p + 1] + 269) % 65536, 2>>
    [] base < 13                    -> <<base, 0>>
    [] OTHER                        -> <<0, -1>>

\* coap_get_options from position p of datagram d on; option numbers have 16
\* bits.
RECURSIVE coap_get_options(_, _, _, _)
coap_get_options(d, p, prev, os) ==
  IF p > Len(d) \/ d[p] = 255 THEN Parsed("ok", os, p + 1)
  ELSE LET db     == d[p] \div 16
           lb     == d[p] % 16
           delta  == coap_get_ext_opt(d, p + 1, db)
           length == coap_get_ext_opt(d, p + 1 + delta[2], lb)
           start  == p + 1 + delta[2] + length[2]
           number == (delta[1] + prev) % 65536
           option == [number |-> number, value |-> SubSeq(d, start, start + length[1] - 1)]
       IN IF db = 15 \/ lb = 15 THEN Bad("format")
          ELSE IF delta[2] = -1 \/ length[2] = -1 \/ start + length[1] > Len(d) + 1 THEN Bad("not enough")
          ELSE coap_get_options(d, start + length[1], number,
                 mg_coap_add_option([options |-> os, tail |-> Len(os)], option).options)

\* coap_parse_header, coap_get_token: what is wrong with the beginning.
TokenLength(d) == d[1] % 16
coap_parse_header(d) ==
  IF Len(d) < 4 THEN "not enough"
  ELSE IF d[1] \div 64 # 1 THEN "ignore"
  ELSE IF TokenLength(d) > 8 THEN "format" ELSE "ok"
coap_get_token(d) == IF 4 + TokenLength(d) > Len(d) THEN "not enough" ELSE "ok"

\* mg_coap_parse: the header, the token, the options, and the rest is payload.
Nothing == [flag |-> "none"]
mg_coap_parse(d) ==
  LET r == coap_get_options(d, 5 + TokenLength(d), 0, <<>>)
  IN CASE coap_parse_header(d) # "ok" -> [flag |-> coap_parse_header(d)]
       [] coap_parse_header(d) = "ok" /\ coap_get_token(d) # "ok" -> [flag |-> coap_get_token(d)]
       [] OTHER ->
            IF r.flag # "ok" THEN [flag |-> r.flag]
            ELSE [flag |-> "ok", type |-> (d[1] \div 16) % 4, class |-> d[2] \div 32, detail |-> d[2] % 32,
                  msg_id |-> 256 * d[3] + d[4], token |-> SubSeq(d, 5, 4 + TokenLength(d)),
                  options |-> r.options, payload |-> SubSeq(d, r.rest, Len(d))]

\* coap_handler: MG_COAP_IGNORE has the bit of every error, so a message with
\* one is never handed on.
Handed(m) == IF m.flag = "ok" THEN m ELSE Nothing

-----------------------------------------------------------------------------
Fresh(type, token, payload) ==
  [type |-> type, class |-> 2, detail |-> 5, msg_id |-> 513, token |-> token, options |-> <<>>,
   tail |-> 0, payload |-> payload]

\* mg_coap_send_ack sends a message that has nothing but its type and id.
Acknowledgement(id) == [Fresh(2, <<>>, <<>>) EXCEPT !.class = 0, !.detail = 0, !.msg_id = id]

Add ==
  /\ moment = "making" /\ Len(cm.options) < MaxOptions
  /\ \E n \in Numbers, len \in Lengths :
       /\ cm' = mg_coap_add_option(cm, Option(n, len))
       /\ added' = Append(added, Option(n, len))
  /\ UNCHANGED <<datagram, got, event, moment>>

\* mg_coap_send_message
Send ==
  /\ moment = "making"
  /\ IF Composable(cm) THEN datagram' = mg_coap_compose(cm) /\ moment' = "sent"
     ELSE datagram' = <<>> /\ moment' = "refused"
  /\ UNCHANGED <<cm, got, event, added>>

\* A datagram arrives, whole or cut short, and is forgotten; the program's
\* handler, which sees it first, leaves it as it is.
Cuts(n) == {i \in 0 .. n : i <= Margin \/ i >= n - Margin}
Arrive ==
  /\ moment = "sent" /\ moment' = "heard"
  /\ \E n \in Cuts(Len(datagram)) :
       LET d == SubSeq(datagram, 1, n)
       IN got' = d /\ event' = Handed(mg_coap_parse(d))
  /\ UNCHANGED <<cm, datagram, added>>

Init ==
  /\ datagram = <<>> /\ got = <<>> /\ event = Nothing /\ moment = "making" /\ added = <<>>
  /\ \/ cm = Acknowledgement(65535)
     \/ \E type \in Types, t \in Tokens, p \in Payloads : cm = Fresh(type, t, p)

Next == Add \/ Send \/ Arrive
CoapSpec == Init /\ [][Next]_avars

-----------------------------------------------------------------------------
\* Every variable has a value of its type.
TypeOK ==
  /\ moment \in {"making", "sent", "refused", "heard"} /\ Len(added) = Len(cm.options)
  /\ cm.tail \in 0 .. Len(cm.options)
  /\ \A i \in DOMAIN datagram : datagram[i] \in 0 .. 255

\* In whatever order options are added, they end up by number, those of one
\* number in the order they were added, and the tail is the last of them.
OptionsInOrder ==
  /\ cm.tail = Len(cm.options)
  /\ \A i \in 1 .. Len(cm.options) - 1 : cm.options[i].number <= cm.options[i + 1].number
  /\ \A n \in Numbers : LET Same(o) == o.number = n
                        IN SelectSeq(cm.options, Same) = SelectSeq(added, Same)

\* The room that was counted is the room that is filled.
RoomIsExact == moment \in {"sent", "heard"} => Len(datagram) = coap_calculate_packet_size(cm)

Narrow == \A i \in DOMAIN cm.options : cm.options[i].number < 65536
\* What is sent is heard as it was, if option numbers have 16 bits; the
\* composer lets greater ones pass, they arrive without their upper bits.
HeardAsSent ==
  moment = "heard" /\ got = datagram /\ Narrow =>
    /\ event.flag = "ok" /\ event.type = cm.type /\ event.class = cm.class
    /\ event.detail = cm.detail /\ event.msg_id = cm.msg_id
    /\ event.token = cm.token /\ event.options = cm.options /\ event.payload = cm.payload

\* What was cut short is heard as a message with the same first options and
\* the beginning of the payload, or not at all.
CutIsShorter ==
  moment = "heard" /\ event # Nothing /\ Narrow =>
    /\ event.token = cm.token /\ IsPrefix(event.options, cm.options)
    /\ IsPrefix(event.payload, cm.payload)
    /\ event.payload # <<>> => event.options = cm.options
=============================================================================
