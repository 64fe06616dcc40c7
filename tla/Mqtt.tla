-------------------------------- MODULE Mqtt --------------------------------
(***************************************************************************)
(* MQTT in mongoose.c: the writers of messages (mqtt.c), the handler that  *)
(* takes them out of a connection's buffer (parse_mqtt, mqtt_handler), and *)
(* the broker (mqtt_server.c).  mongoose calls every handler from one      *)
(* thread, so each event is one step.                                      *)
(*                                                                         *)
(* A message is a sequence of fields: its header, the length of what       *)
(* follows (below 128, so one byte; here it counts fields), and the rest.  *)
(* A connection delivers them in any pieces that end with a field or one   *)
(* byte before the end of one, the byte that parse_mqtt does not wait for. *)
(***************************************************************************)
EXTENDS Integers, SequencesExt

CONSTANTS
  Peers,     \* connections to the broker
  Programs   \* what a peer sends: set of sequences of messages (see Message)

Header(cmd, qos)      == <<"header", cmd, qos>>
Length(n)             == <<"length", n>>
Names                 == <<"names">>
Id(i)                 == <<"id", i>>
Topic(path, wild)     == <<"topic", path, wild>>
Qos(q)                == <<"qos", q>>
Bytes(text)           == <<"bytes", text>>
Code                  == <<"code">>

\* mg_mqtt_prepend_header
Message(cmd, qos, body) == <<Header(cmd, qos), Length(Len(body))>> \o body

\* mg_send_mqtt_handshake_opt: the names of the client, the will and the user.
Handshake == Message("CONNECT", 0, <<Names>>)
\* The id follows the topic.
mg_mqtt_publish(path, qos, id, text) ==
  Message("PUBLISH", qos, <<Topic(path, FALSE)>> \o (IF qos > 0 THEN <<Id(id)>> ELSE <<>>)
                            \o <<Bytes(text)>>)
\* Each expression is [path, wild, qos].
mg_mqtt_subscribe(exprs, id) ==
  Message("SUBSCRIBE", 1, <<Id(id)>> \o FlattenSeq([i \in DOMAIN exprs |->
                            <<Topic(exprs[i].path, exprs[i].wild), Qos(exprs[i].qos)>>]))
mg_mqtt_unsubscribe(paths, id) ==
  Message("UNSUBSCRIBE", 1, <<Id(id)>> \o [i \in DOMAIN paths |-> Topic(paths[i], FALSE)])
mg_mqtt_connack           == Message("CONNACK", 0, <<Code>>)
mg_mqtt_suback(qoss, id)  == Message("SUBACK", 1, <<Id(id)>> \o [i \in DOMAIN qoss |-> Qos(qoss[i])])
ShortCommand(cmd, id)     == Message(cmd, 1, <<Id(id)>>)
mg_mqtt_ping              == Message("PINGREQ", 0, <<>>)

\* Fields of one byte; a text is not empty.
OneByte(f) == f[1] \in {"header", "length", "qos"} \/ (f[1] = "bytes" /\ Len(f[2]) = 1)
MqttAssumption ==
  \A p \in Programs : \A i \in DOMAIN p :
    /\ p[i][1][1] = "header" /\ p[i][2][1] = "length"
    /\ \A j \in DOMAIN p[i] : p[i][j][1] = "bytes" => p[i][j][2] # <<>>

VARIABLES
  link,      \* a peer's connection: "none", "open", "closed"
  coming,    \* the fields it has still to deliver
  io,        \* nc->recv_mbuf
  short,     \* its last field lacks the last byte
  session,   \* nc->user_data: its session, 0 if it has none
  sessions,  \* the broker's sessions: peer, subscriptions, room for them, listed or freed
  inbox,     \* messages sent to a peer
  broken,    \* a handler did what C leaves undefined
  program,   \* history: what a peer sends
  handled,   \* history: messages handled, by their number in the program
  early,     \* history: messages handled before their last field
  crowded    \* history: peers of which a piece held more than one message

qvars == <<link, coming, io, short, session, sessions, inbox, broken, program, handled, early, crowded>>

-----------------------------------------------------------------------------
(* parse_mqtt                                                              *)

\* The end of the message in the buffer, and whether parse_mqtt takes it for
\* complete: its last byte may be missing.
End(b) == 2 + b[2][2]
Complete_later(b, lacks) == Len(b) >= 2 /\ End(b) < Len(b)
Complete(b, lacks) == Len(b) >= 2 /\ (Len(b) = 2 => ~lacks) /\ End(b) <= Len(b)
Early(b, lacks) == lacks /\ End(b) = Len(b)

\* A byte that is missing is read behind the buffer: some g.
Guess(f, g) ==
  CASE f[1] = "qos" -> Qos(g) [] f[1] = "bytes" -> Bytes([f[2] EXCEPT ![Len(f[2])] = "?"]) [] OTHER -> f
Rest(b, lacks, g) ==
  LET fields == SubSeq(b, 3, End(b))
  IN IF Early(b, lacks) THEN [fields EXCEPT ![Len(fields)] = Guess(@, g)] ELSE fields

\* The id of a message that needs an acknowledgement is looked for in front of
\* the topic: then the topic begins two bytes late with a length that is made
\* of letters, and ends behind the buffer.
Astray(b) == b[1][3] > 0
PublishOf(b, rest) ==
  IF Astray(b) THEN [topic |-> SubSeq(rest[1][2], 3, Len(rest[1][2])), payload |-> <<"id">> \o rest[3][2]]
  ELSE [topic |-> rest[1][2], payload |-> rest[2][2]]

\* mg_mqtt_next_subscribe_topic, over the whole message.
Expressions(rest) ==
  [i \in 1 .. Len(rest) \div 2 |->
     [path |-> rest[2 * i][2], wild |-> rest[2 * i][3], qos |-> rest[2 * i + 1][2]]]

-----------------------------------------------------------------------------
(* The broker                                                              *)

\* handle_subscribe copies one byte too many of each topic: the quality of
\* service, which ends the text only if it is 0; the path of an expression with
\* # is what stands before its last two characters.
Stored(e) == [path |-> IF e.qos = 0 THEN e.path ELSE Append(e.path, IF e.wild THEN "/" ELSE "qos"),
              wild |-> e.wild]

\* mg_mqtt_match_topic_expression: the comparison may run into the payload.
\* An expression with # is compared without its last two characters, and
\* not beyond the topic.
Matches(e, m, far) ==
  IF e.wild /\ ~far THEN IsPrefix(e.path, m.topic) \/ IsPrefix(m.topic, e.path)
  ELSE IsPrefix(e.path, m.topic \o m.payload)
Wanted_first(s, m, far) == s.subscriptions # <<>> /\ Matches(s.subscriptions[1], m, far)
Wanted(s, m, far) == \E i \in DOMAIN s.subscriptions : Matches(s.subscriptions[i], m, far)

Listed == {i \in DOMAIN sessions : sessions[i].listed}
Of(p)  == {i \in Listed : sessions[i].nc = p}

\* What a handler does: sends messages, changes the sessions, breaks.
Does(ss, own, sent, undefined) ==
  [sessions |-> ss, own |-> own, sent |-> sent, undefined |-> undefined]
Silence == [q \in Peers |-> <<>>]
To(p, m) == [Silence EXCEPT ![p] = <<m>>]

\* handle_connect: a session in front of the list, whatever the peer had.
Connects(p) ==
  LET s == [nc |-> p, subscriptions |-> <<>>, room |-> 0, listed |-> TRUE]
  IN Does(Append(sessions, s), Len(sessions) + 1, To(p, mg_mqtt_connack), FALSE)

\* handle_subscribe: the room is made for the new subscriptions alone.
Room_short(s, news) == Len(news) - 1
Room(s, news) == Len(news)
Subscribes(p, rest) ==
  LET exprs == Expressions(rest)
      news  == [i \in DOMAIN exprs |-> Stored(exprs[i])]
      own   == session[p]
      all   == sessions[own].subscriptions \o news
      qoss  == [i \in DOMAIN exprs |-> exprs[i].qos]
  IN IF own = 0 \/ Len(all) > Room(sessions[own], news) THEN Does(sessions, own, Silence, TRUE)
     ELSE Does([sessions EXCEPT ![own].subscriptions = all, ![own].room = Len(news)], own,
               To(p, mg_mqtt_suback(qoss, rest[1][2])), FALSE)

\* handle_publish: once to every session that wants it, without
\* acknowledgement.  A topic that ends behind the buffer cannot be sent.
Publishes(p, b, rest) ==
  LET m      == PublishOf(b, rest)
      to     == {i \in Listed : Wanted(sessions[i], m, Astray(b))}
      copies(q) == Cardinality({i \in to : sessions[i].nc = q})
      copy   == mg_mqtt_publish(m.topic, 0, 0, m.payload)
  IN Does(sessions, session[p], [q \in Peers |-> [i \in 1 .. copies(q) |-> copy]],
          \E i \in to : Astray(b) \/ link[sessions[i].nc] # "open")

\* mg_mqtt_broker: the other messages are not answered.
Handler(p, b, rest) ==
  CASE b[1][2] = "CONNECT"   -> Connects(p)
    [] b[1][2] = "SUBSCRIBE" -> Subscribes(p, rest)
    [] b[1][2] = "PUBLISH"   -> Publishes(p, b, rest)
    [] OTHER                 -> Does(sessions, session[p], Silence, FALSE)

-----------------------------------------------------------------------------
(* Events of a connection                                                  *)

Accept(p) ==
  /\ link[p] = "none" /\ ~broken
  /\ link' = [link EXCEPT ![p] = "open"]
  /\ UNCHANGED <<coming, io, short, session, sessions, inbox, broken, program, handled, early, crowded>>

\* Fault variant: what has been handled is kept.
mbuf_remove_none(b, lacks) == b

\* mbuf_remove removes nothing if there is less.
mbuf_remove(b, lacks) == IF Early(b, lacks) THEN b ELSE SubSeq(b, End(b) + 1, Len(b))

\* The number of a message in the program: what is left tells which it is.
Fields(p) == FlattenSeq(program[p])
Number(p, b) ==
  LET before == Len(Fields(p)) - Len(coming[p]) - Len(io[p])
  IN CHOOSE k \in DOMAIN program[p] : Len(FlattenSeq(SubSeq(program[p], 1, k - 1))) = before

\* A piece of n fields, the last of which lacks a byte if lacks; the byte that
\* was lacking comes first.  To stop before a byte that is a field by itself
\* is to stop before the end of it.
Piece(p, n, lacks) ==
  /\ n > 0 \/ (short[p] /\ ~lacks)
  /\ ~lacks /\ n < Len(coming[p]) => ~OneByte(coming[p][n + 1])

\* MG_EV_RECV: a piece arrives, one message is handled and removed.
Receive(p) ==
  /\ link[p] = "open" /\ ~broken
  /\ \E n \in 0 .. Len(coming[p]), lacks \in BOOLEAN, g \in {0, 1} :
       LET b == io[p] \o SubSeq(coming[p], 1, n)
           r == Handler(p, b, Rest(b, lacks, g))
           k == Number(p, b)
       IN /\ Piece(p, n, lacks)
          /\ coming' = [coming EXCEPT ![p] = SubSeq(@, n + 1, Len(@))]
          /\ short' = [short EXCEPT ![p] = lacks]
          /\ IF ~Complete(b, lacks)
               THEN /\ io' = [io EXCEPT ![p] = b]
                    /\ UNCHANGED <<session, sessions, inbox, broken, handled, early, crowded>>
               ELSE /\ sessions' = r.sessions /\ broken' = r.undefined
                    /\ session' = [session EXCEPT ![p] = r.own]
                    /\ inbox' = [q \in Peers |-> inbox[q] \o r.sent[q]]
                    /\ io' = [io EXCEPT ![p] = mbuf_remove(b, lacks)]
                    /\ handled' = [handled EXCEPT ![p] = Append(@, k)]
                    /\ early' = IF Early(b, lacks) THEN [early EXCEPT ![p] = @ \union {k}] ELSE early
                    /\ crowded' = IF Complete(io'[p], lacks) /\ ~Early(b, lacks)
                                    THEN crowded \union {p} ELSE crowded
  /\ UNCHANGED <<link, program>>

\* MG_EV_CLOSE: the session the connection knows is removed and freed.
Left_kept(i) == sessions
Left(i) == [sessions EXCEPT ![i].listed = FALSE]
Close(p) ==
  /\ link[p] = "open" /\ ~broken
  /\ link' = [link EXCEPT ![p] = "closed"]
  /\ sessions' = IF session[p] = 0 THEN sessions ELSE Left(session[p])
  /\ io' = [io EXCEPT ![p] = <<>>] /\ short' = [short EXCEPT ![p] = FALSE]
  /\ UNCHANGED <<coming, session, inbox, broken, program, handled, early, crowded>>

Init ==
  /\ link = [p \in Peers |-> "none"] /\ program \in [Peers -> Programs]
  /\ coming = [p \in Peers |-> Fields(p)]
  /\ io = [p \in Peers |-> <<>>] /\ short = [p \in Peers |-> FALSE] /\ session = [p \in Peers |-> 0] /\ sessions = <<>>
  /\ inbox = [p \in Peers |-> <<>>] /\ broken = FALSE
  /\ handled = [p \in Peers |-> <<>>] /\ early = [p \in Peers |-> {}] /\ crowded = {}

Next == \E p \in Peers : Accept(p) \/ Receive(p) \/ Close(p)
MqttSpec == Init /\ [][Next]_qvars

-----------------------------------------------------------------------------
\* Every variable has a value of its type.
TypeOK ==
  /\ link \in [Peers -> {"none", "open", "closed"}] /\ broken \in BOOLEAN /\ short \in [Peers -> BOOLEAN]
  /\ program \in [Peers -> Programs] /\ crowded \subseteq Peers
  /\ \A p \in Peers :
       /\ session[p] \in 0 .. Len(sessions) /\ IsSuffix(coming[p], Fields(p))
       /\ \A i \in DOMAIN handled[p] : handled[p][i] \in DOMAIN program[p]
       /\ early[p] \subseteq ToSet(handled[p])
  /\ \A i \in DOMAIN sessions : /\ sessions[i].nc \in Peers /\ sessions[i].listed \in BOOLEAN
                                /\ Len(sessions[i].subscriptions) <= sessions[i].room

\* The messages of a peer are handled in order and none is left out; twice
\* only one that was taken for complete before its last byte was there.
HandledInOrder ==
  \A p \in Peers : LET h == handled[p] IN
    /\ h # <<>> => h[1] = 1
    /\ \A i \in 1 .. Len(h) - 1 : \/ h[i + 1] = h[i] + 1
                                  \/ h[i + 1] = h[i] /\ h[i] \in early[p]

\* When everything has arrived everything is handled, unless some piece held
\* two messages: one piece, one message, is all mqtt_handler does.
NothingLeft ==
  \A p \in Peers \ crowded :
    link[p] = "open" /\ coming[p] = <<>> /\ ~short[p] /\ ~broken => io[p] = <<>>

Times(p, cmd) == Len(SelectSeq(handled[p], LAMBDA k : program[p][k][1][2] = cmd))
\* A peer as the broker expects it: it connects first and once, subscribes
\* once, and publishes without asking for an acknowledgement.
Orderly(p) ==
  /\ handled[p] # <<>> => program[p][1][1][2] = "CONNECT"
  /\ Times(p, "CONNECT") <= 1 /\ Times(p, "SUBSCRIBE") <= 1
  /\ \A i \in DOMAIN handled[p] : program[p][handled[p][i]][1][2] = "PUBLISH" => ~Astray(program[p][handled[p][i]])

\* A session in the list has a connection that is open, unless its peer
\* connected twice: publishing to it would use a connection that is freed.
SessionsLive == \A i \in Listed : Times(sessions[i].nc, "CONNECT") <= 1 => link[sessions[i].nc] = "open"

\* As long as all peers are orderly no handler writes behind the room for
\* the subscriptions, misses its session or uses a connection that is gone.
BreaksOnlyDisorderly == (\A p \in Peers : Orderly(p)) => ~broken

\* Who was told it is subscribed gets every later publication of the topic,
\* whole and once.
Told(q, path) ==
  /\ \E i \in DOMAIN inbox[q] : inbox[q][i][1][2] = "SUBACK"
  /\ \E i \in DOMAIN program[q] : \E j \in DOMAIN program[q][i] :
        program[q][i][1][2] = "SUBSCRIBE" /\ program[q][i][j] = Topic(path, FALSE)
           /\ program[q][i][j + 1] = Qos(0)
ReachesNow ==
  \A p, q \in Peers :
    LET k == Len(handled'[p])
        m == program[p][handled'[p][k]]
    IN (/\ Len(handled'[p]) > Len(handled[p]) /\ early'[p] = early[p] /\ ~broken'
        /\ m[1] = Header("PUBLISH", 0) /\ Told(q, m[3][2]) /\ Orderly(q) /\ early[q] = {} /\ link[q] = "open")
       => inbox'[q] = Append(inbox[q], m)
Reaches == [][ReachesNow]_qvars
=============================================================================
