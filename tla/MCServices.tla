----------------------------- MODULE MCServices -----------------------------
(***************************************************************************)
(* The network services and libraries, one at a time: those of Network     *)
(* (the HTTP client, lookups, the TFTP server, NTP, SNTP, ping and the     *)
(* discovery by UDP), and the local HTTP mode, the JSON library,           *)
(* mongoose's DNS messages, websockets, MQTT, CoAP and forms, and telnet.  *)
(* which says whose states these are, the variables of the others stay 0.  *)
(***************************************************************************)
EXTENDS Network, TLC

VARIABLES
  poll, readable, writable, listener, conn, client, oom, starved,
  stage, doc, text, behind, whole, mem, outcome,
  heap, held, orig, stale, fault,
  asked, query, dns_reply, given, refused, dns_answer, step,
  ws_coming, recv_mbuf, delivered, closing, undefined, over, role, ws_program,
  link, mqtt_coming, io, short, mqtt_session, sessions, inbox, broken, mqtt_program, handled,
  early, crowded,
  cm, datagram, got, event, moment, added,
  tstate, rx, tx, notice, tpc, todo, shell, logs, chunk, console, typing, tel_coming,
  tel_session, linked, input, cooked, escapes, full, put, sent, raced,
  form, rest, mio, mp, busy, parts, ends, ended

modeVars == <<poll, readable, writable, listener, conn, client, oom, starved>>
textVars == <<stage, doc, text, behind, whole, mem, outcome>>
treeVars == <<heap, held, orig, stale, fault>>
namesVars == <<asked, query, dns_reply, given, refused, dns_answer, step>>
websocketVars == <<ws_coming, recv_mbuf, delivered, closing, undefined, over, role, ws_program>>
mqttVars == <<link, mqtt_coming, io, short, mqtt_session, sessions, inbox, broken, mqtt_program,
              handled, early, crowded>>
coapVars == <<cm, datagram, got, event, moment, added>>
telnetVars == <<tstate, rx, tx, notice, tpc, todo, shell, logs, chunk, console, typing,
                tel_coming, tel_session, linked, input, cooked, escapes, full, put, sent, raced>>
formVars == <<form, rest, mio, mp, busy, parts, ends, ended>>
libraryVars == <<modeVars, textVars, treeVars, namesVars, websocketVars, mqttVars, coapVars,
                 telnetVars, formVars>>
vars == <<networkVars, libraryVars>>

-----------------------------------------------------------------------------
(* The HTTP client                                                         *)

Reply(status, location, coding, chunks, document) ==
  [status |-> status, location |-> location, coding |-> coding, chunks |-> chunks, doc |-> document]
Two == <<<<1, 2>>, <<3>>>>
Replies ==
  {Reply(200, FALSE, c, Two, "address") : c \in {"length", "chunked", "close"}}
  \union {Reply(200, FALSE, c, <<>>, "junk") : c \in {"length", "chunked"}}
  \union {Reply(302, TRUE, c, <<>>, "junk") : c \in {"length", "chunked"}}
  \union {Reply(200, FALSE, "chunked", <<<<4>>>>, "other"), Reply(404, FALSE, "close", Two, "junk")}

-----------------------------------------------------------------------------
(* The local HTTP mode                                                     *)

Request(uri, coding, pieces) == [uri |-> uri, coding |-> coding, parts |-> pieces]
Short   == <<Request("info", "none", 0)>>
Chunked == Request("other", "chunked", 1)
Streams ==
  "a" :> {Short, <<Request("other", "length", 1), Request("info", "none", 0)>>,
          <<Request("other", "chunked", 2)>>, <<Chunked, Chunked>>, <<Chunked, Request("info", "none", 0)>>,
          <<Request("other", "endless", 1)>>,
          <<Request("info", "none", 0), Request("other", "junk", 0)>>}
  @@ "b" :> {<<>>, <<Request("other", "none", 0)>>}

M == INSTANCE LocalMode WITH Clients <- {"a", "b"}, Quitters <- {"a"}, MaxRequest <- 4, MaxOom <- 1

\* A second client only beside the shortest stream of the first.
ModeInit == M!Init /\ (client["b"].stream # <<>> => client["a"].stream = Short)

-----------------------------------------------------------------------------
(* JSON                                                                    *)

CodePoints == {1, 127, 128, 2047, 2048, 55295, 65535, 65536, 1114111}
J == INSTANCE JsonText WITH Values <- {}, MaxAllocs <- 16

Inner == J!Object(<<J!Named(<<"a">>, J!Number(<<"1", "2">>)),
                    J!Named(<<"\n", "b">>, J!String(<<"x", "\"", "^A", "\\">>))>>)
Documents ==
  {Inner, J!Array(<<>>), J!Object(<<>>),
   J!Array(<<J!Null, J!Array(<<J!True, Inner>>), J!String(<<>>)>>),
   J!Object(<<J!Named(<<"b">>, J!Array(<<J!Number(<<"0">>), J!Object(<<>>)>>)), J!Named(<<>>, J!Null)>>)}

D == INSTANCE JsonText WITH Values <- Documents, MaxAllocs <- 16
T == INSTANCE JsonTree WITH N <- 4, MaxReferences <- 1

-----------------------------------------------------------------------------
(* mongoose                                                                *)

\* Names with labels at the limits of 63 bytes and of NameRoom, and one that
\* ends in a dot.
Letters(n) == [i \in 1 .. n |-> 97]
AskedNames == {Letters(1), <<97, 98, 46, 99>>, Letters(64), <<97, 46>>, Letters(5) \o <<46>> \o Letters(3)}
Records ==
  {[rtype |-> 1, data |-> <<1, 2, 3, 4>>], [rtype |-> 1, data |-> <<5, 6, 7, 8>>],
   [rtype |-> 5, data |-> <<98, 46, 97>>], [rtype |-> 5, data |-> <<97, 46>> \o Letters(128)]}
N == INSTANCE MgDns WITH Names <- AskedNames, MaxAnswers <- 2, NameRoom <- 8, MaxRecords <- 3,
       Margin <- 12, reply <- dns_reply, answer <- dns_answer

Frame(fin, opcode, data) == [fin |-> fin, op |-> opcode, data |-> data]
Frames ==
  {<<Frame(TRUE, "text", <<1>>), Frame(TRUE, "ping", <<>>), Frame(TRUE, "text", <<1, 2, 3, 4>>),
     Frame(TRUE, "close", <<>>)>>,
   <<Frame(FALSE, "text", <<1, 2, 3>>), Frame(FALSE, "continue", <<4>>), Frame(TRUE, "continue", <<5, 6>>),
     Frame(TRUE, "text", <<7>>)>>,
   <<Frame(FALSE, "text", <<1>>), Frame(TRUE, "ping", <<2>>), Frame(TRUE, "continue", <<3>>)>>,
   <<Frame(TRUE, "close", <<>>), Frame(TRUE, "text", <<1>>)>>,
   <<Frame(FALSE, "text", <<1>>), Frame(TRUE, "continue", <<8, 2>>), Frame(TRUE, "close", <<>>)>>}
S == INSTANCE WebSocket WITH Programs <- Frames, Roles <- {"server", "client"}, Len7 <- 2, Len16 <- 4,
       coming <- ws_coming, program <- ws_program

\* The writers of messages, for the programs of the peers.
Writer == INSTANCE Mqtt WITH Peers <- {}, Programs <- {}, coming <- mqtt_coming,
            program <- mqtt_program, session <- mqtt_session
Wish(path, wild, q) == [path |-> path, wild |-> wild, qos |-> q]
Subscribe(wishes)   == Writer!mg_mqtt_subscribe(wishes, 1)
Publish(path, q)    == Writer!mg_mqtt_publish(path, q, 7, <<"x">>)
Publisher(q)        == <<Writer!Handshake, Publish(IF q = 0 THEN <<"a">> ELSE <<"c", "d", "a">>, q)>>
Subscribers ==
  {<<Writer!Handshake, Subscribe(<<Wish(<<"b">>, FALSE, 0), Wish(<<"a">>, FALSE, 0)>>)>>,
   <<Writer!Handshake, Subscribe(<<Wish(<<"a">>, TRUE, 0), Wish(<<"a", "x">>, FALSE, 1)>>)>>,
   <<Writer!Handshake, Subscribe(<<Wish(<<"a">>, FALSE, 0)>>), Subscribe(<<Wish(<<"b">>, FALSE, 0)>>)>>,
   <<Writer!Handshake, Writer!Handshake, Writer!ShortCommand("PUBREL", 3)>>,
   <<Subscribe(<<Wish(<<"a">>, FALSE, 0)>>), Writer!mg_mqtt_unsubscribe(<<<<"a">>>>, 2), Writer!mg_mqtt_ping>>}
Q == INSTANCE Mqtt WITH Peers <- {"a", "b"}, Programs <- Subscribers \union {Publisher(0), Publisher(1)},
       coming <- mqtt_coming, program <- mqtt_program, session <- mqtt_session

\* One peer publishes, with an id if the other subscribes twice.
MqttInit ==
  /\ Q!Init /\ mqtt_program["a"] \in Subscribers
  /\ mqtt_program["b"] = Publisher(IF Len(mqtt_program["a"]) = 3 /\ mqtt_program["a"][2] # Writer!Handshake THEN 1 ELSE 0)

C == INSTANCE Coap WITH Types <- {0, 3}, Tokens <- {<<>>, <<255, 0, 17, 34, 51, 68, 85, 102>>},
       Payloads <- {<<>>, <<255, 1>>}, Numbers <- {12, 269, 65600}, Lengths <- {0, 269},
       MaxOptions <- 2, Margin <- 6

\* Forms without and with parts, with data that looks like the beginning of a
\* boundary or is longer than what is kept back for one.
Field(name, more, data) == [name |-> name, more |-> more, data |-> data]
Feint == <<"r", "n", "-", "-", "b", "x", "b">>
H == INSTANCE Multipart WITH Boundary <- <<"b", "c">>, Names <- {"Na", "Nb"}, Forms <-
       {<<>>, <<Field("Na", 0, <<"x">>), Field("Nb", 0, <<>>)>>, <<Field("Na", 1, Feint)>>,
        <<Field("Nb", 0, Feint \o <<"y">> \o Feint \o <<"r", "n", "-", "-", "b">>)>>}

-----------------------------------------------------------------------------
(* TFTP and telnet                                                         *)

AllJobs == {"read", "write"} \X {"good", "bad", "long"}

\* A client that reads beside one whose name is too long, or one that reads
\* and one that writes.
TftpBegins ==
  \/ /\ user["a"].job \in {<<"read", "good">>, <<"write", "good">>, <<"write", "bad">>, <<"read", "bad">>}
     /\ user["b"].job = <<"read", "long">> /\ faults = 1
  \/ user["a"].job = <<"read", "good">> /\ user["b"].job = <<"write", "good">> /\ faults = 0

LineEnd == <<"nl">>
Iac     == <<"iac">>
Typings ==
  {<<>>, <<LineEnd>>, <<LineEnd, LineEnd>>, <<Iac, Iac, LineEnd>>, <<Iac, <<"do">>, Iac, <<"cr">>>>,
   <<Iac, LineEnd, LineEnd>>}
L == INSTANCE Telnet WITH RxSize <- 2, TxSize <- 4, ChunkSize <- 3, Piece <- 2, MaxSessions <- 2,
       MaxLogs <- 1, Typings <- Typings, coming <- tel_coming, session <- tel_session

TelnetInit ==
  /\ L!Init
  /\ <<typing[1], typing[2], logs[2]>> \in
       {<<<<>>, <<>>, 0>>, <<<<LineEnd, LineEnd>>, <<LineEnd>>, 1>>}
         \union {<<t, <<>>, 1>> : t \in {t \in Typings : t # <<>> /\ t[1] = Iac}}

-----------------------------------------------------------------------------
(* The time                                                                *)

\* One call that asks all servers, or two that ask one each and lose nothing.
NtpBegins ==
  /\ npc["clock"] = "call" /\ hosts["shell"].left = {"s"}
  /\ \/ npc["shell"] = "done"
     \/ npc["shell"] = "call" /\ hosts["clock"].left = {"s"} /\ tick = 0 /\ misses = 1

-----------------------------------------------------------------------------
(* The discovery by UDP                                                    *)

\* The password, a part of it, the password with more behind it, and nothing.
Knock == <<1, 2, 3>>
Datagram(from, data) == [from |-> from, data |-> data]
Beeps == {Datagram("a", Knock), Datagram("b", <<1, 2>>), Datagram("c", <<1, 2, 3, 4, 5, 6>>), Datagram("d", <<>>)}

-----------------------------------------------------------------------------
(* What the modules assume of their constants.                             *)
ASSUME M!LocalModeAssumption /\ T!NAssumption /\ N!DnsAssumption /\ S!WebSocketAssumption
ASSUME Q!MqttAssumption /\ C!CoapAssumption /\ L!TelnetAssumption /\ H!MultipartAssumption

-----------------------------------------------------------------------------
Init ==
  /\ which \in {"request", "resolve", "tftp", "ntp", "sntp", "ping", "finder",
       "mode", "text", "tree", "names", "websocket", "mqtt", "coap", "telnet", "form"}
  /\ NetworkInit /\ (which = "tftp" => TftpBegins) /\ (which = "ntp" => NtpBegins)
  /\ IF which = "mode" THEN ModeInit
     ELSE /\ poll = 0 /\ readable = 0 /\ writable = 0 /\ listener = 0 /\ conn = 0
          /\ client = 0 /\ oom = 0 /\ starved = 0
  /\ IF which = "text" THEN D!Init
     ELSE /\ stage = 0 /\ doc = 0 /\ text = 0 /\ behind = 0 /\ whole = 0 /\ mem = 0 /\ outcome = 0
  /\ IF which = "tree" THEN T!Init
     ELSE /\ heap = 0 /\ held = 0 /\ orig = 0 /\ stale = 0 /\ fault = 0
  /\ IF which = "names" THEN N!Init
     ELSE /\ asked = 0 /\ query = 0 /\ dns_reply = 0 /\ given = 0 /\ refused = 0
          /\ dns_answer = 0 /\ step = 0
  /\ IF which = "websocket" THEN S!Init
     ELSE /\ ws_coming = 0 /\ recv_mbuf = 0 /\ delivered = 0 /\ closing = 0 /\ undefined = 0
          /\ over = 0 /\ role = 0 /\ ws_program = 0
  /\ IF which = "mqtt" THEN MqttInit
     ELSE /\ link = 0 /\ mqtt_coming = 0 /\ io = 0 /\ short = 0 /\ mqtt_session = 0
          /\ sessions = 0 /\ inbox = 0 /\ broken = 0 /\ mqtt_program = 0 /\ handled = 0
          /\ early = 0 /\ crowded = 0
  /\ IF which = "coap" THEN C!Init
     ELSE /\ cm = 0 /\ datagram = 0 /\ got = 0 /\ event = 0 /\ moment = 0 /\ added = 0
  /\ IF which = "telnet" THEN TelnetInit
     ELSE /\ tstate = 0 /\ rx = 0 /\ tx = 0 /\ notice = 0 /\ tpc = 0 /\ todo = 0 /\ shell = 0
          /\ logs = 0 /\ chunk = 0 /\ console = 0 /\ typing = 0 /\ tel_coming = 0
          /\ tel_session = 0 /\ linked = 0 /\ input = 0 /\ cooked = 0 /\ escapes = 0
          /\ full = 0 /\ put = 0 /\ sent = 0 /\ raced = 0
  /\ IF which = "form" THEN H!Init
     ELSE /\ form = 0 /\ rest = 0 /\ mio = 0 /\ mp = 0 /\ busy = 0 /\ parts = 0 /\ ends = 0
          /\ ended = 0

\* The variables of the components but c keep their values.
Rest(c) ==
  /\ UNCHANGED networkVars
  /\ IF c = "mode" THEN TRUE ELSE UNCHANGED modeVars
  /\ IF c = "text" THEN TRUE ELSE UNCHANGED textVars
  /\ IF c = "tree" THEN TRUE ELSE UNCHANGED treeVars
  /\ IF c = "names" THEN TRUE ELSE UNCHANGED namesVars
  /\ IF c = "websocket" THEN TRUE ELSE UNCHANGED websocketVars
  /\ IF c = "mqtt" THEN TRUE ELSE UNCHANGED mqttVars
  /\ IF c = "coap" THEN TRUE ELSE UNCHANGED coapVars
  /\ IF c = "telnet" THEN TRUE ELSE UNCHANGED telnetVars
  /\ IF c = "form" THEN TRUE ELSE UNCHANGED formVars

Next ==
  \/ NetworkNext /\ UNCHANGED libraryVars
  \/ which = "mode" /\ M!Next /\ Rest("mode")
  \/ which = "text" /\ D!Next /\ Rest("text")
  \/ which = "tree" /\ T!Next /\ Rest("tree")
  \/ which = "names" /\ N!Next /\ Rest("names")
  \/ which = "websocket" /\ S!Next /\ Rest("websocket")
  \/ which = "mqtt" /\ Q!Next /\ Rest("mqtt")
  \/ which = "coap" /\ C!Next /\ Rest("coap")
  \/ which = "telnet" /\ L!Next /\ Rest("telnet")
  \/ which = "form" /\ H!Next /\ Rest("form")

\* The fairness of the modules: every recv of a request returns, lmode_task
\* and mongoose poll for ever, the scheduler runs the shell, who asks for the
\* time or pings, and the task that waits to be found.  Weak fairness is written
\* with the condition under which the action has something to do.
Works ==
  CASE which = "request" -> W!Works
    [] which = "mode"    -> M!Polls
    [] which = "resolve" -> R!Due
    [] which = "telnet"  -> L!ShellRuns
    [] which = "ntp"     -> K!Stirs
    [] which = "sntp"    -> A!Pending
    [] which = "ping"    -> I!Goes
    [] which = "finder"  -> U!Stirs
    [] OTHER             -> FALSE
Work ==
  \/ which = "request" /\ W!Next
  \/ which = "mode"    /\ M!Thread
  \/ which = "resolve" /\ R!PollDns
  \/ which = "telnet"  /\ L!Shell
  \/ which = "ntp"     /\ K!Syncs
  \/ which = "sntp"    /\ A!Poll
  \/ which = "ping"    /\ I!Thread
  \/ which = "finder"  /\ U!udp_finder_task

\* And of what they wait for: time passes, lwIP serves its timers, a thread of
\* its own closes a telnet session, the network comes back.
Awaited ==
  CASE which = "resolve" -> R!TickDue
    [] which = "tftp"    -> F!Ticks
    [] which = "telnet"  -> L!Ends
    [] which = "ntp"     -> K!Waits
    [] which = "sntp"    -> A!Passes
    [] which = "finder"  -> ~ready
    [] OTHER             -> FALSE
Await ==
  \/ which = "resolve" /\ R!Tick
  \/ which = "tftp"    /\ F!tftp_tmr
  \/ which = "telnet"  /\ L!client_close
  \/ which = "ntp"     /\ K!Tick
  \/ which = "sntp"    /\ A!Tick
  \/ which = "finder"  /\ U!Back

Spec ==
  /\ Init /\ [][Next]_vars
  /\ []<>~Works \/ []<><<Work>>_vars
  /\ []<>~Awaited \/ []<><<Await>>_vars

-----------------------------------------------------------------------------
(* The properties of the parts, which their modules state and explain,     *)
(* together with each part's TypeOK.  Those in TimeSafe and ClientsSafe,   *)
(* which the run checks too, are Network's.                                *)

\* webclient.c: a body arrives in order, and whole if nothing went wrong.
\* cJSON.c: what it prints it parses again, what was cut short it refuses,
\* reading nothing behind the text and giving all memory back; lists stay linked
\* both ways, no item is lost or freed twice, references show what lives.
\* mongoose.c: DNS messages, websocket messages, MQTT messages, CoAP options and
\* parts of a form arrive in order and as they were sent, cut anywhere; sessions
\* of the broker have open connections.
LibrariesSafe ==
  /\ which = "request" => W!TypeOK /\ W!BodyInOrder /\ W!WholeIfUndisturbed
  /\ which = "text" => D!TypeOK /\ D!RoundTrip /\ D!CutIsRefused /\ D!NothingLost /\ D!ReadsInside
  /\ which = "tree" => T!TypeOK /\ T!ListsLinked /\ T!OwnedOnce /\ T!ReferencesShow
  /\ which = "names" => N!TypeOK /\ N!QuestionComesBack /\ N!AnswersAsGiven /\ N!CutGivesNoOther
  /\ which = "websocket" => S!TypeOK /\ S!MessagesInOrder /\ S!ClosesForClose /\ S!CloseIsSeen
  /\ which = "mqtt" =>
       Q!TypeOK /\ Q!HandledInOrder /\ Q!NothingLeft /\ Q!SessionsLive /\ Q!BreaksOnlyDisorderly
  /\ which = "coap" =>
       C!TypeOK /\ C!OptionsInOrder /\ C!RoomIsExact /\ C!HeardAsSent /\ C!CutIsShorter
  /\ which = "form" => H!TypeOK /\ H!DataAsSent /\ H!EndedOnce /\ H!Finishes /\ H!ReadsInside

\* local_mode.c: answers are whole and in the order of the requests, nobody who
\* waits is cut off, and mongoose's assertion fails in one case only.
\* telnet.c: the shell gets what the client means and does not wait for what is
\* there, its output is sent once and in order.
ServersSafe ==
  /\ which = "mode" => M!TypeOK /\ M!AnswersInOrder /\ M!ClosedAfterAnswer /\ M!AbortsOnlyOnSecondChunked
  /\ which = "telnet" => L!TypeOK /\ L!InputAsMeant /\ L!NobodyStranded /\ L!OutputKept

-----------------------------------------------------------------------------
\* The parts in which somebody waits for something: a request, a client of the
\* local mode, a lookup, a transfer, a shell that was given back to the serial
\* line, a call for the time, a request for it, a ping, a finder without network.
Caller == [a |-> "clock", b |-> "shell"]
Asks(c) ==
  CASE which = "mode"    -> M!Answerable(client[c].stream) /\ M!Connected(c) /\ M!SentFirst(c)
    [] which = "resolve" -> nc = "resolving"
    [] which = "tftp"    -> F!Open
    [] which = "telnet"  -> console = "uart"
    [] which = "ntp"     -> npc[Caller[c]] = "ask"
    [] which = "ping"    -> I!Working
    [] which = "finder"  -> upc = "wait"
    [] OTHER             -> which \in {"request", "sntp"}

\* What it waits for.
Gets(c) ==
  CASE which = "request" -> W!Over
    [] which = "mode"    -> M!HasFirst(c) \/ c \in starved \/ client[c].rst \/ poll = "aborted"
    [] which = "resolve" -> nc # "resolving"
    [] which = "tftp"    -> ~F!Open
    [] which = "telnet"  -> shell = "uart" \/ console = "telnet"
    [] which = "ntp"     -> npc[Caller[c]] = "done" \/ K!Endless(Caller[c])
    [] which = "sntp"    -> sc = "gone"
    [] which = "ping"    -> ~I!Working
    [] which = "finder"  -> upc = "select"
    [] OTHER             -> FALSE

\* Whoever asks, transfers or listens comes to an end or goes on (the liveness
\* properties of the modules: WebClient.Ends, LocalMode.Served,
\* Resolver.Resolves, Tftp.Frees, Telnet.ShellReturns, Ntp.Ends, Sntp.Answered,
\* Ping.Ends, UdpFinder.ListensAgain), and the broker's subscribers get what is
\* published in the step that handles it (Mqtt.ReachesNow).
ServicesGoOn ==
  /\ \A c \in {"a", "b"} : Asks(c) ~> Gets(c)
  /\ [][which = "mqtt" => Q!ReachesNow]_vars
=============================================================================
