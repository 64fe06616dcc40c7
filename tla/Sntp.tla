-------------------------------- MODULE Sntp --------------------------------
(***************************************************************************)
(* Asking a server for the time with mongoose (sntp.c, mg_sntp_get_time):  *)
(* a request every ten seconds until an answer comes, on a UDP connection  *)
(* whose events go to mg_sntp_handler, from there to the handler of the    *)
(* connection, mg_sntp_util_ev_handler, and from there to the program.     *)
(*                                                                         *)
(* Time is counted in ticks, PerSecond to a second.  The server's clock is *)
(* Ahead of the device's; a request carries whole seconds only.            *)
(***************************************************************************)
EXTENDS Integers, Sequences

CONSTANTS
  Attempts,    \* SNTP_ATTEMPTS
  Wait,        \* 10 seconds, in ticks
  PerSecond,   \* ticks of a second
  Ahead,       \* the server's clock less the device's
  Begins,      \* when the device may ask
  MaxReplies   \* bound: datagrams that arrive

SntpAssumption ==
  /\ Attempts \in Nat \ {0} /\ Wait \in Nat \ {0} /\ PerSecond \in Nat \ {0} /\ Ahead \in Nat
  /\ Begins \subseteq Nat /\ MaxReplies \in Nat

VARIABLES
  sc,        \* the connection: "connecting", "open", "closing", "gone"
  sd,        \* user_data: its count of requests, or -1 when it is freed
  now,       \* mg_time()
  due,       \* ev_timer_time, 0 if it is not set
  requests,  \* requests under way: what they say and when they were sent
  datagrams, \* answers under way
  told,      \* what the program was told
  arrived    \* history: datagrams

svars == <<sc, sd, now, due, requests, datagrams, told, arrived>>

-----------------------------------------------------------------------------
(* A round of the connection                                               *)


Tells(d, m) == [d EXCEPT !.told = Append(@, m)]
Closes(d)   == [d EXCEPT !.sc = "closing"]

\* mg_sntp_send_request, and the timer; after the last attempt the program is
\* told instead.
Again(count) == count <= Attempts
NextDue_unset == 0
NextDue == now + Wait
Request == [origin |-> (now \div PerSecond) * PerSecond, sent |-> now]
Asks(d) ==
  IF Again(d.sd) THEN [d EXCEPT !.sd = @ + 1, !.due = NextDue, !.out = {Request}]
                 ELSE Closes(Tells(d, [what |-> "failed"]))

\* MG_EV_CONNECT: a failed connection is closed whatever the handler does.
Connected(d, err) ==
  IF d.sc # "connecting" THEN d
  ELSE IF err THEN Closes(Tells(d, [what |-> "failed"])) ELSE Asks([d EXCEPT !.sc = "open"])

\* mg_calculate_delay: what the way there and back took; numbers without sign.
Trip_whole(t1, t2, t3) == now - t1
Trip(t1, t2, t3) == (now - t1) - (t3 - t2)
mg_calculate_delay(t1, t2, t3) == IF Trip(t1, t2, t3) > 0 THEN Trip(t1, t2, t3) ELSE 0

\* mg_sntp_parse_reply: malformed is of another version or mode, or short.
\* The kiss of death is handed on with the time.
Time(g) == g.tx + mg_calculate_delay(g.origin, g.rx, g.tx)
mg_sntp_parse_reply(g) ==
  IF g.malformed THEN [what |-> "failed"]
  ELSE [what |-> "time", time |-> Time(g), true |-> now + Ahead, way |-> g.rx - Ahead - g.sent]

\* MG_EV_RECV
After_open(d) == d
After(d) == Closes(d)
NoDatagram == [malformed |-> FALSE, origin |-> -1, rx |-> 0, tx |-> 0, sent |-> 0]
Receives(d, g) ==
  IF g = NoDatagram THEN d ELSE After(Tells(d, mg_sntp_parse_reply(g)))

\* mg_if_timer: not on a connection that is to be closed.  A timer that the
\* handler did not set again is cleared.
Timed(d) ==
  IF d.sc = "closing" \/ d.due = 0 \/ now < d.due THEN d
  ELSE LET a == Asks(d) IN IF a.due = d.due THEN [a EXCEPT !.due = 0] ELSE a

\* mg_mgr_handle_conn, and the end of mg_mgr_poll: MG_EV_CLOSE frees the data.
Round(err, g) ==
  Timed(Receives(Connected([sc |-> sc, sd |-> sd, due |-> due, told |-> told, out |-> {}], err), g))

Poll ==
  /\ sc \in {"connecting", "open"}
  /\ \E err \in BOOLEAN, g \in datagrams \union {NoDatagram} :
       /\ (err => sc = "connecting") /\ (g # NoDatagram => sc = "open")
       /\ LET d == Round(err, g)
          IN /\ sc' = IF d.sc = "closing" THEN "gone" ELSE d.sc
             /\ sd' = IF d.sc = "closing" THEN -1 ELSE d.sd
             /\ due' = d.due /\ told' = d.told
             /\ requests' = IF d.sc = "closing" THEN {} ELSE requests \union d.out
             /\ datagrams' = IF d.sc = "closing" THEN {} ELSE datagrams \ {g}
  /\ UNCHANGED <<now, arrived>>

-----------------------------------------------------------------------------
(* The server and time                                                     *)

\* The server answers a request once.
Answer ==
  /\ arrived < MaxReplies /\ arrived' = arrived + 1
  /\ \E r \in requests : \E rx \in r.sent .. now : \E tx \in rx .. now : \E malformed \in BOOLEAN :
       /\ datagrams' = datagrams \union {[malformed |-> malformed, origin |-> r.origin, rx |-> rx + Ahead,
                                          tx |-> tx + Ahead, sent |-> r.sent]}
       /\ requests' = requests \ {r}
  /\ UNCHANGED <<sc, sd, now, due, told>>

\* The loop polls before the timer is late.
Passes == sc = "open" /\ now < due
Tick ==
  /\ Passes /\ now' = now + 1
  /\ UNCHANGED <<sc, sd, due, requests, datagrams, told, arrived>>

\* mg_sntp_get_time: without memory there is nothing to poll.
Init ==
  /\ sc = "connecting" /\ sd = 0 /\ now \in Begins /\ due = 0 /\ requests = {} /\ datagrams = {}
  /\ told = <<>> /\ arrived = 0

Next == Poll \/ Answer \/ Tick

\* The thread polls for ever, and time passes.
Pending  == sc = "connecting" \/ (sc = "open" /\ due # 0 /\ now >= due)
SntpSpec == Init /\ [][Next]_svars /\ ([]<>~Pending \/ []<><<Poll>>_svars) /\ ([]<>~Passes \/ []<><<Tick>>_svars)

-----------------------------------------------------------------------------
\* Every variable has a value of its type.
TypeOK ==
  /\ sc \in {"connecting", "open", "gone"} /\ sd \in -1 .. Attempts + 1 /\ now \in Nat /\ due \in Nat
  /\ arrived \in 0 .. MaxReplies

\* The program is told once, when the connection goes, and its data goes with
\* the connection.
ToldOnce == Len(told) = (IF sc = "gone" THEN 1 ELSE 0) /\ (sd = -1 <=> sc = "gone")

\* The time the program gets is not behind the server's, and ahead of it by no
\* more than the request was under way and what was lost of its second: the
\* whole way there and back is added, not only the way back.
TimeNotBehind ==
  \A i \in DOMAIN told :
    told[i].what = "time" => told[i].time - told[i].true \in 0 .. told[i].way + PerSecond - 1

\* What of it is inductive.  What is under way carries its second, and a server
\* sees it no earlier than it was sent and no later than now; ...
Stamped(m) == m.origin <= m.sent /\ m.sent < m.origin + PerSecond /\ m.sent <= now
UnderWay ==
  /\ requests \subseteq [origin : Nat, sent : Nat] /\ \A r \in requests : Stamped(r)
  /\ datagrams \subseteq [malformed : BOOLEAN, origin : Nat, rx : Nat, tx : Nat, sent : Nat]
  /\ \A g \in datagrams : Stamped(g) /\ g.sent + Ahead <= g.rx /\ g.rx <= g.tx /\ g.tx <= now + Ahead
\* ... and what the program is told is one of these.
Fine ==
  [what : {"failed"}] \union
  {m \in [what : {"time"}, time : Int, true : Int, way : Int] : m.time - m.true \in 0 .. m.way + PerSecond - 1}
SntpInv == TypeOK /\ told \in Seq(Fine) /\ ToldOnce /\ UnderWay

\* The program is told in the end.
Answered == sc # "gone" ~> sc = "gone"
=============================================================================
