------------------------------ MODULE Resolver ------------------------------
(***************************************************************************)
(* Connecting by name in mongoose.c: mg_connect_opt makes a connection     *)
(* that is not polled yet and a second one that asks the name server       *)
(* (resolv.c); its answer, or its end, starts or destroys the first.  One  *)
(* thread polls; what it does with a connection in a round is one step.    *)
(*                                                                         *)
(* The program connects again when a connection failed, out of the         *)
(* handler that hears of it or later.                                      *)
(***************************************************************************)
EXTENDS Integers, Sequences

CONSTANTS
  MaxRetries,    \* opts.max_retries, 2 if not given
  Timeout,       \* opts.timeout, in units of Tick
  Replies,       \* answers of a name server: subset of {"address", "alias", "none"}; none has no record or is malformed
  MaxConnects,   \* bound: connections the program makes
  MaxLost        \* bound: sockets that cannot be made

ResolverAssumption ==
  /\ MaxRetries \in Nat \ {0} /\ Timeout \in Nat \ {0} /\ MaxConnects \in Nat /\ MaxLost \in Nat
  /\ Replies \subseteq {"address", "alias", "none"}

VARIABLES
  nc,       \* the program's connection
  dns,      \* the connection to the name server, with its request
  alarm,    \* time until ev_timer_time, -1 if it is not set
  queries,  \* queries the name server has still to answer, by number
  replies,  \* answers under way: [query, reply]
  failures, \* sockets still to come that cannot be made
  made,     \* connections made
  heard,    \* history: events the handler of nc got
  calls,    \* history: what the callback of the request was called with
  used,     \* history: the query whose answer the callback got, 0 if none
  fired     \* history: the timer came due while the name was looked up

rvars == <<nc, dns, alarm, queries, replies, failures, made, heard, calls, used, fired>>

\* nc: "none", "resolving" (MG_F_RESOLVING), "connecting", "open", "gone".
\* closing is MG_F_CLOSE_IMMEDIATELY, queued the first query in send_mbuf, age
\* now - last_time, req whether user_data has the request.
NoDns == [phase |-> "none", bad |-> FALSE, closing |-> FALSE, queued |-> 0, retries |-> 0, age |-> 0,
          err |-> "ok", req |-> FALSE, sent |-> 0, reply |-> "", from |-> 0]
AtMost(n, m) == IF n > m THEN m ELSE n

-----------------------------------------------------------------------------
(* mg_connect                                                              *)

\* mg_resolve_async_opt: a request and a connection; without memory or
\* without a connection nc is destroyed before the program has it.  bad: the
\* socket could not be made, which is known only when it is polled.
\* A timer is set after that, on the connection that is polled.
Connects(k, bad) ==
  /\ made' = made + 1
  /\ nc' = "resolving" /\ alarm' = k
  /\ dns' = [NoDns EXCEPT !.phase = "connecting", !.bad = bad, !.req = TRUE]
  /\ queries' = {} /\ replies' = {} /\ heard' = <<>> /\ calls' = <<>> /\ used' = 0 /\ fired' = FALSE

mg_connect_opt ==
  /\ nc \in {"none", "gone"} /\ dns.phase = "none" /\ made < MaxConnects
  /\ \E k \in {-1, 1, Timeout + 1}, bad \in BOOLEAN :
       /\ (bad => failures > 0) /\ failures' = failures - (IF bad THEN 1 ELSE 0)
       /\ Connects(k, bad)

-----------------------------------------------------------------------------
(* A round of the name server's connection, in the order of mg_mgr_poll    *)

\* mg_send_dns_query: behind a query that could not be sent yet, which is the
\* one a name server reads of the datagram.
Asks_uncounted(d) == [d EXCEPT !.queued = IF @ = 0 THEN d.retries + 1 ELSE @, !.age = 0]
Asks(d) ==
  [d EXCEPT !.queued = IF @ = 0 THEN d.retries + 1 ELSE @, !.retries = @ + 1, !.age = 0]

\* mg_if_connect_cb, MG_EV_CONNECT: the query is made whatever came of it.
Connected(d) ==
  IF d.phase # "connecting" THEN d
  ELSE Asks([d EXCEPT !.phase = "open", !.closing = d.bad])

\* MG_EV_RECV: the first datagram with a record ends the request well.  A
\* socket that is readable has a datagram: recvfrom() does not fail here.
Forgotten_kept(d) == [d EXCEPT !.closing = TRUE]
Forgotten(d) == [d EXCEPT !.closing = TRUE, !.req = FALSE]
Receives(d, a) ==
  CASE a.reply = "" \/ d.closing -> d
    [] a.reply \in {"address", "alias"} /\ ~d.closing -> Forgotten([d EXCEPT !.reply = a.reply, !.from = a.query])
    [] OTHER -> [d EXCEPT !.closing = TRUE, !.err = "no answers"]

\* mg_write_to_socket: a query that cannot be sent stays for the next round.
Writes(d, ok) == IF d.closing \/ ~ok THEN d ELSE [d EXCEPT !.queued = 0, !.sent = d.queued]

\* MG_EV_POLL
Exceeded_waits(d) == d.retries > MaxRetries /\ d.age >= Timeout
Exceeded(d) == d.retries > MaxRetries
Polls(d) ==
  IF d.closing THEN d
  ELSE IF Exceeded(d) THEN [d EXCEPT !.closing = TRUE, !.err = "retries"]
  ELSE IF d.age >= Timeout THEN Asks(d)
  ELSE d

\* mg_if_timer, MG_EV_TIMER: skipped if the connection was to be closed
\* before MG_EV_POLL.
Timed_kept(d, due) == IF due THEN [d EXCEPT !.err = "timeout"] ELSE d
Timed(d, due) == IF due THEN [d EXCEPT !.closing = TRUE, !.err = "timeout"] ELSE d

Round(d, a, ok) ==
  LET r == Receives(Connected(d), a)
      w == Writes(r, ok)
  IN IF w.closing THEN w ELSE Timed(Polls(w), alarm = 0)

\* MG_EV_CLOSE, and the callbacks of a round: the reply and the end.
CallsOf(d) ==
  (IF d.reply = "" THEN <<>> ELSE <<"ok">>) \o (IF d.closing /\ d.req THEN <<d.err>> ELSE <<>>)

\* resolve_cb: the first address starts the connection; anything else is the
\* end of nc, which the handler hears of in this order.
Told(err) == (IF err = "timeout" THEN <<"timer">> ELSE <<>>) \o <<"failed", "close">>
resolve_cb(d, again) ==
  IF CallsOf(d) = <<>> THEN /\ UNCHANGED <<nc, alarm, made, heard, calls, used, failures>>
                            /\ fired' = (fired \/ d.err = "timeout")
                            /\ dns' = [d EXCEPT !.sent = 0]
  ELSE IF again /\ d.reply # "address"
    THEN /\ made < MaxConnects /\ Connects(-1, FALSE) /\ UNCHANGED failures
  ELSE /\ nc' = IF d.reply = "address" THEN "connecting" ELSE "gone"
       /\ heard' = IF d.reply = "address" THEN heard ELSE heard \o Told(d.err)
       /\ calls' = calls \o CallsOf(d) /\ used' = d.from
       /\ fired' = (fired \/ d.err = "timeout")
       /\ dns' = NoDns /\ UNCHANGED <<alarm, made, failures>>

NoReply == [query |-> 0, reply |-> ""]
\* mg_mgr_handle_conn and the end of mg_mgr_poll.
PollDns ==
  /\ dns.phase # "none"
  /\ \E a \in replies \union {NoReply}, ok, again \in BOOLEAN :
       LET d == Round(dns, a, ok)
       IN IF CallsOf(d) # <<>> /\ again /\ d.reply # "address"
            THEN resolve_cb(d, TRUE)
            ELSE /\ ~again /\ resolve_cb(d, FALSE)
                 /\ replies' = IF CallsOf(d) # <<>> THEN {} ELSE replies \ {a}
                 /\ queries' = IF CallsOf(d) # <<>> THEN {} ELSE queries \union ({d.sent} \ {0})

\* The name server answers a query, as often as the network delivers it; the
\* socket of a connection that is gone takes nothing.
Answer ==
  /\ \E q \in queries, r \in Replies, last \in BOOLEAN :
       /\ replies' = replies \union {[query |-> q, reply |-> r]}
       /\ queries' = IF last THEN queries \ {q} ELSE queries
  /\ UNCHANGED <<nc, dns, alarm, failures, made, heard, calls, used, fired>>

-----------------------------------------------------------------------------
(* A round of the program's connection                                     *)

\* connect() has an outcome, and the timer comes due.  The handler is told of
\* the outcome, then of the timer unless the connection closes.
PollNc ==
  /\ nc \in {"connecting", "open"}
  /\ \E out \in IF nc = "open" THEN {"ok"} ELSE {"wait", "ok", "failed"} :
       /\ nc' = CASE out = "failed" -> "gone" [] out = "ok" -> "open" [] OTHER -> nc
       /\ alarm' = IF alarm = 0 /\ out # "failed" THEN -1 ELSE alarm
       /\ heard' = heard \o (CASE out = "failed" -> <<"failed", "close">>
                               [] nc = "connecting" /\ out = "ok" -> <<"connected">>
                               [] OTHER -> <<>>)
                         \o (IF alarm = 0 /\ out # "failed" THEN <<"timer">> ELSE <<>>)
  /\ UNCHANGED <<dns, queries, replies, failures, made, calls, used, fired>>

TickDue == nc \in {"resolving", "connecting", "open"} /\ (alarm > 0 \/ (dns.phase = "open" /\ dns.age < Timeout))
Tick ==
  /\ TickDue
  /\ alarm' = IF alarm > 0 THEN alarm - 1 ELSE alarm
  /\ dns' = [dns EXCEPT !.age = IF dns.phase = "open" THEN AtMost(@ + 1, Timeout) ELSE @]
  /\ UNCHANGED <<nc, queries, replies, failures, made, heard, calls, used, fired>>

Init ==
  /\ nc = "none" /\ dns = NoDns /\ alarm = -1 /\ queries = {} /\ replies = {} /\ made = 0
  /\ failures \in 0 .. MaxLost /\ heard = <<>> /\ calls = <<>> /\ used = 0 /\ fired = FALSE

Next == mg_connect_opt \/ PollDns \/ Answer \/ PollNc \/ Tick

\* The thread polls for ever, and time passes.  A round has something to do
\* if Due holds: no more is asked than by WF_rvars(PollDns).
Due == dns.phase = "connecting" \/ (dns.phase = "open" /\
         (dns.queued # 0 \/ dns.retries > MaxRetries \/ dns.age >= Timeout \/ alarm = 0))
Fair == ([]<>~Due \/ []<><<PollDns>>_rvars) /\ ([]<>~TickDue \/ []<><<Tick>>_rvars)
ResolverSpec == Init /\ [][Next]_rvars /\ Fair

-----------------------------------------------------------------------------
\* Every variable has a value of its type.
TypeOK ==
  /\ nc \in {"none", "resolving", "connecting", "open", "gone"} /\ dns.phase \in {"none", "connecting", "open"}
  /\ dns.retries \in 0 .. MaxRetries + 1 /\ dns.age \in 0 .. Timeout /\ alarm \in -1 .. Timeout + 1
  /\ made \in 0 .. MaxConnects /\ failures \in 0 .. MaxLost /\ used \in 0 .. MaxRetries + 1
  /\ queries \subseteq 1 .. MaxRetries + 1 /\ fired \in BOOLEAN

\* The callback of a request is called once: not while the name is looked
\* up, and not a second time when the connection to the name server closes.
CalledOnce ==
  /\ nc = "resolving" => calls = <<>> /\ dns.req
  /\ nc \in {"connecting", "open", "gone"} => Len(calls) = 1

\* Every query but the last has its timeout.  The last is sent in a round
\* that then closes the connection, so its answer is never heard.
LastQueryInVain == used <= MaxRetries

\* The handler hears of the end once and last, and of a timer that came due
\* during the lookup before it.
HeardInOrder ==
  /\ \A i \in DOMAIN heard : heard[i] = "close" <=> i = Len(heard) /\ nc = "gone"
  /\ nc = "gone" => heard[Len(heard) - 1] = "failed"
  /\ fired /\ nc = "gone" => \E i \in DOMAIN heard : heard[i] = "timer"

\* What of it is inductive: between two rounds a request is under way or is
\* forgotten; a query that waits is one that was counted, and the name server
\* has seen none but those that have a timeout.
Asking(d) ==
  /\ d \in [phase : {"connecting", "open"}, bad : BOOLEAN, closing : {FALSE}, queued : Nat,
            retries : 0 .. MaxRetries + 1, age : 0 .. Timeout, err : {"ok"}, req : {TRUE}, sent : {0},
            reply : {""}, from : {0}]
  /\ d.queued <= d.retries /\ (d.phase = "connecting" => d.retries = 0)
Events == {"connected", "timer", "failed", "close"}
ResolverInv ==
  /\ TypeOK /\ CalledOnce /\ LastQueryInVain /\ HeardInOrder
  /\ IF nc = "resolving" THEN Asking(dns) /\ heard = <<>> ELSE dns = NoDns
  /\ queries \subseteq 1 .. MaxRetries /\ replies \subseteq [query : 1 .. MaxRetries, reply : Replies]
  /\ heard \in Seq(Events) /\ (nc = "gone" => Len(heard) > 1) /\ (nc # "gone" => ~fired)

\* Looking up a name comes to an end.
Resolves == nc = "resolving" ~> nc # "resolving"
=============================================================================
