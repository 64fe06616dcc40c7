-------------------------------- MODULE Ntp --------------------------------
(***************************************************************************)
(* Setting the clock by NTP (netutils, ntp.c).  The clock's own thread     *)
(* calls ntp_sync_to_rtc every hour and a user may call it from the shell; *)
(* both calls work in one static packet.  set_time and set_date of the     *)
(* operating system each read the clock, replace their half, and write it. *)
(*                                                                         *)
(* Seconds count modulo Seconds (2^32) and ticks modulo Ticks (2^32): a    *)
(* call may begin just before the tick counter wraps.                      *)
(***************************************************************************)
EXTENDS Integers, Sequences

CONSTANTS
  Callers,     \* threads that call ntp_sync_to_rtc
  Servers,     \* host names configured
  Stamps,      \* seconds since 1900 a server may answer
  Seconds, Base, \* seconds are numbers of two digits of this base: Seconds = Base^2
  Delta,       \* NTP_TIMESTAMP_DELTA
  Zone,        \* NTP_TIMEZONE * 3600
  Day,         \* seconds of a day
  Ticks,       \* values of the tick counter
  Timeout,     \* NTP_GET_TIMEOUT in ticks
  Nap,         \* RECV_TIME_DELAY_MS in ticks, and what else keeps a call from its next look
  Starts,      \* ticks at which it may begin
  MaxSeconds,  \* bound: seconds that pass between set_time and set_date, not more than a day
  MaxFaults    \* bound: short answers and failures of the system

NtpAssumption ==
  /\ Base \in Nat \ {0} /\ Seconds = Base * Base /\ Delta \in 0 .. Seconds - 1 /\ Zone \in Nat
  /\ Day \in Nat \ {0} /\ Ticks \in Nat \ {0} /\ Timeout \in 0 .. Ticks - 1 /\ Nap \in Nat \ {0} /\ Starts \subseteq 0 .. Ticks - 1
  /\ Stamps \subseteq 0 .. Seconds - 1 /\ MaxSeconds \in 0 .. Day /\ MaxFaults \in Nat

VARIABLES
  npc,        \* where each caller is
  ntp_packet, \* the static packet: "zero", "request", or an answer
  txTm_s,  \* its transmit time-stamp, as it lies in memory
  socks,   \* each caller's socket, and the answers waiting in it
  hosts,   \* servers still to be asked, and those that were
  new_time, \* each caller's time
  tick,    \* rt_tick_get
  start,   \* each caller's first tick
  rtc,     \* the clock, in seconds
  passed,  \* history: seconds since set_time
  misses,  \* history: faults that happened
  first,   \* history: what the first answer of each caller said
  mixed,   \* history: two calls were in the packet at a time
  wrapped  \* history: the tick counter or a limit wrapped

nvars == <<npc, ntp_packet, txTm_s, socks, hosts, new_time, tick, start, rtc, passed, misses,
           first, mixed, wrapped>>
clock == <<rtc, passed>>
hist  == <<first, wrapped>>

\* ntohl
Ntohl(x) == (x % Base) * Base + x \div Base

\* The time of an answer; a short one leaves the zeroes of the request.
None == [stamp |-> 0, short |-> FALSE, is |-> "none"]
Answer(stamp, short) == [stamp |-> IF short THEN 0 ELSE stamp, short |-> short, is |-> "answer"]
UnixTime(x) == (x - Delta) % Seconds

Busy(c)   == npc[c] \in {"ask", "poll", "late", "convert", "take"}
Others(c) == \E d \in Callers \ {c} : Busy(d)

-----------------------------------------------------------------------------
(* ntp_get_time                                                            *)

\* The packet is made, and a socket.
Prepare(c) ==
  /\ npc[c] = "call"
  /\ ntp_packet' = "request" /\ txTm_s' = 0
  /\ mixed' = (mixed \/ Others(c))
  /\ \/ /\ socks' = [socks EXCEPT ![c].open = TRUE] /\ npc' = [npc EXCEPT ![c] = "ask"]
        /\ UNCHANGED misses
     \/ /\ misses < MaxFaults /\ misses' = misses + 1
        /\ npc' = [npc EXCEPT ![c] = "done"] /\ UNCHANGED socks
  /\ UNCHANGED <<hosts, new_time, tick, start, clock, hist>>

\* sendto_ntp_server: a name that is not found or a send that fails is
\* skipped.
sendto_ntp_server(c) ==
  /\ npc[c] = "ask"
  /\ \E h \in hosts[c].left :
       \/ hosts' = [hosts EXCEPT ![c] = [left |-> @.left \ {h},
                                         asked |-> IF ntp_packet = "request" THEN @.asked \union {h} ELSE @.asked,
                                         num |-> @.num + 1]]
          /\ UNCHANGED misses
       \/ /\ misses < MaxFaults /\ misses' = misses + 1
          /\ hosts' = [hosts EXCEPT ![c].left = @ \ {h}]
  /\ UNCHANGED <<npc, ntp_packet, txTm_s, socks, new_time, tick, start, clock, hist, mixed>>

\* All have been asked, or none.
Closed == [open |-> FALSE, q |-> <<>>]
Unasked_kept(s) == s
Unasked(s) == Closed
Asked(c) ==
  /\ npc[c] = "ask" /\ hosts[c].left = {}
  /\ IF hosts[c].num = 0
       THEN /\ npc' = [npc EXCEPT ![c] = "done"] /\ socks' = [socks EXCEPT ![c] = Unasked(@)]
            /\ UNCHANGED <<start, wrapped>>
       ELSE /\ npc' = [npc EXCEPT ![c] = "poll"] /\ start' = [start EXCEPT ![c] = tick]
            /\ wrapped' = (wrapped \/ tick + Timeout >= Ticks) /\ UNCHANGED socks
  /\ UNCHANGED <<ntp_packet, txTm_s, hosts, new_time, tick, clock, misses, first, mixed>>

\* rt_tick_get() <= start + NTP_GET_TIMEOUT * RT_TICK_PER_SECOND
InTime_ever(c) == TRUE
InTime(c) == tick <= (start[c] + Timeout) % Ticks

\* A round of recvfrom: the first datagram is taken, whatever it is.
Poll(c) ==
  /\ npc[c] = "poll"
  /\ IF ~InTime(c)
       THEN npc' = [npc EXCEPT ![c] = "late"] /\ UNCHANGED <<ntp_packet, txTm_s, socks, first, mixed>>
       ELSE /\ socks[c].q # <<>>
            /\ LET a == Head(socks[c].q)
               IN /\ txTm_s' = IF a.short THEN txTm_s ELSE Ntohl(a.stamp)
                  /\ first' = [first EXCEPT ![c] = a]
            /\ ntp_packet' = "answer" /\ socks' = [socks EXCEPT ![c].q = Tail(@)]
            /\ mixed' = (mixed \/ Others(c)) /\ npc' = [npc EXCEPT ![c] = "late"]
  /\ UNCHANGED <<hosts, new_time, tick, start, clock, misses, wrapped>>

\* Behind __exit: the time is looked at again.
Close(c, time) ==
  /\ socks' = [socks EXCEPT ![c] = Closed] /\ new_time' = [new_time EXCEPT ![c] = time]
  /\ npc' = [npc EXCEPT ![c] = IF time = 0 THEN "done" ELSE "set_time"]

Late(c) ==
  /\ npc[c] = "late"
  /\ IF InTime(c) THEN npc' = [npc EXCEPT ![c] = "convert"] /\ UNCHANGED <<socks, new_time>>
                  ELSE Close(c, 0)
  /\ UNCHANGED <<ntp_packet, txTm_s, hosts, tick, start, clock, misses, hist, mixed>>

\* The bytes are turned in place, then read.
Turned_not(x) == x
Turned(x) == Ntohl(x)
Convert(c) ==
  /\ npc[c] = "convert"
  /\ txTm_s' = Turned(txTm_s) /\ mixed' = (mixed \/ Others(c)) /\ npc' = [npc EXCEPT ![c] = "take"]
  /\ UNCHANGED <<ntp_packet, socks, hosts, new_time, tick, start, clock, misses, hist>>

\* ntp_get_time returns, and ntp_get_local_time adds the zone.
Local(t) == IF t = 0 THEN 0 ELSE (t + Zone) % Seconds
Take(c) ==
  /\ npc[c] = "take" /\ Close(c, Local(UnixTime(txTm_s)))
  /\ mixed' = (mixed \/ Others(c))
  /\ UNCHANGED <<ntp_packet, txTm_s, hosts, tick, start, clock, misses, hist>>

-----------------------------------------------------------------------------
(* ntp_sync_to_rtc                                                         *)

DayOf(t)    == t \div Day
TimeOfDay(t) == t % Day

set_time(c) ==
  /\ npc[c] = "set_time"
  /\ rtc' = DayOf(rtc) * Day + TimeOfDay(new_time[c]) /\ passed' = 0
  /\ npc' = [npc EXCEPT ![c] = "set_date"]
  /\ UNCHANGED <<ntp_packet, txTm_s, socks, hosts, new_time, tick, start, misses, hist, mixed>>

DateSet_utc(t) == DayOf(t - Zone)
DateSet(t) == DayOf(t)
set_date(c) ==
  /\ npc[c] = "set_date"
  /\ rtc' = DateSet(new_time[c]) * Day + TimeOfDay(rtc)
  /\ npc' = [npc EXCEPT ![c] = "done"]
  /\ UNCHANGED <<ntp_packet, txTm_s, socks, hosts, new_time, tick, start, passed, misses, hist, mixed>>

-----------------------------------------------------------------------------
(* Time and the servers                                                    *)

\* Between two rounds of a call it sleeps, up to Nap ticks, which may take it past
\* its limit or, at the end of the numbers, past the ticks behind the limit.
Waits == /\ \E c \in Callers : npc[c] \in {"poll", "late"}
         /\ \A c \in Callers : npc[c] = "poll" => InTime(c)
Tick ==
  /\ Waits
  /\ \E n \in 1 .. Nap : tick' = (tick + n) % Ticks
  /\ wrapped' = (wrapped \/ tick' < tick)
  /\ UNCHANGED <<npc, ntp_packet, txTm_s, socks, hosts, new_time, start, clock, misses, first, mixed>>

Second ==
  /\ \E c \in Callers : npc[c] = "set_date"
  /\ passed < MaxSeconds /\ passed' = passed + 1 /\ rtc' = rtc + 1
  /\ UNCHANGED <<npc, ntp_packet, txTm_s, socks, hosts, new_time, tick, start, misses, hist, mixed>>

\* A server answers a request once, or cuts the answer short.
Answers ==
  /\ \E c \in Callers : \E h \in hosts[c].asked, x \in Stamps, short \in BOOLEAN :
       /\ socks[c].open
       /\ (short => misses < MaxFaults) /\ misses' = misses + (IF short THEN 1 ELSE 0)
       /\ socks' = [socks EXCEPT ![c].q = Append(@, Answer(x, short))]
       /\ hosts' = [hosts EXCEPT ![c].asked = @ \ {h}]
  /\ UNCHANGED <<npc, ntp_packet, txTm_s, new_time, tick, start, clock, hist, mixed>>

\* A call names a server or leaves it to those configured.
Init ==
  /\ npc \in [Callers -> {"call", "done"}] /\ ntp_packet = "zero" /\ txTm_s = 0
  /\ socks = [c \in Callers |-> Closed]
  /\ \E names \in [Callers -> {Servers} \union {{h} : h \in Servers}] :
       hosts = [c \in Callers |-> [left |-> names[c], asked |-> {}, num |-> 0]]
  /\ new_time = [c \in Callers |-> 0] /\ tick \in Starts /\ start = [c \in Callers |-> 0]
  /\ rtc = 0 /\ passed = 0 /\ misses \in 0 .. MaxFaults /\ first = [c \in Callers |-> None]
  /\ mixed = FALSE /\ wrapped = FALSE

ntp_sync_to_rtc(c) ==
  \/ Prepare(c) \/ sendto_ntp_server(c) \/ Asked(c) \/ Poll(c) \/ Late(c) \/ Convert(c) \/ Take(c)
  \/ set_time(c) \/ set_date(c)
Next == (\E c \in Callers : ntp_sync_to_rtc(c)) \/ Tick \/ Second \/ Answers

\* A caller runs on unless it waits in the loop for an answer.
Runs(c)  == npc[c] # "done" /\ (npc[c] = "poll" => ~InTime(c) \/ socks[c].q # <<>>)
Syncs    == \E c \in Callers : ntp_sync_to_rtc(c)
Stirs    == \E c \in Callers : Runs(c)
NtpSpec  == Init /\ [][Next]_nvars /\ ([]<>~Stirs \/ []<><<Syncs>>_nvars) /\ ([]<>~Waits \/ []<><<Tick>>_nvars)

-----------------------------------------------------------------------------
\* Every variable has a value of its type.
TypeOK ==
  /\ \A c \in Callers : /\ npc[c] \in {"call", "ask", "poll", "late", "convert", "take", "set_time", "set_date", "done"}
                        /\ new_time[c] \in 0 .. Seconds - 1 /\ start[c] \in 0 .. Ticks - 1
  /\ txTm_s \in 0 .. Seconds - 1 /\ tick \in 0 .. Ticks - 1 /\ rtc \in Nat /\ ntp_packet \in {"zero", "request", "answer"}
  /\ misses \in 0 .. MaxFaults /\ mixed \in BOOLEAN /\ wrapped \in BOOLEAN

\* The time a call sets is the time of the first datagram it got, if nobody else
\* was in the packet; a short one leaves it the stamp 0 of the request.  Without a
\* datagram it sets none, unless a counter wrapped: then a call that gave up may
\* find itself in time again, and sets the time of the stamp 0.
TimeAsSent ==
  \A c \in Callers : npc[c] \in {"set_time", "set_date", "done"} =>
    /\ ~mixed => new_time[c] \in {0, Local(UnixTime(first[c].stamp))}
    /\ ~wrapped /\ first[c] = None => new_time[c] = 0

\* Once a call has set the clock alone, it shows the time that was set and
\* what has passed since; a midnight between set_time and set_date is lost.
ClockRight ==
  \A c \in Callers :
    npc[c] = "done" /\ new_time[c] # 0 /\ (\A d \in Callers \ {c} : npc[d] \notin {"set_date"} /\ new_time[d] = 0) =>
      LET now == new_time[c] + passed
      IN rtc \in {now, now - Day} /\ (rtc = now <=> DayOf(now) = DayOf(new_time[c]))

\* A call that is over has closed its socket.
SocketsClosed == \A c \in Callers : npc[c] \in {"call", "set_time", "set_date", "done"} => ~socks[c].open

\* What of it is inductive.  Variables of callers are functions; ...
Given  == {a \in [stamp : 0 .. Seconds - 1, short : BOOLEAN, is : {"answer"}] : a.short => a.stamp = 0}
Shapes ==
  /\ npc \in [Callers -> {"call", "ask", "poll", "late", "convert", "take", "set_time", "set_date", "done"}]
  /\ new_time \in [Callers -> 0 .. Seconds - 1] /\ start \in [Callers -> 0 .. Ticks - 1]
  /\ socks \in [Callers -> [open : BOOLEAN, q : Seq(Given)]] /\ first \in [Callers -> Given \union {None}]
  /\ hosts \in [Callers -> [left : SUBSET Servers, asked : SUBSET Servers, num : Nat]] /\ passed \in 0 .. MaxSeconds
\* ... a call has no time before its end, where it has one if it sets the clock;
\* ...
Stage(c) ==
  /\ npc[c] = "call" => first[c] = None
  /\ npc[c] \in {"call", "ask", "poll", "late", "convert", "take"} => new_time[c] = 0
  /\ npc[c] \in {"set_time", "set_date"} => new_time[c] # 0
\* ... what is in the packet that one call uses is what its first datagram left
\* of it; ...
InPacket(c) ==
  /\ Busy(c) => ~Others(c)
  /\ npc[c] \in {"ask", "poll"} => first[c] = None /\ txTm_s = 0
  /\ npc[c] \in {"late", "convert"} => txTm_s = Ntohl(first[c].stamp)
  /\ npc[c] = "take" => txTm_s = first[c].stamp
  /\ npc[c] \in {"set_time", "set_date", "done"} => new_time[c] \in {0, Local(UnixTime(first[c].stamp))}
\* ... and what a call that alone has a time did to the clock.
Alone(c) == \A d \in Callers \ {c} : new_time[d] = 0
OnTime(c) ==
  LET now == new_time[c] + passed
  IN rtc \in {now, now - Day} /\ (rtc = now <=> DayOf(now) = DayOf(new_time[c]))
Clock(c) ==
  /\ npc[c] = "set_date" => rtc >= passed /\ TimeOfDay(rtc - passed) = TimeOfDay(new_time[c])
  /\ npc[c] = "done" /\ new_time[c] # 0 => OnTime(c)
NtpCore ==
  /\ TypeOK /\ Shapes /\ SocketsClosed
  /\ \A c \in Callers : Stage(c) /\ (~mixed => InPacket(c)) /\ (Alone(c) => Clock(c))
\* Without a datagram a call knows at its end that it is late, unless a counter
\* wrapped.
Unanswered(c) ==
  /\ npc[c] \in {"poll", "late"} => start[c] + Timeout < Ticks
  /\ first[c] = None => /\ npc[c] = "late" => ~InTime(c)
                        /\ npc[c] \notin {"convert", "take"}
                        /\ npc[c] \in {"set_time", "set_date", "done"} => new_time[c] = 0
NtpInv == NtpCore /\ (~wrapped => \A c \in Callers : Unanswered(c))

\* The limit is one of the last ticks of the counter, no more of them than a call
\* may sleep.
Endless(c) == npc[c] = "poll" /\ start[c] + Timeout \in Ticks - Nap .. Ticks - 1

\* A call comes to an end, unless its limit is one of the last ticks of the
\* counter: it may sleep until the counter has wrapped, and then only an answer
\* ends it.
Ends == \A c \in Callers : npc[c] = "ask" ~> (npc[c] = "done" \/ Endless(c))
=============================================================================
