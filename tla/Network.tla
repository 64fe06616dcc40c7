------------------------------ MODULE Network -------------------------------
(***************************************************************************)
(* The ways this device uses the network that need no parser: an HTTP      *)
(* request, a lookup of a name, the TFTP server, NTP, SNTP, ping and the   *)
(* discovery by UDP.  They share no memory; one of them runs at a time,    *)
(* which says whose states these are, and the variables of the others      *)
(* stay 0.                                                                 *)
(***************************************************************************)
EXTENDS Integers, Sequences

CONSTANTS
  HttpOps, HttpReplies, Buf, MaxRedirects, MaxLate,                        \* WebClient
  LookupRetries, LookupTimeout, LookupReplies, MaxConnects, MaxLost,       \* Resolver
  TftpClients, Jobs, Full, TftpTimeout, TftpRetries, MaxChains, TftpFaults, \* Tftp
  Callers, Servers, Stamps, Seconds, NtpBase, NtpDelta, Zone, Day,         \* Ntp
    TickValues, NtpTimeout, Nap, Starts, MaxSeconds, NtpFaults,
  Attempts, Wait, PerSecond, Ahead, Begins, MaxReplies,                    \* Sntp
  PingHosts, EchoTimes, MaxCalls, MaxAnswers, MaxForeign, PingFaults,      \* Ping
  Password, RecvSize, Datagrams, Sockets, MaxQueued, MaxReceived,          \* UdpFinder
    FinderFaults

VARIABLES
  which,
  pc, op, cur, block, socket, s, hdr, wire, shut, part, body, rsp_code, answer, lost, reply,
  late, upset,
  nc, dns, alarm, queries, replies, failures, made, heard, calls, used, fired,
  tftp_state, quiet, chains, file, pos, user, net, faults, astray,
  npc, ntp_packet, txTm_s, socks, hosts, new_time, tick, start, rtc, passed, misses, first,
  mixed, wrapped,
  sc, sd, now, due, requests, datagrams, told, arrived,
  ppc, target, times, send_times, ping_seq_num, raw, echoes, lines, by, ping_calls, answers,
  foreign, troubles,
  upc, used_sockets, finder_queue, recv_data, ready, finder_received, beeps, finder_faults

W == INSTANCE WebClient WITH Ops <- HttpOps, Replies <- HttpReplies
R == INSTANCE Resolver WITH MaxRetries <- LookupRetries, Timeout <- LookupTimeout,
       Replies <- LookupReplies
F == INSTANCE Tftp WITH Clients <- TftpClients, Timeout <- TftpTimeout, MaxRetries <- TftpRetries,
       MaxFaults <- TftpFaults
K == INSTANCE Ntp WITH Base <- NtpBase, Delta <- NtpDelta, Ticks <- TickValues,
       Timeout <- NtpTimeout, MaxFaults <- NtpFaults
A == INSTANCE Sntp
I == INSTANCE Ping WITH Hosts <- PingHosts, Times <- EchoTimes, MaxReplies <- MaxAnswers,
       MaxFaults <- PingFaults
U == INSTANCE UdpFinder WITH MaxFaults <- FinderFaults, used <- used_sockets, queue <- finder_queue,
       received <- finder_received, told <- beeps, faults <- finder_faults

requestVars == <<pc, op, cur, block, socket, s, hdr, wire, shut, part, body, rsp_code, answer,
                 lost, reply, late, upset>>
resolveVars == <<nc, dns, alarm, queries, replies, failures, made, heard, calls, used, fired>>
tftpVars == <<tftp_state, quiet, chains, file, pos, user, net, faults, astray>>
ntpVars == <<npc, ntp_packet, txTm_s, socks, hosts, new_time, tick, start, rtc, passed, misses,
             first, mixed, wrapped>>
sntpVars == <<sc, sd, now, due, requests, datagrams, told, arrived>>
pingVars == <<ppc, target, times, send_times, ping_seq_num, raw, echoes, lines, by, ping_calls,
              answers, foreign, troubles>>
finderVars == <<upc, used_sockets, finder_queue, recv_data, ready, finder_received, beeps,
                finder_faults>>
networkVars == <<which, requestVars, resolveVars, tftpVars, ntpVars, sntpVars, pingVars, finderVars>>

\* What the modules assume of their constants.
ASSUME NetworkAssumption ==
  /\ W!WebClientAssumption /\ R!ResolverAssumption /\ F!TftpAssumption /\ K!NtpAssumption
  /\ A!SntpAssumption /\ I!PingAssumption /\ U!UdpFinderAssumption

-----------------------------------------------------------------------------
NetworkInit ==
  /\ IF which = "request" THEN W!Init
     ELSE /\ pc = 0 /\ op = 0 /\ cur = 0 /\ block = 0 /\ socket = 0 /\ s = 0 /\ hdr = 0
          /\ wire = 0 /\ shut = 0 /\ part = 0 /\ body = 0 /\ rsp_code = 0 /\ answer = 0
          /\ lost = 0 /\ reply = 0 /\ late = 0 /\ upset = 0
  /\ IF which = "resolve" THEN R!Init
     ELSE /\ nc = 0 /\ dns = 0 /\ alarm = 0 /\ queries = 0 /\ replies = 0 /\ failures = 0
          /\ made = 0 /\ heard = 0 /\ calls = 0 /\ used = 0 /\ fired = 0
  /\ IF which = "tftp" THEN F!Init
     ELSE /\ tftp_state = 0 /\ quiet = 0 /\ chains = 0 /\ file = 0 /\ pos = 0 /\ user = 0
          /\ net = 0 /\ faults = 0 /\ astray = 0
  /\ IF which = "ntp" THEN K!Init
     ELSE /\ npc = 0 /\ ntp_packet = 0 /\ txTm_s = 0 /\ socks = 0 /\ hosts = 0
          /\ new_time = 0 /\ tick = 0 /\ start = 0 /\ rtc = 0 /\ passed = 0 /\ misses = 0
          /\ first = 0 /\ mixed = 0 /\ wrapped = 0
  /\ IF which = "sntp" THEN A!Init
     ELSE /\ sc = 0 /\ sd = 0 /\ now = 0 /\ due = 0 /\ requests = 0 /\ datagrams = 0
          /\ told = 0 /\ arrived = 0
  /\ IF which = "ping" THEN I!Init
     ELSE /\ ppc = 0 /\ target = 0 /\ times = 0 /\ send_times = 0 /\ ping_seq_num = 0
          /\ raw = 0 /\ echoes = 0 /\ lines = 0 /\ by = 0 /\ ping_calls = 0 /\ answers = 0
          /\ foreign = 0 /\ troubles = 0
  /\ IF which = "finder" THEN U!Init
     ELSE /\ upc = 0 /\ used_sockets = 0 /\ finder_queue = 0 /\ recv_data = 0 /\ ready = 0
          /\ finder_received = 0 /\ beeps = 0 /\ finder_faults = 0

NetworkNext ==
  /\ UNCHANGED which
  /\ \/ which = "request" /\ W!Next
          /\ UNCHANGED <<resolveVars, tftpVars, ntpVars, sntpVars, pingVars, finderVars>>
     \/ which = "resolve" /\ R!Next
          /\ UNCHANGED <<requestVars, tftpVars, ntpVars, sntpVars, pingVars, finderVars>>
     \/ which = "tftp" /\ F!Next
          /\ UNCHANGED <<requestVars, resolveVars, ntpVars, sntpVars, pingVars, finderVars>>
     \/ which = "ntp" /\ K!Next
          /\ UNCHANGED <<requestVars, resolveVars, tftpVars, sntpVars, pingVars, finderVars>>
     \/ which = "sntp" /\ A!Next
          /\ UNCHANGED <<requestVars, resolveVars, tftpVars, ntpVars, pingVars, finderVars>>
     \/ which = "ping" /\ I!Next
          /\ UNCHANGED <<requestVars, resolveVars, tftpVars, ntpVars, sntpVars, finderVars>>
     \/ which = "finder" /\ U!Next
          /\ UNCHANGED <<requestVars, resolveVars, tftpVars, ntpVars, sntpVars, pingVars>>

NetworkSpec == NetworkInit /\ [][NetworkNext]_networkVars

-----------------------------------------------------------------------------
(* The properties of the parts, which their modules state and explain,     *)
(* together with each part's TypeOK.                                       *)

\* ntp.c: the time set is that of the first datagram and the clock is right but
\* for a midnight, no socket stays open.  sntp.c: an asker for the time is told
\* once, and the time is not behind.  ping.c: each echo has one line, and an
\* answer counted is one.
TimeSafe ==
  /\ which = "ntp" => K!TypeOK /\ K!TimeAsSent /\ K!ClockRight /\ K!SocketsClosed
  /\ which = "sntp" => A!TypeOK /\ A!ToldOnce /\ A!TimeNotBehind
  /\ which = "ping" => I!TypeOK /\ I!AnswersCounted /\ I!LinePerEcho

\* webclient.c: a request gives back what it took.  mongoose.c: the callback of a
\* lookup is called once and its connection hears of the end last.
\* tftp_server.c: a file is read in order and written whole, a transfer has its
\* timer.  udp_finder.c: only who sends the password is told.
ClientsSafe ==
  /\ which = "request" => W!Released
  /\ which = "resolve" => R!TypeOK /\ R!CalledOnce /\ R!LastQueryInVain /\ R!HeardInOrder
  /\ which = "tftp" => F!TypeOK /\ F!ReadsInOrder /\ F!WritesWhole /\ F!Armed
  /\ which = "finder" => U!TypeOK /\ U!TellsCallers
=============================================================================
