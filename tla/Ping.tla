-------------------------------- MODULE Ping --------------------------------
(***************************************************************************)
(* The ping command (netutils, ping.c), called any number of times, one    *)
(* call after the other, for hosts that answer late, twice or not at all.  *)
(* Every ICMP message the device receives comes to the raw socket while it *)
(* is open.  ping_recv knows an echo by the program's id, which is always  *)
(* the same, and the number of the last one sent, which every call begins  *)
(* again at 1; it looks neither at the sender nor at the type, and so an   *)
(* echo that another such device asks of this one may look like an answer. *)
(***************************************************************************)
EXTENDS Integers, Sequences

CONSTANTS
  Hosts,       \* hosts that may be pinged
  Times,       \* echoes of a call: a set; with more than 65535 numbers would come again
  MaxCalls,    \* bound: calls
  MaxReplies,  \* bound: answers of hosts
  MaxForeign,  \* bound: messages that answer no echo of this device
  MaxFaults    \* bound: calls of the system that fail

PingAssumption ==
  Times \subseteq {n \in Nat : n < 65536} /\ {MaxCalls, MaxReplies, MaxForeign, MaxFaults} \subseteq Nat

VARIABLES
  ppc,          \* where the caller is: "idle", "send", "recv", "delay"
  target, times,\* arguments of the call
  send_times,   \* echoes this call has sent or tried to send
  ping_seq_num, \* number of the last echo
  raw,          \* the raw socket: open, and what waits in it
  echoes,       \* echoes hosts may still answer: [call, host, seq]
  lines,        \* lines the call has printed, and ...
  by,           \* ... the message each answer was
  ping_calls, answers, foreign, troubles \* history: how often

pvars == <<ppc, target, times, send_times, ping_seq_num, raw, echoes, lines, by, ping_calls, answers,
           foreign, troubles>>

Fails == troubles < MaxFaults /\ troubles' = troubles + 1
Shut  == [open |-> FALSE, q |-> <<>>]

\* A message that answers nothing: of another program, or shorter than an echo
\* (0), or another device's own echo of a number.
Alien(seq) == [call |-> 0, host |-> "", seq |-> seq]

-----------------------------------------------------------------------------
(* ping                                                                    *)

\* The host has an address and there is a socket, or the call is over at once.
Begin ==
  /\ ppc = "idle" /\ ping_calls < MaxCalls /\ ping_calls' = ping_calls + 1
  /\ target' \in Hosts /\ times' \in Times
  /\ send_times' = 0 /\ ping_seq_num' = 0 /\ lines' = <<>> /\ by' = <<>>
  /\ \/ ppc' = "send" /\ raw' = [Shut EXCEPT !.open = TRUE] /\ UNCHANGED troubles
     \/ Fails /\ UNCHANGED <<ppc, raw>>
  /\ UNCHANGED <<echoes, answers, foreign>>

\* A line is printed; the socket, where q waits, is closed after the last one.
Done_late(n) == n > times
Done(n) == n >= times
Says(line, e, q) ==
  /\ lines' = Append(lines, line) /\ by' = Append(by, e)
  /\ send_times' = send_times + 1
  /\ ppc' = IF Done(send_times') THEN "idle" ELSE "delay"
  /\ raw' = IF Done(send_times') THEN Shut ELSE [raw EXCEPT !.q = q]

\* ping_prepare_echo counts before it is known whether the echo can be sent;
\* without memory it does not.
ping_prepare_echo == ping_seq_num' = (ping_seq_num + 1) % 65536
Sent ==
  /\ ppc = "send" /\ ping_prepare_echo /\ ppc' = "recv"
  /\ echoes' = echoes \union {[call |-> ping_calls, host |-> target, seq |-> ping_seq_num']}
  /\ UNCHANGED <<target, times, send_times, raw, lines, by, ping_calls, answers, foreign, troubles>>

NotSent ==
  /\ ppc = "send" /\ Fails
  /\ (ping_prepare_echo \/ UNCHANGED ping_seq_num)
  /\ Says("error", Alien(0), raw.q)
  /\ UNCHANGED <<target, times, echoes, ping_calls, answers, foreign>>

\* ping_recv: a message that is not the answer is thrown away, and the time
\* to wait begins again.
Mine_any(e) == e.seq # 0
Mine(e) == e.seq = ping_seq_num
Receive ==
  /\ ppc = "recv" /\ raw.q # <<>>
  /\ LET e == Head(raw.q)
     IN IF Mine(e) THEN Says("reply", e, Tail(raw.q))
        ELSE raw' = [raw EXCEPT !.q = Tail(@)] /\ UNCHANGED <<ppc, lines, by, send_times>>
  /\ UNCHANGED <<target, times, ping_seq_num, echoes, ping_calls, answers, foreign, troubles>>

\* Of a receive that fails the same is said as of one that took too long.
TimedOut_never == FALSE
TimedOut == ppc = "recv" /\ raw.q = <<>>
Timeout ==
  /\ \/ TimedOut /\ UNCHANGED troubles
     \/ ppc = "recv" /\ Fails
  /\ Says("timeout", Alien(0), raw.q)
  /\ UNCHANGED <<target, times, ping_seq_num, echoes, ping_calls, answers, foreign>>

Delay ==
  /\ ppc = "delay" /\ ppc' = "send"
  /\ UNCHANGED <<target, times, send_times, ping_seq_num, raw, echoes, lines, by, ping_calls, answers, foreign,
                 troubles>>

-----------------------------------------------------------------------------
(* The network                                                             *)

Arrives(e) == raw' = IF raw.open THEN [raw EXCEPT !.q = Append(@, e)] ELSE raw

\* A host answers an echo, now or in a later call, perhaps again.
Answers ==
  /\ answers < MaxReplies /\ answers' = answers + 1
  /\ \E e \in echoes, again \in BOOLEAN :
       Arrives(e) /\ echoes' = IF again THEN echoes ELSE echoes \ {e}
  /\ UNCHANGED <<ppc, target, times, send_times, ping_seq_num, lines, by, ping_calls, foreign, troubles>>

Foreign ==
  /\ raw.open /\ foreign < MaxForeign /\ foreign' = foreign + 1
  /\ \E seq \in 0 .. times : Arrives(Alien(seq))
  /\ UNCHANGED <<ppc, target, times, send_times, ping_seq_num, echoes, lines, by, ping_calls, answers, troubles>>

Init ==
  /\ ppc = "idle" /\ target \in Hosts /\ times \in Times /\ send_times = 0 /\ ping_seq_num = 0
  /\ raw = Shut /\ echoes = {} /\ lines = <<>> /\ by = <<>>
  /\ ping_calls = 0 /\ answers = 0 /\ foreign = 0 /\ troubles = 0

Thread == Sent \/ NotSent \/ Receive \/ Timeout \/ Delay
Next == Begin \/ Thread \/ Answers \/ Foreign

\* recvfrom returns and the thread is scheduled.
Working  == ppc # "idle"
Goes     == Working /\ (ppc = "recv" => raw.q # <<>> \/ TimedOut)
PingSpec == Init /\ [][Next]_pvars /\ ([]<>~Goes \/ []<><<Thread>>_pvars)

-----------------------------------------------------------------------------
Messages == [call : 0 .. MaxCalls, host : Hosts \union {""}, seq : Nat]

\* Every variable has a value of its type.
TypeOK ==
  /\ ppc \in {"idle", "send", "recv", "delay"} /\ target \in Hosts /\ times \in Times
  /\ send_times \in Nat /\ ping_seq_num \in 0 .. send_times + 1
  /\ raw \in [open : BOOLEAN, q : Seq(Messages)] /\ echoes \subseteq Messages
  /\ lines \in Seq({"reply", "timeout", "error"}) /\ by \in Seq(Messages)
  /\ ping_calls \in 0 .. MaxCalls /\ answers \in 0 .. MaxReplies /\ foreign \in 0 .. MaxForeign
  /\ troubles \in 0 .. MaxFaults

\* An answer that is printed belongs to an echo of this call that nothing
\* else was printed for, or it is late: to an echo of the same number that an
\* earlier call sent, perhaps to another host; or it is another device's echo
\* of the number of one that was tried.
AnswersCounted ==
  \A i \in DOMAIN lines :
    lines[i] = "reply" =>
      /\ by[i].seq \in 1 .. i
      /\ by[i].call = ping_calls => by[i].host = target /\ \A j \in DOMAIN lines \ {i} : by[j].seq # by[i].seq

\* A call that is over has printed one line per echo asked for, and one if none
\* was, and nothing stays open.
Asked == IF times = 0 THEN 1 ELSE times
LinePerEcho ==
  ppc = "idle" => ~raw.open /\ Len(lines) \in {0, Asked} /\ Len(lines) = send_times

\* What of it is inductive.  A line is printed for every echo tried, which are
\* never more than asked for; the number goes up by at most one per line, ...
Counts ==
  /\ Len(lines) = send_times /\ Len(by) = send_times
  /\ ping_seq_num <= send_times \/ ppc = "recv"
  /\ ppc = "recv" => ping_seq_num > 0
  /\ IF ppc = "idle" THEN raw = Shut /\ send_times \in {0, Asked}
     ELSE raw.open /\ send_times < Asked /\ ping_calls > 0
  /\ lines # <<>> => ping_calls > 0
\* ... what is under way or waits was sent to the target if this call sent it,
\* ...
Known(e) ==
  /\ e.call <= ping_calls
  /\ e.call = ping_calls => e.host = target
UnderWay ==
  /\ \A e \in echoes : Known(e) /\ e.call > 0
  /\ \A k \in DOMAIN raw.q : Known(raw.q[k])
\* ... and no number was printed twice.
Printed ==
  \A i \in DOMAIN by :
    /\ lines[i] # "reply" => by[i].seq = 0
    /\ lines[i] = "reply" => by[i].seq \in 1 .. i /\ (by[i].call = ping_calls => by[i].host = target)
    /\ by[i].seq <= ping_seq_num /\ (ppc = "recv" => by[i].seq < ping_seq_num)
    /\ \A j \in DOMAIN by \ {i} : lines[i] = "reply" => by[j].seq # by[i].seq
PingInv == TypeOK /\ Counts /\ UnderWay /\ Printed

\* Every call comes to an end, as long as others do not send for ever.
Ends == Working ~> ~Working
=============================================================================
