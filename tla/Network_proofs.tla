--------------------------- MODULE Network_proofs ---------------------------
(***************************************************************************)
(* Proofs about Network, for every value of the constants and any number   *)
(* of steps: the properties of ping, SNTP and NTP (TimeSafe), and those of *)
(* the HTTP client, the lookup of names, the TFTP server and the discovery *)
(* by UDP (ClientsSafe) that do not depend on what a fold computes.        *)
(*                                                                         *)
(* Each part has a section of its own: what its assumption says of the     *)
(* numbers, what its operators return, and, an action at a time, that the  *)
(* inductive invariant of its module is kept.  The last section puts the   *)
(* parts together.                                                         *)
(***************************************************************************)
EXTENDS Network, SequenceTheorems, FiniteSetTheorems, TLAPS

-----------------------------------------------------------------------------
(* Ping: what is under way in a call, and each echo has its line.          *)

LEMMA PingNumbers ==
  ASSUME I!PingAssumption
  PROVE  /\ MaxCalls \in Nat /\ MaxAnswers \in Nat /\ MaxForeign \in Nat /\ PingFaults \in Nat
         /\ \A n \in EchoTimes : n \in Nat /\ n < 65536
BY DEF I!PingAssumption

\* What the invariant says of a call under way.
LEMMA PingCall ==
  ASSUME I!PingAssumption, I!PingInv
  PROVE  /\ send_times \in Nat /\ ping_seq_num \in Nat /\ ping_seq_num <= send_times + 1
         /\ I!Asked \in Nat /\ I!Asked > 0 /\ I!Asked < 65536
         /\ ping_calls \in Nat /\ (ppc # "idle" => ping_calls > 0 /\ raw.open /\ send_times < I!Asked)
         /\ (ppc # "recv" => ping_seq_num <= send_times) /\ (ppc = "recv" => ping_seq_num > 0)
         /\ raw \in [open : BOOLEAN, q : Seq(I!Messages)]
         /\ lines \in Seq({"reply", "timeout", "error"}) /\ Len(lines) = send_times
         /\ by \in Seq(I!Messages) /\ Len(by) = send_times
<1>1. I!TypeOK /\ I!Counts
  BY DEF I!PingInv
<1>2. I!Asked \in Nat /\ I!Asked > 0 /\ I!Asked < 65536
  BY <1>1, PingNumbers DEF I!TypeOK, I!Asked
<1> QED
  BY <1>1, <1>2 DEF I!TypeOK, I!Counts

\* What others send is a message of no call.
LEMMA PingAlien == \A n \in Nat : I!Alien(n) \in I!Messages /\ I!Alien(n).call = 0 /\ I!Alien(n).seq = n
BY PingNumbers, NetworkAssumption DEF I!Alien, I!Messages

LEMMA PingMessages == ASSUME I!PingAssumption PROVE \A m \in I!Messages : m.call \in Nat /\ m.seq \in Nat
<1> SUFFICES ASSUME NEW m \in I!Messages PROVE m.call \in Nat /\ m.seq \in Nat
  OBVIOUS
<1>1. m.call \in 0 .. MaxCalls /\ m.seq \in Nat
  BY DEF I!Messages
<1> QED
  BY <1>1, PingNumbers

LEMMA PingInit == I!PingAssumption /\ I!Init => I!PingInv
BY PingNumbers DEF I!Init, I!PingInv, I!TypeOK, I!Counts, I!UnderWay, I!Printed, I!Shut, I!Messages

LEMMA PingBegin == I!PingAssumption /\ I!PingInv /\ I!Begin => I!PingInv'
<1> SUFFICES ASSUME I!PingAssumption, I!PingInv, I!Begin PROVE I!PingInv'
  OBVIOUS
<1>1. /\ raw = I!Shut /\ ping_calls' = ping_calls + 1 /\ target' \in PingHosts /\ times' \in EchoTimes
      /\ send_times' = 0 /\ ping_seq_num' = 0 /\ lines' = <<>> /\ by' = <<>> /\ echoes' = echoes
      /\ answers' = answers /\ foreign' = foreign /\ ping_calls' \in 0 .. MaxCalls
      /\ troubles' \in 0 .. PingFaults
  <2>1. I!TypeOK /\ I!Counts
    BY DEF I!PingInv
  <2>2. /\ ping_calls \in 0 .. MaxCalls /\ ping_calls < MaxCalls /\ troubles \in 0 .. PingFaults
        /\ raw = I!Shut
    BY <2>1 DEF I!TypeOK, I!Counts, I!Begin
  <2>3. ping_calls' = ping_calls + 1 /\ (troubles' = troubles \/ (troubles < PingFaults /\ troubles' = troubles + 1))
    BY DEF I!Begin, I!Fails
  <2>4. ping_calls' \in 0 .. MaxCalls /\ troubles' \in 0 .. PingFaults
    BY <2>2, <2>3, PingNumbers
  <2> QED
    BY <2>2, <2>3, <2>4 DEF I!Begin
<1>2. \/ ppc' = "send" /\ raw' = [open |-> TRUE, q |-> <<>>]
      \/ ppc' = "idle" /\ raw' = I!Shut
  BY <1>1 DEF I!Begin, I!Shut
<1>3. raw' \in [open : BOOLEAN, q : Seq(I!Messages)] /\ raw'.q = <<>>
  <2>1. <<>> \in Seq(I!Messages)
    OBVIOUS
  <2>2. CASE raw' = [open |-> TRUE, q |-> <<>>]
    BY <2>1, <2>2
  <2>3. CASE raw' = I!Shut
    BY <2>1, <2>3 DEF I!Shut
  <2> QED
    BY <1>2, <2>2, <2>3
<1>4. I!TypeOK'
  BY <1>1, <1>2, <1>3 DEF I!PingInv, I!TypeOK
<1>5. I!Counts'
  <2>1. times' \in Nat /\ ping_calls \in Nat
    BY <1>1, PingNumbers, PingCall
  <2>2. I!Asked' \in Nat /\ I!Asked' > 0
    BY <2>1 DEF I!Asked
  <2> QED
    BY <1>1, <1>2, <2>1, <2>2 DEF I!Counts
<1>6. I!UnderWay'
  <2>1. \A e \in echoes : e.call \in Nat /\ e.call <= ping_calls /\ e.call > 0
    BY PingMessages DEF I!PingInv, I!TypeOK, I!UnderWay, I!Known
  <2>2. \A e \in echoes : e.call <= ping_calls' /\ e.call # ping_calls'
    BY <1>1, <2>1, PingCall
  <2>3. DOMAIN raw'.q = {}
    BY <1>3
  <2> QED
    BY <1>1, <2>1, <2>2, <2>3 DEF I!UnderWay, I!Known
<1> QED
  BY <1>1, <1>4, <1>5, <1>6 DEF I!PingInv, I!Printed

LEMMA PingSent == I!PingAssumption /\ I!PingInv /\ I!Sent => I!PingInv'
<1> SUFFICES ASSUME I!PingAssumption, I!PingInv, I!Sent PROVE I!PingInv'
  OBVIOUS
<1> DEFINE e == [call |-> ping_calls, host |-> target, seq |-> ping_seq_num']
<1>1. /\ ppc = "send" /\ ppc' = "recv" /\ echoes' = echoes \union {e}
      /\ UNCHANGED <<target, times, send_times, raw, lines, by, ping_calls, answers, foreign, troubles>>
  BY DEF I!Sent
<1>2. ping_seq_num < 65535 /\ ping_seq_num \in Nat /\ ping_seq_num <= send_times
  BY <1>1, PingCall
<1>3. ping_seq_num' = ping_seq_num + 1
  BY <1>2 DEF I!Sent, I!ping_prepare_echo
<1>4. e \in I!Messages /\ e.call = ping_calls /\ e.host = target
  <2>1. ping_calls \in 0 .. MaxCalls /\ target \in PingHosts /\ ping_seq_num' \in Nat
    BY <1>2, <1>3 DEF I!PingInv, I!TypeOK
  <2> QED
    BY <2>1 DEF I!Messages
<1> HIDE DEF e
<1>5. I!TypeOK'
  BY <1>1, <1>2, <1>3, <1>4, PingCall DEF I!PingInv, I!TypeOK
<1>6. I!Counts'
  <2>1. I!Asked' = I!Asked
    BY <1>1 DEF I!Asked
  <2> QED
    BY <1>1, <1>2, <1>3, <2>1, PingCall DEF I!PingInv, I!Counts
<1>7. I!UnderWay'
  BY <1>1, <1>4, PingCall DEF I!PingInv, I!UnderWay, I!Known
<1>8. I!Printed'
  <2>0. \A i \in DOMAIN by : by[i] \in I!Messages
    BY DEF I!PingInv, I!TypeOK
  <2>1. \A i \in DOMAIN by : by[i].seq \in Nat /\ by[i].seq <= ping_seq_num
    BY <2>0, PingMessages DEF I!PingInv, I!Printed
  <2>2. \A i \in DOMAIN by : by[i].seq <= ping_seq_num' /\ by[i].seq < ping_seq_num'
    BY <1>2, <1>3, <2>1
  <2> QED
    BY <1>1, <2>2 DEF I!PingInv, I!Printed
<1> QED
  BY <1>5, <1>6, <1>7, <1>8 DEF I!PingInv

\* A line is printed; q is a part of what waited, e what was taken of it.
LEMMA PingSays ==
  ASSUME I!PingAssumption, I!PingInv, ppc \in {"send", "recv"},
         NEW line \in {"reply", "timeout", "error"}, NEW e \in I!Messages, NEW q \in Seq(I!Messages),
         I!Says(line, e, q), ping_seq_num' \in Nat,
         ping_seq_num <= ping_seq_num', ping_seq_num' <= send_times + 1,
         \A k \in DOMAIN q : I!Known(q[k]),
         IF line = "reply" THEN e.seq = ping_seq_num /\ ppc = "recv" /\ I!Known(e) ELSE e.seq = 0,
         UNCHANGED <<target, times, echoes, ping_calls, answers, foreign>>, troubles' \in 0 .. PingFaults
  PROVE  I!PingInv'
<1> DEFINE n == send_times
<1>1. /\ n \in Nat /\ n < I!Asked /\ I!Asked \in Nat /\ ping_calls > 0 /\ raw.open /\ ping_seq_num \in Nat
      /\ lines \in Seq({"reply", "timeout", "error"}) /\ Len(lines) = n /\ by \in Seq(I!Messages) /\ Len(by) = n
      /\ raw \in [open : BOOLEAN, q : Seq(I!Messages)] /\ times \in Nat /\ (ppc = "recv" => ping_seq_num > 0)
  BY PingCall, PingNumbers DEF I!PingInv, I!TypeOK
<1>2. /\ lines' = Append(lines, line) /\ by' = Append(by, e) /\ send_times' = n + 1
      /\ IF n + 1 >= times THEN ppc' = "idle" /\ raw' = I!Shut ELSE ppc' = "delay" /\ raw' = [raw EXCEPT !.q = q]
  BY DEF I!Says, I!Done
<1> HIDE DEF n
<1>a. /\ lines' \in Seq({"reply", "timeout", "error"}) /\ Len(lines') = n + 1 /\ lines' # <<>>
      /\ \A i \in 1 .. n : lines'[i] = lines[i]
      /\ lines'[n + 1] = line
  BY <1>1, <1>2
<1>b. /\ by' \in Seq(I!Messages) /\ Len(by') = n + 1
      /\ \A i \in 1 .. n : by'[i] = by[i]
      /\ by'[n + 1] = e
  BY <1>1, <1>2
<1>c. DOMAIN by' = 1 .. n + 1 /\ DOMAIN by = 1 .. n /\ DOMAIN lines = 1 .. n
  BY <1>1, <1>b
<1>d. /\ raw' \in [open : BOOLEAN, q : Seq(I!Messages)]
      /\ raw'.q = q \/ raw'.q = <<>>
      /\ ppc' # "idle" => raw'.open
  <2>1. CASE n + 1 >= times
    <3>1. raw' = I!Shut /\ ppc' = "idle"
      BY <1>2, <2>1
    <3> QED
      BY <3>1 DEF I!Shut
  <2>2. CASE ~(n + 1 >= times)
    <3>1. raw' = [raw EXCEPT !.q = q] /\ ppc' = "delay"
      BY <1>2, <2>2
    <3>2. raw' \in [open : BOOLEAN, q : Seq(I!Messages)] /\ raw'.q = q
      BY <1>1, <3>1
    <3>3. raw'.open = raw.open
      BY <1>1, <3>1
    <3> QED
      BY <1>1, <3>1, <3>2, <3>3
  <2> QED
    BY <2>1, <2>2
<1>4. I!TypeOK'
  <2>1. ping_seq_num' \in 0 .. send_times' + 1 /\ send_times' \in Nat /\ ppc' \in {"idle", "delay"}
    BY <1>1, <1>2 DEF n
  <2> QED
    BY <1>a, <1>b, <1>d, <2>1 DEF I!PingInv, I!TypeOK
<1>5. I!Counts'
  <2>1. I!Asked' = I!Asked
    BY DEF I!Asked
  <2>2. IF ppc' = "idle" THEN raw' = I!Shut /\ send_times' = I!Asked ELSE raw'.open /\ send_times' < I!Asked
    BY <1>1, <1>2, <1>d DEF I!Asked
  <2>3. Len(lines') = send_times' /\ Len(by') = send_times' /\ ping_seq_num' <= send_times' /\ ppc' # "recv"
    BY <1>2, <1>a, <1>b DEF n
  <2> QED
    BY <1>1, <2>1, <2>2, <2>3 DEF I!Counts
<1>6. I!UnderWay'
  <2>1. \A m : I!Known(m)' <=> I!Known(m)
    BY DEF I!Known
  <2>2. \A k \in DOMAIN raw'.q : raw'.q = q
    BY <1>d
  <2> QED
    BY <2>1, <2>2 DEF I!PingInv, I!UnderWay
<1>7. \A i \in 1 .. n :
        /\ by[i].seq \in Nat /\ by[i].seq <= ping_seq_num /\ (ppc = "recv" => by[i].seq < ping_seq_num)
        /\ lines[i] # "reply" => by[i].seq = 0
        /\ lines[i] = "reply" => by[i].seq \in 1 .. i /\ (by[i].call = ping_calls => by[i].host = target)
        /\ \A j \in (1 .. n) \ {i} : lines[i] = "reply" => by[j].seq # by[i].seq
  <2>1. \A i \in 1 .. n : by[i] \in I!Messages
    BY <1>1
  <2> QED
    BY <1>c, <2>1, PingMessages DEF I!PingInv, I!Printed
<1>8. ASSUME NEW i \in 1 .. n + 1
      PROVE  /\ lines'[i] # "reply" => by'[i].seq = 0
             /\ lines'[i] = "reply" => by'[i].seq \in 1 .. i /\ (by'[i].call = ping_calls => by'[i].host = target)
             /\ by'[i].seq <= ping_seq_num'
             /\ \A j \in (1 .. n + 1) \ {i} : lines'[i] = "reply" => by'[j].seq # by'[i].seq
  <2>1. e.seq \in Nat /\ e.seq <= ping_seq_num'
    BY <1>1, PingMessages
  <2>2. CASE i \in 1 .. n
    <3>1. lines'[i] = lines[i] /\ by'[i] = by[i]
      BY <1>a, <1>b, <2>2
    <3>2. by[i].seq <= ping_seq_num'
      BY <1>1, <1>7, <2>2
    <3>3. ASSUME NEW j \in (1 .. n + 1) \ {i}, lines[i] = "reply" PROVE by'[j].seq # by[i].seq
      <4>1. CASE j \in 1 .. n
        BY <1>7, <1>b, <2>2, <3>3, <4>1
      <4>2. CASE j = n + 1
        <5>1. by[i].seq > 0 /\ by'[j] = e
          BY <1>7, <1>b, <2>2, <3>3, <4>2
        <5> QED
          BY <1>1, <1>7, <2>2, <5>1
      <4> QED
        BY <1>1, <4>1, <4>2
    <3> QED
      BY <1>7, <2>2, <3>1, <3>2, <3>3
  <2>3. CASE i = n + 1
    <3>1. line = "reply" => e.seq \in 1 .. i /\ (e.call = ping_calls => e.host = target)
      <4>1. ping_seq_num <= n + 1
        BY PingCall DEF n
      <4> QED
        BY <1>1, <2>3, <4>1 DEF I!Known
    <3>2. ASSUME NEW j \in (1 .. n + 1) \ {i}, line = "reply" PROVE by'[j].seq # e.seq
      <4>1. j \in 1 .. n /\ by'[j] = by[j]
        BY <1>1, <1>b, <2>3
      <4> QED
        BY <1>1, <1>7, <3>2, <4>1
    <3> QED
      BY <1>1, <1>a, <1>b, <2>1, <2>3, <3>1, <3>2
  <2> QED
    BY <1>1, <2>2, <2>3
<1>9. I!Printed'
  <2>1. ppc' # "recv" /\ ping_calls' = ping_calls /\ target' = target
    BY <1>2
  <2> QED
    BY <1>c, <1>8, <2>1 DEF I!Printed
<1> QED
  BY <1>4, <1>5, <1>6, <1>9 DEF I!PingInv

LEMMA PingThread == I!PingAssumption /\ I!PingInv /\ (I!NotSent \/ I!Receive \/ I!Timeout) => I!PingInv'
<1> SUFFICES ASSUME I!PingAssumption, I!PingInv PROVE I!NotSent \/ I!Receive \/ I!Timeout => I!PingInv'
  OBVIOUS
<1>1. /\ ping_seq_num \in Nat /\ send_times \in Nat /\ raw \in [open : BOOLEAN, q : Seq(I!Messages)]
      /\ \A k \in DOMAIN raw.q : I!Known(raw.q[k])
      /\ troubles \in 0 .. PingFaults /\ ping_seq_num <= send_times + 1 /\ PingFaults \in Nat
  BY PingNumbers DEF I!PingInv, I!TypeOK, I!UnderWay
<1>2. CASE I!NotSent
  <2>1. I!Alien(0) \in I!Messages /\ I!Alien(0).seq = 0
    BY PingAlien
  <2>2. /\ ppc = "send" /\ troubles' \in 0 .. PingFaults
        /\ I!Says("error", I!Alien(0), raw.q) /\ UNCHANGED <<target, times, echoes, ping_calls, answers, foreign>>
    BY <1>1, <1>2 DEF I!NotSent, I!Fails
  <2>3. ping_seq_num <= send_times /\ ping_seq_num + 1 < 65536
    BY <2>2, PingCall
  <2>4. ping_seq_num' \in Nat /\ ping_seq_num <= ping_seq_num' /\ ping_seq_num' <= send_times + 1
    BY <1>1, <1>2, <2>3 DEF I!NotSent, I!ping_prepare_echo
  <2> QED
    BY <1>1, <2>1, <2>2, <2>4, PingSays
<1>3. CASE I!Timeout
  <2>1. I!Alien(0) \in I!Messages /\ I!Alien(0).seq = 0
    BY PingAlien
  <2>2. /\ ppc = "recv" /\ ping_seq_num' = ping_seq_num /\ troubles' \in 0 .. PingFaults
        /\ I!Says("timeout", I!Alien(0), raw.q) /\ UNCHANGED <<target, times, echoes, ping_calls, answers, foreign>>
    BY <1>1, <1>3 DEF I!Timeout, I!TimedOut, I!Fails
  <2> QED
    BY <1>1, <2>1, <2>2, PingSays
<1>4. CASE I!Receive
  <2> DEFINE e == Head(raw.q)
  <2>1. /\ ppc = "recv" /\ raw.q # <<>> /\ troubles' = troubles
        /\ UNCHANGED <<target, times, ping_seq_num, echoes, ping_calls, answers, foreign>>
        /\ IF I!Mine(e) THEN I!Says("reply", e, Tail(raw.q))
           ELSE raw' = [raw EXCEPT !.q = Tail(raw.q)] /\ UNCHANGED <<ppc, lines, by, send_times>>
    BY <1>4 DEF I!Receive
  <2>2. /\ e \in I!Messages /\ Tail(raw.q) \in Seq(I!Messages) /\ I!Known(e)
        /\ \A k \in DOMAIN Tail(raw.q) : I!Known(Tail(raw.q)[k])
    <3>1. /\ raw.q \in Seq(I!Messages) /\ e = raw.q[1] /\ 1 \in DOMAIN raw.q /\ Tail(raw.q) \in Seq(I!Messages)
          /\ \A k \in DOMAIN Tail(raw.q) : k + 1 \in DOMAIN raw.q /\ Tail(raw.q)[k] = raw.q[k + 1]
      BY <1>1, <2>1
    <3> QED
      BY <1>1, <3>1
  <2>3. CASE I!Mine(e)
    <3>1. e.seq = ping_seq_num /\ I!Says("reply", e, Tail(raw.q))
      BY <2>1, <2>3 DEF I!Mine
    <3>2. ppc = "recv" /\ UNCHANGED <<target, times, ping_seq_num, echoes, ping_calls, answers, foreign, troubles>>
      BY <2>1
    <3> DEFINE rest == Tail(raw.q)
    <3>3. /\ e \in I!Messages /\ rest \in Seq(I!Messages) /\ I!Known(e) /\ (\A k \in DOMAIN rest : I!Known(rest[k]))
          /\ I!Says("reply", e, rest) /\ e.seq = ping_seq_num
      BY <2>2, <3>1
    <3> HIDE DEF e, rest
    <3> QED
      BY <1>1, <3>2, <3>3, PingSays
  <2>4. CASE ~I!Mine(e)
    <3>1. raw' = [raw EXCEPT !.q = Tail(raw.q)] /\ UNCHANGED <<ppc, lines, by, send_times>>
      BY <2>1, <2>4
    <3>2. I!TypeOK'
      BY <1>1, <2>1, <2>2, <3>1 DEF I!PingInv, I!TypeOK
    <3>3. I!Counts'
      <4>1. raw'.open = raw.open /\ I!Asked' = I!Asked
        BY <1>1, <2>1, <3>1 DEF I!Asked
      <4> QED
        BY <2>1, <3>1, <4>1 DEF I!PingInv, I!Counts
    <3>4. I!UnderWay'
      BY <1>1, <2>1, <2>2, <3>1 DEF I!PingInv, I!UnderWay, I!Known
    <3>5. I!Printed'
      BY <2>1, <3>1 DEF I!PingInv, I!Printed
    <3> QED
      BY <3>2, <3>3, <3>4, <3>5 DEF I!PingInv
  <2> QED
    BY <2>3, <2>4
<1> QED
  BY <1>2, <1>3, <1>4

\* A message that comes is known; it waits if the socket is open.
LEMMA PingArrives ==
  ASSUME I!PingAssumption, I!PingInv, NEW e \in I!Messages, I!Arrives(e), raw.open => I!Known(e),
         echoes' \subseteq echoes, answers' \in 0 .. MaxAnswers, foreign' \in 0 .. MaxForeign,
         UNCHANGED <<ppc, target, times, send_times, ping_seq_num, lines, by, ping_calls, troubles>>
  PROVE  I!PingInv'
<1>1. raw \in [open : BOOLEAN, q : Seq(I!Messages)]
  BY DEF I!PingInv, I!TypeOK
<1>2. raw' = IF raw.open THEN [raw EXCEPT !.q = Append(raw.q, e)] ELSE raw
  BY DEF I!Arrives
<1>3. raw' \in [open : BOOLEAN, q : Seq(I!Messages)] /\ (~raw.open => raw' = raw)
  <2>1. Append(raw.q, e) \in Seq(I!Messages)
    BY <1>1
  <2> QED
    BY <1>1, <1>2, <2>1
<1>a. raw'.open = raw.open
  BY <1>1, <1>2
<1>4. I!TypeOK'
  BY <1>3 DEF I!PingInv, I!TypeOK
<1>5. I!Counts'
  <2>1. I!Asked' = I!Asked
    BY DEF I!Asked
  <2>2. ppc = "idle" => raw' = I!Shut
    BY <1>3 DEF I!PingInv, I!Counts, I!Shut
  <2> QED
    BY <1>a, <2>1, <2>2 DEF I!PingInv, I!Counts
<1>6. I!UnderWay'
  <2>1. \A m : I!Known(m)' <=> I!Known(m)
    BY DEF I!Known
  <2>2. \A k \in DOMAIN raw.q : I!Known(raw.q[k])
    BY DEF I!PingInv, I!UnderWay
  <2>3. \A k \in DOMAIN raw'.q : I!Known(raw'.q[k])
    BY <1>1, <1>2, <2>2
  <2> QED
    BY <2>1, <2>3 DEF I!PingInv, I!UnderWay
<1>7. I!Printed'
  BY DEF I!PingInv, I!Printed
<1> QED
  BY <1>4, <1>5, <1>6, <1>7 DEF I!PingInv

LEMMA PingNetwork == I!PingAssumption /\ I!PingInv /\ (I!Answers \/ I!Foreign) => I!PingInv'
<1> SUFFICES ASSUME I!PingAssumption, I!PingInv PROVE I!Answers \/ I!Foreign => I!PingInv'
  OBVIOUS
<1>1. answers \in 0 .. MaxAnswers /\ foreign \in 0 .. MaxForeign
  BY DEF I!PingInv, I!TypeOK
<1>2. CASE I!Answers
  <2>1. PICK e \in echoes : I!Arrives(e) /\ echoes' \subseteq echoes
    BY <1>2 DEF I!Answers
  <2>2. /\ answers' \in 0 .. MaxAnswers /\ foreign' = foreign
        /\ UNCHANGED <<ppc, target, times, send_times, ping_seq_num, lines, by, ping_calls, troubles>>
    BY <1>1, <1>2, PingNumbers DEF I!Answers
  <2>3. e \in I!Messages /\ I!Known(e)
    BY DEF I!PingInv, I!TypeOK, I!UnderWay
  <2> QED
    BY <1>1, <2>1, <2>2, <2>3, PingArrives
<1>3. CASE I!Foreign
  <2>1. PICK n \in 0 .. times : I!Arrives(I!Alien(n))
    BY <1>3 DEF I!Foreign
  <2>2. /\ foreign' \in 0 .. MaxForeign /\ answers' = answers /\ raw.open /\ echoes' = echoes
        /\ UNCHANGED <<ppc, target, times, send_times, ping_seq_num, lines, by, ping_calls, troubles>>
    BY <1>1, <1>3, PingNumbers DEF I!Foreign
  <2>3. I!Alien(n) \in I!Messages /\ I!Alien(n).call = 0
    BY PingNumbers, PingAlien DEF I!PingInv, I!TypeOK
  <2>4. ping_calls > 0 /\ ping_calls \in Nat
    BY <2>2 DEF I!PingInv, I!TypeOK, I!Counts, I!Shut
  <2>5. I!Known(I!Alien(n))
    BY <2>3, <2>4 DEF I!Known
  <2> QED
    BY <1>1, <2>1, <2>2, <2>3, <2>5, PingArrives
<1> QED
  BY <1>2, <1>3

LEMMA PingStep == I!PingAssumption /\ I!PingInv /\ [I!Next]_pingVars => I!PingInv'
<1> SUFFICES ASSUME I!PingAssumption, I!PingInv, [I!Next]_pingVars PROVE I!PingInv'
  OBVIOUS
<1>1. CASE I!Delay \/ UNCHANGED pingVars
  <2>1. /\ UNCHANGED <<target, times, send_times, ping_seq_num, raw, echoes, lines, by, ping_calls, answers,
                       foreign, troubles>>
        /\ ppc' = ppc \/ (ppc = "delay" /\ ppc' = "send")
    BY <1>1 DEF I!Delay, pingVars
  <2>2. I!TypeOK'
    BY <2>1 DEF I!PingInv, I!TypeOK
  <2>3. I!Counts'
    BY <2>1 DEF I!PingInv, I!Counts, I!Asked
  <2>4. I!UnderWay'
    BY <2>1 DEF I!PingInv, I!UnderWay, I!Known
  <2>5. I!Printed'
    BY <2>1 DEF I!PingInv, I!Printed
  <2> QED
    BY <2>2, <2>3, <2>4, <2>5 DEF I!PingInv
<1> QED
  BY <1>1, PingBegin, PingSent, PingThread, PingNetwork DEF I!Next, I!Thread

LEMMA PingSafe == I!PingInv => I!TypeOK /\ I!AnswersCounted /\ I!LinePerEcho
<1> SUFFICES ASSUME I!PingInv PROVE I!AnswersCounted /\ I!LinePerEcho
  BY DEF I!PingInv
<1>1. DOMAIN lines = DOMAIN by
  BY DEF I!PingInv, I!TypeOK, I!Counts
<1>2. I!AnswersCounted
  BY <1>1 DEF I!PingInv, I!Printed, I!AnswersCounted
<1>3. I!LinePerEcho
  BY DEF I!PingInv, I!Counts, I!LinePerEcho, I!Shut
<1> QED
  BY <1>2, <1>3

-----------------------------------------------------------------------------
(* Sntp: a round ends with one thing told, and no time told is behind.     *)

LEMMA SntpNumbers ==
  A!SntpAssumption => /\ Attempts \in Nat /\ Attempts > 0 /\ Wait \in Nat /\ Wait > 0 /\ PerSecond \in Nat
                      /\ PerSecond > 0 /\ Ahead \in Nat /\ MaxReplies \in Nat
                      /\ \A n \in Begins : n \in Nat
BY DEF A!SntpAssumption

\* The second of a time.
LEMMA SecondOf ==
  ASSUME NEW n \in Nat, NEW p \in Nat, p > 0
  PROVE  /\ (n \div p) * p \in Nat /\ (n \div p) * p <= n /\ n < (n \div p) * p + p
<1>1. n \div p \in Nat /\ (n % p) \in Nat /\ (n % p) < p /\ n = p * (n \div p) + (n % p)
  OBVIOUS
<1> DEFINE q == n \div p
           r == (n % p)
<1>2. p * q = q * p /\ q * p \in Nat
  BY <1>1
<1> QED
  BY <1>1, <1>2

LEMMA SntpInit == A!SntpAssumption /\ A!Init => A!SntpInv
BY SntpNumbers DEF A!Init, A!SntpInv, A!TypeOK, A!ToldOnce, A!UnderWay

\* A round under way: open, or about to close with one thing told.
SntpRequests == {r \in [origin : Nat, sent : Nat] : A!Stamped(r)}
SntpRounds ==
  [sc : {"connecting", "open", "closing"}, sd : 0 .. Attempts + 1, due : Nat, told : Seq(A!Fine), out : SUBSET SntpRequests]
Going(d) == d \in SntpRounds /\ d.told = <<>> /\ d.sc # "closing"
Ending(d) == d \in SntpRounds /\ Len(d.told) = 1 /\ d.sc = "closing"

LEMMA FailedIsFine == [what |-> "failed"] \in A!Fine
BY DEF A!Fine

LEMMA SntpTells ==
  ASSUME NEW d, Going(d), NEW m \in A!Fine
  PROVE  Ending(A!Closes(A!Tells(d, m)))
<1> DEFINE a == [d EXCEPT !.told = Append(d.told, m)]
           b == [a EXCEPT !.sc = "closing"]
<1>1. A!Closes(A!Tells(d, m)) = b
  BY DEF A!Closes, A!Tells
<1>2. Append(d.told, m) \in Seq(A!Fine) /\ Len(Append(d.told, m)) = 1
  BY DEF Going
<1>3. a \in SntpRounds /\ a.told = Append(d.told, m)
  BY <1>2 DEF Going, SntpRounds
<1> HIDE DEF a
<1>4. b \in SntpRounds /\ b.sc = "closing" /\ b.told = a.told
  BY <1>3 DEF SntpRounds
<1> QED
  BY <1>1, <1>2, <1>3, <1>4 DEF Ending

\* An attempt, or the last was made.
LEMMA SntpAsks ==
  ASSUME A!SntpAssumption, now \in Nat, NEW d, Going(d)
  PROVE  /\ Ending(A!Asks(d)) \/ (Going(A!Asks(d)) /\ A!Asks(d).sc = d.sc)
<1>1. CASE A!Again(d.sd)
  <2>1. d.sd + 1 \in 0 .. Attempts + 1 /\ now + Wait \in Nat
    BY <1>1, SntpNumbers DEF Going, SntpRounds, A!Again
  <2>2. A!Request \in SntpRequests
    <3>1. /\ (now \div PerSecond) * PerSecond \in Nat /\ (now \div PerSecond) * PerSecond <= now
          /\ now < (now \div PerSecond) * PerSecond + PerSecond
      BY SecondOf, SntpNumbers
    <3> DEFINE o == (now \div PerSecond) * PerSecond
    <3> HIDE DEF o
    <3>2. A!Request = [origin |-> o, sent |-> now] /\ o \in Nat /\ o <= now /\ now < o + PerSecond
      BY <3>1 DEF A!Request, o
    <3> QED
      BY <3>2 DEF SntpRequests, A!Stamped
  <2> DEFINE a == [d EXCEPT !.sd = d.sd + 1]
             b == [a EXCEPT !.due = now + Wait]
             c == [b EXCEPT !.out = {A!Request}]
  <2>3. A!Asks(d) = c
    BY <1>1 DEF A!Asks, A!NextDue
  <2>4. a \in SntpRounds /\ a.told = <<>> /\ a.sc = d.sc
    BY <2>1 DEF Going, SntpRounds
  <2> HIDE DEF a
  <2>5. b \in SntpRounds /\ b.told = <<>> /\ b.sc = d.sc
    BY <2>1, <2>4 DEF SntpRounds
  <2> HIDE DEF b
  <2>6. c \in SntpRounds /\ c.told = <<>> /\ c.sc = d.sc
    BY <2>2, <2>5 DEF SntpRounds
  <2> QED
    BY <2>3, <2>6 DEF Going
<1>2. CASE ~A!Again(d.sd)
  BY <1>2, SntpTells, FailedIsFine DEF A!Asks
<1> QED
  BY <1>1, <1>2

LEMMA SntpConnected ==
  ASSUME A!SntpAssumption, now \in Nat, NEW d, Going(d), NEW err \in BOOLEAN
  PROVE  LET c == A!Connected(d, err) IN (Going(c) /\ c.sc = "open") \/ Ending(c)
<1>1. CASE d.sc # "connecting"
  BY <1>1 DEF A!Connected, Going, SntpRounds
<1>2. CASE d.sc = "connecting" /\ err
  BY <1>2, SntpTells, FailedIsFine DEF A!Connected
<1>3. CASE d.sc = "connecting" /\ ~err
  <2> DEFINE o == [d EXCEPT !.sc = "open"]
  <2>1. Going(o) /\ o.sc = "open"
    BY DEF Going, SntpRounds
  <2>2. A!Connected(d, err) = A!Asks(o)
    BY <1>3 DEF A!Connected
  <2> HIDE DEF o
  <2> QED
    BY <2>1, <2>2, SntpAsks
<1> QED
  BY <1>1, <1>2, <1>3

\* What a datagram says is right, whatever way it took.
LEMMA SntpReply ==
  ASSUME A!SntpAssumption, now \in Nat, A!UnderWay, NEW g \in datagrams
  PROVE  A!mg_sntp_parse_reply(g) \in A!Fine
<1>1. CASE g.malformed
  BY <1>1, FailedIsFine DEF A!mg_sntp_parse_reply
<1>2. CASE ~g.malformed
  <2>1. /\ g.origin \in Nat /\ g.sent \in Nat /\ g.rx \in Nat /\ g.tx \in Nat
        /\ g.origin <= g.sent /\ g.sent < g.origin + PerSecond /\ g.sent <= now
        /\ g.sent + Ahead <= g.rx /\ g.rx <= g.tx /\ g.tx <= now + Ahead
    BY DEF A!UnderWay, A!Stamped
  <2> DEFINE trip == (now - g.origin) - (g.tx - g.rx)
             time == A!Time(g)
             true == now + Ahead
             way  == g.rx - Ahead - g.sent
             m    == [what |-> "time", time |-> time, true |-> true, way |-> way]
  <2>2. trip >= 0 /\ trip \in Int
    BY <2>1, SntpNumbers
  <2>3. time = g.tx + trip
    BY <2>1, <2>2 DEF A!Time, A!mg_calculate_delay, A!Trip
  <2>4. time \in Int /\ true \in Int /\ way \in Int
    BY <2>1, <2>2, <2>3, SntpNumbers
  <2>5. time - true \in 0 .. way + PerSecond - 1
    BY <2>1, <2>2, <2>3, SntpNumbers
  <2>6. A!mg_sntp_parse_reply(g) = m
    BY <1>2 DEF A!mg_sntp_parse_reply
  <2> HIDE DEF time, true, way
  <2>7. m \in [what : {"time"}, time : Int, true : Int, way : Int] /\ m.time - m.true \in 0 .. m.way + PerSecond - 1
    BY <2>4, <2>5
  <2> QED
    BY <2>6, <2>7 DEF A!Fine
<1> QED
  BY <1>1, <1>2

LEMMA SntpTimed ==
  ASSUME A!SntpAssumption, now \in Nat, NEW d, (Going(d) /\ d.sc = "open") \/ Ending(d)
  PROVE  LET t == A!Timed(d) IN (Going(t) /\ t.sc = "open") \/ Ending(t)
<1>1. CASE d.sc = "closing" \/ d.due = 0 \/ now < d.due
  BY <1>1 DEF A!Timed
<1>2. CASE ~(d.sc = "closing" \/ d.due = 0 \/ now < d.due)
  <2> DEFINE a == A!Asks(d)
             b == [a EXCEPT !.due = 0]
  <2>1. (Going(a) /\ a.sc = "open") \/ Ending(a)
    BY <1>2, SntpAsks DEF Ending
  <2>2. A!Timed(d) = a \/ A!Timed(d) = b
    BY <1>2 DEF A!Timed
  <2> HIDE DEF a
  <2>3. b.told = a.told /\ b.sc = a.sc /\ b \in SntpRounds
    BY <2>1 DEF Going, Ending, SntpRounds
  <2> QED
    BY <2>1, <2>2, <2>3 DEF Going, Ending
<1> QED
  BY <1>1, <1>2

LEMMA SntpPoll == A!SntpAssumption /\ A!SntpInv /\ A!Poll => A!SntpInv'
<1> SUFFICES ASSUME A!SntpAssumption, A!SntpInv, A!Poll PROVE A!SntpInv'
  OBVIOUS
<1>1. PICK err \in BOOLEAN, g \in datagrams \union {A!NoDatagram} :
        /\ (err => sc = "connecting") /\ (g # A!NoDatagram => sc = "open")
        /\ LET d == A!Round(err, g)
           IN /\ sc' = IF d.sc = "closing" THEN "gone" ELSE d.sc
              /\ sd' = IF d.sc = "closing" THEN -1 ELSE d.sd
              /\ due' = d.due /\ told' = d.told
              /\ requests' = IF d.sc = "closing" THEN {} ELSE requests \union d.out
              /\ datagrams' = IF d.sc = "closing" THEN {} ELSE datagrams \ {g}
  BY DEF A!Poll
<1>2. sc \in {"connecting", "open"} /\ now' = now /\ arrived' = arrived
  BY DEF A!Poll
<1> DEFINE d0 == [sc |-> sc, sd |-> sd, due |-> due, told |-> told, out |-> {}]
           d1 == A!Connected(d0, err)
           d2 == A!Receives(d1, g)
           d  == A!Timed(d2)
<1>3. Going(d0) /\ d0.sc = sc
  <2>1. /\ sd \in 0 .. Attempts + 1 /\ due \in Nat /\ told \in Seq(A!Fine) /\ told = <<>>
    BY <1>2, SntpNumbers DEF A!SntpInv, A!TypeOK, A!ToldOnce
  <2> QED
    BY <1>2, <2>1 DEF Going, SntpRounds
<1>4. now \in Nat
  BY DEF A!SntpInv, A!TypeOK
<1>5. (Going(d1) /\ d1.sc = "open") \/ Ending(d1)
  BY <1>3, <1>4, SntpConnected
<1>6. (Going(d2) /\ d2.sc = "open") \/ Ending(d2)
  <2>1. CASE g = A!NoDatagram
    BY <1>5, <2>1 DEF A!Receives
  <2>2. CASE g # A!NoDatagram
    <3>1. d1 = d0
      BY <1>1, <1>3, <2>2 DEF A!Connected
    <3>2. A!mg_sntp_parse_reply(g) \in A!Fine
      BY <1>4, <2>2, SntpReply DEF A!SntpInv
    <3>3. Ending(A!Closes(A!Tells(d1, A!mg_sntp_parse_reply(g))))
      BY <1>3, <3>1, <3>2, SntpTells
    <3> QED
      BY <2>2, <3>3 DEF A!Receives, A!After
  <2> QED
    BY <2>1, <2>2
<1>7. (Going(d) /\ d.sc = "open") \/ Ending(d)
  BY <1>4, <1>6, SntpTimed
<1>8. d = A!Round(err, g)
  BY DEF A!Round
<1> HIDE DEF d
<1>9. CASE Ending(d)
  <2>1. /\ sc' = "gone" /\ sd' = -1 /\ due' = d.due /\ told' = d.told /\ requests' = {} /\ datagrams' = {}
    BY <1>1, <1>8, <1>9 DEF Ending
  <2>2. d.due \in Nat /\ d.told \in Seq(A!Fine) /\ Len(d.told) = 1
    BY <1>9 DEF Ending, SntpRounds
  <2> QED
    BY <1>2, <2>1, <2>2, SntpNumbers DEF A!SntpInv, A!TypeOK, A!ToldOnce, A!UnderWay
<1>10. CASE Going(d) /\ d.sc = "open"
  <2>1. /\ sc' = "open" /\ sd' = d.sd /\ due' = d.due /\ told' = d.told /\ requests' = requests \union d.out
        /\ datagrams' \subseteq datagrams
    BY <1>1, <1>8, <1>10
  <2>2. d.due \in Nat /\ d.told = <<>> /\ d.sd \in 0 .. Attempts + 1 /\ d.out \subseteq SntpRequests
    BY <1>10 DEF Going, SntpRounds
  <2>3. A!UnderWay'
    BY <1>2, <2>1, <2>2 DEF A!SntpInv, A!UnderWay, SntpRequests, A!Stamped
  <2>4. A!TypeOK' /\ A!ToldOnce'
    BY <1>2, <2>1, <2>2, SntpNumbers DEF A!SntpInv, A!TypeOK, A!ToldOnce
  <2> QED
    BY <2>1, <2>2, <2>3, <2>4 DEF A!SntpInv
<1> QED
  BY <1>7, <1>9, <1>10

LEMMA SntpAnswer == A!SntpAssumption /\ A!SntpInv /\ A!Answer => A!SntpInv'
<1> SUFFICES ASSUME A!SntpAssumption, A!SntpInv, A!Answer PROVE A!SntpInv'
  OBVIOUS
<1>1. PICK r \in requests : \E rx \in r.sent .. now : \E tx \in rx .. now : \E malformed \in BOOLEAN :
        /\ datagrams' = datagrams \union {[malformed |-> malformed, origin |-> r.origin, rx |-> rx + Ahead,
                                           tx |-> tx + Ahead, sent |-> r.sent]}
        /\ requests' = requests \ {r}
  BY DEF A!Answer
<1>2. /\ now \in Nat /\ r \in [origin : Nat, sent : Nat] /\ A!Stamped(r) /\ Ahead \in Nat
  BY SntpNumbers DEF A!SntpInv, A!TypeOK, A!UnderWay
<1>3. PICK rx \in r.sent .. now, malformed \in BOOLEAN : \E tx \in rx .. now :
        /\ datagrams' = datagrams \union {[malformed |-> malformed, origin |-> r.origin, rx |-> rx + Ahead,
                                           tx |-> tx + Ahead, sent |-> r.sent]}
        /\ requests' = requests \ {r}
  BY <1>1
<1>4. PICK tx \in rx .. now :
        /\ datagrams' = datagrams \union {[malformed |-> malformed, origin |-> r.origin, rx |-> rx + Ahead,
                                           tx |-> tx + Ahead, sent |-> r.sent]}
        /\ requests' = requests \ {r}
  BY <1>3
<1> DEFINE g == [malformed |-> malformed, origin |-> r.origin, rx |-> rx + Ahead, tx |-> tx + Ahead, sent |-> r.sent]
<1>5. /\ rx \in Nat /\ tx \in Nat /\ rx >= r.sent /\ tx >= rx /\ tx <= now /\ r.sent \in Nat /\ r.origin \in Nat
  BY <1>2
<1>6. /\ g \in [malformed : BOOLEAN, origin : Nat, rx : Nat, tx : Nat, sent : Nat] /\ g.origin = r.origin
      /\ g.sent = r.sent /\ g.rx = rx + Ahead /\ g.tx = tx + Ahead
  BY <1>2, <1>5
<1>7. A!Stamped(g) /\ g.sent + Ahead <= g.rx /\ g.rx <= g.tx /\ g.tx <= now + Ahead
  BY <1>2, <1>5, <1>6 DEF A!Stamped
<1> HIDE DEF g
<1>8. /\ UNCHANGED <<sc, sd, now, due, told>> /\ arrived' = arrived + 1 /\ arrived < MaxReplies
  BY DEF A!Answer
<1>9. A!UnderWay'
  <2>1. datagrams' = datagrams \union {g} /\ requests' \subseteq requests
    BY <1>4 DEF g
  <2> QED
    BY <1>6, <1>7, <1>8, <2>1 DEF A!SntpInv, A!UnderWay, A!Stamped
<1> QED
  BY <1>8, <1>9, SntpNumbers DEF A!SntpInv, A!TypeOK, A!ToldOnce

LEMMA SntpStep == A!SntpAssumption /\ A!SntpInv /\ [A!Next]_sntpVars => A!SntpInv'
<1> SUFFICES ASSUME A!SntpAssumption, A!SntpInv, A!Tick \/ UNCHANGED sntpVars PROVE A!SntpInv'
  BY SntpPoll, SntpAnswer DEF A!Next
<1>1. /\ UNCHANGED <<sc, sd, due, requests, datagrams, told, arrived>> /\ now \in Nat /\ now' \in {now, now + 1}
  BY DEF A!Tick, sntpVars, A!SntpInv, A!TypeOK
<1>2. A!UnderWay'
  <2>1. ASSUME NEW m, m.sent \in Nat, A!Stamped(m) PROVE A!Stamped(m)'
    BY <1>1, <2>1 DEF A!Stamped
  <2>2. \A g \in datagrams : g.tx \in Nat /\ g.sent \in Nat /\ (g.tx <= now + Ahead => g.tx <= now' + Ahead)
    BY <1>1, SntpNumbers DEF A!SntpInv, A!UnderWay
  <2>3. \A r \in requests : r.sent \in Nat
    BY DEF A!SntpInv, A!UnderWay
  <2> QED
    BY <1>1, <2>1, <2>2, <2>3 DEF A!SntpInv, A!UnderWay
<1> QED
  BY <1>1, <1>2 DEF A!SntpInv, A!TypeOK, A!ToldOnce

LEMMA SntpSafe == A!SntpInv => A!TypeOK /\ A!ToldOnce /\ A!TimeNotBehind
<1> SUFFICES ASSUME A!SntpInv, NEW i \in DOMAIN told, told[i].what = "time"
             PROVE  told[i].time - told[i].true \in 0 .. told[i].way + PerSecond - 1
  BY DEF A!SntpInv, A!TimeNotBehind
<1>1. told[i] \in A!Fine
  BY DEF A!SntpInv
<1> QED
  BY <1>1 DEF A!Fine

-----------------------------------------------------------------------------
(* Ntp: the four bytes of the time, the tick at which to give up, and the  *)
(* clock.                                                                  *)

LEMMA NtpNumbers ==
  ASSUME K!NtpAssumption
  PROVE  /\ NtpBase \in Nat /\ NtpBase > 0 /\ Seconds = NtpBase * NtpBase /\ Seconds \in Nat /\ Seconds > 0 /\ NtpDelta \in Nat
         /\ Zone \in Nat /\ Day \in Nat /\ Day > 0 /\ TickValues \in Nat /\ TickValues > 0 /\ NtpTimeout \in Nat
         /\ NtpFaults \in Nat /\ MaxSeconds \in Nat /\ MaxSeconds <= Day /\ Nap \in Nat /\ Nap > 0
         /\ \A t \in Starts : t \in 0 .. TickValues - 1
         /\ \A x \in Stamps : x \in 0 .. Seconds - 1
<1>1. /\ NtpBase \in Nat /\ NtpBase > 0 /\ Seconds = NtpBase * NtpBase /\ NtpDelta \in 0 .. Seconds - 1 /\ Zone \in Nat
      /\ Day \in Nat /\ Day > 0 /\ TickValues \in Nat /\ TickValues > 0 /\ NtpTimeout \in 0 .. TickValues - 1
      /\ NtpFaults \in Nat /\ MaxSeconds \in 0 .. Day /\ Nap \in Nat /\ Nap > 0
      /\ \A t \in Starts : t \in 0 .. TickValues - 1
      /\ \A x \in Stamps : x \in 0 .. Seconds - 1
  BY DEF K!NtpAssumption
<1>2. NtpBase * NtpBase \in Nat /\ NtpBase * NtpBase > 0
  BY <1>1
<1> QED
  BY <1>1, <1>2

\* Quotient and remainder are what they were made of.
LEMMA Multiple ==
  ASSUME NEW m \in Int, m > 0, NEW k \in Int, k > 0
  PROVE  m * k >= m
OBVIOUS

LEMMA DivisionUnique ==
  ASSUME NEW m \in Nat, m > 0, NEW q \in Nat, NEW r \in Nat, r < m
  PROVE  /\ m * q + r \in Nat /\ (m * q + r) \div m = q /\ ((m * q + r) % m) = r
<1> DEFINE x == m * q + r
           p == x \div m
           s0 == (x % m)
<1>1. x \in Nat
  OBVIOUS
<1>2. p \in Nat /\ s0 \in Nat /\ s0 < m /\ x = m * p + s0
  BY <1>1
<1>3. m * q + r = m * p + s0
  BY <1>2
<1>4. m * (p - q) = m * p - m * q /\ m * (q - p) = m * q - m * p
  BY <1>2
<1> HIDE DEF x, p, s0
<1>5. p = q
  <2>1. CASE p > q
    <3>1. m * (p - q) >= m
      BY <1>2, <2>1, Multiple
    <3> QED
      BY <1>2, <1>3, <1>4, <3>1
  <2>2. CASE q > p
    <3>1. m * (q - p) >= m
      BY <1>2, <2>2, Multiple
    <3> QED
      BY <1>2, <1>3, <1>4, <3>1
  <2> QED
    BY <1>2, <2>1, <2>2
<1>6. s0 = r
  BY <1>2, <1>3, <1>5
<1> QED
  BY <1>1, <1>5, <1>6 DEF x, p, s0

LEMMA Division ==
  ASSUME NEW x \in Nat, NEW m \in Nat, m > 0
  PROVE  /\ x \div m \in Nat /\ (x % m) \in Nat /\ (x % m) < m /\ x = m * (x \div m) + (x % m)
OBVIOUS

\* The bytes of a number turned are a number, turned again they are as before.
LEMMA NtpNtohl ==
  ASSUME K!NtpAssumption, NEW x \in 0 .. Seconds - 1
  PROVE  K!Ntohl(x) \in 0 .. Seconds - 1 /\ K!Ntohl(K!Ntohl(x)) = x
<1> DEFINE a == x \div NtpBase
           b == (x % NtpBase)
<1>1. /\ NtpBase \in Nat /\ NtpBase > 0 /\ Seconds = NtpBase * NtpBase /\ x \in Nat /\ x < NtpBase * NtpBase
  BY NtpNumbers
<1>2. a \in Nat /\ b \in Nat /\ b < NtpBase /\ x = NtpBase * a + b
  BY <1>1, Division
<1>3. K!Ntohl(x) = b * NtpBase + a
  BY DEF K!Ntohl
<1> HIDE DEF a, b
<1>4. a < NtpBase
  <2> SUFFICES ASSUME a >= NtpBase PROVE FALSE
    BY <1>1, <1>2
  <2>1. NtpBase * a = NtpBase * NtpBase + NtpBase * (a - NtpBase) /\ NtpBase * (a - NtpBase) >= 0
    BY <1>1, <1>2
  <2>2. NtpBase * a \in Nat /\ NtpBase * NtpBase \in Nat
    BY <1>1, <1>2
  <2> QED
    BY <1>1, <1>2, <2>1, <2>2
<1>5. b * NtpBase = NtpBase * b /\ b * NtpBase \in Nat
  BY <1>1, <1>2
<1>6. b * NtpBase + a < NtpBase * NtpBase
  <2>1. NtpBase * NtpBase = NtpBase * b + NtpBase * (NtpBase - b)
    BY <1>1, <1>2
  <2>2. NtpBase * (NtpBase - b) >= NtpBase
    BY <1>1, <1>2, Multiple
  <2> QED
    BY <1>1, <1>2, <1>4, <1>5, <2>1, <2>2
<1>7. (NtpBase * b + a) \div NtpBase = b /\ ((NtpBase * b + a) % NtpBase) = a
  BY <1>1, <1>2, <1>4, DivisionUnique
<1>8. K!Ntohl(b * NtpBase + a) = a * NtpBase + b
  BY <1>5, <1>7 DEF K!Ntohl
<1>9. a * NtpBase + b = x
  BY <1>1, <1>2
<1> QED
  BY <1>1, <1>2, <1>3, <1>5, <1>6, <1>8, <1>9

LEMMA NtpZero == ASSUME K!NtpAssumption PROVE K!Ntohl(0) = 0
<1>1. 0 \div NtpBase = 0 /\ (0 % NtpBase) = 0
  BY NtpNumbers, DivisionUnique
<1> QED
  BY <1>1, NtpNumbers DEF K!Ntohl

LEMMA NtpTime ==
  ASSUME K!NtpAssumption, NEW x \in 0 .. Seconds - 1
  PROVE  K!UnixTime(x) \in 0 .. Seconds - 1 /\ K!Local(K!UnixTime(x)) \in 0 .. Seconds - 1
<1>1. \A y \in Int : (y % Seconds) \in 0 .. Seconds - 1
  BY NtpNumbers
<1>2. K!UnixTime(x) \in 0 .. Seconds - 1
  BY <1>1, NtpNumbers DEF K!UnixTime
<1> QED
  BY <1>1, <1>2, NtpNumbers DEF K!Local

\* What is received.
LEMMA NtpGiven ==
  ASSUME K!NtpAssumption
  PROVE  /\ K!None.stamp = 0 /\ K!None \notin K!Given
         /\ \A a \in K!Given : a.stamp \in 0 .. Seconds - 1 /\ a.short \in BOOLEAN /\ (a.short => a.stamp = 0)
         /\ \A x \in Stamps, short \in BOOLEAN : K!Answer(x, short) \in K!Given
<1>1. /\ K!None.stamp = 0 /\ K!None \notin K!Given
  BY DEF K!None, K!Given
<1>2. \A a \in K!Given : a.stamp \in 0 .. Seconds - 1 /\ a.short \in BOOLEAN /\ (a.short => a.stamp = 0)
  BY DEF K!Given
<1>3. ASSUME NEW x \in Stamps, NEW short \in BOOLEAN PROVE K!Answer(x, short) \in K!Given
  <2>1. x \in 0 .. Seconds - 1 /\ 0 \in 0 .. Seconds - 1
    BY NtpNumbers
  <2>2. CASE short
    BY <2>1, <2>2 DEF K!Answer, K!Given
  <2>3. CASE ~short
    BY <2>1, <2>3 DEF K!Answer, K!Given
  <2> QED
    BY <2>2, <2>3
<1> QED
  BY <1>1, <1>2, <1>3

LEMMA NtpInit == K!NtpAssumption /\ K!Init => K!NtpCore
<1> SUFFICES ASSUME K!NtpAssumption, K!Init PROVE K!NtpCore
  OBVIOUS
<1>1. K!TypeOK /\ K!SocketsClosed
  <2>1. \A c \in Callers : npc[c] \in {"call", "done"} /\ new_time[c] = 0 /\ start[c] = 0 /\ socks[c] = K!Closed
    BY DEF K!Init
  <2>2. ~K!Closed.open
    BY DEF K!Closed
  <2>3. /\ 0 \in 0 .. Seconds - 1 /\ 0 \in 0 .. TickValues - 1 /\ tick \in 0 .. TickValues - 1
        /\ misses \in 0 .. NtpFaults /\ txTm_s = 0 /\ rtc = 0 /\ ntp_packet = "zero" /\ mixed = FALSE /\ wrapped = FALSE
    BY NtpNumbers DEF K!Init
  <2> QED
    BY <2>1, <2>2, <2>3 DEF K!TypeOK, K!SocketsClosed
<1>2. K!Shapes
  <2>1. K!Closed \in [open : BOOLEAN, q : Seq(K!Given)]
    BY DEF K!Closed
  <2>2. /\ npc \in [Callers -> {"call", "ask", "poll", "late", "convert", "take", "set_time", "set_date", "done"}]
        /\ new_time \in [Callers -> 0 .. Seconds - 1] /\ start \in [Callers -> 0 .. TickValues - 1] /\ passed \in 0 .. MaxSeconds
        /\ first \in [Callers -> K!Given \union {K!None}]
    BY NtpNumbers DEF K!Init
  <2>3. hosts \in [Callers -> [left : SUBSET Servers, asked : SUBSET Servers, num : Nat]]
    BY DEF K!Init
  <2> QED
    BY <2>1, <2>2, <2>3 DEF K!Init, K!Shapes
<1>3. ASSUME NEW c \in Callers PROVE K!Stage(c) /\ K!InPacket(c) /\ K!Clock(c)
  BY DEF K!Init, K!Stage, K!InPacket, K!Clock, K!Busy
<1> QED
  BY <1>1, <1>2, <1>3 DEF K!NtpCore

\* The clock is as it was for whom it concerns if no call comes to its end with
\* a time.
LEMMA NtpClockStays ==
  ASSUME K!NtpCore, UNCHANGED <<rtc, passed>>,
         \A d \in Callers :
            \/ new_time'[d] = new_time[d]
               /\ (npc'[d] \in {"set_date", "done"} => npc'[d] = npc[d] \/ new_time[d] = 0)
            \/ new_time[d] = 0,
         \A d \in Callers : new_time[d] = 0 => npc'[d] # "set_date" /\ (npc'[d] = "done" => new_time'[d] = 0)
  PROVE  \A d \in Callers : K!Alone(d)' => K!Clock(d)'
<1> SUFFICES ASSUME NEW d \in Callers, K!Alone(d)' PROVE K!Clock(d)'
  OBVIOUS
<1>1. K!Alone(d)
  BY DEF K!Alone
<1>2. K!Clock(d)
  BY <1>1 DEF K!NtpCore
<1> QED
  BY <1>2 DEF K!Clock, K!OnTime

\* A call goes on with its packet as it was: nobody else's part changes.
LEMMA NtpPacketStays ==
  ASSUME K!NtpCore, NEW c \in Callers, txTm_s' = txTm_s, UNCHANGED <<first, mixed, tick, start>>,
         \A d \in Callers \ {c} : npc'[d] = npc[d] /\ new_time'[d] = new_time[d],
         ~mixed' => K!InPacket(c)' /\ (K!Busy(c)' => K!Busy(c)),
         NEW d \in Callers, ~mixed'
  PROVE  K!InPacket(d)'
<1>1. CASE d = c
  BY <1>1
<1>2. CASE d # c
  <2>1. K!InPacket(d) /\ npc'[d] = npc[d] /\ new_time'[d] = new_time[d]
    BY <1>2 DEF K!NtpCore
  <2>2. \A e \in Callers : K!Busy(e)' => K!Busy(e)
    BY DEF K!Busy
  <2>3. K!Busy(d)' => ~K!Others(d)'
    BY <2>1, <2>2 DEF K!InPacket, K!Others
  <2> QED
    BY <2>1, <2>3 DEF K!InPacket
<1> QED
  BY <1>1, <1>2

LEMMA NtpPrepare == ASSUME K!NtpAssumption, K!NtpCore, NEW c \in Callers, K!Prepare(c) PROVE K!NtpCore'
<1>1. /\ npc[c] = "call" /\ ntp_packet' = "request" /\ txTm_s' = 0 /\ mixed' = (mixed \/ K!Others(c))
      /\ UNCHANGED <<hosts, new_time, tick, start, rtc, passed, first, wrapped>>
  BY DEF K!Prepare, K!clock, K!hist
<1>2. \/ npc' = [npc EXCEPT ![c] = "ask"] /\ socks' = [socks EXCEPT ![c].open = TRUE] /\ misses' = misses
      \/ npc' = [npc EXCEPT ![c] = "done"] /\ socks' = socks /\ misses' \in 0 .. NtpFaults
  BY NtpNumbers DEF K!Prepare, K!NtpCore, K!TypeOK
<1>3. K!Shapes /\ K!TypeOK /\ K!SocketsClosed /\ K!Stage(c) /\ mixed' \in BOOLEAN
  <2>1. mixed \in BOOLEAN /\ K!Others(c) \in BOOLEAN
    BY DEF K!NtpCore, K!TypeOK, K!Others
  <2> QED
    BY <1>1, <2>1 DEF K!NtpCore
<1>4. \A d \in Callers \ {c} : npc'[d] = npc[d] /\ socks'[d] = socks[d]
  BY <1>2, <1>3 DEF K!Shapes
<1>5. npc'[c] \in {"ask", "done"} /\ (npc'[c] = "done" => socks' = socks)
  BY <1>2, <1>3 DEF K!Shapes
<1>6. K!Shapes' /\ K!TypeOK'
  <2>1. npc' \in [Callers -> {"call", "ask", "poll", "late", "convert", "take", "set_time", "set_date", "done"}]
    BY <1>2, <1>3 DEF K!Shapes
  <2>2. socks' \in [Callers -> [open : BOOLEAN, q : Seq(K!Given)]]
    <3>1. socks \in [Callers -> [open : BOOLEAN, q : Seq(K!Given)]]
      BY <1>3 DEF K!Shapes
    <3>2. [socks EXCEPT ![c].open = TRUE] \in [Callers -> [open : BOOLEAN, q : Seq(K!Given)]]
      BY <3>1
    <3> QED
      BY <1>2, <3>1, <3>2
  <2>3. K!Shapes'
    BY <1>1, <1>3, <2>1, <2>2 DEF K!Shapes
  <2>4. misses' \in 0 .. NtpFaults /\ 0 \in 0 .. Seconds - 1
    BY <1>2, <1>3, NtpNumbers DEF K!TypeOK
  <2> QED
    BY <1>1, <1>3, <2>1, <2>3, <2>4 DEF K!TypeOK
<1>7. K!SocketsClosed'
  BY <1>1, <1>3, <1>4, <1>5 DEF K!SocketsClosed
<1>8. ASSUME NEW d \in Callers PROVE K!Stage(d)'
  BY <1>1, <1>4, <1>5 DEF K!NtpCore, K!Stage
<1>9. ASSUME NEW d \in Callers, ~mixed' PROVE K!InPacket(d)'
  <2>1. ~mixed /\ ~K!Others(c)
    BY <1>1, <1>9
  <2>2. CASE d = c
    <3>1. ~K!Others(c)'
      BY <1>4, <2>1 DEF K!Others, K!Busy
    <3>2. first[c] = K!None /\ new_time[c] = 0
      BY <1>1, <1>3 DEF K!Stage
    <3> QED
      BY <1>1, <1>5, <2>2, <3>1, <3>2 DEF K!InPacket, K!Busy
  <2>3. CASE d # c
    <3>1. ~K!Busy(d) /\ npc'[d] = npc[d]
      BY <1>4, <2>1, <2>3 DEF K!Others
    <3>2. K!InPacket(d)
      BY <2>1 DEF K!NtpCore
    <3> QED
      BY <1>1, <3>1, <3>2 DEF K!InPacket, K!Busy
  <2> QED
    BY <2>2, <2>3
<1>10. \A d \in Callers : K!Alone(d)' => K!Clock(d)'
  <2>1. \A d \in Callers : npc'[d] \in {"set_date", "done"} => npc'[d] = npc[d] \/ new_time[d] = 0
    BY <1>1, <1>3, <1>4 DEF K!Stage
  <2>2. \A d \in Callers : new_time[d] = 0 => npc'[d] # "set_date" /\ (npc'[d] = "done" => new_time'[d] = 0)
    BY <1>1, <1>4, <1>5 DEF K!NtpCore, K!Stage
  <2> QED
    BY <1>1, <2>1, <2>2, NtpClockStays
<1> QED
  BY <1>6, <1>7, <1>8, <1>9, <1>10 DEF K!NtpCore

LEMMA NtpSend == ASSUME K!NtpAssumption, K!NtpCore, NEW c \in Callers, K!sendto_ntp_server(c) PROVE K!NtpCore'
<1>1. /\ UNCHANGED <<npc, ntp_packet, txTm_s, socks, new_time, tick, start, rtc, passed, first, wrapped, mixed>>
  BY DEF K!sendto_ntp_server, K!clock, K!hist
<1>2. K!Shapes /\ K!TypeOK /\ K!SocketsClosed
  BY DEF K!NtpCore
<1>3. PICK h \in hosts[c].left :
       \/ hosts' = [hosts EXCEPT ![c] = [left |-> hosts[c].left \ {h},
                      asked |-> IF ntp_packet = "request" THEN hosts[c].asked \union {h} ELSE hosts[c].asked,
                      num |-> hosts[c].num + 1]] /\ misses' = misses
       \/ misses < NtpFaults /\ misses' = misses + 1 /\ hosts' = [hosts EXCEPT ![c].left = hosts[c].left \ {h}]
  BY DEF K!sendto_ntp_server
<1>4. hosts' \in [Callers -> [left : SUBSET Servers, asked : SUBSET Servers, num : Nat]]
  <2>1. hosts[c] \in [left : SUBSET Servers, asked : SUBSET Servers, num : Nat]
    BY <1>2 DEF K!Shapes
  <2>2. h \in Servers
    BY <2>1
  <2> DEFINE asked == IF ntp_packet = "request" THEN hosts[c].asked \union {h} ELSE hosts[c].asked
  <2>3. asked \in SUBSET Servers /\ hosts[c].left \ {h} \in SUBSET Servers /\ hosts[c].num + 1 \in Nat
    BY <2>1, <2>2
  <2> HIDE DEF asked
  <2>4. [left |-> hosts[c].left \ {h}, asked |-> asked, num |-> hosts[c].num + 1]
           \in [left : SUBSET Servers, asked : SUBSET Servers, num : Nat]
    BY <2>3
  <2>5. CASE hosts' = [hosts EXCEPT ![c] = [left |-> hosts[c].left \ {h}, asked |-> asked, num |-> hosts[c].num + 1]]
    BY <1>2, <2>4, <2>5 DEF K!Shapes
  <2>6. CASE hosts' = [hosts EXCEPT ![c].left = hosts[c].left \ {h}]
    BY <1>2, <2>3, <2>6 DEF K!Shapes
  <2> QED
    BY <1>3, <2>5, <2>6 DEF asked
<1>5. misses' \in 0 .. NtpFaults
  BY <1>2, <1>3, NtpNumbers DEF K!TypeOK
<1>6. K!Shapes' /\ K!TypeOK' /\ K!SocketsClosed'
  BY <1>1, <1>2, <1>4, <1>5 DEF K!Shapes, K!TypeOK, K!SocketsClosed
<1>7. \A d \in Callers : K!Stage(d)' /\ (~mixed' => K!InPacket(d)') /\ (K!Alone(d)' => K!Clock(d)')
  BY <1>1 DEF K!NtpCore, K!Stage, K!InPacket, K!Busy, K!Others, K!Alone, K!Clock, K!OnTime
<1> QED
  BY <1>6, <1>7 DEF K!NtpCore

LEMMA NtpAsked == ASSUME K!NtpAssumption, K!NtpCore, NEW c \in Callers, K!Asked(c) PROVE K!NtpCore'
<1>1. /\ npc[c] = "ask"
      /\ UNCHANGED <<ntp_packet, txTm_s, hosts, new_time, tick, rtc, passed, misses, first, mixed>>
  BY DEF K!Asked, K!clock
<1>2. \/ /\ npc' = [npc EXCEPT ![c] = "done"] /\ socks' = [socks EXCEPT ![c] = K!Closed] /\ start' = start /\ wrapped' = wrapped
      \/ /\ npc' = [npc EXCEPT ![c] = "poll"] /\ start' = [start EXCEPT ![c] = tick] /\ socks' = socks
         /\ wrapped' = (wrapped \/ tick + NtpTimeout >= TickValues)
  BY DEF K!Asked, K!Unasked
<1>3. K!Shapes /\ K!TypeOK /\ K!SocketsClosed /\ K!Stage(c)
  BY DEF K!NtpCore
<1>4. \A d \in Callers \ {c} : npc'[d] = npc[d] /\ socks'[d] = socks[d] /\ start'[d] = start[d]
  BY <1>2, <1>3 DEF K!Shapes
<1>5. npc'[c] \in {"poll", "done"} /\ (npc'[c] = "done" => socks'[c] = K!Closed)
  BY <1>2, <1>3 DEF K!Shapes
<1>6. wrapped' \in BOOLEAN
  BY <1>2, <1>3 DEF K!TypeOK
<1>7. K!Closed \in [open : BOOLEAN, q : Seq(K!Given)] /\ ~K!Closed.open
  BY DEF K!Closed
<1>8. K!Shapes' /\ K!TypeOK'
  <2>1. npc' \in [Callers -> {"call", "ask", "poll", "late", "convert", "take", "set_time", "set_date", "done"}]
    BY <1>2, <1>3 DEF K!Shapes
  <2>2. socks' \in [Callers -> [open : BOOLEAN, q : Seq(K!Given)]]
    BY <1>2, <1>3, <1>7 DEF K!Shapes
  <2>3. start' \in [Callers -> 0 .. TickValues - 1]
    BY <1>2, <1>3 DEF K!Shapes, K!TypeOK
  <2>4. K!Shapes'
    BY <1>1, <1>3, <2>1, <2>2, <2>3 DEF K!Shapes
  <2> QED
    BY <1>1, <1>3, <1>6, <2>4 DEF K!TypeOK, K!Shapes
<1>9. K!SocketsClosed'
  BY <1>3, <1>4, <1>5, <1>7 DEF K!SocketsClosed
<1>10. ASSUME NEW d \in Callers PROVE K!Stage(d)'
  BY <1>1, <1>4, <1>5 DEF K!NtpCore, K!Stage
<1>11. ASSUME NEW d \in Callers, ~mixed' PROVE K!InPacket(d)'
  <2>1. K!InPacket(c) /\ K!InPacket(d) /\ K!Busy(c)
    BY <1>1, <1>11 DEF K!NtpCore, K!Busy
  <2>2. ~K!Others(c)'
    BY <1>4, <2>1 DEF K!InPacket, K!Others, K!Busy
  <2>3. CASE d = c
    BY <1>1, <1>3, <1>5, <2>1, <2>2, <2>3 DEF K!InPacket, K!Stage, K!Busy
  <2>4. CASE d # c
    <3>1. ~K!Busy(d) /\ npc'[d] = npc[d]
      BY <1>4, <2>1, <2>4 DEF K!InPacket, K!Others
    <3> QED
      BY <1>1, <2>1, <3>1 DEF K!InPacket, K!Busy
  <2> QED
    BY <2>3, <2>4
<1>12. \A d \in Callers : K!Alone(d)' => K!Clock(d)'
  <2>1. \A d \in Callers : npc'[d] \in {"set_date", "done"} => npc'[d] = npc[d] \/ new_time[d] = 0
    BY <1>1, <1>3, <1>4 DEF K!Stage
  <2>2. \A d \in Callers : new_time[d] = 0 => npc'[d] # "set_date" /\ (npc'[d] = "done" => new_time'[d] = 0)
    BY <1>1, <1>4, <1>5 DEF K!NtpCore, K!Stage
  <2> QED
    BY <1>1, <2>1, <2>2, NtpClockStays
<1> QED
  BY <1>8, <1>9, <1>10, <1>11, <1>12 DEF K!NtpCore

LEMMA NtpPoll == ASSUME K!NtpAssumption, K!NtpCore, NEW c \in Callers, K!Poll(c) PROVE K!NtpCore'
<1>1. /\ npc[c] = "poll" /\ npc' = [npc EXCEPT ![c] = "late"]
      /\ UNCHANGED <<hosts, new_time, tick, start, rtc, passed, misses, wrapped>>
  BY DEF K!Poll, K!clock
<1> DEFINE a == Head(socks[c].q)
<1>2. \/ ~K!InTime(c) /\ UNCHANGED <<ntp_packet, txTm_s, socks, first, mixed>>
      \/ /\ socks[c].q # <<>> /\ txTm_s' = (IF a.short THEN txTm_s ELSE K!Ntohl(a.stamp))
         /\ first' = [first EXCEPT ![c] = a] /\ ntp_packet' = "answer"
         /\ socks' = [socks EXCEPT ![c].q = Tail(socks[c].q)] /\ mixed' = (mixed \/ K!Others(c))
  BY DEF K!Poll
<1>3. K!Shapes /\ K!TypeOK /\ K!SocketsClosed /\ K!Stage(c) /\ K!Others(c) \in BOOLEAN
  BY DEF K!NtpCore, K!Others
<1>4. socks[c] \in [open : BOOLEAN, q : Seq(K!Given)] /\ (socks[c].q # <<>> => a \in K!Given)
  BY <1>3 DEF K!Shapes
<1>5. Tail(socks[c].q) \in Seq(K!Given) \/ socks[c].q = <<>>
  BY <1>4
<1> HIDE DEF a
<1>6. \A d \in Callers \ {c} : npc'[d] = npc[d] /\ first'[d] = first[d]
  BY <1>1, <1>2, <1>3 DEF K!Shapes
<1>7. npc'[c] = "late" /\ (first' # first => first'[c] = a)
  BY <1>1, <1>2, <1>3 DEF K!Shapes
<1>s. socks \in [Callers -> [open : BOOLEAN, q : Seq(K!Given)]]
  BY <1>3 DEF K!Shapes
<1>8. \A d \in Callers : socks'[d].open = socks[d].open
  <2>1. CASE socks' = socks
    BY <2>1
  <2>2. CASE socks' = [socks EXCEPT ![c].q = Tail(socks[c].q)]
    BY <1>s, <2>2
  <2> QED
    BY <1>2, <2>1, <2>2
<1>9. K!Shapes' /\ K!TypeOK'
  <2>1. npc' \in [Callers -> {"call", "ask", "poll", "late", "convert", "take", "set_time", "set_date", "done"}]
    BY <1>1, <1>3 DEF K!Shapes
  <2>2. socks' \in [Callers -> [open : BOOLEAN, q : Seq(K!Given)]]
    <3>1. CASE socks' = socks
      BY <1>s, <3>1
    <3>2. CASE socks[c].q # <<>> /\ socks' = [socks EXCEPT ![c].q = Tail(socks[c].q)]
      BY <1>s, <1>5, <3>2
    <3> QED
      BY <1>2, <3>1, <3>2
  <2>3. first' \in [Callers -> K!Given \union {K!None}]
    BY <1>2, <1>3, <1>4 DEF K!Shapes
  <2>4. K!Shapes'
    BY <1>1, <1>3, <2>1, <2>2, <2>3 DEF K!Shapes
  <2>5. txTm_s' \in 0 .. Seconds - 1
    <3>1. a \in K!Given => K!Ntohl(a.stamp) \in 0 .. Seconds - 1
      BY NtpGiven, NtpNtohl
    <3> QED
      BY <1>2, <1>3, <1>4, <3>1 DEF K!TypeOK
  <2>6. mixed' \in BOOLEAN /\ ntp_packet' \in {"zero", "request", "answer"}
    <3>1. mixed \in BOOLEAN /\ ntp_packet \in {"zero", "request", "answer"}
      BY <1>3 DEF K!TypeOK
    <3> QED
      BY <1>2, <1>3, <3>1
  <2> QED
    BY <1>1, <1>3, <2>4, <2>5, <2>6 DEF K!TypeOK, K!Shapes
<1>10. K!SocketsClosed'
  BY <1>3, <1>6, <1>7, <1>8 DEF K!SocketsClosed
<1>11. ASSUME NEW d \in Callers PROVE K!Stage(d)'
  BY <1>1, <1>6, <1>7 DEF K!NtpCore, K!Stage
<1>12. ASSUME NEW d \in Callers, ~mixed' PROVE K!InPacket(d)'
  <2>0. ~mixed
    BY <1>2, <1>12
  <2>1. K!InPacket(c) /\ K!InPacket(d) /\ K!Busy(c)
    BY <1>1, <2>0 DEF K!NtpCore, K!Busy
  <2>2. ~K!Others(c)' /\ ~K!Others(c)
    BY <1>6, <2>1 DEF K!InPacket, K!Others, K!Busy
  <2>3. CASE d = c
    <3>1. txTm_s = 0 /\ first[c] = K!None
      BY <1>1, <2>1 DEF K!InPacket
    <3>2. CASE ~K!InTime(c) /\ UNCHANGED <<txTm_s, first>>
      <4>1. K!Ntohl(K!None.stamp) = 0
        BY NtpGiven, NtpZero
      <4> QED
        BY <1>7, <2>2, <2>3, <3>1, <3>2, <4>1 DEF K!InPacket, K!Busy
    <3>3. CASE /\ socks[c].q # <<>> /\ txTm_s' = (IF a.short THEN txTm_s ELSE K!Ntohl(a.stamp))
               /\ first' = [first EXCEPT ![c] = a]
      <4>1. a \in K!Given /\ first'[c] = a
        BY <1>3, <1>4, <3>3 DEF K!Shapes
      <4>2. txTm_s' = K!Ntohl(first'[c].stamp)
        BY <3>1, <3>3, <4>1, NtpGiven, NtpZero
      <4> QED
        BY <1>7, <2>2, <2>3, <4>2 DEF K!InPacket, K!Busy
    <3> QED
      BY <1>2, <3>2, <3>3
  <2>4. CASE d # c
    <3>1. ~K!Busy(d) /\ npc'[d] = npc[d] /\ first'[d] = first[d]
      BY <1>6, <2>2, <2>4 DEF K!Others
    <3> QED
      BY <1>1, <2>1, <3>1 DEF K!InPacket, K!Busy
  <2> QED
    BY <2>3, <2>4
<1>13. \A d \in Callers : K!Alone(d)' => K!Clock(d)'
  <2>1. \A d \in Callers : npc'[d] \in {"set_date", "done"} => npc'[d] = npc[d] \/ new_time[d] = 0
    BY <1>1, <1>3, <1>6 DEF K!Stage
  <2>2. \A d \in Callers : new_time[d] = 0 => npc'[d] # "set_date" /\ (npc'[d] = "done" => new_time'[d] = 0)
    BY <1>1, <1>6, <1>7 DEF K!NtpCore, K!Stage
  <2> QED
    BY <1>1, <2>1, <2>2, NtpClockStays
<1> QED
  BY <1>9, <1>10, <1>11, <1>12, <1>13 DEF K!NtpCore

\* A call ends with a time, or without one.
LEMMA NtpClose ==
  ASSUME K!NtpAssumption, K!NtpCore, NEW c \in Callers, NEW time \in 0 .. Seconds - 1, K!Close(c, time),
         npc[c] \in {"late", "take"}, mixed' \in BOOLEAN, mixed => mixed',
         ~mixed' => time \in {0, K!Local(K!UnixTime(first[c].stamp))},
         UNCHANGED <<ntp_packet, txTm_s, hosts, tick, start, rtc, passed, misses, first, wrapped>>
  PROVE  K!NtpCore'
<1>1. /\ socks' = [socks EXCEPT ![c] = K!Closed] /\ new_time' = [new_time EXCEPT ![c] = time]
      /\ npc' = [npc EXCEPT ![c] = IF time = 0 THEN "done" ELSE "set_time"]
  BY DEF K!Close
<1>2. K!Shapes /\ K!TypeOK /\ K!SocketsClosed /\ K!Stage(c) /\ new_time[c] = 0
  BY DEF K!NtpCore, K!Stage
<1>3. \A d \in Callers \ {c} : npc'[d] = npc[d] /\ socks'[d] = socks[d] /\ new_time'[d] = new_time[d]
  BY <1>1, <1>2 DEF K!Shapes
<1>4. socks'[c] = K!Closed /\ new_time'[c] = time /\ npc'[c] = IF time = 0 THEN "done" ELSE "set_time"
  BY <1>1, <1>2 DEF K!Shapes
<1>5. K!Closed \in [open : BOOLEAN, q : Seq(K!Given)] /\ ~K!Closed.open
  BY DEF K!Closed
<1>6. K!Shapes' /\ K!TypeOK'
  <2>1. npc' \in [Callers -> {"call", "ask", "poll", "late", "convert", "take", "set_time", "set_date", "done"}]
    BY <1>1, <1>2 DEF K!Shapes
  <2>2. socks' \in [Callers -> [open : BOOLEAN, q : Seq(K!Given)]]
    BY <1>1, <1>2, <1>5 DEF K!Shapes
  <2>3. new_time' \in [Callers -> 0 .. Seconds - 1]
    BY <1>1, <1>2 DEF K!Shapes
  <2>4. K!Shapes'
    BY <1>2, <2>1, <2>2, <2>3 DEF K!Shapes
  <2> QED
    BY <1>2, <2>4 DEF K!TypeOK, K!Shapes
<1>7. K!SocketsClosed'
  BY <1>2, <1>3, <1>4, <1>5 DEF K!SocketsClosed
<1>8. ASSUME NEW d \in Callers PROVE K!Stage(d)'
  BY <1>3, <1>4 DEF K!NtpCore, K!Stage
<1>9. ASSUME NEW d \in Callers, ~mixed' PROVE K!InPacket(d)'
  <2>1. K!InPacket(c) /\ K!InPacket(d) /\ K!Busy(c)
    BY <1>9 DEF K!NtpCore, K!Busy
  <2>2. ~K!Busy(c)'
    BY <1>4 DEF K!Busy
  <2>3. CASE d = c
    BY <1>4, <1>9, <2>2, <2>3 DEF K!InPacket
  <2>4. CASE d # c
    <3>1. ~K!Busy(d) /\ npc'[d] = npc[d] /\ new_time'[d] = new_time[d]
      BY <1>3, <2>1, <2>4 DEF K!InPacket, K!Others
    <3> QED
      BY <2>1, <3>1 DEF K!InPacket, K!Busy
  <2> QED
    BY <2>3, <2>4
<1>10. \A d \in Callers : K!Alone(d)' => K!Clock(d)'
  <2>1. \A d \in Callers : \/ new_time'[d] = new_time[d] /\ npc'[d] = npc[d]
                           \/ new_time[d] = 0
    BY <1>2, <1>3
  <2>2. \A d \in Callers : new_time[d] = 0 => npc'[d] # "set_date" /\ (npc'[d] = "done" => new_time'[d] = 0)
    BY <1>3, <1>4 DEF K!NtpCore, K!Stage
  <2> QED
    BY <2>1, <2>2, NtpClockStays
<1> QED
  BY <1>6, <1>7, <1>8, <1>9, <1>10 DEF K!NtpCore

LEMMA NtpLate == ASSUME K!NtpAssumption, K!NtpCore, NEW c \in Callers, K!Late(c) PROVE K!NtpCore'
<1>1. /\ npc[c] = "late"
      /\ UNCHANGED <<ntp_packet, txTm_s, hosts, tick, start, rtc, passed, misses, first, wrapped, mixed>>
  BY DEF K!Late, K!clock, K!hist
<1>2. K!Shapes /\ K!TypeOK /\ K!SocketsClosed /\ K!Stage(c)
  BY DEF K!NtpCore
<1>3. CASE ~K!InTime(c)
  <2>1. K!Close(c, 0) /\ 0 \in 0 .. Seconds - 1 /\ mixed' \in BOOLEAN
    BY <1>1, <1>2, <1>3, NtpNumbers DEF K!Late, K!TypeOK
  <2> QED
    BY <1>1, <2>1, NtpClose
<1>4. CASE K!InTime(c)
  <2>1. npc' = [npc EXCEPT ![c] = "convert"] /\ UNCHANGED <<socks, new_time>>
    BY <1>4 DEF K!Late
  <2>2. \A d \in Callers \ {c} : npc'[d] = npc[d]
    BY <1>2, <2>1 DEF K!Shapes
  <2>3. /\ npc'[c] = "convert"
        /\ npc' \in [Callers -> {"call", "ask", "poll", "late", "convert", "take", "set_time", "set_date", "done"}]
    BY <1>2, <2>1 DEF K!Shapes
  <2>4. K!Shapes'
    BY <1>1, <1>2, <2>1, <2>3 DEF K!Shapes
  <2>5. K!TypeOK' /\ K!SocketsClosed'
    BY <1>1, <1>2, <2>1, <2>2, <2>3 DEF K!TypeOK, K!SocketsClosed
  <2>6. ASSUME NEW d \in Callers PROVE K!Stage(d)'
    BY <1>1, <2>1, <2>2, <2>3 DEF K!NtpCore, K!Stage
  <2>7. ASSUME NEW d \in Callers, ~mixed' PROVE K!InPacket(d)'
    <3>1. K!InPacket(c) /\ K!InPacket(d) /\ K!Busy(c)
      BY <1>1, <2>7 DEF K!NtpCore, K!Busy
    <3>2. ~K!Others(c)' /\ ~K!Others(c)
      BY <2>2, <3>1 DEF K!InPacket, K!Others, K!Busy
    <3>3. CASE d = c
      BY <1>1, <1>4, <2>3, <3>1, <3>2, <3>3 DEF K!InPacket, K!Busy
    <3>4. CASE d # c
      <4>1. ~K!Busy(d) /\ npc'[d] = npc[d]
        BY <2>2, <3>2, <3>4 DEF K!Others
      <4> QED
        BY <1>1, <2>1, <3>1, <4>1 DEF K!InPacket, K!Busy
    <3> QED
      BY <3>3, <3>4
  <2>8. \A d \in Callers : K!Alone(d)' => K!Clock(d)'
    <3>1. \A d \in Callers : npc'[d] \in {"set_date", "done"} => npc'[d] = npc[d] \/ new_time[d] = 0
      BY <2>2, <2>3
    <3>2. \A d \in Callers : new_time[d] = 0 => npc'[d] # "set_date" /\ (npc'[d] = "done" => new_time'[d] = 0)
      BY <2>1, <2>2, <2>3 DEF K!NtpCore, K!Stage
    <3> QED
      BY <1>1, <2>1, <3>1, <3>2, NtpClockStays
  <2> QED
    BY <2>4, <2>5, <2>6, <2>7, <2>8 DEF K!NtpCore
<1> QED
  BY <1>3, <1>4

LEMMA NtpConvert == ASSUME K!NtpAssumption, K!NtpCore, NEW c \in Callers, K!Convert(c) PROVE K!NtpCore'
<1>1. /\ npc[c] = "convert" /\ npc' = [npc EXCEPT ![c] = "take"] /\ txTm_s' = K!Ntohl(txTm_s)
      /\ mixed' = (mixed \/ K!Others(c))
      /\ UNCHANGED <<ntp_packet, socks, hosts, new_time, tick, start, rtc, passed, misses, first, wrapped>>
  BY DEF K!Convert, K!Turned, K!clock, K!hist
<1>2. K!Shapes /\ K!TypeOK /\ K!SocketsClosed /\ K!Stage(c) /\ K!Others(c) \in BOOLEAN
  BY DEF K!NtpCore, K!Others
<1>3. \A d \in Callers \ {c} : npc'[d] = npc[d]
  BY <1>1, <1>2 DEF K!Shapes
<1>4. npc'[c] = "take" /\ npc' \in [Callers -> {"call", "ask", "poll", "late", "convert", "take", "set_time", "set_date", "done"}]
  BY <1>1, <1>2 DEF K!Shapes
<1>5. txTm_s' \in 0 .. Seconds - 1
  BY <1>1, <1>2, NtpNtohl DEF K!TypeOK
<1>6. mixed' \in BOOLEAN
  <2>1. mixed \in BOOLEAN
    BY <1>2 DEF K!TypeOK
  <2> QED
    BY <1>1, <1>2, <2>1
<1>7. K!Shapes'
  BY <1>1, <1>2, <1>4 DEF K!Shapes
<1>8. K!TypeOK' /\ K!SocketsClosed'
  BY <1>1, <1>2, <1>3, <1>4, <1>5, <1>6 DEF K!TypeOK, K!SocketsClosed
<1>9. ASSUME NEW d \in Callers PROVE K!Stage(d)'
  BY <1>1, <1>3, <1>4 DEF K!NtpCore, K!Stage
<1>10. ASSUME NEW d \in Callers, ~mixed' PROVE K!InPacket(d)'
  <2>0. ~mixed
    BY <1>1, <1>10
  <2>1. K!InPacket(c) /\ K!InPacket(d) /\ K!Busy(c)
    BY <1>1, <2>0 DEF K!NtpCore, K!Busy
  <2>2. ~K!Others(c)' /\ ~K!Others(c)
    BY <1>3, <2>1 DEF K!InPacket, K!Others, K!Busy
  <2>3. CASE d = c
    <3>1. first[c].stamp \in 0 .. Seconds - 1
      <4>1. first[c] \in K!Given \union {K!None}
        BY <1>2 DEF K!Shapes
      <4>2. 0 \in 0 .. Seconds - 1
        BY NtpNumbers
      <4> QED
        BY <4>1, <4>2, NtpGiven
    <3>2. txTm_s' = first[c].stamp
      BY <1>1, <2>1, <3>1, NtpNtohl DEF K!InPacket
    <3> QED
      BY <1>1, <1>4, <2>2, <2>3, <3>1, <3>2 DEF K!InPacket, K!Busy
  <2>4. CASE d # c
    <3>1. ~K!Busy(d) /\ npc'[d] = npc[d]
      BY <1>3, <2>2, <2>4 DEF K!Others
    <3> QED
      BY <1>1, <2>1, <3>1 DEF K!InPacket, K!Busy
  <2> QED
    BY <2>3, <2>4
<1>11. \A d \in Callers : K!Alone(d)' => K!Clock(d)'
  <2>1. \A d \in Callers : npc'[d] \in {"set_date", "done"} => npc'[d] = npc[d] \/ new_time[d] = 0
    BY <1>3, <1>4
  <2>2. \A d \in Callers : new_time[d] = 0 => npc'[d] # "set_date" /\ (npc'[d] = "done" => new_time'[d] = 0)
    BY <1>1, <1>3, <1>4 DEF K!NtpCore, K!Stage
  <2> QED
    BY <1>1, <2>1, <2>2, NtpClockStays
<1> QED
  BY <1>7, <1>8, <1>9, <1>10, <1>11 DEF K!NtpCore

LEMMA NtpTake == ASSUME K!NtpAssumption, K!NtpCore, NEW c \in Callers, K!Take(c) PROVE K!NtpCore'
<1> DEFINE time == K!Local(K!UnixTime(txTm_s))
<1>1. /\ npc[c] = "take" /\ K!Close(c, time) /\ mixed' = (mixed \/ K!Others(c))
      /\ UNCHANGED <<ntp_packet, txTm_s, hosts, tick, start, rtc, passed, misses, first, wrapped>>
  BY DEF K!Take, K!clock, K!hist
<1>2. time \in 0 .. Seconds - 1
  BY NtpTime DEF K!NtpCore, K!TypeOK
<1>3. mixed' \in BOOLEAN /\ (mixed => mixed')
  <2>1. mixed \in BOOLEAN /\ K!Others(c) \in BOOLEAN
    BY DEF K!NtpCore, K!TypeOK, K!Others
  <2> QED
    BY <1>1, <2>1
<1>4. ~mixed' => time = K!Local(K!UnixTime(first[c].stamp))
  <2> SUFFICES ASSUME ~mixed' PROVE time = K!Local(K!UnixTime(first[c].stamp))
    OBVIOUS
  <2>1. K!InPacket(c)
    BY <1>3 DEF K!NtpCore
  <2>2. txTm_s = first[c].stamp
    BY <1>1, <2>1 DEF K!InPacket
  <2> QED
    BY <2>2
<1> HIDE DEF time
<1> QED
  BY <1>1, <1>2, <1>3, <1>4, NtpClose

\* A call is in the clock, not in the packet.
LEMMA NtpOutside ==
  ASSUME K!NtpCore, NEW c \in Callers, npc[c] \in {"set_time", "set_date"}, npc'[c] \in {"set_date", "done"},
         npc' \in [Callers -> {"call", "ask", "poll", "late", "convert", "take", "set_time", "set_date", "done"}],
         \A d \in Callers \ {c} : npc'[d] = npc[d], rtc' \in Nat, passed' \in 0 .. MaxSeconds,
         UNCHANGED <<ntp_packet, txTm_s, socks, hosts, new_time, tick, start, misses, first, wrapped, mixed>>
  PROVE  /\ K!Shapes' /\ K!TypeOK' /\ K!SocketsClosed'
         /\ \A d \in Callers : K!Stage(d)' /\ (~mixed' => K!InPacket(d)')
         /\ \A d \in Callers : K!Alone(d)' => d = c
<1>1. K!Shapes /\ K!TypeOK /\ K!SocketsClosed
  BY DEF K!NtpCore
<1>2. K!Shapes'
  BY <1>1 DEF K!Shapes
<1>3. K!TypeOK' /\ K!SocketsClosed'
  BY <1>1 DEF K!TypeOK, K!SocketsClosed
<1>4. new_time[c] # 0
  BY DEF K!NtpCore, K!Stage
<1>5. \A d \in Callers : K!Stage(d)'
  BY <1>4 DEF K!NtpCore, K!Stage
<1>6. ASSUME NEW d \in Callers, ~mixed' PROVE K!InPacket(d)'
  <2>1. K!InPacket(d)
    BY <1>6 DEF K!NtpCore
  <2>2. \A e \in Callers : K!Busy(e)' => K!Busy(e)
    BY DEF K!Busy
  <2>3. K!Busy(d)' => ~K!Others(d)'
    BY <2>1, <2>2 DEF K!InPacket, K!Others
  <2>4. CASE d = c
    BY <2>1, <2>3, <2>4 DEF K!InPacket
  <2>5. CASE d # c
    <3>1. npc'[d] = npc[d]
      BY <2>5
    <3> QED
      BY <2>1, <2>3, <3>1 DEF K!InPacket
  <2> QED
    BY <2>4, <2>5
<1>7. \A d \in Callers : K!Alone(d)' => d = c
  BY <1>4 DEF K!Alone
<1> QED
  BY <1>2, <1>3, <1>5, <1>6, <1>7

LEMMA NtpSetTime == ASSUME K!NtpAssumption, K!NtpCore, NEW c \in Callers, K!set_time(c) PROVE K!NtpCore'
<1> DEFINE t == K!TimeOfDay(new_time[c])
           q == K!DayOf(rtc)
<1>1. /\ npc[c] = "set_time" /\ rtc' = q * Day + t /\ passed' = 0 /\ npc' = [npc EXCEPT ![c] = "set_date"]
      /\ UNCHANGED <<ntp_packet, txTm_s, socks, hosts, new_time, tick, start, misses, first, wrapped, mixed>>
  BY DEF K!set_time, K!hist
<1>2. K!Shapes /\ K!TypeOK
  BY DEF K!NtpCore
<1>3. /\ npc'[c] = "set_date" /\ \A d \in Callers \ {c} : npc'[d] = npc[d]
      /\ npc' \in [Callers -> {"call", "ask", "poll", "late", "convert", "take", "set_time", "set_date", "done"}]
  BY <1>1, <1>2 DEF K!Shapes
<1>4. rtc \in Nat /\ new_time[c] \in Nat /\ Day \in Nat /\ Day > 0 /\ MaxSeconds \in Nat
  BY <1>2, NtpNumbers DEF K!TypeOK
<1>5. q \in Nat /\ t \in Nat /\ t < Day
  BY <1>4, Division DEF K!DayOf, K!TimeOfDay
<1> HIDE DEF q, t
<1>6. q * Day = Day * q
  BY <1>4, <1>5
<1>7. rtc' \in Nat /\ K!TimeOfDay(rtc') = t
  BY <1>1, <1>4, <1>5, <1>6, DivisionUnique DEF K!TimeOfDay
<1>8. K!Clock(c)'
  BY <1>1, <1>3, <1>7 DEF K!Clock, K!TimeOfDay, t
<1>9. passed' \in 0 .. MaxSeconds
  BY <1>1, <1>4
<1>10. /\ K!Shapes' /\ K!TypeOK' /\ K!SocketsClosed'
       /\ \A d \in Callers : K!Stage(d)' /\ (~mixed' => K!InPacket(d)')
       /\ \A d \in Callers : K!Alone(d)' => d = c
  BY <1>1, <1>3, <1>7, <1>9, NtpOutside
<1> QED
  BY <1>8, <1>10 DEF K!NtpCore

LEMMA NtpSetDate == ASSUME K!NtpAssumption, K!NtpCore, NEW c \in Callers, K!set_date(c) PROVE K!NtpCore'
<1> DEFINE n == new_time[c]
           p == K!DayOf(n)
           t == K!TimeOfDay(n)
           r == K!TimeOfDay(rtc)
<1>1. /\ npc[c] = "set_date" /\ rtc' = p * Day + r /\ passed' = passed /\ npc' = [npc EXCEPT ![c] = "done"]
      /\ UNCHANGED <<ntp_packet, txTm_s, socks, hosts, new_time, tick, start, misses, first, wrapped, mixed>>
  BY DEF K!set_date, K!DateSet, K!hist
<1>2. K!Shapes /\ K!TypeOK
  BY DEF K!NtpCore
<1>3. /\ npc'[c] = "done" /\ \A d \in Callers \ {c} : npc'[d] = npc[d]
      /\ npc' \in [Callers -> {"call", "ask", "poll", "late", "convert", "take", "set_time", "set_date", "done"}]
  BY <1>1, <1>2 DEF K!Shapes
<1>4. /\ rtc \in Nat /\ n \in Nat /\ Day \in Nat /\ Day > 0 /\ MaxSeconds \in Nat /\ MaxSeconds <= Day
      /\ passed \in Nat /\ passed <= MaxSeconds
  BY <1>2, NtpNumbers DEF K!TypeOK, K!Shapes
<1>5. p \in Nat /\ t \in Nat /\ t < Day /\ n = Day * p + t /\ r \in Nat /\ r < Day
  BY <1>4, Division DEF K!DayOf, K!TimeOfDay
<1> HIDE DEF n, p, t, r
<1>6. p * Day = Day * p /\ Day * p \in Nat
  BY <1>4, <1>5
<1>7. rtc' \in Nat /\ passed' \in 0 .. MaxSeconds
  BY <1>1, <1>4, <1>5, <1>6
<1>8. /\ K!Shapes' /\ K!TypeOK' /\ K!SocketsClosed'
      /\ \A d \in Callers : K!Stage(d)' /\ (~mixed' => K!InPacket(d)')
      /\ \A d \in Callers : K!Alone(d)' => d = c
  BY <1>1, <1>3, <1>7, NtpOutside
<1>9. ASSUME K!Alone(c)' PROVE K!Clock(c)'
  <2>1. K!Alone(c)
    BY <1>1, <1>9 DEF K!Alone
  <2>2. rtc >= passed /\ K!TimeOfDay(rtc - passed) = t
    BY <1>1, <2>1 DEF K!NtpCore, K!Clock, n, t
  <2> DEFINE x == rtc - passed
             q == K!DayOf(x)
             shown == n + passed
  <2>3. q \in Nat /\ x = Day * q + t
    BY <1>4, <2>2, Division DEF K!DayOf, K!TimeOfDay
  <2> HIDE DEF q
  <2>4. rtc = Day * q + t + passed
    BY <1>4, <2>2, <2>3
  <2>5. CASE t + passed < Day
    <3>1. r = t + passed
      <4>1. t + passed \in Nat
        BY <1>4, <1>5
      <4>2. ((Day * q + (t + passed)) % Day) = t + passed
        BY <1>4, <2>3, <2>5, <4>1, DivisionUnique
      <4>3. Day * q + (t + passed) = rtc
        BY <1>4, <1>5, <2>3, <2>4
      <4> QED
        BY <4>2, <4>3 DEF r, K!TimeOfDay
    <3>2. shown = Day * p + (t + passed)
      BY <1>4, <1>5, <1>6
    <3>3. K!DayOf(shown) = p
      BY <1>4, <1>5, <2>5, <3>2, DivisionUnique DEF K!DayOf
    <3>4. rtc' = shown
      BY <1>1, <1>6, <3>1, <3>2
    <3> QED
      BY <1>1, <1>3, <3>3, <3>4 DEF K!Clock, K!OnTime, n, p
  <2>6. CASE ~(t + passed < Day)
    <3> DEFINE u == t + passed - Day
    <3>1. u \in Nat /\ u < Day
      BY <1>4, <1>5, <2>6
    <3>2. Day * (q + 1) = Day * q + Day /\ Day * (p + 1) = Day * p + Day /\ Day * q \in Nat
      BY <1>4, <1>5, <2>3
    <3>3. rtc = Day * (q + 1) + u /\ shown = Day * (p + 1) + u
      BY <1>4, <1>5, <1>6, <2>4, <3>2
    <3>4. r = u /\ K!DayOf(shown) = p + 1
      <4>1. q + 1 \in Nat /\ p + 1 \in Nat
        BY <1>5, <2>3
      <4>2. ((Day * (q + 1) + u) % Day) = u /\ (Day * (p + 1) + u) \div Day = p + 1
        BY <1>4, <3>1, <4>1, DivisionUnique
      <4> QED
        BY <3>3, <4>2 DEF r, K!DayOf, K!TimeOfDay
    <3>5. rtc' = shown - Day /\ shown - Day # shown /\ p + 1 # p
      BY <1>1, <1>4, <1>5, <1>6, <3>2, <3>3, <3>4
    <3> QED
      BY <1>1, <1>3, <3>4, <3>5 DEF K!Clock, K!OnTime, n, p
  <2> QED
    BY <2>5, <2>6
<1> QED
  BY <1>8, <1>9 DEF K!NtpCore

LEMMA NtpSecond == K!NtpAssumption /\ K!NtpCore /\ K!Second => K!NtpCore'
<1> SUFFICES ASSUME K!NtpAssumption, K!NtpCore, K!Second PROVE K!NtpCore'
  OBVIOUS
<1>1. PICK c \in Callers : npc[c] = "set_date"
  BY DEF K!Second
<1>2. /\ passed < MaxSeconds /\ passed' = passed + 1 /\ rtc' = rtc + 1
      /\ UNCHANGED <<npc, ntp_packet, txTm_s, socks, hosts, new_time, tick, start, misses, first, wrapped, mixed>>
  BY DEF K!Second, K!hist
<1>3. K!Shapes /\ K!TypeOK /\ K!SocketsClosed /\ K!Stage(c)
  BY DEF K!NtpCore
<1>4. rtc \in Nat /\ passed \in Nat /\ MaxSeconds \in Nat
  BY <1>3, NtpNumbers DEF K!TypeOK, K!Shapes
<1>5. rtc' \in Nat /\ passed' \in 0 .. MaxSeconds
  BY <1>2, <1>4
<1>6. K!Shapes' /\ K!TypeOK' /\ K!SocketsClosed'
  BY <1>2, <1>3, <1>5 DEF K!Shapes, K!TypeOK, K!SocketsClosed
<1>7. \A d \in Callers : K!Stage(d)' /\ (~mixed' => K!InPacket(d)')
  BY <1>2 DEF K!NtpCore, K!Stage, K!InPacket, K!Busy, K!Others
<1>8. ASSUME NEW d \in Callers, K!Alone(d)' PROVE K!Clock(d)'
  <2>1. K!Alone(d) /\ d = c
    BY <1>1, <1>2, <1>3, <1>8 DEF K!Alone, K!Stage
  <2>2. rtc >= passed /\ K!TimeOfDay(rtc - passed) = K!TimeOfDay(new_time[c])
    BY <1>1, <2>1 DEF K!NtpCore, K!Clock
  <2>3. rtc' >= passed' /\ rtc' - passed' = rtc - passed
    BY <1>2, <1>4, <2>2
  <2> QED
    BY <1>1, <1>2, <2>1, <2>2, <2>3 DEF K!Clock, K!TimeOfDay
<1> QED
  BY <1>6, <1>7, <1>8 DEF K!NtpCore

LEMMA NtpTick == K!NtpAssumption /\ K!NtpCore /\ K!Tick => K!NtpCore'
<1> SUFFICES ASSUME K!NtpAssumption, K!NtpCore, K!Tick PROVE K!NtpCore'
  OBVIOUS
<1>1. /\ \E n \in 1 .. Nap : tick' = ((tick + n) % TickValues)
      /\ wrapped' = (wrapped \/ tick' < tick)
      /\ UNCHANGED <<npc, ntp_packet, txTm_s, socks, hosts, new_time, start, rtc, passed, misses, first, mixed>>
  BY DEF K!Tick, K!clock
<1>2. K!Shapes /\ K!TypeOK /\ K!SocketsClosed
  BY DEF K!NtpCore
<1>3. tick' \in 0 .. TickValues - 1 /\ wrapped' \in BOOLEAN
  <2>1. wrapped \in BOOLEAN /\ (tick' < tick) \in BOOLEAN
    BY <1>2 DEF K!TypeOK
  <2>2. wrapped' \in BOOLEAN
    BY <1>1, <2>1
  <2>3. PICK n \in 1 .. Nap : tick' = ((tick + n) % TickValues)
    BY <1>1
  <2>4. tick + n \in Nat
    BY <1>2, <2>3, NtpNumbers DEF K!TypeOK
  <2>5. tick' \in 0 .. TickValues - 1
    BY <2>3, <2>4, NtpNumbers
  <2> QED
    BY <2>2, <2>5
<1>4. K!Shapes' /\ K!TypeOK' /\ K!SocketsClosed'
  BY <1>1, <1>2, <1>3 DEF K!Shapes, K!TypeOK, K!SocketsClosed
<1>5. \A d \in Callers : K!Stage(d)' /\ (K!Alone(d)' => K!Clock(d)')
  BY <1>1 DEF K!NtpCore, K!Stage, K!Alone, K!Clock, K!OnTime
<1>6. \A d \in Callers : ~mixed' => K!InPacket(d)'
  BY <1>1 DEF K!NtpCore, K!InPacket, K!Busy, K!Others
<1> QED
  BY <1>4, <1>5, <1>6 DEF K!NtpCore

LEMMA NtpAnswers == K!NtpAssumption /\ K!NtpCore /\ K!Answers => K!NtpCore'
<1> SUFFICES ASSUME K!NtpAssumption, K!NtpCore, K!Answers PROVE K!NtpCore'
  OBVIOUS
<1>1. UNCHANGED <<npc, ntp_packet, txTm_s, new_time, tick, start, rtc, passed, first, wrapped, mixed>>
  BY DEF K!Answers, K!clock, K!hist
<1>2. PICK c \in Callers : \E h \in hosts[c].asked, x \in Stamps, short \in BOOLEAN :
       /\ socks[c].open
       /\ (short => misses < NtpFaults) /\ misses' = misses + (IF short THEN 1 ELSE 0)
       /\ socks' = [socks EXCEPT ![c].q = Append(socks[c].q, K!Answer(x, short))]
       /\ hosts' = [hosts EXCEPT ![c].asked = hosts[c].asked \ {h}]
  BY DEF K!Answers
<1>3. PICK h \in hosts[c].asked, x \in Stamps, short \in BOOLEAN :
       /\ socks[c].open
       /\ (short => misses < NtpFaults) /\ misses' = misses + (IF short THEN 1 ELSE 0)
       /\ socks' = [socks EXCEPT ![c].q = Append(socks[c].q, K!Answer(x, short))]
       /\ hosts' = [hosts EXCEPT ![c].asked = hosts[c].asked \ {h}]
  BY <1>2
<1>4. K!Shapes /\ K!TypeOK /\ K!SocketsClosed
  BY DEF K!NtpCore
<1>5. misses' \in 0 .. NtpFaults
  <2>1. misses \in 0 .. NtpFaults /\ NtpFaults \in Nat
    BY <1>4, NtpNumbers DEF K!TypeOK
  <2>2. CASE short
    <3>1. misses < NtpFaults /\ misses' = misses + 1
      BY <1>3, <2>2
    <3> QED
      BY <2>1, <3>1
  <2>3. CASE ~short
    <3>1. misses' = misses + 0
      BY <1>3, <2>3
    <3> QED
      BY <2>1, <3>1
  <2> QED
    BY <2>2, <2>3
<1> DEFINE a == K!Answer(x, short)
           q == Append(socks[c].q, a)
<1>6. socks \in [Callers -> [open : BOOLEAN, q : Seq(K!Given)]] /\ a \in K!Given
  BY <1>4, NtpGiven DEF K!Shapes
<1> HIDE DEF a
<1>7. q \in Seq(K!Given)
  BY <1>6
<1>8. socks' = [socks EXCEPT ![c].q = q]
  BY <1>3 DEF a
<1> HIDE DEF q
<1>9. socks' \in [Callers -> [open : BOOLEAN, q : Seq(K!Given)]] /\ \A d \in Callers : socks'[d].open = socks[d].open
  BY <1>6, <1>7, <1>8
<1>10. hosts' \in [Callers -> [left : SUBSET Servers, asked : SUBSET Servers, num : Nat]]
  <2>1. hosts \in [Callers -> [left : SUBSET Servers, asked : SUBSET Servers, num : Nat]]
    BY <1>4 DEF K!Shapes
  <2>2. hosts[c].asked \ {h} \in SUBSET Servers
    BY <2>1
  <2> QED
    BY <1>3, <2>1, <2>2
<1>11. K!Shapes' /\ K!TypeOK'
  BY <1>1, <1>4, <1>5, <1>9, <1>10 DEF K!Shapes, K!TypeOK
<1>12. K!SocketsClosed'
  BY <1>1, <1>4, <1>9 DEF K!SocketsClosed
<1>13. \A d \in Callers : K!Stage(d)' /\ (~mixed' => K!InPacket(d)') /\ (K!Alone(d)' => K!Clock(d)')
  <2>1. \A d \in Callers : K!Stage(d) /\ (~mixed => K!InPacket(d)) /\ (K!Alone(d) => K!Clock(d))
    BY DEF K!NtpCore
  <2>2. \A d \in Callers : K!Stage(d)'
    BY <1>1, <2>1 DEF K!Stage
  <2>3. \A d \in Callers : ~mixed' => K!InPacket(d)'
    BY <1>1, <2>1 DEF K!InPacket, K!Busy, K!Others
  <2>4. \A d \in Callers : K!Alone(d)' => K!Clock(d)'
    BY <1>1, <2>1 DEF K!Alone, K!Clock, K!OnTime
  <2> QED
    BY <2>2, <2>3, <2>4
<1> QED
  BY <1>11, <1>12, <1>13 DEF K!NtpCore

LEMMA NtpCoreStep == K!NtpAssumption /\ K!NtpCore /\ [K!Next]_ntpVars => K!NtpCore'
<1> SUFFICES ASSUME K!NtpAssumption, K!NtpCore, [K!Next]_ntpVars PROVE K!NtpCore'
  OBVIOUS
<1>1. CASE UNCHANGED ntpVars
  <2>1. UNCHANGED <<npc, ntp_packet, txTm_s, socks, hosts, new_time, tick, start, rtc, passed, misses, first, mixed, wrapped>>
    BY <1>1 DEF ntpVars
  <2>2. K!Shapes' /\ K!TypeOK' /\ K!SocketsClosed'
    BY <2>1 DEF K!NtpCore, K!Shapes, K!TypeOK, K!SocketsClosed
  <2>3. \A d \in Callers : K!Stage(d)' /\ (~mixed' => K!InPacket(d)') /\ (K!Alone(d)' => K!Clock(d)')
    BY <2>1 DEF K!NtpCore, K!Stage, K!InPacket, K!Busy, K!Others, K!Alone, K!Clock, K!OnTime
  <2> QED
    BY <2>2, <2>3 DEF K!NtpCore
<1>2. ASSUME NEW c \in Callers, K!ntp_sync_to_rtc(c) PROVE K!NtpCore'
  BY <1>2, NtpPrepare, NtpSend, NtpAsked, NtpPoll, NtpLate, NtpConvert, NtpTake, NtpSetTime, NtpSetDate
     DEF K!ntp_sync_to_rtc
<1> QED
  BY <1>1, <1>2, NtpSecond, NtpTick, NtpAnswers DEF K!Next

\* A call without a datagram stays late: its limit does not wrap, nor the counter.
LEMMA NtpUnanswered ==
  K!NtpAssumption /\ K!NtpInv /\ [K!Next]_ntpVars => (~wrapped' => \A c \in Callers : K!Unanswered(c)')
<1> SUFFICES ASSUME K!NtpAssumption, K!NtpInv, [K!Next]_ntpVars, ~wrapped', NEW d \in Callers
             PROVE  K!Unanswered(d)'
  OBVIOUS
<1>1. K!Shapes /\ K!TypeOK /\ K!Stage(d)
  BY DEF K!NtpInv, K!NtpCore
<1>2. /\ NtpTimeout \in Nat /\ TickValues \in Nat /\ tick \in 0 .. TickValues - 1
      /\ start \in [Callers -> 0 .. TickValues - 1]
  BY <1>1, NtpNumbers DEF K!TypeOK, K!Shapes
<1>3. ASSUME ~wrapped PROVE K!Unanswered(d)
  BY <1>3 DEF K!NtpInv
<1>4. CASE UNCHANGED <<npc, new_time, tick, start, first, wrapped>>
  BY <1>3, <1>4 DEF K!Unanswered, K!InTime
<1>5. ASSUME NEW c \in Callers, K!ntp_sync_to_rtc(c) PROVE K!Unanswered(d)'
  <2>1. ~wrapped /\ tick' = tick
    <3>1. CASE K!Asked(c)
      BY <3>1 DEF K!Asked
    <3>2. CASE ~K!Asked(c)
      BY <1>5, <3>2 DEF K!ntp_sync_to_rtc, K!Prepare, K!sendto_ntp_server, K!Poll, K!Late, K!Convert, K!Take,
         K!set_time, K!set_date, K!hist
    <3> QED
      BY <3>1, <3>2
  <2>2. K!Unanswered(d) /\ K!Unanswered(c) /\ K!Stage(c)
    BY <2>1 DEF K!NtpInv, K!NtpCore
  <2>3. CASE d # c
    <3>1. npc'[d] = npc[d] /\ new_time'[d] = new_time[d] /\ start'[d] = start[d] /\ first'[d] = first[d]
      BY <1>1, <1>5, <2>3 DEF K!ntp_sync_to_rtc, K!Prepare, K!sendto_ntp_server, K!Asked, K!Poll, K!Late, K!Convert,
         K!Take, K!Close, K!set_time, K!set_date, K!hist, K!Shapes
    <3> QED
      BY <2>1, <2>2, <3>1 DEF K!Unanswered, K!InTime
  <2>4. CASE d = c
    <3>1. CASE K!Prepare(c) \/ K!sendto_ntp_server(c) \/ K!set_time(c) \/ K!set_date(c)
      <4>1. /\ npc'[c] \in {npc[c], "ask", "done", "set_date"} /\ new_time'[c] = new_time[c] /\ first'[c] = first[c]
            /\ start'[c] = start[c] /\ npc[c] \notin {"poll", "late", "convert", "take"}
            /\ (npc'[c] = npc[c] \/ npc[c] \in {"set_time", "set_date"} \/ new_time[c] = 0)
        BY <1>1, <2>2, <3>1 DEF K!Prepare, K!sendto_ntp_server, K!set_time, K!set_date, K!hist, K!Shapes, K!Stage
      <4> QED
        BY <2>2, <2>4, <4>1 DEF K!Unanswered
    <3>2. CASE K!Asked(c)
      <4>1. /\ npc[c] = "ask" /\ npc'[c] \in {"done", "poll"} /\ new_time'[c] = 0
            /\ (npc'[c] = "poll" => start'[c] = tick /\ ~(tick + NtpTimeout >= TickValues))
        BY <1>1, <2>2, <3>2 DEF K!Asked, K!Shapes, K!Stage
      <4> QED
        BY <1>2, <2>4, <4>1 DEF K!Unanswered
    <3>3. CASE K!Poll(c)
      <4>1. /\ npc[c] = "poll" /\ npc'[c] = "late" /\ start' = start
            /\ \/ ~K!InTime(c) /\ first' = first
               \/ socks[c].q # <<>> /\ first' = [first EXCEPT ![c] = Head(socks[c].q)]
        BY <1>1, <3>3 DEF K!Poll, K!Shapes
      <4>2. start'[c] + NtpTimeout < TickValues
        BY <2>2, <4>1 DEF K!Unanswered
      <4>3. CASE ~K!InTime(c)
        BY <2>1, <2>4, <4>1, <4>2, <4>3 DEF K!Unanswered, K!InTime
      <4>4. CASE socks[c].q # <<>> /\ first' = [first EXCEPT ![c] = Head(socks[c].q)]
        <5>1. Head(socks[c].q) \in K!Given
          BY <1>1, <4>4 DEF K!Shapes
        <5>2. first'[c] # K!None
          BY <1>1, <4>4, <5>1, NtpGiven DEF K!Shapes
        <5> QED
          BY <2>4, <4>1, <4>2, <5>2 DEF K!Unanswered
      <4> QED
        BY <4>1, <4>3, <4>4
    <3>4. CASE K!Late(c)
      <4>1. npc[c] = "late" /\ first' = first
        BY <3>4 DEF K!Late, K!hist
      <4>2. CASE K!InTime(c)
        <5>1. npc'[c] = "convert" /\ first[c] # K!None
          BY <1>1, <2>2, <3>4, <4>1, <4>2 DEF K!Late, K!Shapes, K!Unanswered
        <5> QED
          BY <2>4, <4>1, <5>1 DEF K!Unanswered
      <4>3. CASE ~K!InTime(c)
        <5>1. npc'[c] = "done" /\ new_time'[c] = 0
          BY <1>1, <3>4, <4>3 DEF K!Late, K!Close, K!Shapes
        <5> QED
          BY <2>4, <5>1 DEF K!Unanswered
      <4> QED
        BY <4>2, <4>3
    <3>5. CASE K!Convert(c) \/ K!Take(c)
      <4>1. first[c] # K!None /\ first' = first /\ npc'[c] \in {"take", "done", "set_time"}
        BY <1>1, <2>2, <3>5 DEF K!Convert, K!Take, K!Close, K!hist, K!Shapes, K!Unanswered
      <4> QED
        BY <2>4, <4>1 DEF K!Unanswered
    <3> QED
      BY <1>5, <3>1, <3>2, <3>3, <3>4, <3>5 DEF K!ntp_sync_to_rtc
  <2> QED
    BY <2>3, <2>4
<1>6. CASE K!Tick
  <2>1. /\ UNCHANGED <<npc, new_time, start, first>> /\ ~wrapped /\ ~(tick' < tick) /\ tick' \in Int
    <3>1. PICK n \in 1 .. Nap : tick' = ((tick + n) % TickValues)
      BY <1>6 DEF K!Tick
    <3>2. tick' \in Int
      BY <1>2, <3>1, NtpNumbers
    <3> QED
      BY <1>6, <3>2 DEF K!Tick
  <2>2. K!Unanswered(d)
    BY <1>3, <2>1
  <2>3. npc[d] = "late" /\ first[d] = K!None => ~K!InTime(d)'
    <3> SUFFICES ASSUME npc[d] = "late", first[d] = K!None PROVE ~K!InTime(d)'
      OBVIOUS
    <3> DEFINE limit == ((start[d] + NtpTimeout) % TickValues)
    <3>1. ~(tick <= limit) /\ limit \in Int
      BY <1>2, <2>2, NtpNumbers DEF K!Unanswered, K!InTime
    <3>2. limit' = limit
      BY <2>1
    <3> HIDE DEF limit
    <3>3. ~(tick' <= limit)
      BY <1>2, <2>1, <3>1
    <3> QED
      BY <3>2, <3>3 DEF K!InTime, limit
  <2> QED
    BY <2>1, <2>2, <2>3 DEF K!Unanswered
<1> QED
  BY <1>4, <1>5, <1>6 DEF K!Next, K!Second, K!Answers, K!hist, K!clock, ntpVars

LEMMA NtpBegins == K!NtpAssumption /\ K!Init => K!NtpInv
<1> SUFFICES ASSUME K!NtpAssumption, K!Init PROVE K!NtpInv
  OBVIOUS
<1>1. \A c \in Callers : npc[c] \in {"call", "done"} /\ new_time[c] = 0
  BY DEF K!Init
<1> QED
  BY <1>1, NtpInit DEF K!NtpInv, K!Unanswered

LEMMA NtpStep == K!NtpAssumption /\ K!NtpInv /\ [K!Next]_ntpVars => K!NtpInv'
BY NtpCoreStep, NtpUnanswered DEF K!NtpInv

LEMMA NtpSafe == K!NtpInv => K!TypeOK /\ K!TimeAsSent /\ K!ClockRight /\ K!SocketsClosed
<1> SUFFICES ASSUME K!NtpInv PROVE K!TimeAsSent /\ K!ClockRight
  BY DEF K!NtpInv, K!NtpCore
<1>1. K!TimeAsSent
  BY DEF K!NtpInv, K!NtpCore, K!InPacket, K!Unanswered, K!TimeAsSent
<1>2. K!ClockRight
  BY DEF K!NtpInv, K!NtpCore, K!Alone, K!Clock, K!OnTime, K!ClockRight
<1> QED
  BY <1>1, <1>2

-----------------------------------------------------------------------------
(* Tftp: what a handler leaves has a peer and a timer.                     *)

LEMMA TftpNumbers ==
  ASSUME F!TftpAssumption
  PROVE  /\ F!Short \in Nat /\ F!Short > 0 /\ TftpTimeout \in Nat /\ TftpRetries \in Nat /\ MaxChains \in Nat
         /\ MaxChains > 1 /\ TftpFaults \in Nat /\ F!Nobody \notin TftpClients
BY DEF F!TftpAssumption, F!Short, F!Nobody

\* What a handler leaves: the server has a peer and a timer, or is free.
TftpStates ==
  [handle : {"none", "file", "bad"}, peer : TftpClients \union {F!Nobody}, mode_write : BOOLEAN, blknum : Nat,
   last_data : 0 .. F!Short, retries : 0 .. TftpRetries]
Right(st, n) ==
  /\ st \in TftpStates /\ n \in 0 .. MaxChains
  /\ st.handle # "none" => n > 0 /\ st.peer # F!Nobody
  /\ st.handle = "none" => st.peer = F!Nobody
  /\ st.last_data # F!None => st.handle # "none" /\ ~st.mode_write
RightResult(r) ==
  /\ Right(r.st, r.chains) /\ r.pos \in Nat /\ r.ans \subseteq F!Messages

LEMMA TftpRight == F!TypeOK /\ F!Armed <=> /\ Right(tftp_state, chains)
                                           /\ quiet \in 0 .. TftpTimeout + 1 /\ pos \in Nat
                                           /\ DOMAIN file = TftpClients /\ DOMAIN user = TftpClients
                                           /\ faults \in 0 .. TftpFaults /\ astray \subseteq TftpClients
                                           /\ \A m \in net : m.dst \in {"server", "client"} /\ m.c \in TftpClients
BY DEF F!TypeOK, F!Armed, F!Open, Right, TftpStates

LEMMA TftpResult ==
  ASSUME NEW st, NEW n, Right(st, n), NEW p \in Nat, NEW ans, ans \subseteq F!Messages
  PROVE  RightResult(F!Result(st, n, p, ans))
BY DEF F!Result, RightResult

LEMMA TftpTalk ==
  ASSUME NEW c \in TftpClients, NEW b \in Nat, NEW d \in Nat
  PROVE  /\ F!Ack(c, b) \in F!Messages /\ F!Error(c) \in F!Messages /\ F!Data(c, b, d) \in F!Messages
         /\ \A kind \in {"RRQ", "WRQ", "DATA", "ACK"} : F!ToServer(c, kind, b) \in F!Messages
BY DEF F!Ack, F!Error, F!Data, F!ToServer, F!Messages, F!None

LEMMA TftpUntimed ==
  ASSUME F!TftpAssumption, NEW n \in 0 .. MaxChains
  PROVE  F!Untimed(n) \in 0 .. MaxChains
BY TftpNumbers DEF F!Untimed

LEMMA TftpCloses ==
  ASSUME F!TftpAssumption, NEW st \in TftpStates, NEW n \in 0 .. MaxChains
  PROVE  Right(F!close_handle(st), n)
<1> DEFINE a == [st EXCEPT !.handle = "none"]
           b == [a EXCEPT !.peer = F!Nobody]
           d == [b EXCEPT !.last_data = F!None]
<1>1. F!close_handle(st) = d
  BY DEF F!close_handle
<1>2. a \in TftpStates /\ a.handle = "none"
  BY DEF TftpStates
<1> HIDE DEF a
<1>3. b \in TftpStates /\ b.handle = "none" /\ b.peer = F!Nobody
  BY <1>2 DEF TftpStates
<1> HIDE DEF b
<1>4. d \in TftpStates /\ d.handle = "none" /\ d.peer = F!Nobody /\ d.last_data = F!None
  BY <1>3, TftpNumbers DEF TftpStates, F!None
<1> QED
  BY <1>1, <1>4 DEF Right

\* The next block, of a file that is read.
LEMMA TftpSends ==
  ASSUME F!TftpAssumption, NEW st \in TftpStates, NEW n \in 1 .. MaxChains, NEW p \in Nat, NEW fault,
         st.handle # "none", st.peer # F!Nobody, ~st.mode_write
  PROVE  RightResult(F!Sends(st, n, p, fault))
<1>1. st.peer \in TftpClients /\ st.blknum \in Nat
  BY DEF TftpStates
<1>2. n \in 0 .. MaxChains
  BY TftpNumbers
<1> DEFINE sent_block == F!AtMost(p + 1, F!Short)
<1>3. sent_block \in 0 .. F!Short /\ sent_block \in Nat /\ p + 1 \in Nat
  BY TftpNumbers DEF F!AtMost
<1> HIDE DEF sent_block
<1>4. Right([st EXCEPT !.last_data = F!None], n)
  <2> DEFINE a == [st EXCEPT !.last_data = F!None]
  <2>1. a \in TftpStates /\ a.handle = st.handle /\ a.peer = st.peer /\ a.last_data = F!None
    BY TftpNumbers DEF TftpStates, F!None
  <2> HIDE DEF a
  <2> QED
    BY <1>2, <2>1 DEF Right, a
<1>5. Right([st EXCEPT !.last_data = sent_block], n)
  <2> DEFINE a == [st EXCEPT !.last_data = sent_block]
  <2>1. a \in TftpStates /\ a.handle = st.handle /\ a.peer = st.peer
    BY <1>3 DEF TftpStates
  <2>2. ~a.mode_write
    BY <1>3 DEF TftpStates
  <2> HIDE DEF a
  <2> QED
    BY <1>2, <2>1, <2>2 DEF Right, a
<1>6. CASE fault = "memory"
  <2>1. F!Sends(st, n, p, fault) = F!Result([st EXCEPT !.last_data = F!None], n, p, {})
    BY <1>6 DEF F!Sends
  <2> QED
    BY <1>4, <2>1, TftpResult
<1>7. CASE fault # "memory" /\ (st.handle = "bad" \/ fault = "file")
  <2>1. F!Sends(st, n, p, fault) = F!Result(F!close_handle(st), F!Untimed(n), p, {F!Error(st.peer)})
    BY <1>7 DEF F!Sends
  <2>2. Right(F!close_handle(st), F!Untimed(n)) /\ F!Error(st.peer) \in F!Messages
    BY <1>1, <1>2, TftpUntimed, TftpCloses, TftpTalk
  <2> QED
    BY <2>1, <2>2, TftpResult
<1>8. CASE fault # "memory" /\ ~(st.handle = "bad" \/ fault = "file")
  <2>1. F!Sends(st, n, p, fault)
       = F!Result([st EXCEPT !.last_data = sent_block], n, p + 1, {F!Data(st.peer, st.blknum, sent_block)})
    BY <1>8 DEF F!Sends, sent_block
  <2>2. F!Data(st.peer, st.blknum, sent_block) \in F!Messages
    BY <1>1, <1>3, TftpTalk
  <2> QED
    BY <1>3, <1>5, <2>1, <2>2, TftpResult
<1> QED
  BY <1>6, <1>7, <1>8

\* The server has heard something.
LEMMA TftpHeard ==
  ASSUME F!TftpAssumption, Right(tftp_state, chains)
  PROVE  LET st == [tftp_state EXCEPT !.retries = 0]
         IN /\ Right(st, chains) /\ st.handle = tftp_state.handle /\ st.peer = tftp_state.peer
            /\ st.blknum = tftp_state.blknum /\ (st.mode_write <=> tftp_state.mode_write)
            /\ st.last_data = tftp_state.last_data
<1> DEFINE st == [tftp_state EXCEPT !.retries = 0]
<1>1. tftp_state \in TftpStates /\ 0 \in 0 .. TftpRetries
  BY TftpNumbers DEF Right
<1>2. /\ st \in TftpStates /\ st.handle = tftp_state.handle /\ st.peer = tftp_state.peer
      /\ st.blknum = tftp_state.blknum /\ st.last_data = tftp_state.last_data
  BY <1>1 DEF TftpStates
<1>3. st.mode_write = tftp_state.mode_write
  BY <1>1 DEF TftpStates
<1> HIDE DEF st
<1>4. Right(st, chains)
  BY <1>2, <1>3 DEF Right
<1> QED
  BY <1>2, <1>3, <1>4 DEF st

LEMMA TftpRequest ==
  ASSUME F!TftpAssumption, F!TftpInv, chains < MaxChains, NEW m \in F!Messages, NEW fault, ~F!Stranger(m)
  PROVE  RightResult(F!Request(m, fault))
<1>1. Right(tftp_state, chains) /\ pos \in Nat /\ m.c \in TftpClients /\ F!Error(m.c) \in F!Messages
  BY TftpRight, TftpTalk DEF F!TftpInv, F!Messages
<1> DEFINE st0 == [tftp_state EXCEPT !.retries = 0]
<1>2. Right(st0, chains) /\ st0.handle = tftp_state.handle /\ chains + 1 \in 1 .. MaxChains /\ chains \in 0 .. MaxChains
  BY <1>1, TftpHeard, TftpNumbers DEF Right
<1> HIDE DEF st0
<1>3. CASE F!Open
  <2>1. F!Request(m, fault) = F!Result(st0, chains, pos, {F!Error(m.c)})
    BY <1>3 DEF F!Request, st0
  <2> QED
    BY <1>1, <1>2, <2>1, TftpResult
<1>4. CASE ~F!Open
  <2>1. CASE user[m.c].job[2] = "long"
    <3>1. F!Request(m, fault) = F!Result(st0, chains + 1, pos, {F!Error(m.c)})
      BY <1>4, <2>1 DEF F!Request, st0
    <3>2. Right(st0, chains + 1)
      BY <1>2, <1>4, TftpNumbers DEF Right, F!Open
    <3> QED
      BY <1>1, <3>1, <3>2, TftpResult
  <2>2. CASE user[m.c].job[2] # "long"
    <3> DEFINE h  == IF user[m.c].job[2] = "good" THEN "file" ELSE "bad"
               a1 == [st0 EXCEPT !.blknum = 1]
               a2 == [a1 EXCEPT !.peer = m.c]
               a3 == [a2 EXCEPT !.mode_write = (m.op = "WRQ")]
               st == [a3 EXCEPT !.handle = h]
    <3>1. st0 \in TftpStates /\ st0.last_data = F!None
      BY <1>2, <1>4 DEF Right, F!Open
    <3>2. a1 \in TftpStates /\ a1.last_data = F!None
      BY <3>1 DEF TftpStates
    <3> HIDE DEF a1
    <3>3. a2 \in TftpStates /\ a2.last_data = F!None /\ a2.peer = m.c
      BY <1>1, <3>2 DEF TftpStates
    <3> HIDE DEF a2
    <3>4. a3 \in TftpStates /\ a3.last_data = F!None /\ a3.peer = m.c
      BY <3>3 DEF TftpStates
    <3>5. a3.mode_write = (m.op = "WRQ")
      BY <3>3 DEF TftpStates
    <3> HIDE DEF a3
    <3>6. h \in {"file", "bad"}
      OBVIOUS
    <3> HIDE DEF h
    <3>7. st \in TftpStates /\ st.last_data = F!None /\ st.peer = m.c /\ st.handle = h
      BY <3>4, <3>6 DEF TftpStates
    <3>8. st.mode_write = a3.mode_write
      BY <3>4 DEF TftpStates
    <3>9. st = [tftp_state EXCEPT !.retries = 0, !.blknum = 1, !.peer = m.c, !.mode_write = (m.op = "WRQ"), !.handle = h]
      BY DEF st0, a1, a2, a3
    <3> HIDE DEF st
    <3>10. st.handle # "none" /\ st.peer # F!Nobody
      BY <1>1, <3>6, <3>7, TftpNumbers
    <3>11. CASE m.op = "WRQ"
      <4>1. F!Request(m, fault) = F!Result(st, chains + 1, 0, {F!Ack(m.c, 0)})
        BY <1>4, <2>2, <3>9, <3>11 DEF F!Request, h
      <4>2. Right(st, chains + 1)
        BY <1>2, <3>7, <3>10, TftpNumbers DEF Right
      <4>3. F!Ack(m.c, 0) \in F!Messages
        BY <1>1, TftpTalk
      <4> QED
        BY <4>1, <4>2, <4>3, TftpResult
    <3>12. CASE m.op # "WRQ"
      <4>1. F!Request(m, fault) = F!Sends(st, chains + 1, 0, fault)
        BY <1>4, <2>2, <3>9, <3>12 DEF F!Request, h
      <4>2. ~st.mode_write
        BY <3>5, <3>8, <3>12
      <4> QED
        BY <1>2, <3>7, <3>10, <4>1, <4>2, TftpSends
    <3> QED
      BY <3>11, <3>12
  <2> QED
    BY <2>1, <2>2
<1> QED
  BY <1>3, <1>4

LEMMA TftpWritten ==
  ASSUME F!TftpAssumption, F!TftpInv, NEW m \in F!Messages, NEW fault
  PROVE  RightResult(F!Written(m, fault))
<1>1. /\ Right(tftp_state, chains) /\ pos \in Nat /\ m.c \in TftpClients /\ m.blk \in Nat
      /\ F!Error(m.c) \in F!Messages /\ F!Ack(m.c, m.blk) \in F!Messages
  BY TftpRight, TftpTalk DEF F!TftpInv, F!Messages
<1> DEFINE st == [tftp_state EXCEPT !.retries = 0]
<1>2. Right(st, chains) /\ st.handle = tftp_state.handle /\ st \in TftpStates /\ chains \in 0 .. MaxChains
  BY <1>1, TftpHeard DEF Right
<1> HIDE DEF st
<1>3. CASE ~F!Open \/ ~tftp_state.mode_write
  <2>1. F!Written(m, fault) = F!Result(st, chains, pos, {F!Error(m.c)})
    BY <1>3 DEF F!Written, st
  <2> QED
    BY <1>1, <1>2, <2>1, TftpResult
<1>4. CASE ~(~F!Open \/ ~tftp_state.mode_write)
  <2> DEFINE fails == F!WriteFails(fault)
             short == m.data = F!Short
             n == CASE fails /\ short -> F!Untimed(F!Untimed(chains))
                    [] fails # short  -> F!Untimed(chains)
                    [] OTHER          -> chains
             after == IF fails \/ short THEN F!close_handle(st) ELSE st
             p == IF fails THEN pos ELSE pos + 1
  <2>1. F!Written(m, fault) = F!Result(after, n, p, {F!Told(m, fault)})
    BY <1>4 DEF F!Written, st
  <2>2. p \in Nat /\ {F!Told(m, fault)} \subseteq F!Messages
    BY <1>1 DEF F!Told
  <2>3. fails \in BOOLEAN /\ short \in BOOLEAN
    BY DEF F!WriteFails
  <2> HIDE DEF fails, short, p
  <2>4. CASE fails \/ short
    <3>1. n \in {F!Untimed(chains), F!Untimed(F!Untimed(chains))}
      BY <2>3, <2>4
    <3>2. n \in 0 .. MaxChains /\ after = F!close_handle(st)
      BY <1>2, <2>4, <3>1, TftpUntimed
    <3> HIDE DEF n, after
    <3> QED
      BY <1>2, <2>1, <2>2, <3>2, TftpCloses, TftpResult
  <2>5. CASE ~fails /\ ~short
    <3>1. n = chains /\ after = st
      BY <2>3, <2>5
    <3> HIDE DEF n, after
    <3> QED
      BY <1>2, <2>1, <2>2, <3>1, TftpResult
  <2> QED
    BY <2>3, <2>4, <2>5
<1> QED
  BY <1>3, <1>4

LEMMA TftpAcked ==
  ASSUME F!TftpAssumption, F!TftpInv, NEW m \in F!Messages, NEW fault
  PROVE  RightResult(F!Acked(m, fault))
<1>1. /\ Right(tftp_state, chains) /\ pos \in Nat /\ m.c \in TftpClients /\ F!Error(m.c) \in F!Messages
  BY TftpRight, TftpTalk DEF F!TftpInv, F!Messages
<1> DEFINE st == [tftp_state EXCEPT !.retries = 0]
<1>2. /\ Right(st, chains) /\ st.handle = tftp_state.handle /\ st.peer = tftp_state.peer /\ st \in TftpStates
      /\ chains \in 0 .. MaxChains /\ (st.mode_write <=> tftp_state.mode_write)
  BY <1>1, TftpHeard DEF Right
<1> HIDE DEF st
<1>3. CASE ~F!Open \/ tftp_state.mode_write \/ m.blk # tftp_state.blknum
  <2>1. F!Acked(m, fault) = F!Result(st, chains, pos, {F!Error(m.c)})
    BY <1>3 DEF F!Acked, st
  <2> QED
    BY <1>1, <1>2, <2>1, TftpResult
<1>4. CASE ~(~F!Open \/ tftp_state.mode_write \/ m.blk # tftp_state.blknum)
  <2>1. CASE F!LastPacket
    <3>1. F!Acked(m, fault) = F!Result(F!close_handle(st), F!Untimed(chains), pos, {})
      BY <1>4, <2>1 DEF F!Acked, st
    <3>2. F!Untimed(chains) \in 0 .. MaxChains
      BY <1>2, TftpUntimed
    <3> QED
      BY <1>1, <1>2, <3>1, <3>2, TftpCloses, TftpResult
  <2>2. CASE ~F!LastPacket
    <3> DEFINE a == [st EXCEPT !.blknum = st.blknum + 1]
    <3>1. F!Acked(m, fault) = F!Sends(a, chains, pos, fault)
      BY <1>4, <2>2 DEF F!Acked, st
    <3>2. a \in TftpStates /\ a.handle = st.handle /\ a.peer = st.peer
      BY <1>2 DEF TftpStates
    <3>3. a.mode_write = st.mode_write
      BY <1>2 DEF TftpStates
    <3> HIDE DEF a
    <3>4. chains \in 1 .. MaxChains /\ a.handle # "none" /\ a.peer # F!Nobody /\ ~a.mode_write
      BY <1>1, <1>2, <1>4, <3>2, <3>3, TftpNumbers DEF Right, F!Open
    <3> QED
      BY <1>1, <3>1, <3>2, <3>4, TftpSends
  <2> QED
    BY <2>1, <2>2
<1> QED
  BY <1>3, <1>4

LEMMA TftpHandled ==
  ASSUME F!TftpAssumption, F!TftpInv, chains < MaxChains, NEW m \in F!Messages, m.dst = "server", NEW fault
  PROVE  RightResult(F!Handled(m, fault))
<1>1. m.op \in {"RRQ", "WRQ", "DATA", "ACK"} /\ m.c \in TftpClients
  BY DEF F!Messages
<1>2. CASE F!Stranger(m)
  <2>1. Right(tftp_state, chains) /\ pos \in Nat /\ F!Error(m.c) \in F!Messages
    BY <1>1, TftpRight, TftpTalk DEF F!TftpInv
  <2>2. F!Handled(m, fault) = F!Result(tftp_state, chains, pos, {F!Error(m.c)})
    BY <1>2 DEF F!Handled
  <2> QED
    BY <2>1, <2>2, TftpResult
<1>3. CASE ~F!Stranger(m) /\ m.op \in {"RRQ", "WRQ"}
  <2>1. F!Handled(m, fault) = F!Request(m, fault)
    BY <1>3 DEF F!Handled
  <2> QED
    BY <1>3, <2>1, TftpRequest
<1>4. CASE ~F!Stranger(m) /\ m.op = "DATA"
  <2>1. F!Handled(m, fault) = F!Written(m, fault)
    BY <1>4 DEF F!Handled
  <2> QED
    BY <2>1, TftpWritten
<1>5. CASE ~F!Stranger(m) /\ m.op = "ACK"
  <2>1. F!Handled(m, fault) = F!Acked(m, fault)
    BY <1>5 DEF F!Handled
  <2> QED
    BY <2>1, TftpAcked
<1> QED
  BY <1>1, <1>2, <1>3, <1>4, <1>5

\* What the parts say together.
LEMMA TftpTogether ==
  ASSUME F!TftpAssumption, Right(tftp_state, chains), quiet \in 0 .. TftpTimeout + 1, pos \in Nat, DOMAIN file = TftpClients,
         faults \in 0 .. TftpFaults, astray \subseteq TftpClients, F!Talks
  PROVE  F!TftpInv
<1>1. DOMAIN user = TftpClients /\ \A m \in net : m.dst \in {"server", "client"} /\ m.c \in TftpClients
  BY DEF F!Talks, F!Messages
<1> QED
  BY <1>1, TftpRight DEF F!TftpInv

LEMMA TftpParts ==
  ASSUME F!TftpAssumption, F!TftpInv
  PROVE  /\ Right(tftp_state, chains) /\ quiet \in 0 .. TftpTimeout + 1 /\ pos \in Nat /\ DOMAIN file = TftpClients
         /\ faults \in 0 .. TftpFaults /\ astray \subseteq TftpClients /\ F!Talks
BY TftpRight DEF F!TftpInv

LEMMA TftpTogetherThen ==
  ASSUME F!TftpAssumption, Right(tftp_state', chains'), quiet' \in 0 .. TftpTimeout + 1, pos' \in Nat,
         DOMAIN file' = TftpClients, faults' \in 0 .. TftpFaults, astray' \subseteq TftpClients, F!Talks'
  PROVE  F!TftpInv'
<1>1. DOMAIN user' = TftpClients /\ \A m \in net' : m.dst \in {"server", "client"} /\ m.c \in TftpClients
  BY DEF F!Talks, F!Messages
<1>2. F!TypeOK'
  BY <1>1 DEF F!TypeOK, Right, TftpStates
<1>3. F!Armed'
  BY DEF F!Armed, F!Open, Right
<1> QED
  BY <1>2, <1>3 DEF F!TftpInv

LEMMA TftpInit == F!TftpAssumption /\ F!Init => F!TftpInv
<1> SUFFICES ASSUME F!TftpAssumption, F!Init PROVE F!TftpInv
  OBVIOUS
<1>1. Right(tftp_state, chains)
  <2>1. F!Closed \in TftpStates /\ F!Closed.handle = "none" /\ F!Closed.peer = F!Nobody /\ F!Closed.last_data = F!None
    BY TftpNumbers DEF F!Closed, TftpStates, F!None
  <2> QED
    BY <2>1, TftpNumbers DEF F!Init, Right
<1>2. F!Talks
  <2>1. PICK job \in [TftpClients -> Jobs] :
          user = [c \in TftpClients |-> [job |-> job[c], phase |-> "idle", got |-> <<>>, acked |-> -1, sent |-> F!Error(c)]]
    BY DEF F!Init
  <2>2. \A c \in TftpClients : F!Error(c) \in F!Messages
    BY TftpTalk
  <2>3. \A c \in TftpClients :
          [job |-> job[c], phase |-> "idle", got |-> <<>>, acked |-> -1, sent |-> F!Error(c)]
            \in [job : Jobs, phase : {"idle", "busy", "done", "failed"}, got : Seq(Nat), acked : Int, sent : F!Messages]
    BY <2>2
  <2> QED
    BY <2>1, <2>3 DEF F!Init, F!Talks
<1> QED
  BY <1>1, <1>2, TftpNumbers, TftpTogether DEF F!Init

LEMMA TftpRecv == F!TftpAssumption /\ F!TftpInv /\ F!recv => F!TftpInv'
<1> SUFFICES ASSUME F!TftpAssumption, F!TftpInv, F!recv PROVE F!TftpInv'
  OBVIOUS
<1>1. PICK m \in net, fault \in F!Faults :
    LET r == F!Handled(m, fault)
    IN /\ m.dst = "server" /\ chains < MaxChains
       /\ tftp_state' = r.st /\ chains' = r.chains /\ pos' = r.pos
       /\ quiet' = IF F!Stranger(m) THEN quiet ELSE 0
       /\ net' = (IF fault = "repeat" THEN net ELSE net \ {m}) \union r.ans
       /\ file' = IF F!Lands(m, r) THEN [file EXCEPT ![tftp_state.peer] = F!Keep(@, r.pos, m.data)] ELSE file
       /\ astray' = IF fault = "memory" \/ (F!Lands(m, r) /\ (m.blk # r.pos \/ fault = "part"))
                      THEN astray \union {m.c} ELSE astray
       /\ faults' = faults - (IF fault = "none" THEN 0 ELSE 1)
       /\ UNCHANGED user
  BY DEF F!recv
<1> DEFINE r == F!Handled(m, fault)
<1>2. m \in F!Messages /\ m.c \in TftpClients
  BY TftpParts DEF F!Talks, F!Messages
<1>3. RightResult(r)
  BY <1>1, <1>2, TftpHandled
<1> HIDE DEF r
<1>4. /\ tftp_state' = r.st /\ chains' = r.chains /\ pos' = r.pos /\ user' = user /\ net' \subseteq net \union r.ans
      /\ quiet' \in {quiet, 0} /\ astray' \subseteq astray \union {m.c}
  BY <1>1 DEF r
<1>5. DOMAIN file' = DOMAIN file
  BY <1>1
<1>6. faults' \in 0 .. TftpFaults
  <2>1. faults \in 0 .. TftpFaults /\ TftpFaults \in Nat
    BY TftpParts, TftpNumbers
  <2>2. fault = "none" \/ faults > 0
    BY DEF F!Faults
  <2> QED
    BY <1>1, <2>1, <2>2
<1>7. F!Talks'
  BY <1>3, <1>4, TftpParts DEF F!Talks, RightResult
<1>8. Right(tftp_state', chains') /\ pos' \in Nat
  BY <1>3, <1>4 DEF RightResult
<1> QED
  BY <1>2, <1>4, <1>5, <1>6, <1>7, <1>8, TftpParts, TftpNumbers, TftpTogetherThen

LEMMA TftpTimer == F!TftpAssumption /\ F!TftpInv /\ F!tftp_tmr => F!TftpInv'
<1> SUFFICES ASSUME F!TftpAssumption, F!TftpInv, F!tftp_tmr PROVE F!TftpInv'
  OBVIOUS
<1>1. /\ chains > 0 /\ quiet' = F!AtMost(quiet + 1, TftpTimeout + 1) /\ UNCHANGED <<file, pos, user, faults, astray>>
  BY DEF F!tftp_tmr
<1>2. quiet' \in 0 .. TftpTimeout + 1
  BY <1>1, TftpParts, TftpNumbers DEF F!AtMost
<1>3. Right(tftp_state, chains) /\ tftp_state \in TftpStates /\ chains \in 0 .. MaxChains /\ F!Talks
  BY TftpParts DEF Right
<1>4. \/ ~F!Open /\ chains' = chains - 1 /\ tftp_state' = tftp_state /\ net' = net
      \/ UNCHANGED <<chains, tftp_state, net>>
      \/ /\ F!Open /\ tftp_state.last_data # F!None /\ tftp_state.retries < TftpRetries
         /\ net' = net \union {F!Data(tftp_state.peer, tftp_state.blknum, F!Resent)}
         /\ tftp_state' = [tftp_state EXCEPT !.retries = tftp_state.retries + 1] /\ chains' = chains
      \/ tftp_state' = F!close_handle(tftp_state) /\ chains' = F!Untimed(chains) /\ net' = net
  BY DEF F!tftp_tmr
<1>5. Right(tftp_state', chains') /\ net' \subseteq F!Messages
  <2>1. CASE ~F!Open /\ chains' = chains - 1 /\ tftp_state' = tftp_state /\ net' = net
    BY <1>1, <1>3, <2>1, TftpNumbers DEF Right, F!Open, F!Talks
  <2>2. CASE UNCHANGED <<chains, tftp_state, net>>
    BY <1>3, <2>2 DEF F!Talks
  <2>3. CASE /\ F!Open /\ tftp_state.last_data # F!None /\ tftp_state.retries < TftpRetries
             /\ net' = net \union {F!Data(tftp_state.peer, tftp_state.blknum, F!Resent)}
             /\ tftp_state' = [tftp_state EXCEPT !.retries = tftp_state.retries + 1] /\ chains' = chains
    <3>1. tftp_state.peer \in TftpClients /\ tftp_state.blknum \in Nat /\ F!Resent \in Nat
      BY <1>3, <2>3, TftpNumbers DEF Right, TftpStates, F!Open, F!Resent
    <3>2. F!Data(tftp_state.peer, tftp_state.blknum, F!Resent) \in F!Messages
      BY <3>1, TftpTalk
    <3>3. tftp_state.retries + 1 \in 0 .. TftpRetries
      BY <1>3, <2>3, TftpNumbers DEF TftpStates
    <3>4. /\ tftp_state' \in TftpStates /\ tftp_state'.handle = tftp_state.handle /\ tftp_state'.peer = tftp_state.peer
          /\ tftp_state'.last_data = tftp_state.last_data
      BY <1>3, <2>3, <3>3 DEF TftpStates
    <3>5. tftp_state'.mode_write = tftp_state.mode_write
      BY <1>3, <2>3 DEF TftpStates
    <3>6. Right(tftp_state', chains')
      BY <1>3, <2>3, <3>4, <3>5 DEF Right
    <3> QED
      BY <1>3, <2>3, <3>2, <3>6 DEF F!Talks
  <2>4. CASE tftp_state' = F!close_handle(tftp_state) /\ chains' = F!Untimed(chains) /\ net' = net
    BY <1>3, <2>4, TftpUntimed, TftpCloses DEF F!Talks
  <2> QED
    BY <1>4, <2>1, <2>2, <2>3, <2>4
<1>6. F!Talks'
  BY <1>1, <1>3, <1>5 DEF F!Talks
<1> QED
  BY <1>1, <1>2, <1>5, <1>6, TftpParts, TftpTogetherThen

\* A client goes on, and the server is as it was.
LEMMA TftpUser ==
  ASSUME F!TftpAssumption, F!TftpInv, F!Talks', UNCHANGED <<tftp_state, quiet, chains, file, pos, astray>>,
         faults' \in 0 .. TftpFaults
  PROVE  F!TftpInv'
BY TftpParts, TftpTogetherThen

LEMMA TftpHears ==
  ASSUME F!TftpAssumption, F!TftpInv, NEW c \in TftpClients, F!Hears(c)
  PROVE  F!TftpInv'
<1>1. PICK m \in net :
    /\ m.dst = "client" /\ m.c = c
    /\ CASE m.op = "ERROR" ->
              /\ net' = net \ {m}
              /\ user' = [user EXCEPT ![c].phase = IF user[c].phase = "busy" THEN "failed" ELSE user[c].phase]
         [] m.op = "DATA" /\ user[c].phase # "failed" -> F!Takes(c, m)
         [] m.op = "ACK" /\ user[c].phase = "busy" -> F!Gives(c, m)
         [] OTHER -> net' = net \ {m} /\ UNCHANGED user
  BY DEF F!Hears
<1> DEFINE Users == [job : Jobs, phase : {"idle", "busy", "done", "failed"}, got : Seq(Nat), acked : Int, sent : F!Messages]
           u == user[c]
<1>2. /\ UNCHANGED <<tftp_state, quiet, chains, file, pos, faults, astray>> /\ faults \in 0 .. TftpFaults
      /\ user \in [TftpClients -> Users] /\ net \subseteq F!Messages /\ u \in Users
      /\ m.blk \in Nat /\ m.data \in Nat /\ m.blk \in Int
  BY <1>1, TftpParts DEF F!Hears, F!Talks, F!Messages
<1> DEFINE ack  == F!ToServer(c, "ACK", m.blk)
           next == F!ToServer(c, "DATA", m.blk + 1)
<1>3. ack \in F!Messages /\ next \in F!Messages
  BY <1>2, TftpTalk
<1> HIDE DEF Users, u, ack, next
<1>4. net' \subseteq F!Messages /\ (user' = user \/ \E v \in Users : user' = [user EXCEPT ![c] = v])
  <2>1. CASE /\ net' = net \ {m}
             /\ user' = [user EXCEPT ![c].phase = IF user[c].phase = "busy" THEN "failed" ELSE user[c].phase]
    <3>1. (IF u.phase = "busy" THEN "failed" ELSE u.phase) \in {"idle", "busy", "done", "failed"}
      BY <1>2 DEF Users
    <3> DEFINE p == IF u.phase = "busy" THEN "failed" ELSE u.phase
               v == [u EXCEPT !.phase = p]
    <3> HIDE DEF p
    <3>2. v \in Users
      BY <1>2, <3>1 DEF Users, p
    <3>3. user' = [user EXCEPT ![c] = v]
      BY <2>1 DEF u, p
    <3> QED
      BY <1>2, <2>1, <3>2, <3>3
  <2>2. CASE F!Takes(c, m)
    <3>1. CASE UNCHANGED <<user, net>>
      BY <1>2, <3>1
    <3>2. CASE net' = (net \ {m}) \union {ack} /\ user' = user
      BY <1>2, <1>3, <3>2
    <3>3. CASE /\ net' = (net \ {m}) \union {ack}
               /\ user' = [user EXCEPT ![c].got = Append(user[c].got, m.data), ![c].sent = ack,
                                       ![c].phase = IF m.data = F!Short THEN "done" ELSE "busy"]
      <4> DEFINE v1 == [u EXCEPT !.got = Append(u.got, m.data)]
                 v2 == [v1 EXCEPT !.sent = ack]
                 v  == [v2 EXCEPT !.phase = IF m.data = F!Short THEN "done" ELSE "busy"]
      <4>1. Append(u.got, m.data) \in Seq(Nat)
        BY <1>2 DEF Users
      <4>2. v1 \in Users
        BY <1>2, <4>1 DEF Users
      <4>3. user' = [user EXCEPT ![c] = v]
        BY <1>2, <3>3 DEF u
      <4> HIDE DEF v1
      <4>4. v2 \in Users
        BY <1>3, <4>2 DEF Users
      <4> HIDE DEF v2
      <4>5. v \in Users
        BY <4>4 DEF Users
      <4> QED
        BY <1>2, <1>3, <3>3, <4>3, <4>5
    <3> QED
      BY <2>2, <3>1, <3>2, <3>3 DEF F!Takes, ack
  <2>3. CASE F!Gives(c, m)
    <3>1. CASE net' = net \ {m} /\ UNCHANGED user
      BY <1>2, <3>1
    <3>2. CASE net' = net \ {m} /\ user' = [user EXCEPT ![c].phase = "done", ![c].acked = m.blk]
      <4> DEFINE v1 == [u EXCEPT !.phase = "done"]
                 v  == [v1 EXCEPT !.acked = m.blk]
      <4>1. v1 \in Users
        BY <1>2 DEF Users
      <4>2. user' = [user EXCEPT ![c] = v]
        BY <1>2, <3>2 DEF u
      <4> HIDE DEF v1
      <4>3. v \in Users
        BY <1>2, <4>1 DEF Users
      <4> QED
        BY <1>2, <3>2, <4>2, <4>3
    <3>3. CASE net' = (net \ {m}) \union {next} /\ user' = [user EXCEPT ![c].acked = m.blk, ![c].sent = next]
      <4> DEFINE v1 == [u EXCEPT !.acked = m.blk]
                 v  == [v1 EXCEPT !.sent = next]
      <4>1. v1 \in Users
        BY <1>2 DEF Users
      <4>2. user' = [user EXCEPT ![c] = v]
        BY <1>2, <3>3 DEF u
      <4> HIDE DEF v1
      <4>3. v \in Users
        BY <1>3, <4>1 DEF Users
      <4> QED
        BY <1>2, <1>3, <3>3, <4>2, <4>3
    <3> QED
      BY <2>3, <3>1, <3>2, <3>3 DEF F!Gives, next
  <2>4. CASE net' = net \ {m} /\ UNCHANGED user
    BY <1>2, <2>4
  <2> QED
    BY <1>1, <2>1, <2>2, <2>3, <2>4
<1>5. user' \in [TftpClients -> Users]
  BY <1>2, <1>4
<1>6. F!Talks'
  BY <1>4, <1>5 DEF F!Talks, Users
<1> QED
  BY <1>2, <1>6, TftpUser

LEMMA TftpClient ==
  ASSUME F!TftpAssumption, F!TftpInv, NEW c \in TftpClients, F!Begin(c) \/ F!Repeats(c) \/ F!GivesUp(c)
  PROVE  F!TftpInv'
<1> DEFINE Users == [job : Jobs, phase : {"idle", "busy", "done", "failed"}, got : Seq(Nat), acked : Int, sent : F!Messages]
           u == user[c]
<1>1. /\ user \in [TftpClients -> Users] /\ net \subseteq F!Messages /\ u \in Users /\ faults \in 0 .. TftpFaults
      /\ TftpFaults \in Nat
  BY TftpParts, TftpNumbers DEF F!Talks
<1>2. CASE F!Begin(c)
  <2> DEFINE kind == IF user[c].job[1] = "read" THEN "RRQ" ELSE "WRQ"
             m  == F!ToServer(c, kind, 0)
             v1 == [u EXCEPT !.phase = "busy"]
             v  == [v1 EXCEPT !.sent = m]
  <2>1. kind \in {"RRQ", "WRQ", "DATA", "ACK"}
    OBVIOUS
  <2>2. m \in F!Messages
    BY <2>1, TftpTalk
  <2>3. /\ user' = [user EXCEPT ![c] = v] /\ net' = net \union {m}
        /\ UNCHANGED <<tftp_state, quiet, chains, file, pos, faults, astray>>
    BY <1>1, <1>2 DEF F!Begin
  <2> HIDE DEF m
  <2>4. v1 \in Users
    BY <1>1
  <2> HIDE DEF v1
  <2>5. v \in Users
    BY <2>2, <2>4
  <2>6. F!Talks'
    BY <1>1, <2>2, <2>3, <2>5 DEF F!Talks
  <2> QED
    BY <1>1, <2>3, <2>6, TftpUser
<1>3. CASE F!Repeats(c)
  <2>1. /\ net' = net \union {u.sent} /\ faults' = faults - 1 /\ faults > 0
        /\ UNCHANGED <<tftp_state, quiet, chains, file, pos, user, astray>>
    BY <1>3 DEF F!Repeats
  <2>2. u.sent \in F!Messages
    BY <1>1
  <2>3. faults' \in 0 .. TftpFaults
    BY <1>1, <2>1
  <2>4. F!Talks'
    BY <1>1, <2>1, <2>2 DEF F!Talks
  <2> QED
    BY <2>1, <2>3, <2>4, TftpUser
<1>4. CASE F!GivesUp(c)
  <2>1. /\ user' = [user EXCEPT ![c].phase = "failed"]
        /\ UNCHANGED <<tftp_state, quiet, chains, file, pos, net, faults, astray>>
    BY <1>4 DEF F!GivesUp
  <2>2. user' \in [TftpClients -> Users]
    BY <1>1, <2>1
  <2>3. F!Talks'
    BY <1>1, <2>1, <2>2 DEF F!Talks
  <2> QED
    BY <1>1, <2>1, <2>3, TftpUser
<1> QED
  BY <1>2, <1>3, <1>4

LEMMA TftpStep == F!TftpAssumption /\ F!TftpInv /\ [F!Next]_tftpVars => F!TftpInv'
<1> SUFFICES ASSUME F!TftpAssumption, F!TftpInv, UNCHANGED tftpVars PROVE F!TftpInv'
  BY TftpRecv, TftpTimer, TftpHears, TftpClient DEF F!Next
<1>1. UNCHANGED <<tftp_state, quiet, chains, file, pos, user, net, faults, astray>> /\ F!Talks
  BY TftpParts DEF tftpVars
<1>2. F!Talks'
  BY <1>1 DEF F!Talks
<1> QED
  BY <1>1, <1>2, TftpParts, TftpUser

-----------------------------------------------------------------------------
(* Tftp: a block is the one its number says, and lies where it belongs.    *)

TftpUsers ==
  [job : Jobs, phase : {"idle", "busy", "done", "failed"}, got : Seq(Nat), acked : Int, sent : F!Messages]

LEMMA TurnParts ==
  ASSUME F!TftpAssumption, F!TransferInv
  PROVE  /\ F!Short \in Nat /\ F!Short > 0 /\ F!Short = Full + 1
         /\ Right(tftp_state, chains) /\ tftp_state \in TftpStates /\ pos \in Nat /\ astray \subseteq TftpClients
         /\ user \in [TftpClients -> TftpUsers] /\ net \subseteq F!Messages
         /\ file \in [TftpClients -> Seq(Nat)] /\ F!Placed(tftp_state, pos)
         /\ \A m \in net : F!Proper(m)
         /\ \A c \in TftpClients : user[c].sent.c = c /\ F!Proper(user[c].sent)
         /\ \A c \in TftpClients \ astray : F!Has(c)
<1>1. F!Short \in Nat /\ F!Short > 0 /\ F!Short = Full + 1
  BY TftpNumbers DEF F!Short
<1>2. F!TftpInv /\ F!InTurn
  BY DEF F!TransferInv
<1>3. Right(tftp_state, chains) /\ pos \in Nat /\ astray \subseteq TftpClients /\ F!Talks
  BY <1>2, TftpParts
<1>4. tftp_state \in TftpStates
  BY <1>3 DEF Right
<1>5. user \in [TftpClients -> TftpUsers] /\ net \subseteq F!Messages
  BY <1>3 DEF F!Talks, TftpUsers
<1> QED
  BY <1>1, <1>2, <1>3, <1>4, <1>5 DEF F!InTurn

\* What was true of a message stays true while jobs stay and files grow.
LEMMA TurnStays ==
  ASSUME F!TftpAssumption, F!TransferInv, F!TftpInv',
         \A c \in TftpClients : user'[c].job = user[c].job,
         astray \subseteq astray', file' \in [TftpClients -> Seq(Nat)],
         \A c \in TftpClients \ astray' : Len(file'[c]) >= Len(file[c]),
         NEW m \in F!Messages, F!Proper(m)
  PROVE  F!Proper(m)'
<1>1. m.c \in TftpClients /\ m.blk \in Nat
  BY DEF F!Messages
<1>2. F!Writes(m.c)' <=> F!Writes(m.c)
  BY <1>1 DEF F!Writes
<1>3. ASSUME m.c \notin astray', m.op = "ACK", m.dst = "client" PROVE m.blk <= Len(file'[m.c])
  <2>1. m.c \notin astray /\ m.c \in TftpClients \ astray'
    BY <1>1, <1>3
  <2>2. m.blk <= Len(file[m.c])
    BY <1>3, <2>1 DEF F!Proper
  <2>3. Len(file[m.c]) \in Nat /\ Len(file'[m.c]) \in Nat /\ Len(file'[m.c]) >= Len(file[m.c])
    BY <1>1, <2>1, TurnParts
  <2> QED
    BY <1>1, <2>2, <2>3
<1>4. /\ m.op = "RRQ"  => ~F!Writes(m.c)
      /\ m.op = "WRQ"  => F!Writes(m.c)
      /\ m.op = "DATA" => (F!Writes(m.c) <=> m.dst = "server")
      /\ m.op = "ACK"  => (F!Writes(m.c) <=> m.dst = "client")
      /\ (m.c \notin astray /\ m.op = "DATA") => (m.data = m.blk /\ m.blk \in 1 .. F!Short)
  BY DEF F!Proper
<1>5. (m.c \notin astray' /\ m.op = "DATA") => (m.data = m.blk /\ m.blk \in 1 .. F!Short)
  BY <1>4
<1>6. F!Short' = F!Short
  BY DEF F!Short
<1> QED
  BY <1>2, <1>3, <1>4, <1>5, <1>6 DEF F!Proper

\* Errors are proper.
LEMMA TurnError == \A c : F!Proper(F!Error(c))
BY DEF F!Proper, F!Error

\* A client goes on: the server is as it was.
LEMMA TurnUser ==
  ASSUME F!TftpAssumption, F!TransferInv, F!TftpInv', UNCHANGED <<tftp_state, pos, file, astray>>,
         NEW c \in TftpClients, NEW v \in TftpUsers, user' = [user EXCEPT ![c] = v],
         v.job = user[c].job, v.sent.c = c, F!Proper(v.sent),
         c \notin astray => /\ F!Front(v.got)
                            /\ v.phase = "done" => Len(IF F!Writes(c) THEN file[c] ELSE v.got) = F!Short,
         \A m \in net' : m \in F!Messages /\ F!Proper(m)
  PROVE  F!InTurn'
<1>1. /\ user \in [TftpClients -> TftpUsers] /\ file \in [TftpClients -> Seq(Nat)] /\ F!Placed(tftp_state, pos)
      /\ \A d \in TftpClients : user[d].sent.c = d /\ F!Proper(user[d].sent)
      /\ \A d \in TftpClients \ astray : F!Has(d)
      /\ tftp_state \in TftpStates /\ Right(tftp_state, chains)
  BY TurnParts
<1>2. /\ user'[c] = v
      /\ \A d \in TftpClients : d # c => user'[d] = user[d]
  BY <1>1
<1>3. \A d \in TftpClients : user'[d].job = user[d].job
  BY <1>2
<1>4. astray \subseteq astray' /\ \A d \in TftpClients \ astray' : Len(file'[d]) >= Len(file[d])
  <2>1. \A d \in TftpClients : Len(file[d]) \in Nat
    BY <1>1
  <2> QED
    BY <2>1
<1>5. \A m \in F!Messages : F!Proper(m) => F!Proper(m)'
  BY <1>1, <1>3, <1>4, TurnStays
<1>6. \A m \in net' : F!Proper(m)'
  BY <1>5
<1>7. \A d \in TftpClients : (user[d].sent.c = d /\ F!Proper(user[d].sent))'
  <2>1. TAKE d \in TftpClients
  <2>2. PICK m \in F!Messages : m = user'[d].sent /\ F!Proper(m) /\ m.c = d
    BY <1>1, <1>2 DEF TftpUsers
  <2>3. F!Proper(m)'
    BY <1>5, <2>2
  <2> QED
    BY <2>2, <2>3 DEF F!Proper
<1>8. F!Placed(tftp_state, pos)'
  <2>1. tftp_state.handle # "none" => tftp_state.peer \in TftpClients
    BY <1>1 DEF Right, TftpStates
  <2>2. tftp_state.handle # "none" => (F!Writes(tftp_state.peer)' <=> F!Writes(tftp_state.peer))
    BY <1>3, <2>1 DEF F!Writes
  <2> QED
    BY <1>1, <2>2 DEF F!Placed, F!Short
<1>9. \A d \in TftpClients \ astray : F!Has(d)'
  <2>1. TAKE d \in TftpClients \ astray
  <2>2. F!Has(d) /\ (F!Writes(d)' <=> F!Writes(d)) /\ file'[d] = file[d] /\ F!Short' = F!Short
    BY <1>1, <1>3 DEF F!Writes, F!Short
  <2>3. CASE d # c
    <3>1. user'[d] = user[d]
      BY <1>2, <2>3
    <3> QED
      BY <2>2, <3>1 DEF F!Has, F!Front
  <2>4. CASE d = c
    <3>1. F!Front(v.got) /\ (v.phase = "done" => Len(IF F!Writes(c) THEN file[c] ELSE v.got) = F!Short)
      BY <2>4
    <3> QED
      BY <1>2, <2>2, <2>4, <3>1 DEF F!Has, F!Front
  <2> QED
    BY <2>3, <2>4
<1> QED
  <2>1. file' \in [TftpClients -> Seq(Nat)] /\ (TftpClients \ astray)' = TftpClients \ astray
    BY <1>1
  <2> QED
    BY <1>6, <1>7, <1>8, <1>9, <2>1 DEF F!InTurn

LEMMA TurnClient ==
  ASSUME F!TftpAssumption, F!TransferInv, F!TftpInv', NEW c \in TftpClients,
         F!Begin(c) \/ F!Repeats(c) \/ F!GivesUp(c)
  PROVE  F!InTurn'
<1> DEFINE u == user[c]
<1>1. /\ user \in [TftpClients -> TftpUsers] /\ u \in TftpUsers /\ net \subseteq F!Messages
      /\ \A m \in net : F!Proper(m)
      /\ u.sent \in F!Messages /\ u.sent.c = c /\ F!Proper(u.sent)
      /\ (c \notin astray => F!Has(c)) /\ UNCHANGED <<tftp_state, pos, file, astray>>
  <2>1. /\ user \in [TftpClients -> TftpUsers] /\ net \subseteq F!Messages /\ \A m \in net : F!Proper(m)
        /\ user[c].sent.c = c /\ F!Proper(user[c].sent) /\ (c \notin astray => F!Has(c))
    BY TurnParts
  <2>2. u \in TftpUsers
    BY <2>1
  <2>3. u.sent \in F!Messages
    BY <2>2 DEF TftpUsers
  <2>4. UNCHANGED <<tftp_state, pos, file, astray>>
    BY DEF F!Begin, F!Repeats, F!GivesUp
  <2> QED
    BY <2>1, <2>2, <2>3, <2>4
<1>2. c \notin astray => /\ F!Front(u.got)
                         /\ u.phase = "done" => Len(IF F!Writes(c) THEN file[c] ELSE u.got) = F!Short
  BY <1>1 DEF F!Has
<1>3. CASE F!Begin(c)
  <2> DEFINE kind == IF user[c].job[1] = "read" THEN "RRQ" ELSE "WRQ"
             a  == F!ToServer(c, kind, 0)
             v1 == [u EXCEPT !.phase = "busy"]
             v  == [v1 EXCEPT !.sent = a]
  <2>1. kind \in {"RRQ", "WRQ", "DATA", "ACK"} /\ kind \in {"RRQ", "WRQ"}
    OBVIOUS
  <2>2. a \in F!Messages
    BY <2>1, TftpTalk
  <2>3. a.c = c /\ F!Proper(a)
    <3>1. a.c = c /\ a.op = kind /\ a.dst = "server"
      BY DEF F!ToServer
    <3>2. (kind = "RRQ" => ~F!Writes(c)) /\ (kind = "WRQ" => F!Writes(c))
      <4>1. u.job \in Jobs
        BY <1>1 DEF TftpUsers
      <4>2. u.job[1] \in {"read", "write"}
        BY <4>1 DEF F!TftpAssumption
      <4> QED
        BY <4>2 DEF F!Writes
    <3> HIDE DEF kind, a
    <3> QED
      BY <2>1, <3>1, <3>2 DEF F!Proper
  <2>4. user' = [user EXCEPT ![c] = v] /\ net' = net \union {a}
    BY <1>1, <1>3 DEF F!Begin
  <2> HIDE DEF a
  <2>5. v1 \in TftpUsers /\ v1.job = u.job /\ v1.got = u.got /\ v1.phase = "busy"
    BY <1>1 DEF TftpUsers
  <2> HIDE DEF v1
  <2>6. v \in TftpUsers /\ v.job = u.job /\ v.got = u.got /\ v.phase = "busy" /\ v.sent = a
    BY <2>2, <2>5 DEF TftpUsers
  <2> HIDE DEF v
  <2>7. \A m \in net' : m \in F!Messages /\ F!Proper(m)
    BY <1>1, <2>2, <2>3, <2>4
  <2> QED
    BY <1>1, <1>2, <2>3, <2>4, <2>6, <2>7, TurnUser
<1>4. CASE F!Repeats(c)
  <2>1. user' = [user EXCEPT ![c] = u] /\ net' = net \union {u.sent}
    BY <1>1, <1>4 DEF F!Repeats
  <2>2. \A m \in net' : m \in F!Messages /\ F!Proper(m)
    BY <1>1, <2>1
  <2> QED
    BY <1>1, <1>2, <2>1, <2>2, TurnUser
<1>5. CASE F!GivesUp(c)
  <2> DEFINE v == [u EXCEPT !.phase = "failed"]
  <2>1. user' = [user EXCEPT ![c] = v] /\ net' = net
    BY <1>1, <1>5 DEF F!GivesUp
  <2>2. v \in TftpUsers /\ v.job = u.job /\ v.got = u.got /\ v.phase = "failed" /\ v.sent = u.sent
    BY <1>1 DEF TftpUsers
  <2> HIDE DEF v
  <2>3. \A m \in net' : m \in F!Messages /\ F!Proper(m)
    BY <1>1, <2>1
  <2> QED
    BY <1>1, <1>2, <2>1, <2>2, <2>3, TurnUser
<1> QED
  BY <1>3, <1>4, <1>5

LEMMA TurnHears ==
  ASSUME F!TftpAssumption, F!TransferInv, F!TftpInv', NEW c \in TftpClients, F!Hears(c)
  PROVE  F!InTurn'
<1> DEFINE u == user[c]
<1>1. PICK m \in net :
    /\ m.dst = "client" /\ m.c = c
    /\ CASE m.op = "ERROR" ->
              /\ net' = net \ {m}
              /\ user' = [user EXCEPT ![c].phase = IF user[c].phase = "busy" THEN "failed" ELSE user[c].phase]
         [] m.op = "DATA" /\ user[c].phase # "failed" -> F!Takes(c, m)
         [] m.op = "ACK" /\ user[c].phase = "busy" -> F!Gives(c, m)
         [] OTHER -> net' = net \ {m} /\ UNCHANGED user
  BY DEF F!Hears
<1>2. /\ user \in [TftpClients -> TftpUsers] /\ u \in TftpUsers /\ net \subseteq F!Messages
      /\ \A k \in net : F!Proper(k)
      /\ u.sent \in F!Messages /\ u.sent.c = c /\ F!Proper(u.sent)
      /\ UNCHANGED <<tftp_state, pos, file, astray>>
      /\ F!Short \in Nat /\ F!Short > 0 /\ m \in F!Messages /\ F!Proper(m) /\ m.blk \in Nat /\ m.blk \in Int
      /\ m.data \in Nat
  <2>1. /\ user \in [TftpClients -> TftpUsers] /\ net \subseteq F!Messages /\ F!Short \in Nat /\ F!Short > 0
        /\ \A k \in net : F!Proper(k)
        /\ user[c].sent.c = c /\ F!Proper(user[c].sent)
    BY TurnParts
  <2>2. u \in TftpUsers
    BY <2>1
  <2>3. u.sent \in F!Messages
    BY <2>2 DEF TftpUsers
  <2>4. m \in F!Messages /\ F!Proper(m)
    BY <2>1
  <2>5. m.blk \in Nat /\ m.blk \in Int /\ m.data \in Nat
    BY <2>4 DEF F!Messages
  <2>6. UNCHANGED <<tftp_state, pos, file, astray>>
    BY DEF F!Hears
  <2> QED
    BY <2>1, <2>2, <2>3, <2>4, <2>5, <2>6
<1>3. c \notin astray => /\ F!Front(u.got) /\ F!Front(file[c]) /\ file[c] \in Seq(Nat)
                         /\ u.phase = "done" => Len(IF F!Writes(c) THEN file[c] ELSE u.got) = F!Short
  BY TurnParts DEF F!Has
<1>4. u.got \in Seq(Nat) /\ u.acked \in Int /\ u.phase \in {"idle", "busy", "done", "failed"}
  BY <1>2 DEF TftpUsers
<1>5. CASE user' = user /\ net' \subseteq net
  <2>1. user' = [user EXCEPT ![c] = u]
    BY <1>2, <1>5
  <2>2. \A k \in net' : k \in F!Messages /\ F!Proper(k)
    BY <1>2, <1>5
  <2> QED
    BY <1>2, <1>3, <2>1, <2>2, TurnUser
<1>6. CASE /\ net' = net \ {m}
           /\ user' = [user EXCEPT ![c].phase = IF user[c].phase = "busy" THEN "failed" ELSE user[c].phase]
  <2> DEFINE p == IF u.phase = "busy" THEN "failed" ELSE u.phase
             v == [u EXCEPT !.phase = p]
  <2>1. p \in {"idle", "busy", "done", "failed"} /\ (p = "done" => u.phase = "done")
    BY <1>4
  <2>2. user' = [user EXCEPT ![c] = v]
    BY <1>2, <1>6
  <2> HIDE DEF p
  <2>3. v \in TftpUsers /\ v.job = u.job /\ v.got = u.got /\ v.phase = p /\ v.sent = u.sent
    BY <1>2, <2>1 DEF TftpUsers
  <2> HIDE DEF v
  <2>4. \A k \in net' : k \in F!Messages /\ F!Proper(k)
    BY <1>2, <1>6
  <2>5. c \notin astray => /\ F!Front(v.got)
                           /\ v.phase = "done" => Len(IF F!Writes(c) THEN file[c] ELSE v.got) = F!Short
    BY <1>3, <2>1, <2>3
  <2> QED
    BY <1>2, <2>2, <2>3, <2>4, <2>5, TurnUser
<1>7. CASE m.op = "DATA" /\ F!Takes(c, m)
  <2> DEFINE ack == F!ToServer(c, "ACK", m.blk)
  <2>1. ~F!Writes(c) /\ (c \notin astray => m.data = m.blk /\ m.blk \in 1 .. F!Short)
    BY <1>1, <1>2, <1>7 DEF F!Proper
  <2>2. ack \in F!Messages /\ ack.c = c /\ F!Proper(ack)
    <3>1. ack.c = c /\ ack.op = "ACK" /\ ack.dst = "server"
      BY DEF F!ToServer
    <3>2. ack \in F!Messages
      BY <1>2, TftpTalk
    <3> HIDE DEF ack
    <3> QED
      BY <2>1, <3>1, <3>2 DEF F!Proper
  <2>3. net' \subseteq net \union {ack}
    BY <1>7 DEF F!Takes
  <2>4. \A k \in net' : k \in F!Messages /\ F!Proper(k)
    BY <1>2, <2>2, <2>3
  <2>5. CASE user' = user
    <3>1. user' = [user EXCEPT ![c] = u]
      BY <1>2, <2>5
    <3> QED
      BY <1>2, <1>3, <2>4, <3>1, TurnUser
  <2>6. CASE user' # user
    <3> DEFINE g  == Append(u.got, m.data)
               p  == IF m.data = F!Short THEN "done" ELSE "busy"
               v1 == [u EXCEPT !.got = g]
               v2 == [v1 EXCEPT !.sent = ack]
               v  == [v2 EXCEPT !.phase = p]
    <3>1. m.blk = Len(u.got) + 1 /\ user' = [user EXCEPT ![c] = v]
      BY <1>2, <1>7, <2>6 DEF F!Takes
    <3>2. g \in Seq(Nat) /\ p \in {"done", "busy"} /\ Len(g) = Len(u.got) + 1
      BY <1>2, <1>4
    <3>3. c \notin astray => F!Front(g) /\ (p = "done" => Len(g) = F!Short)
      <4>1. SUFFICES ASSUME c \notin astray PROVE F!Front(g) /\ (p = "done" => Len(g) = F!Short)
        OBVIOUS
      <4>2. m.data = Len(u.got) + 1 /\ m.data \in 1 .. F!Short /\ Len(u.got) \in Nat
        BY <1>4, <2>1, <3>1, <4>1
      <4>3. \A i \in 1 .. Len(u.got) : u.got[i] = i
        BY <1>3, <4>1 DEF F!Front
      <4>4. \A i \in 1 .. Len(g) : g[i] = i
        BY <1>4, <1>2, <3>2, <4>2, <4>3
      <4>5. Len(g) = m.data
        BY <3>2, <4>2
      <4>6. F!Front(g)
        BY <1>2, <4>2, <4>4, <4>5 DEF F!Front
      <4> QED
        BY <4>5, <4>6
    <3> HIDE DEF ack, g, p
    <3>4. v1 \in TftpUsers /\ v1.job = u.job /\ v1.got = g
      BY <1>2, <3>2 DEF TftpUsers
    <3> HIDE DEF v1
    <3>5. v2 \in TftpUsers /\ v2.job = u.job /\ v2.got = g /\ v2.sent = ack
      BY <2>2, <3>4 DEF TftpUsers
    <3> HIDE DEF v2
    <3>6. v \in TftpUsers /\ v.job = u.job /\ v.got = g /\ v.sent = ack /\ v.phase = p
      BY <3>2, <3>5 DEF TftpUsers
    <3> HIDE DEF v
    <3>7. c \notin astray => /\ F!Front(v.got)
                             /\ v.phase = "done" => Len(IF F!Writes(c) THEN file[c] ELSE v.got) = F!Short
      BY <2>1, <3>3, <3>6
    <3> QED
      BY <1>2, <2>2, <2>4, <3>1, <3>6, <3>7, TurnUser
  <2> QED
    BY <2>5, <2>6
<1>8. CASE m.op = "ACK" /\ F!Gives(c, m)
  <2>1. F!Writes(c) /\ (c \notin astray => m.blk <= Len(file[c]))
    BY <1>1, <1>2, <1>8 DEF F!Proper
  <2>2. c \notin astray => Len(file[c]) \in Nat /\ Len(file[c]) <= F!Short
    BY <1>3 DEF F!Front
  <2>3. CASE net' = net \ {m} /\ UNCHANGED user
    BY <1>5, <2>3
  <2>4. CASE m.blk = F!Short /\ net' = net \ {m} /\ user' = [user EXCEPT ![c].phase = "done", ![c].acked = m.blk]
    <3> DEFINE v1 == [u EXCEPT !.phase = "done"]
               v  == [v1 EXCEPT !.acked = m.blk]
    <3>1. user' = [user EXCEPT ![c] = v]
      BY <1>2, <2>4
    <3>2. v1 \in TftpUsers /\ v1.job = u.job /\ v1.got = u.got /\ v1.sent = u.sent
      BY <1>2 DEF TftpUsers
    <3> HIDE DEF v1
    <3>3. v \in TftpUsers /\ v.job = u.job /\ v.got = u.got /\ v.sent = u.sent
      BY <1>2, <3>2 DEF TftpUsers
    <3> HIDE DEF v
    <3>4. c \notin astray => F!Front(v.got) /\ Len(IF F!Writes(c) THEN file[c] ELSE v.got) = F!Short
      BY <1>2, <1>3, <2>1, <2>2, <2>4, <3>3
    <3>5. \A k \in net' : k \in F!Messages /\ F!Proper(k)
      BY <1>2, <2>4
    <3> QED
      BY <1>2, <3>1, <3>3, <3>4, <3>5, TurnUser
  <2>5. CASE /\ m.blk # F!Short /\ net' = (net \ {m}) \union {F!ToServer(c, "DATA", m.blk + 1)}
             /\ user' = [user EXCEPT ![c].acked = m.blk, ![c].sent = F!ToServer(c, "DATA", m.blk + 1)]
             /\ m.blk = user[c].acked + 1
    <3> DEFINE next == F!ToServer(c, "DATA", m.blk + 1)
               v1 == [u EXCEPT !.acked = m.blk]
               v  == [v1 EXCEPT !.sent = next]
    <3>1. user' = [user EXCEPT ![c] = v] /\ net' = (net \ {m}) \union {next}
      BY <1>2, <2>5
    <3>2. next \in F!Messages /\ next.c = c /\ F!Proper(next)
      <4>1. next.c = c /\ next.op = "DATA" /\ next.dst = "server" /\ next.blk = m.blk + 1 /\ next.data = m.blk + 1
        BY DEF F!ToServer
      <4>2. next \in F!Messages
        BY <1>2, TftpTalk
      <4> HIDE DEF next
      <4>3. c \notin astray => next.blk \in 1 .. F!Short
        BY <1>2, <2>1, <2>2, <2>5, <4>1
      <4> QED
        BY <2>1, <4>1, <4>2, <4>3 DEF F!Proper
    <3> HIDE DEF next
    <3>3. v1 \in TftpUsers /\ v1.job = u.job /\ v1.got = u.got /\ v1.phase = u.phase
      BY <1>2 DEF TftpUsers
    <3> HIDE DEF v1
    <3>4. v \in TftpUsers /\ v.job = u.job /\ v.got = u.got /\ v.phase = u.phase /\ v.sent = next
      BY <3>2, <3>3 DEF TftpUsers
    <3> HIDE DEF v
    <3>5. \A k \in net' : k \in F!Messages /\ F!Proper(k)
      BY <1>2, <3>1, <3>2
    <3>6. c \notin astray => /\ F!Front(v.got)
                             /\ v.phase = "done" => Len(IF F!Writes(c) THEN file[c] ELSE v.got) = F!Short
      BY <1>3, <3>4
    <3> QED
      BY <1>2, <3>1, <3>2, <3>4, <3>5, <3>6, TurnUser
  <2> QED
    BY <1>8, <2>3, <2>4, <2>5 DEF F!Gives
<1>9. \/ user' = user /\ net' \subseteq net
      \/ /\ net' = net \ {m}
         /\ user' = [user EXCEPT ![c].phase = IF user[c].phase = "busy" THEN "failed" ELSE user[c].phase]
      \/ m.op = "DATA" /\ F!Takes(c, m)
      \/ m.op = "ACK" /\ F!Gives(c, m)
  BY <1>1
<1> QED
  BY <1>5, <1>6, <1>7, <1>8, <1>9

\* What a handler that writes nothing leaves, unless memory was short for
\* the block of client c.
Leaves(r, c, fault) ==
  /\ \A k \in r.ans : F!Proper(k)
  /\ r.st.handle # "none" =>
       /\ r.st.mode_write <=> F!Writes(r.st.peer)
       /\ (r.st.peer \notin astray /\ ~(fault = "memory" /\ r.st.peer = c)) =>
            IF r.st.mode_write THEN r.pos <= Len(file[r.st.peer])
            ELSE r.st.last_data = r.st.blknum /\ r.pos = r.st.blknum /\ r.pos \in 1 .. F!Short

LEMMA TurnResult ==
  ASSUME NEW st, NEW n, NEW p, NEW ans, NEW c, NEW fault,
         \A k \in ans : F!Proper(k), st.handle = "none" \/ F!Placed(st, p)
  PROVE  Leaves(F!Result(st, n, p, ans), c, fault)
<1>1. /\ F!Result(st, n, p, ans).st = st /\ F!Result(st, n, p, ans).pos = p /\ F!Result(st, n, p, ans).ans = ans
  BY DEF F!Result
<1> QED
  BY <1>1 DEF Leaves, F!Placed

LEMMA TurnSends ==
  ASSUME F!TftpAssumption, F!TransferInv, NEW st \in TftpStates, NEW n, NEW p \in Nat, NEW fault,
         st.handle # "none", st.peer \in TftpClients, ~st.mode_write, ~F!Writes(st.peer),
         st.peer \notin astray => st.blknum = p + 1 /\ p < F!Short
  PROVE  Leaves(F!Sends(st, n, p, fault), st.peer, fault)
<1>1. F!Short \in Nat /\ F!Short > 0
  BY TurnParts
<1> DEFINE fetched == F!AtMost(p + 1, F!Short)
<1>2. st.peer \notin astray => fetched = p + 1 /\ p + 1 \in 1 .. F!Short
  BY <1>1 DEF F!AtMost
<1>3. fetched \in 0 .. F!Short
  BY <1>1 DEF F!AtMost
<1> HIDE DEF fetched
<1>4. CASE fault = "memory"
  <2> DEFINE a == [st EXCEPT !.last_data = F!None]
  <2>1. F!Sends(st, n, p, fault) = F!Result(a, n, p, {})
    BY <1>4 DEF F!Sends
  <2>2. F!None \in 0 .. F!Short
    BY <1>1 DEF F!None
  <2>3. a \in TftpStates /\ a.peer = st.peer
    BY <2>2 DEF TftpStates
  <2>4. ~a.mode_write
    BY <2>2 DEF TftpStates
  <2> HIDE DEF a
  <2>5. F!Result(a, n, p, {}).st = a /\ F!Result(a, n, p, {}).ans = {}
    BY DEF F!Result
  <2> QED
    BY <1>4, <2>1, <2>3, <2>4, <2>5 DEF Leaves
<1>5. CASE fault # "memory" /\ (st.handle = "bad" \/ fault = "file")
  <2>1. F!Sends(st, n, p, fault) = F!Result(F!close_handle(st), F!Untimed(n), p, {F!Error(st.peer)})
    BY <1>5 DEF F!Sends
  <2>2. F!close_handle(st).handle = "none"
    BY DEF F!close_handle, TftpStates
  <2> QED
    BY <2>1, <2>2, TurnError, TurnResult
<1>6. CASE fault # "memory" /\ ~(st.handle = "bad" \/ fault = "file")
  <2> DEFINE a == [st EXCEPT !.last_data = fetched]
             b == F!Data(st.peer, st.blknum, fetched)
  <2>1. F!Sends(st, n, p, fault) = F!Result(a, n, p + 1, {b})
    BY <1>6 DEF F!Sends, fetched
  <2>2. a \in TftpStates /\ a.peer = st.peer /\ a.blknum = st.blknum /\ a.last_data = fetched
    BY <1>3 DEF TftpStates
  <2>3. ~a.mode_write
    BY <1>3 DEF TftpStates
  <2> HIDE DEF a
  <2>4. F!Placed(a, p + 1)
    BY <1>2, <2>2, <2>3 DEF F!Placed
  <2>5. b.op = "DATA" /\ b.dst = "client" /\ b.c = st.peer /\ b.blk = st.blknum /\ b.data = fetched
    BY DEF F!Data
  <2> HIDE DEF b
  <2>6. F!Proper(b)
    BY <1>2, <2>5 DEF F!Proper
  <2> QED
    BY <2>1, <2>4, <2>6, TurnResult
<1> QED
  BY <1>4, <1>5, <1>6

\* The server has heard something, and the transfer is where it was.
LEMMA TurnHeard ==
  ASSUME F!TftpAssumption, F!TransferInv
  PROVE  F!Placed([tftp_state EXCEPT !.retries = 0], pos)
<1> DEFINE st == [tftp_state EXCEPT !.retries = 0]
<1>1. /\ st.handle = tftp_state.handle /\ st.peer = tftp_state.peer /\ st.blknum = tftp_state.blknum
      /\ (st.mode_write <=> tftp_state.mode_write) /\ st.last_data = tftp_state.last_data
  BY TurnParts, TftpHeard
<1> HIDE DEF st
<1>2. F!Placed(tftp_state, pos)
  BY TurnParts
<1>3. F!Placed(st, pos)
  BY <1>1, <1>2 DEF F!Placed
<1> QED
  BY <1>3 DEF st

LEMMA TurnRequest ==
  ASSUME F!TftpAssumption, F!TransferInv, NEW m \in net, m.op \in {"RRQ", "WRQ"}, NEW fault
  PROVE  Leaves(F!Request(m, fault), m.c, fault)
<1>1. /\ m.c \in TftpClients /\ F!Proper(m) /\ tftp_state \in TftpStates /\ F!Short \in Nat /\ F!Short > 0
      /\ file \in [TftpClients -> Seq(Nat)]
  BY TurnParts DEF F!Messages
<1> DEFINE st0 == [tftp_state EXCEPT !.retries = 0]
<1>2. F!Placed(st0, pos)
  BY TurnHeard
<1>3. st0 \in TftpStates /\ st0.handle = tftp_state.handle
  BY TurnParts, TftpHeard DEF Right
<1> HIDE DEF st0
<1>4. CASE F!Open
  <2>1. F!Request(m, fault) = F!Result(st0, chains, pos, {F!Error(m.c)})
    BY <1>4 DEF F!Request, st0
  <2> QED
    BY <1>2, <2>1, TurnError, TurnResult
<1>5. CASE ~F!Open /\ user[m.c].job[2] = "long"
  <2>1. F!Request(m, fault) = F!Result(st0, chains + 1, pos, {F!Error(m.c)})
    BY <1>5 DEF F!Request, st0
  <2> QED
    BY <1>2, <2>1, TurnError, TurnResult
<1>6. CASE ~F!Open /\ user[m.c].job[2] # "long"
  <2> DEFINE h  == IF user[m.c].job[2] = "good" THEN "file" ELSE "bad"
             a1 == [st0 EXCEPT !.blknum = 1]
             a2 == [a1 EXCEPT !.peer = m.c]
             a3 == [a2 EXCEPT !.mode_write = (m.op = "WRQ")]
             st == [a3 EXCEPT !.handle = h]
  <2>1. a1 \in TftpStates /\ a1.blknum = 1
    BY <1>3 DEF TftpStates
  <2> HIDE DEF a1
  <2>2. a2 \in TftpStates /\ a2.blknum = 1 /\ a2.peer = m.c
    BY <1>1, <2>1 DEF TftpStates
  <2> HIDE DEF a2
  <2>3. a3 \in TftpStates /\ a3.blknum = 1 /\ a3.peer = m.c
    BY <2>2 DEF TftpStates
  <2>4. a3.mode_write = (m.op = "WRQ")
    BY <2>2 DEF TftpStates
  <2> HIDE DEF a3
  <2>5. h \in {"file", "bad"}
    OBVIOUS
  <2> HIDE DEF h
  <2>6. st \in TftpStates /\ st.blknum = 1 /\ st.peer = m.c /\ st.handle = h
    BY <2>3, <2>5 DEF TftpStates
  <2>7. st.mode_write = a3.mode_write
    BY <2>3 DEF TftpStates
  <2>8. st = [tftp_state EXCEPT !.retries = 0, !.blknum = 1, !.peer = m.c, !.mode_write = (m.op = "WRQ"), !.handle = h]
    BY DEF st0, a1, a2, a3
  <2> HIDE DEF st
  <2>9. CASE m.op = "WRQ"
    <3>1. F!Request(m, fault) = F!Result(st, chains + 1, 0, {F!Ack(m.c, 0)})
      BY <1>6, <2>8, <2>9 DEF F!Request, h
    <3>2. F!Writes(m.c) /\ Len(file[m.c]) \in Nat
      BY <1>1, <2>9 DEF F!Proper
    <3>5. st.mode_write /\ st.peer = m.c
      BY <2>4, <2>6, <2>7, <2>9
    <3>6. 0 <= Len(file[st.peer])
      BY <3>2, <3>5
    <3>3. F!Placed(st, 0)
      BY <3>2, <3>5, <3>6 DEF F!Placed
    <3>4. F!Proper(F!Ack(m.c, 0))
      BY <3>2 DEF F!Proper, F!Ack
    <3> QED
      BY <3>1, <3>3, <3>4, TurnResult
  <2>10. CASE m.op = "RRQ"
    <3>1. F!Request(m, fault) = F!Sends(st, chains + 1, 0, fault)
      BY <1>6, <2>8, <2>10 DEF F!Request, h
    <3>2. ~F!Writes(m.c) /\ ~st.mode_write /\ st.handle # "none"
      BY <1>1, <2>4, <2>5, <2>6, <2>7, <2>10 DEF F!Proper
    <3>3. Leaves(F!Sends(st, chains + 1, 0, fault), st.peer, fault)
      BY <1>1, <2>6, <3>2, TurnSends
    <3> QED
      BY <2>6, <3>1, <3>3
  <2> QED
    BY <2>9, <2>10
<1> QED
  BY <1>4, <1>5, <1>6

LEMMA TurnAcked ==
  ASSUME F!TftpAssumption, F!TransferInv, NEW m \in net, ~F!Stranger(m), NEW fault
  PROVE  Leaves(F!Acked(m, fault), m.c, fault)
<1>1. /\ tftp_state \in TftpStates /\ F!Short \in Nat /\ F!Placed(tftp_state, pos) /\ pos \in Nat
      /\ Right(tftp_state, chains) /\ m.c \in TftpClients
  BY TurnParts DEF F!Messages
<1> DEFINE st == [tftp_state EXCEPT !.retries = 0]
<1>2. F!Placed(st, pos)
  BY TurnHeard
<1>3. /\ st \in TftpStates /\ st.handle = tftp_state.handle /\ st.peer = tftp_state.peer
      /\ st.blknum = tftp_state.blknum /\ (st.mode_write <=> tftp_state.mode_write)
  BY TurnParts, TftpHeard DEF Right
<1> HIDE DEF st
<1>4. CASE ~F!Open \/ tftp_state.mode_write \/ m.blk # tftp_state.blknum
  <2>1. F!Acked(m, fault) = F!Result(st, chains, pos, {F!Error(m.c)})
    BY <1>4 DEF F!Acked, st
  <2> QED
    BY <1>2, <2>1, TurnError, TurnResult
<1>5. CASE ~(~F!Open \/ tftp_state.mode_write \/ m.blk # tftp_state.blknum) /\ F!LastPacket
  <2>1. F!Acked(m, fault) = F!Result(F!close_handle(st), F!Untimed(chains), pos, {})
    BY <1>5 DEF F!Acked, st
  <2>2. F!close_handle(st).handle = "none"
    BY <1>3 DEF F!close_handle, TftpStates
  <2> QED
    BY <2>1, <2>2, TurnResult
<1>6. CASE ~(~F!Open \/ tftp_state.mode_write \/ m.blk # tftp_state.blknum) /\ ~F!LastPacket
  <2> DEFINE a == [st EXCEPT !.blknum = st.blknum + 1]
  <2>1. F!Acked(m, fault) = F!Sends(a, chains, pos, fault)
    BY <1>6 DEF F!Acked, st
  <2>2. tftp_state.peer = m.c /\ tftp_state.handle # "none" /\ ~tftp_state.mode_write
    BY <1>1, <1>6 DEF F!Open, F!Stranger, Right
  <2>3. a \in TftpStates /\ a.handle = st.handle /\ a.peer = st.peer /\ a.blknum = st.blknum + 1 /\ st.blknum \in Nat
    BY <1>3 DEF TftpStates
  <2>4. a.mode_write = st.mode_write
    BY <1>3 DEF TftpStates
  <2> HIDE DEF a
  <2>5. a.handle # "none" /\ a.peer = m.c /\ ~a.mode_write /\ ~F!Writes(m.c)
    BY <1>1, <1>3, <2>2, <2>3, <2>4 DEF F!Placed
  <2>6. a.peer \notin astray => a.blknum = pos + 1 /\ pos < F!Short
    <3>1. SUFFICES ASSUME m.c \notin astray PROVE a.blknum = pos + 1 /\ pos < F!Short
      BY <2>5
    <3>2. tftp_state.last_data = tftp_state.blknum /\ pos = tftp_state.blknum /\ pos \in 1 .. F!Short
      BY <1>1, <2>2, <3>1 DEF F!Placed
    <3>3. pos # F!Short
      BY <1>6, <3>2 DEF F!LastPacket
    <3> QED
      BY <1>1, <1>3, <2>3, <3>2, <3>3
  <2>7. Leaves(F!Sends(a, chains, pos, fault), a.peer, fault)
    BY <1>1, <2>3, <2>5, <2>6, TurnSends
  <2> QED
    BY <2>1, <2>5, <2>7
<1> QED
  BY <1>4, <1>5, <1>6

\* The server goes on: clients are as they were.
LEMMA TurnServer ==
  ASSUME F!TftpAssumption, F!TransferInv, F!TftpInv', user' = user, astray \subseteq astray',
         astray' \subseteq TftpClients, file' \in [TftpClients -> Seq(Nat)],
         \A c \in TftpClients \ astray' : Len(file'[c]) >= Len(file[c]) /\ F!Front(file'[c]),
         \A m \in net' : m \in net \/ F!Proper(m)',
         F!Placed(tftp_state, pos)'
  PROVE  F!InTurn'
<1>1. /\ user \in [TftpClients -> TftpUsers] /\ net \subseteq F!Messages /\ F!Short \in Nat
      /\ file \in [TftpClients -> Seq(Nat)] /\ \A m \in net : F!Proper(m)
      /\ \A c \in TftpClients : user[c].sent.c = c /\ F!Proper(user[c].sent)
      /\ \A c \in TftpClients \ astray : F!Has(c)
  BY TurnParts
<1>2. \A m \in F!Messages : F!Proper(m) => F!Proper(m)'
  BY TurnStays
<1>3. \A m \in net' : F!Proper(m)'
  BY <1>1, <1>2
<1>4. \A c \in TftpClients : (user[c].sent.c = c /\ F!Proper(user[c].sent))'
  <2>1. TAKE c \in TftpClients
  <2>2. PICK m \in F!Messages : m = user[c].sent /\ F!Proper(m) /\ m.c = c
    BY <1>1 DEF TftpUsers
  <2>3. F!Proper(m)' /\ m = user'[c].sent
    BY <1>2, <2>2
  <2> QED
    BY <2>2, <2>3 DEF F!Proper
<1>5. \A c \in TftpClients : c \notin astray' => F!Has(c)'
  <2>1. TAKE c \in TftpClients
  <2>2. SUFFICES ASSUME c \notin astray' PROVE F!Has(c)'
    OBVIOUS
  <2>3. F!Has(c) /\ Len(file'[c]) >= Len(file[c]) /\ F!Front(file'[c])
    BY <1>1, <2>2
  <2>4. Len(file'[c]) \in Nat /\ Len(file[c]) \in Nat /\ user'[c] = user[c]
    BY <1>1
  <2>5. (F!Writes(c)' <=> F!Writes(c)) /\ F!Short' = F!Short
    BY DEF F!Writes, F!Short
  <2>6. F!Front(user[c].got)' /\ F!Front(file[c])'
    <3>1. F!Front(user[c].got)'
      BY <2>3, <2>4, <2>5 DEF F!Has, F!Front
    <3>2. F!Front(file[c])'
      BY <2>3, <2>4, <2>5 DEF F!Front
    <3> QED
      BY <3>1, <3>2
  <2>7. ASSUME user'[c].phase = "done"
        PROVE  Len(IF F!Writes(c)' THEN file'[c] ELSE user'[c].got) = F!Short
    <3>1. Len(IF F!Writes(c) THEN file[c] ELSE user[c].got) = F!Short
      BY <2>3, <2>4, <2>7 DEF F!Has
    <3>2. CASE F!Writes(c)
      <4>1. Len(file'[c]) <= F!Short /\ Len(file[c]) = F!Short
        BY <2>3, <3>1, <3>2 DEF F!Front
      <4> QED
        BY <1>1, <2>3, <2>4, <2>5, <3>2, <4>1
    <3>3. CASE ~F!Writes(c)
      BY <2>4, <2>5, <3>1, <3>3
    <3> QED
      BY <3>2, <3>3
  <2> QED
    BY <2>5, <2>6, <2>7 DEF F!Has
<1>6. \A c \in (TftpClients \ astray)' : F!Has(c)'
  BY <1>5
<1> QED
  BY <1>3, <1>4, <1>6 DEF F!InTurn

\* A DATA is refused, or its block goes to the position of the file.
LEMMA TurnWritten ==
  ASSUME F!TftpAssumption, F!TransferInv, NEW m \in net, ~F!Stranger(m), NEW fault
  PROVE  LET r == F!Written(m, fault)
         IN \/ Leaves(r, m.c, fault) /\ r.pos = pos
            \/ /\ F!Open /\ tftp_state.mode_write /\ tftp_state.peer = m.c
               /\ r.pos = pos + 1 /\ r.ans = {F!Ack(m.c, m.blk)}
               /\ r.st.handle = "none" \/ (r.st.peer = m.c /\ r.st.mode_write)
<1> DEFINE r == F!Written(m, fault)
           st == [tftp_state EXCEPT !.retries = 0]
<1>1. F!Placed(st, pos)
  BY TurnHeard
<1>2. /\ st \in TftpStates /\ st.handle = tftp_state.handle /\ st.peer = tftp_state.peer
      /\ (st.mode_write <=> tftp_state.mode_write)
  BY TurnParts, TftpHeard DEF Right
<1> HIDE DEF st
<1>3. CASE ~F!Open \/ ~tftp_state.mode_write
  <2>1. r = F!Result(st, chains, pos, {F!Error(m.c)})
    BY <1>3 DEF F!Written, st
  <2>2. r.pos = pos
    BY <2>1 DEF F!Result
  <2> HIDE DEF r
  <2>3. Leaves(r, m.c, fault)
    BY <1>1, <2>1, TurnError, TurnResult
  <2> QED
    BY <2>2, <2>3 DEF r
<1>4. CASE ~(~F!Open \/ ~tftp_state.mode_write)
  <2> DEFINE fails == F!WriteFails(fault)
             short == m.data = F!Short
             n == CASE fails /\ short -> F!Untimed(F!Untimed(chains))
                    [] fails # short  -> F!Untimed(chains)
                    [] OTHER          -> chains
             after == IF fails \/ short THEN F!close_handle(st) ELSE st
             p == IF fails THEN pos ELSE pos + 1
             t == F!Told(m, fault)
  <2>1. r = F!Result(after, n, p, {t})
    BY <1>4 DEF F!Written, st
  <2>2. r.st = after /\ r.pos = p /\ r.ans = {t}
    BY <2>1 DEF F!Result
  <2>3. F!close_handle(st).handle = "none"
    BY <1>2 DEF F!close_handle, TftpStates
  <2>4. IF fails THEN t = F!Error(m.c) ELSE t = F!Ack(m.c, m.blk)
    BY DEF F!Told
  <2>5. tftp_state.peer = m.c
    BY <1>4, TurnParts DEF F!Open, F!Stranger, Right
  <2> HIDE DEF r, n, t
  <2>6. CASE fails
    <3>1. p = pos /\ after = F!close_handle(st) /\ t = F!Error(m.c)
      BY <2>4, <2>6
    <3> HIDE DEF fails, short, after, p
    <3>2. Leaves(F!Result(after, n, p, {t}), m.c, fault)
      BY <2>3, <3>1, TurnError, TurnResult
    <3> QED
      BY <2>1, <2>2, <3>1, <3>2 DEF r
  <2>7. CASE ~fails
    <3>1. p = pos + 1 /\ t = F!Ack(m.c, m.blk) /\ (after = st \/ after = F!close_handle(st))
      BY <2>4, <2>7
    <3> HIDE DEF fails, short, after, p
    <3>2. after.handle = "none" \/ (after.peer = m.c /\ after.mode_write)
      BY <1>2, <1>4, <2>3, <2>5, <3>1
    <3> QED
      BY <1>4, <2>2, <2>5, <3>1, <3>2 DEF r
  <2> QED
    BY <2>6, <2>7
<1> QED
  BY <1>3, <1>4

\* A block put at the next position: the file has the first blocks still.
LEMMA TurnKeep ==
  ASSUME F!TftpAssumption, NEW q \in Seq(Nat), NEW at \in Nat, at > 0, NEW d \in Nat
  PROVE  /\ F!Keep(q, at, d) \in Seq(Nat)
         /\ (F!Front(q) /\ at <= Len(q) + 1 /\ d = at /\ d <= F!Short) =>
              /\ F!Front(F!Keep(q, at, d)) /\ Len(F!Keep(q, at, d)) >= Len(q) /\ at <= Len(F!Keep(q, at, d))
<1>1. Len(q) \in Nat /\ F!Short \in Nat
  BY TftpNumbers DEF F!Short
<1>2. CASE at <= Len(q)
  <2> DEFINE k == [q EXCEPT ![at] = d]
  <2>1. F!Keep(q, at, d) = k
    BY <1>2 DEF F!Keep
  <2>2. k \in Seq(Nat) /\ Len(k) = Len(q) /\ \A i \in 1 .. Len(q) : k[i] = IF i = at THEN d ELSE q[i]
    BY <1>1, <1>2
  <2> HIDE DEF k
  <2>3. (F!Front(q) /\ d = at) => F!Front(k)
    BY <1>1, <2>2 DEF F!Front
  <2> QED
    BY <1>1, <1>2, <2>1, <2>2, <2>3
<1>3. CASE at > Len(q)
  <2> DEFINE k == Append(q, d)
  <2>1. F!Keep(q, at, d) = k
    BY <1>1, <1>3 DEF F!Keep
  <2>2. k \in Seq(Nat) /\ Len(k) = Len(q) + 1 /\ k[Len(q) + 1] = d /\ \A i \in 1 .. Len(q) : k[i] = q[i]
    BY <1>1
  <2> HIDE DEF k
  <2>3. (F!Front(q) /\ at = Len(q) + 1 /\ d = at /\ d <= F!Short) => F!Front(k)
    <3>1. SUFFICES ASSUME F!Front(q), at = Len(q) + 1, d = at, d <= F!Short PROVE F!Front(k)
      OBVIOUS
    <3>2. \A i \in 1 .. Len(k) : i \in 1 .. Len(q) \/ i = Len(q) + 1
      BY <1>1, <2>2
    <3>3. \A i \in 1 .. Len(k) : k[i] = i
      BY <2>2, <3>1, <3>2 DEF F!Front
    <3> QED
      BY <2>2, <3>1, <3>3 DEF F!Front
  <2> QED
    BY <1>1, <1>3, <2>1, <2>2, <2>3
<1> QED
  BY <1>1, <1>2, <1>3

LEMMA TurnRecv ==
  ASSUME F!TftpAssumption, F!TransferInv, F!TftpInv', F!recv
  PROVE  F!InTurn'
<1>1. PICK m \in net, fault \in F!Faults :
    LET r == F!Handled(m, fault)
    IN /\ m.dst = "server" /\ chains < MaxChains
       /\ tftp_state' = r.st /\ chains' = r.chains /\ pos' = r.pos
       /\ quiet' = IF F!Stranger(m) THEN quiet ELSE 0
       /\ net' = (IF fault = "repeat" THEN net ELSE net \ {m}) \union r.ans
       /\ file' = IF F!Lands(m, r) THEN [file EXCEPT ![tftp_state.peer] = F!Keep(@, r.pos, m.data)] ELSE file
       /\ astray' = IF fault = "memory" \/ (F!Lands(m, r) /\ (m.blk # r.pos \/ fault = "part"))
                      THEN astray \union {m.c} ELSE astray
       /\ faults' = faults - (IF fault = "none" THEN 0 ELSE 1)
       /\ UNCHANGED user
  BY DEF F!recv
<1> DEFINE r == F!Handled(m, fault)
<1>2. /\ m \in F!Messages /\ m.c \in TftpClients /\ m.blk \in Nat /\ m.data \in Nat /\ F!Proper(m)
      /\ m.op \in {"RRQ", "WRQ", "DATA", "ACK"} /\ pos \in Nat /\ astray \subseteq TftpClients
      /\ file \in [TftpClients -> Seq(Nat)] /\ F!Short \in Nat /\ F!Placed(tftp_state, pos)
      /\ \A c \in TftpClients \ astray : F!Front(file[c])
  BY <1>1, TurnParts DEF F!Messages, F!Has
<1>3. r \in {F!Handled(m, fault)}
  OBVIOUS
<1>4. \/ Leaves(r, m.c, fault) /\ ~F!Lands(m, r)
      \/ /\ F!Open /\ tftp_state.mode_write /\ tftp_state.peer = m.c /\ m.op = "DATA" /\ F!Lands(m, r)
         /\ r.pos = pos + 1 /\ r.ans = {F!Ack(m.c, m.blk)}
         /\ r.st.handle = "none" \/ (r.st.peer = m.c /\ r.st.mode_write)
  <2>1. CASE F!Stranger(m)
    <3>1. r = F!Result(tftp_state, chains, pos, {F!Error(m.c)})
      BY <2>1 DEF F!Handled
    <3> HIDE DEF r
    <3>2. Leaves(r, m.c, fault)
      BY <1>2, <3>1, TurnError, TurnResult
    <3> QED
      BY <2>1, <3>2 DEF F!Lands
  <2>2. CASE ~F!Stranger(m) /\ m.op \in {"RRQ", "WRQ"}
    <3>1. r = F!Request(m, fault)
      BY <2>2 DEF F!Handled
    <3> HIDE DEF r
    <3>2. Leaves(r, m.c, fault)
      BY <2>2, <3>1, TurnRequest
    <3> QED
      BY <2>2, <3>2 DEF F!Lands
  <2>3. CASE ~F!Stranger(m) /\ m.op = "ACK"
    <3>1. r = F!Acked(m, fault)
      BY <2>3 DEF F!Handled
    <3> HIDE DEF r
    <3>2. Leaves(r, m.c, fault)
      BY <2>3, <3>1, TurnAcked
    <3> QED
      BY <2>3, <3>2 DEF F!Lands
  <2>4. CASE ~F!Stranger(m) /\ m.op = "DATA"
    <3>1. r = F!Written(m, fault)
      BY <2>4 DEF F!Handled
    <3> HIDE DEF r
    <3>2. \/ Leaves(r, m.c, fault) /\ r.pos = pos
          \/ /\ F!Open /\ tftp_state.mode_write /\ tftp_state.peer = m.c
             /\ r.pos = pos + 1 /\ r.ans = {F!Ack(m.c, m.blk)}
             /\ r.st.handle = "none" \/ (r.st.peer = m.c /\ r.st.mode_write)
      BY <2>4, <3>1, TurnWritten
    <3>3. F!Lands(m, r) <=> r.pos = pos + 1
      BY <2>4 DEF F!Lands
    <3>4. pos # pos + 1
      BY <1>2
    <3> QED
      BY <2>4, <3>2, <3>3, <3>4
  <2> QED
    BY <1>2, <2>1, <2>2, <2>3, <2>4
<1>5. /\ tftp_state' = r.st /\ pos' = r.pos /\ user' = user /\ net' \subseteq net \union r.ans
      /\ file' = IF F!Lands(m, r) THEN [file EXCEPT ![tftp_state.peer] = F!Keep(@, r.pos, m.data)] ELSE file
      /\ astray' = IF fault = "memory" \/ (F!Lands(m, r) /\ (m.blk # r.pos \/ fault = "part"))
                     THEN astray \union {m.c} ELSE astray
  BY <1>1
<1> HIDE DEF r
<1>6. astray \subseteq astray' /\ astray' \subseteq TftpClients
  BY <1>2, <1>5
<1>7. /\ \A c \in TftpClients : F!Writes(c)' <=> F!Writes(c)
      /\ F!Short' = F!Short
  BY <1>5 DEF F!Writes, F!Short
<1>8. CASE Leaves(r, m.c, fault) /\ ~F!Lands(m, r)
  <2>1. file' = file
    BY <1>5, <1>8
  <2>2. \A c \in TftpClients \ astray' : Len(file'[c]) >= Len(file[c]) /\ F!Front(file'[c])
    <3>1. \A c \in TftpClients : Len(file[c]) \in Nat
      BY <1>2
    <3> QED
      BY <1>2, <1>6, <2>1, <3>1
  <2>3. \A k \in r.ans : k \in F!Messages => F!Proper(k)'
    <3>1. \A c \in TftpClients \ astray' : Len(file'[c]) >= Len(file[c])
      BY <2>2
    <3>2. \A k \in F!Messages : F!Proper(k) => F!Proper(k)'
      BY <1>2, <1>5, <1>6, <2>1, <3>1, TurnStays
    <3> QED
      BY <1>8, <3>2 DEF Leaves
  <2>4. \A k \in net' : k \in net \/ F!Proper(k)'
    <3>1. net' \subseteq F!Messages
      BY DEF F!TftpInv, F!Talks, F!Messages
    <3> QED
      BY <1>5, <2>3, <3>1
  <2>5. F!Placed(tftp_state, pos)'
    <3>1. SUFFICES ASSUME r.st.handle # "none"
                   PROVE  /\ r.st.mode_write <=> F!Writes(r.st.peer)
                          /\ r.st.peer \notin astray' =>
                               IF r.st.mode_write THEN r.pos <= Len(file[r.st.peer])
                               ELSE r.st.last_data = r.st.blknum /\ r.pos = r.st.blknum /\ r.pos \in 1 .. F!Short
      BY <1>5, <2>1 DEF F!Placed, F!Writes, F!Short
    <3>2. r.st.peer \notin astray' => r.st.peer \notin astray /\ ~(fault = "memory" /\ r.st.peer = m.c)
      BY <1>5
    <3>3. /\ r.st.mode_write <=> F!Writes(r.st.peer)
          /\ (r.st.peer \notin astray /\ ~(fault = "memory" /\ r.st.peer = m.c)) =>
               IF r.st.mode_write THEN r.pos <= Len(file[r.st.peer])
               ELSE r.st.last_data = r.st.blknum /\ r.pos = r.st.blknum /\ r.pos \in 1 .. F!Short
      BY <1>8, <3>1 DEF Leaves
    <3> QED
      BY <3>2, <3>3
  <2> QED
    BY <1>2, <1>5, <1>6, <2>1, <2>2, <2>4, <2>5, TurnServer
<1>9. CASE /\ F!Open /\ tftp_state.mode_write /\ tftp_state.peer = m.c /\ m.op = "DATA" /\ F!Lands(m, r)
           /\ r.pos = pos + 1 /\ r.ans = {F!Ack(m.c, m.blk)}
           /\ r.st.handle = "none" \/ (r.st.peer = m.c /\ r.st.mode_write)
  <2> DEFINE q == F!Keep(file[m.c], pos + 1, m.data)
  <2>1. file' = [file EXCEPT ![m.c] = q]
    BY <1>5, <1>9
  <2>2. m.c \notin astray' => m.c \notin astray /\ m.blk = pos + 1
    BY <1>5, <1>9
  <2>3. F!Writes(m.c) /\ (m.c \notin astray => pos <= Len(file[m.c]) /\ m.data = m.blk /\ m.blk \in 1 .. F!Short)
    BY <1>2, <1>9 DEF F!Placed, F!Open, F!Proper
  <2>4. file[m.c] \in Seq(Nat) /\ pos + 1 \in Nat /\ pos + 1 > 0 /\ Len(file[m.c]) \in Nat
    BY <1>2
  <2>5. q \in Seq(Nat)
    BY <1>2, <2>4, TurnKeep
  <2>6. m.c \notin astray' => F!Front(q) /\ Len(q) >= Len(file[m.c]) /\ pos + 1 <= Len(q) /\ m.blk = pos + 1
    <3>1. SUFFICES ASSUME m.c \notin astray'
                   PROVE  F!Front(q) /\ Len(q) >= Len(file[m.c]) /\ pos + 1 <= Len(q) /\ m.blk = pos + 1
      OBVIOUS
    <3>2. m.blk = pos + 1 /\ m.data = pos + 1 /\ m.data <= F!Short /\ pos + 1 <= Len(file[m.c]) + 1
      BY <1>2, <2>2, <2>3, <2>4, <3>1
    <3>3. F!Front(file[m.c])
      BY <1>2, <2>2, <3>1
    <3> HIDE DEF q
    <3> QED
      BY <1>2, <2>4, <3>2, <3>3, TurnKeep DEF q
  <2> HIDE DEF q
  <2>7. file' \in [TftpClients -> Seq(Nat)] /\ file'[m.c] = q
        /\ \A c \in TftpClients : c # m.c => file'[c] = file[c]
    BY <1>2, <2>1, <2>5
  <2>8. \A c \in TftpClients \ astray' : Len(file'[c]) >= Len(file[c]) /\ F!Front(file'[c])
    <3>1. TAKE c \in TftpClients \ astray'
    <3>2. CASE c = m.c
      BY <2>6, <2>7, <3>2
    <3>3. CASE c # m.c
      <4>1. file'[c] = file[c] /\ Len(file[c]) \in Nat
        BY <1>2, <2>7, <3>3
      <4>2. F!Front(file[c])
        BY <1>2, <1>6
      <4> QED
        BY <4>1, <4>2
    <3> QED
      BY <3>2, <3>3
  <2>9. F!Proper(F!Ack(m.c, m.blk))'
    <3> DEFINE a == F!Ack(m.c, m.blk)
    <3>1. a.c = m.c /\ a.op = "ACK" /\ a.dst = "client" /\ a.blk = m.blk
      BY DEF F!Ack
    <3> HIDE DEF a
    <3>2. F!Proper(a)'
      BY <1>2, <1>7, <2>3, <2>6, <2>7, <3>1 DEF F!Proper
    <3> QED
      BY <3>2 DEF a
  <2>10. \A k \in net' : k \in net \/ F!Proper(k)'
    <3>1. \A k \in net' : k \in net \/ k = F!Ack(m.c, m.blk)
      BY <1>5, <1>9
    <3> QED
      BY <2>9, <3>1
  <2>11. F!Placed(tftp_state, pos)'
    <3>1. r.st.handle # "none" => r.st.peer = m.c /\ r.st.mode_write
      BY <1>9
    <3>2. m.c \notin astray' => r.pos <= Len(file'[m.c])
      BY <1>9, <2>6, <2>7
    <3> QED
      BY <1>5, <2>3, <3>1, <3>2 DEF F!Placed, F!Writes
  <2> QED
    BY <1>5, <1>6, <2>7, <2>8, <2>10, <2>11, TurnServer
<1> QED
  BY <1>4, <1>8, <1>9

LEMMA TurnInit == F!TftpAssumption /\ F!Init => F!TransferInv
<1> SUFFICES ASSUME F!TftpAssumption, F!Init PROVE F!TransferInv
  OBVIOUS
<1>1. F!TftpInv
  BY TftpInit
<1>2. F!InTurn
  <2>1. PICK job \in [TftpClients -> Jobs] :
          user = [c \in TftpClients |-> [job |-> job[c], phase |-> "idle", got |-> <<>>, acked |-> -1, sent |-> F!Error(c)]]
    BY DEF F!Init
  <2>2. \A c \in TftpClients : user[c].sent = F!Error(c) /\ user[c].got = <<>> /\ user[c].phase = "idle"
    BY <2>1
  <2>3. \A c \in TftpClients : user[c].sent.c = c /\ F!Proper(user[c].sent)
    <3>1. \A c \in TftpClients : F!Error(c).c = c
      BY DEF F!Error
    <3> QED
      BY <2>2, <3>1, TurnError
  <2>4. file = [c \in TftpClients |-> <<>>] /\ net = {} /\ tftp_state.handle = "none"
    BY DEF F!Init, F!Closed
  <2>5. F!Front(<<>>)
    <3>1. F!Short \in Nat
      BY TftpNumbers DEF F!Short
    <3> QED
      BY <3>1 DEF F!Front
  <2>6. file \in [TftpClients -> Seq(Nat)] /\ \A c \in TftpClients : file[c] = <<>>
    BY <2>4
  <2>7. \A c \in TftpClients \ astray : F!Has(c)
    BY <2>2, <2>5, <2>6 DEF F!Has
  <2> QED
    BY <2>3, <2>4, <2>6, <2>7 DEF F!InTurn, F!Placed
<1> QED
  BY <1>1, <1>2 DEF F!TransferInv

LEMMA TurnTimer ==
  ASSUME F!TftpAssumption, F!TransferInv, F!TftpInv', F!tftp_tmr
  PROVE  F!InTurn'
<1>1. UNCHANGED <<file, pos, user, astray>>
  BY DEF F!tftp_tmr
<1>2. /\ Right(tftp_state, chains) /\ tftp_state \in TftpStates /\ F!Placed(tftp_state, pos)
      /\ file \in [TftpClients -> Seq(Nat)] /\ astray \subseteq TftpClients /\ F!Short \in Nat
      /\ \A c \in TftpClients \ astray : F!Front(file[c]) /\ Len(file[c]) \in Nat
  BY TurnParts DEF F!Has
<1>3. \/ tftp_state' = tftp_state /\ net' = net
      \/ /\ F!Open /\ tftp_state.last_data # F!None /\ tftp_state.retries < TftpRetries
         /\ net' = net \union {F!Data(tftp_state.peer, tftp_state.blknum, F!Resent)}
         /\ tftp_state' = [tftp_state EXCEPT !.retries = tftp_state.retries + 1]
      \/ tftp_state' = F!close_handle(tftp_state) /\ net' = net
  BY DEF F!tftp_tmr
<1>4. \A c \in TftpClients \ astray' : Len(file'[c]) >= Len(file[c]) /\ F!Front(file'[c])
  BY <1>1, <1>2
<1>5. F!Placed(tftp_state, pos)' /\ \A m \in net' : m \in net \/ F!Proper(m)'
  <2>1. CASE tftp_state' = tftp_state /\ net' = net
    BY <1>1, <1>2, <2>1 DEF F!Placed, F!Writes, F!Short
  <2>2. CASE /\ F!Open /\ tftp_state.last_data # F!None /\ tftp_state.retries < TftpRetries
             /\ net' = net \union {F!Data(tftp_state.peer, tftp_state.blknum, F!Resent)}
             /\ tftp_state' = [tftp_state EXCEPT !.retries = tftp_state.retries + 1]
    <3> DEFINE st == [tftp_state EXCEPT !.retries = tftp_state.retries + 1]
               a  == F!Data(tftp_state.peer, tftp_state.blknum, F!Resent)
    <3>1. /\ st.handle = tftp_state.handle /\ st.peer = tftp_state.peer /\ st.blknum = tftp_state.blknum
          /\ st.last_data = tftp_state.last_data
      BY <1>2 DEF TftpStates
    <3>2. st.mode_write = tftp_state.mode_write
      BY <1>2 DEF TftpStates
    <3> HIDE DEF st
    <3>3. tftp_state' = st
      BY <2>2 DEF st
    <3>4. F!Placed(st, pos)
      BY <1>2, <3>1, <3>2 DEF F!Placed
    <3>5. F!Placed(tftp_state, pos)'
      BY <1>1, <3>3, <3>4 DEF F!Placed, F!Writes, F!Short
    <3>6. ~tftp_state.mode_write /\ tftp_state.handle # "none"
      BY <1>2, <2>2 DEF Right, F!Open
    <3>7. /\ ~F!Writes(tftp_state.peer)
          /\ tftp_state.peer \notin astray =>
               tftp_state.last_data = tftp_state.blknum /\ pos = tftp_state.blknum /\ pos \in 1 .. F!Short
      BY <1>2, <3>6 DEF F!Placed
    <3>8. /\ a.op = "DATA" /\ a.dst = "client" /\ a.c = tftp_state.peer /\ a.blk = tftp_state.blknum
          /\ a.data = tftp_state.last_data
      BY DEF F!Data, F!Resent
    <3>9. \A m \in net' : m \in net \/ m = a
      BY <2>2
    <3> HIDE DEF a
    <3>10. ~(user'[a.c].job[1] = "write")
      BY <1>1, <3>7, <3>8 DEF F!Writes
    <3>11. ASSUME NEW m, m = a PROVE F!Proper(m)'
      BY <1>1, <3>7, <3>8, <3>10, <3>11 DEF F!Proper, F!Writes, F!Short
    <3> QED
      BY <3>5, <3>9, <3>11
  <2>3. CASE tftp_state' = F!close_handle(tftp_state) /\ net' = net
    <3>1. F!close_handle(tftp_state).handle = "none"
      BY <1>2 DEF F!close_handle, TftpStates
    <3> QED
      BY <2>3, <3>1 DEF F!Placed
  <2> QED
    BY <1>3, <2>1, <2>2, <2>3
<1> QED
  BY <1>1, <1>2, <1>4, <1>5, TurnServer

LEMMA TurnStep == F!TftpAssumption /\ F!TransferInv /\ [F!Next]_tftpVars => F!TransferInv'
<1> SUFFICES ASSUME F!TftpAssumption, F!TransferInv, [F!Next]_tftpVars PROVE F!TransferInv'
  OBVIOUS
<1>1. F!TftpInv'
  BY TftpStep DEF F!TransferInv
<1>2. CASE UNCHANGED tftpVars
  <2>1. UNCHANGED <<tftp_state, pos, file, user, astray, net>>
    BY <1>2 DEF tftpVars
  <2>2. F!InTurn'
    BY <2>1 DEF F!TransferInv, F!InTurn, F!Placed, F!Proper, F!Writes, F!Has, F!Front, F!Short
  <2> QED
    BY <1>1, <2>2 DEF F!TransferInv
<1>3. CASE F!Next
  <2>1. F!InTurn'
    BY <1>1, <1>3, TurnRecv, TurnTimer, TurnHears, TurnClient DEF F!Next
  <2> QED
    BY <1>1, <2>1 DEF F!TransferInv
<1> QED
  BY <1>2, <1>3

LEMMA TurnSafe ==
  F!TftpAssumption /\ F!TransferInv => F!TypeOK /\ F!Armed /\ F!ReadsInOrder /\ F!WritesWhole
<1> SUFFICES ASSUME F!TftpAssumption, F!TransferInv PROVE F!ReadsInOrder /\ F!WritesWhole
  BY DEF F!TransferInv, F!TftpInv
<1>1. /\ user \in [TftpClients -> TftpUsers] /\ file \in [TftpClients -> Seq(Nat)]
      /\ F!Short \in Nat /\ F!Short > 0 /\ \A c \in TftpClients \ astray : F!Has(c)
  BY TurnParts
<1>2. F!File \in Seq(Nat) /\ Len(F!File) = F!Short /\ \A i \in 1 .. F!Short : F!File[i] = i
  <2>1. F!File \in [1 .. F!Short -> Nat]
    BY <1>1 DEF F!File
  <2>2. F!File \in Seq(Nat)
    BY <1>1, <2>1, SeqDef
  <2>3. Len(F!File) = F!Short
    BY <1>1, <2>1, <2>2, LenProperties
  <2> QED
    BY <2>2, <2>3 DEF F!File
<1>3. ASSUME NEW q \in Seq(Nat), F!Front(q)
      PROVE  /\ \E k \in 0 .. Len(F!File) : q = SubSeq(F!File, 1, k)
             /\ Len(q) = F!Short => q = F!File
  <2> DEFINE k == Len(q)
  <2>1. k \in Nat /\ k <= F!Short /\ \A i \in 1 .. k : q[i] = i
    BY <1>3 DEF F!Front
  <2> HIDE DEF k
  <2>2. k = Len(q)
    BY DEF k
  <2>3. /\ SubSeq(F!File, 1, k) \in Seq(Nat) /\ Len(SubSeq(F!File, 1, k)) = k
        /\ \A i \in 1 .. k : SubSeq(F!File, 1, k)[i] = F!File[i]
    BY <1>1, <1>2, <2>1
  <2>4. \A i \in 1 .. k : i \in 1 .. F!Short
    BY <1>1, <2>1
  <2>5. \A i \in 1 .. k : q[i] = SubSeq(F!File, 1, k)[i]
    BY <1>2, <2>1, <2>3, <2>4
  <2>6. q = SubSeq(F!File, 1, k)
    BY <1>3, <2>2, <2>3, <2>5, SeqEqual
  <2>7. ASSUME k = F!Short PROVE q = F!File
    <3>1. \A i \in 1 .. Len(q) : q[i] = F!File[i]
      BY <1>2, <2>1, <2>2, <2>7
    <3> QED
      BY <1>2, <1>3, <2>2, <2>7, <3>1, SeqEqual
  <2>8. k \in 0 .. Len(F!File)
    BY <1>1, <1>2, <2>1
  <2> QED
    BY <2>2, <2>6, <2>7, <2>8
<1>4. F!ReadsInOrder
  <2>1. SUFFICES ASSUME NEW c \in TftpClients \ astray, user[c].job[1] = "read"
                 PROVE  /\ \E k \in 0 .. Len(F!File) : user[c].got = SubSeq(F!File, 1, k)
                        /\ user[c].phase = "done" => user[c].got = F!File
    BY DEF F!ReadsInOrder
  <2>2. user[c].got \in Seq(Nat) /\ ~F!Writes(c)
    BY <1>1, <2>1 DEF TftpUsers, F!Writes
  <2>3. F!Front(user[c].got) /\ (user[c].phase = "done" => Len(user[c].got) = F!Short)
    BY <1>1, <2>2 DEF F!Has
  <2> QED
    BY <1>3, <2>2, <2>3
<1>5. F!WritesWhole
  <2>1. SUFFICES ASSUME NEW c \in TftpClients \ astray, user[c].job[1] = "write", user[c].phase = "done"
                 PROVE  file[c] = F!File
    BY DEF F!WritesWhole
  <2>2. file[c] \in Seq(Nat) /\ F!Writes(c)
    BY <1>1, <2>1 DEF F!Writes
  <2>3. F!Front(file[c]) /\ Len(file[c]) = F!Short
    BY <1>1, <2>1, <2>2 DEF F!Has
  <2> QED
    BY <1>3, <2>2, <2>3
<1> QED
  BY <1>4, <1>5

-----------------------------------------------------------------------------
(* UdpFinder: those told are those who called, in order.                   *)

Beepers == {d.from : d \in Datagrams}
FinderHeard == [from : Beepers, data : Seq(Nat), failed : BOOLEAN]

LEMMA FinderNumbers ==
  ASSUME U!UdpFinderAssumption
  PROVE  /\ RecvSize \in Nat /\ RecvSize > 0 /\ Password \in Seq(Nat \ {0}) /\ Password \in Seq(Nat)
         /\ Len(Password) \in Nat /\ Len(Password) < RecvSize
         /\ Sockets \in Nat /\ Sockets > 0 /\ MaxQueued \in Nat /\ MaxReceived \in Nat /\ FinderFaults \in Nat
         /\ \A d \in Datagrams : d.data \in Seq(Nat)
<1>1. Password \in Seq(Nat \ {0}) /\ Len(Password) \in Nat
  BY DEF U!UdpFinderAssumption
<1>2. Password \in Seq(Nat)
  BY <1>1
<1> QED
  BY <1>1, <1>2 DEF U!UdpFinderAssumption

\* What is found in the buffer is found in the datagram: behind the bytes that
\* were read is a 0, which is none of the password.
LEMMA FinderReads ==
  ASSUME U!UdpFinderAssumption, recv_data \in [1 .. RecvSize -> Nat], NEW data \in Seq(Nat), NEW cut,
         cut = SubSeq(data, 1, IF Len(data) < RecvSize THEN Len(data) ELSE RecvSize - 1)
  PROVE  /\ U!Filled(cut) \in [1 .. RecvSize -> Nat]
         /\ SubSeq(U!Filled(cut), 1, Len(Password)) = Password <=> U!Knocks(data)
<1> DEFINE n == IF Len(data) < RecvSize THEN Len(data) ELSE RecvSize - 1
           m == Len(Password)
           buf == U!Filled(cut)
           seen == SubSeq(buf, 1, m)
           head == SubSeq(data, 1, m)
<1> HIDE DEF buf, seen, head
<1>1. n \in Nat /\ n <= Len(data) /\ n < RecvSize /\ Len(data) \in Nat /\ (n < Len(data) => n = RecvSize - 1)
  <2>1. RecvSize \in Nat /\ RecvSize > 0 /\ Len(data) \in Nat
    BY FinderNumbers
  <2>2. CASE Len(data) < RecvSize
    <3>1. n = Len(data)
      BY <2>2
    <3> HIDE DEF n
    <3> QED
      BY <2>1, <2>2, <3>1
  <2>3. CASE ~(Len(data) < RecvSize)
    <3>1. n = RecvSize - 1
      BY <2>3
    <3> HIDE DEF n
    <3> QED
      BY <2>1, <2>3, <3>1
  <2> QED
    BY <2>2, <2>3
<1>2. RecvSize \in Nat /\ m \in Nat /\ m < RecvSize /\ \A i \in 1 .. m : Password[i] \in Nat /\ Password[i] # 0
  <2>1. Password \in Seq(Nat \ {0}) /\ Len(Password) \in Nat /\ Len(Password) < RecvSize /\ RecvSize \in Nat
    BY FinderNumbers
  <2>2. \A i \in 1 .. Len(Password) : Password[i] \in Nat \ {0}
    BY <2>1
  <2> QED
    BY <2>1, <2>2
<1>0. cut = SubSeq(data, 1, n)
  OBVIOUS
<1> HIDE DEF n, m
<1>3. cut \in Seq(Nat) /\ Len(cut) = n /\ \A i \in 1 .. n : cut[i] = data[i]
  BY <1>0, <1>1
<1>4. \A i \in 1 .. n : cut[i] \in Nat
  BY <1>3
<1>5. buf = [i \in 1 .. RecvSize |-> IF i <= n THEN cut[i] ELSE IF i = n + 1 THEN 0 ELSE recv_data[i]]
  BY <1>3 DEF buf, U!Filled
<1>6. buf \in [1 .. RecvSize -> Nat]
  BY <1>1, <1>2, <1>4, <1>5
<1>7. buf \in Seq(Nat) /\ Len(buf) = RecvSize
  <2>1. buf \in Seq(Nat)
    BY <1>2, <1>6, SeqDef
  <2> QED
    BY <1>2, <1>6, <2>1, LenProperties
<1>8. \A i \in 1 .. m : i <= n => buf[i] = data[i]
  BY <1>1, <1>2, <1>3, <1>5
<1>9. n < m => buf[n + 1] = 0 /\ n + 1 \in 1 .. m
  BY <1>1, <1>2, <1>5
<1>10. /\ seen \in Seq(Nat) /\ Len(seen) = m
       /\ \A i \in 1 .. m : seen[i] = buf[i]
  BY <1>2, <1>7 DEF seen
<1>11. m <= Len(data) => /\ head \in Seq(Nat) /\ Len(head) = m
                         /\ \A i \in 1 .. m : head[i] = data[i]
  BY <1>1, <1>2 DEF head
<1>12. Password \in Seq(Nat) /\ Len(Password) = m /\ SubSeq(Password, 1, m) = Password
  BY <1>2, FinderNumbers DEF m
<1>13. U!Knocks(data) <=> m <= Len(data) /\ head = Password
  BY <1>12 DEF U!Knocks, head
<1>14. ASSUME seen = Password PROVE U!Knocks(data)
  <2>1. m <= n
    BY <1>1, <1>2, <1>9, <1>10, <1>14
  <2>2. m <= Len(data)
    BY <1>1, <1>2, <2>1
  <2>5. \A i \in 1 .. m : i <= n
    BY <1>1, <1>2, <2>1
  <2>3. \A i \in 1 .. m : head[i] = Password[i]
    <3>1. \A i \in 1 .. m : buf[i] = data[i] /\ head[i] = data[i] /\ seen[i] = buf[i]
      BY <1>8, <1>10, <1>11, <2>2, <2>5
    <3> QED
      BY <1>14, <3>1
  <2>4. head = Password
    BY <1>11, <1>12, <2>2, <2>3, SeqEqual
  <2> QED
    BY <1>13, <2>2, <2>4
<1>15. ASSUME U!Knocks(data) PROVE seen = Password
  <2>1. m <= Len(data) /\ head = Password
    BY <1>13, <1>15
  <2>2. m <= n
    BY <1>1, <1>2, <2>1
  <2>5. \A i \in 1 .. m : i <= n
    BY <1>1, <1>2, <2>2
  <2>3. \A i \in 1 .. m : seen[i] = Password[i]
    <3>1. \A i \in 1 .. m : buf[i] = data[i] /\ head[i] = data[i] /\ seen[i] = buf[i]
      BY <1>8, <1>10, <1>11, <2>1, <2>5
    <3> QED
      BY <2>1, <3>1
  <2> QED
    BY <1>10, <1>12, <2>3, SeqEqual
<1> QED
  BY <1>6, <1>14, <1>15 DEF buf, m, seen

\* A datagram that calls is the last of those that do.
LEMMA FinderHears ==
  ASSUME U!TellsCallers, U!Histories, NEW r \in FinderHeard, finder_received' = Append(finder_received, r),
         beeps' = IF U!Knocks(r.data) /\ ~r.failed THEN Append(beeps, r.from) ELSE beeps
  PROVE  U!TellsCallers' /\ U!Histories'
<1> DEFINE n == Len(finder_received)
           k == Len(beeps)
           knocks == U!Knocks(r.data) /\ ~r.failed
<1>1. /\ finder_received \in Seq(FinderHeard) /\ beeps \in Seq(Beepers) /\ r.from \in Beepers
  BY DEF U!Histories, FinderHeard, Beepers
<1>2. n \in Nat /\ k \in Nat /\ DOMAIN finder_received = 1 .. n /\ DOMAIN beeps = 1 .. k
  BY <1>1
<1>3. /\ finder_received' \in Seq(FinderHeard) /\ DOMAIN finder_received' = 1 .. n + 1
      /\ finder_received'[n + 1] = r /\ \A i \in 1 .. n : finder_received'[i] = finder_received[i]
  BY <1>1
<1>4. beeps' \in Seq(Beepers)
  BY <1>1
<1>5. U!Histories'
  BY <1>3, <1>4 DEF U!Histories, FinderHeard, Beepers
<1>6. PICK asked \in [1 .. k -> U!Called] :
        /\ \A i, j \in 1 .. k : i < j => asked[i] < asked[j]
        /\ \A c \in U!Called : \E i \in 1 .. k : asked[i] = c
        /\ \A i \in 1 .. k : beeps[i] = finder_received[asked[i]].from
  BY <1>2 DEF U!TellsCallers
<1>7. U!Called \subseteq 1 .. n
  BY <1>2 DEF U!Called
<1>8. U!Called' = IF knocks THEN U!Called \union {n + 1} ELSE U!Called
  <2>1. U!Called' = {i \in 1 .. n + 1 : U!Knocks(finder_received'[i].data) /\ ~finder_received'[i].failed}
    BY <1>3 DEF U!Called
  <2>2. U!Called = {i \in 1 .. n : U!Knocks(finder_received[i].data) /\ ~finder_received[i].failed}
    BY <1>2 DEF U!Called
  <2>3. \A i \in 1 .. n + 1 : i \in 1 .. n \/ i = n + 1
    BY <1>2
  <2>4. \A i \in 1 .. n : i \in 1 .. n + 1 /\ i # n + 1
    BY <1>2
  <2>5. n + 1 \in 1 .. n + 1
    BY <1>2
  <2> QED
    BY <1>3, <2>1, <2>2, <2>3, <2>4, <2>5, Zenon DEF knocks
<1> HIDE DEF n, k, knocks
<1>9. CASE knocks
  <2> DEFINE onto == [i \in 1 .. k + 1 |-> IF i = k + 1 THEN n + 1 ELSE asked[i]]
  <2>1. beeps' = Append(beeps, r.from)
    BY <1>9 DEF knocks
  <2>2. DOMAIN beeps' = 1 .. k + 1 /\ beeps'[k + 1] = r.from /\ \A i \in 1 .. k : beeps'[i] = beeps[i]
    BY <1>1, <1>2, <2>1 DEF k
  <2>3. /\ onto \in [1 .. k + 1 -> U!Called'] /\ onto[k + 1] = n + 1
        /\ \A i \in 1 .. k : onto[i] = asked[i]
    BY <1>2, <1>6, <1>8, <1>9
  <2> HIDE DEF onto
  <2>4. \A i \in 1 .. k + 1 : i \in 1 .. k \/ i = k + 1
    BY <1>2
  <2>5. \A i \in 1 .. k : i \in 1 .. k + 1 /\ asked[i] \in 1 .. n /\ asked[i] < n + 1
    <3>1. \A i \in 1 .. k : asked[i] \in U!Called
      BY <1>6
    <3>2. \A i \in 1 .. k : asked[i] \in 1 .. n
      BY <1>7, <3>1
    <3> QED
      BY <1>2, <3>2
  <2>6. \A i, j \in 1 .. k + 1 : i < j => onto[i] < onto[j]
    <3> SUFFICES ASSUME NEW i \in 1 .. k + 1, NEW j \in 1 .. k + 1, i < j PROVE onto[i] < onto[j]
      OBVIOUS
    <3>1. i \in 1 .. k
      BY <1>2
    <3>2. CASE j \in 1 .. k
      BY <1>6, <2>3, <3>1, <3>2
    <3>3. CASE j = k + 1
      BY <2>3, <2>5, <3>1, <3>3
    <3> QED
      BY <2>4, <3>2, <3>3
  <2>7. \A c \in U!Called' : \E i \in 1 .. k + 1 : onto[i] = c
    <3>1. \A c \in U!Called : \E i \in 1 .. k + 1 : onto[i] = c
      BY <1>6, <2>3, <2>5
    <3>2. k + 1 \in 1 .. k + 1 /\ onto[k + 1] = n + 1
      BY <1>2, <2>3
    <3> QED
      BY <1>8, <1>9, <3>1, <3>2
  <2>8. \A i \in 1 .. k + 1 : beeps'[i] = finder_received'[onto[i]].from
    <3> SUFFICES ASSUME NEW i \in 1 .. k + 1 PROVE beeps'[i] = finder_received'[onto[i]].from
      OBVIOUS
    <3>1. CASE i \in 1 .. k
      <4>1. onto[i] = asked[i] /\ asked[i] \in 1 .. n /\ beeps'[i] = beeps[i]
        BY <2>2, <2>3, <2>5, <3>1
      <4>2. finder_received'[asked[i]] = finder_received[asked[i]]
        BY <1>3, <4>1
      <4> QED
        BY <1>6, <3>1, <4>1, <4>2
    <3>2. CASE i = k + 1
      BY <1>3, <2>2, <2>3, <3>2
    <3> QED
      BY <2>4, <3>1, <3>2
  <2>9. \E next2 \in [DOMAIN beeps' -> U!Called'] :
          /\ \A i, j \in DOMAIN beeps' : i < j => next2[i] < next2[j]
          /\ \A c \in U!Called' : \E i \in DOMAIN beeps' : next2[i] = c
          /\ \A i \in DOMAIN beeps' : beeps'[i] = finder_received'[next2[i]].from
    <3>1. onto \in [DOMAIN beeps' -> U!Called']
      BY <2>2, <2>3
    <3> WITNESS onto \in [DOMAIN beeps' -> U!Called']
    <3> QED
      BY <2>2, <2>6, <2>7, <2>8
  <2> QED
    BY <1>5, <2>9 DEF U!TellsCallers
<1>10. CASE ~knocks
  <2>1. beeps' = beeps /\ U!Called' = U!Called
    BY <1>8, <1>10 DEF knocks
  <2>2. \A i \in 1 .. k : finder_received'[asked[i]] = finder_received[asked[i]]
    BY <1>3, <1>6, <1>7
  <2>3. \A i \in 1 .. k : beeps'[i] = finder_received'[asked[i]].from
    BY <1>6, <2>1, <2>2
  <2>4. DOMAIN beeps' = 1 .. k /\ asked \in [DOMAIN beeps' -> U!Called']
    BY <1>2, <1>6, <2>1
  <2>5. \E next2 \in [DOMAIN beeps' -> U!Called'] :
          /\ \A i, j \in DOMAIN beeps' : i < j => next2[i] < next2[j]
          /\ \A c \in U!Called' : \E i \in DOMAIN beeps' : next2[i] = c
          /\ \A i \in DOMAIN beeps' : beeps'[i] = finder_received'[next2[i]].from
    <3>1. asked \in [DOMAIN beeps' -> U!Called']
      BY <2>4
    <3> WITNESS asked \in [DOMAIN beeps' -> U!Called']
    <3> QED
      BY <1>6, <2>1, <2>3, <2>4
  <2> QED
    BY <1>5, <2>5 DEF U!TellsCallers
<1> QED
  BY <1>9, <1>10

LEMMA FinderInit == U!UdpFinderAssumption /\ U!Init => U!FinderInv
<1> SUFFICES ASSUME U!UdpFinderAssumption, U!Init PROVE U!FinderInv
  OBVIOUS
<1>1. /\ upc = "wait" /\ used_sockets = 0 /\ finder_queue = <<>> /\ recv_data = [i \in 1 .. RecvSize |-> 0]
      /\ ready \in BOOLEAN /\ finder_received = <<>> /\ beeps = <<>> /\ finder_faults = 0
  BY DEF U!Init
<1>2. U!TypeOK /\ U!OneSocket
  BY <1>1, FinderNumbers DEF U!TypeOK, U!OneSocket
<1>3. U!Histories
  BY <1>1 DEF U!Histories
<1>4. U!Called = {} /\ DOMAIN beeps = {}
  BY <1>1 DEF U!Called
<1>5. U!TellsCallers
  <2> DEFINE asked == [i \in {} |-> 0]
  <2>1. asked \in [DOMAIN beeps -> U!Called]
    BY <1>4
  <2> QED
    BY <1>4, <2>1 DEF U!TellsCallers
<1> QED
  BY <1>2, <1>3, <1>5 DEF U!FinderInv

LEMMA FinderKept ==
  ASSUME U!TellsCallers, U!Histories, UNCHANGED <<beeps, finder_received>>
  PROVE  U!TellsCallers' /\ U!Histories'
<1>1. U!Called' = U!Called
  BY DEF U!Called
<1> QED
  BY <1>1 DEF U!TellsCallers, U!Histories

LEMMA FinderRecv ==
  ASSUME U!UdpFinderAssumption, U!FinderInv, U!recvfrom
  PROVE  U!FinderInv'
<1>1. /\ upc = "recv" /\ UNCHANGED <<used_sockets, ready>> /\ used_sockets = 1
      /\ finder_faults \in 0 .. FinderFaults /\ used_sockets \in 0 .. Sockets /\ ready \in BOOLEAN
      /\ finder_queue \in Seq(Datagrams) /\ Len(finder_queue) <= MaxQueued
      /\ recv_data \in [1 .. RecvSize -> Nat] /\ U!TellsCallers /\ U!Histories
      /\ Len(beeps) <= Len(finder_received)
  BY DEF U!FinderInv, U!recvfrom, U!OneSocket, U!TypeOK
<1>2. CASE /\ finder_queue # <<>> /\ finder_queue' = Tail(finder_queue) /\ upc' = "select"
           /\ LET d    == Head(finder_queue)
                  data == SubSeq(d.data, 1, IF Len(d.data) < RecvSize THEN Len(d.data) ELSE RecvSize - 1)
              IN IF data = <<>> THEN U!Keeps /\ UNCHANGED finder_faults
                 ELSE /\ recv_data' = U!Filled(data)
                      /\ \E failed \in BOOLEAN :
                           /\ IF failed THEN U!Fails ELSE UNCHANGED finder_faults
                           /\ U!handle_recv(d, failed)
                           /\ finder_received' = Append(finder_received, [from |-> d.from, data |-> d.data, failed |-> failed])
  <2> DEFINE d   == Head(finder_queue)
             cut == SubSeq(d.data, 1, IF Len(d.data) < RecvSize THEN Len(d.data) ELSE RecvSize - 1)
  <2>1. d \in Datagrams /\ finder_queue' \in Seq(Datagrams) /\ Len(finder_queue') <= MaxQueued
    BY <1>1, <1>2, FinderNumbers
  <2>2. d.data \in Seq(Nat) /\ d.from \in Beepers
    BY <2>1, FinderNumbers DEF Beepers
  <2>3. CASE cut = <<>>
    <3>1. U!Keeps /\ UNCHANGED finder_faults
      BY <1>2, <2>3
    <3>2. UNCHANGED <<recv_data, finder_received, beeps>>
      BY <3>1 DEF U!Keeps
    <3>3. U!TellsCallers' /\ U!Histories'
      BY <1>1, <3>2, FinderKept
    <3>4. U!TypeOK' /\ U!OneSocket'
      BY <1>1, <1>2, <2>1, <3>1, <3>2 DEF U!TypeOK, U!OneSocket
    <3> QED
      BY <3>3, <3>4 DEF U!FinderInv
  <2>4. CASE cut # <<>>
    <3>1. recv_data' = U!Filled(cut)
      BY <1>2, <2>4
    <3>2. PICK failed \in BOOLEAN :
            /\ IF failed THEN U!Fails ELSE UNCHANGED finder_faults
            /\ U!handle_recv(d, failed)
            /\ finder_received' = Append(finder_received, [from |-> d.from, data |-> d.data, failed |-> failed])
      BY <1>2, <2>4
    <3>3. /\ recv_data' \in [1 .. RecvSize -> Nat]
          /\ SubSeq(recv_data', 1, Len(Password)) = Password <=> U!Knocks(d.data)
      <4> HIDE DEF d
      <4> QED
        BY <1>1, <2>2, <3>1, FinderReads
    <3> DEFINE r == [from |-> d.from, data |-> d.data, failed |-> failed]
    <3>4. r \in FinderHeard /\ r.data = d.data /\ r.failed = failed /\ r.from = d.from
      BY <2>2 DEF FinderHeard
    <3>5. beeps' = IF U!Knocks(d.data) /\ ~failed THEN Append(beeps, d.from) ELSE beeps
      BY <3>2, <3>3 DEF U!handle_recv
    <3>6. finder_received' = Append(finder_received, r)
      BY <3>2
    <3>7. finder_faults' \in 0 .. FinderFaults
      BY <1>1, <3>2, FinderNumbers DEF U!Fails
    <3> HIDE DEF r, d, cut
    <3>8. U!TellsCallers' /\ U!Histories'
      BY <1>1, <3>4, <3>5, <3>6, FinderHears
    <3>9. Len(beeps') <= Len(finder_received')
      <4>1. beeps \in Seq(Beepers) /\ finder_received \in Seq(FinderHeard)
        BY <1>1 DEF U!Histories, Beepers, FinderHeard
      <4>2. Len(finder_received') = Len(finder_received) + 1
        BY <3>4, <3>6, <4>1
      <4>3. Len(beeps') \in {Len(beeps), Len(beeps) + 1}
        BY <2>2, <3>5, <4>1
      <4> QED
        BY <1>1, <4>1, <4>2, <4>3
    <3>10. U!TypeOK' /\ U!OneSocket'
      BY <1>1, <1>2, <2>1, <3>3, <3>7, <3>9 DEF U!TypeOK, U!OneSocket
    <3> QED
      BY <3>8, <3>10 DEF U!FinderInv
  <2> QED
    BY <2>3, <2>4
<1>3. CASE U!Fails /\ upc' = "close" /\ UNCHANGED finder_queue /\ U!Keeps
  <2>1. UNCHANGED <<recv_data, finder_received, beeps>>
    BY <1>3 DEF U!Keeps
  <2>2. finder_faults' \in 0 .. FinderFaults
    BY <1>1, <1>3, FinderNumbers DEF U!Fails
  <2>3. U!TellsCallers' /\ U!Histories'
    BY <1>1, <2>1, FinderKept
  <2>4. U!TypeOK' /\ U!OneSocket'
    BY <1>1, <1>3, <2>1, <2>2 DEF U!TypeOK, U!OneSocket
  <2> QED
    BY <2>3, <2>4 DEF U!FinderInv
<1> QED
  BY <1>2, <1>3 DEF U!recvfrom

\* The other steps read nothing.
LEMMA FinderRest ==
  ASSUME U!UdpFinderAssumption, U!FinderInv,
         \/ U!wait_network \/ U!socket \/ U!bind \/ U!select \/ U!closesocket
         \/ (\E d \in Datagrams : U!Arrives(d)) \/ U!Lost \/ U!Back \/ UNCHANGED finderVars
  PROVE  U!FinderInv'
<1>1. /\ U!TypeOK /\ U!TellsCallers /\ U!OneSocket /\ U!Histories
      /\ finder_faults \in 0 .. FinderFaults /\ used_sockets \in 0 .. Sockets /\ ready \in BOOLEAN
      /\ finder_queue \in Seq(Datagrams) /\ Len(finder_queue) <= MaxQueued
      /\ recv_data \in [1 .. RecvSize -> Nat] /\ Len(beeps) <= Len(finder_received)
      /\ upc \in {"wait", "socket", "bind", "select", "recv", "close"}
  BY DEF U!FinderInv, U!TypeOK
<1> DEFINE Kept == UNCHANGED <<beeps, finder_received>>
           Fine == /\ upc' \in {"wait", "socket", "bind", "select", "recv", "close"} /\ used_sockets' \in 0 .. Sockets
                   /\ finder_queue' \in Seq(Datagrams) /\ Len(finder_queue') <= MaxQueued
                   /\ recv_data' \in [1 .. RecvSize -> Nat]
                   /\ ready' \in BOOLEAN /\ finder_faults' \in 0 .. FinderFaults /\ U!OneSocket'
<1>2. ASSUME Kept, Fine PROVE U!FinderInv'
  <2>1. U!TellsCallers' /\ U!Histories'
    BY <1>1, <1>2, FinderKept
  <2>2. U!TypeOK'
    BY <1>1, <1>2 DEF U!TypeOK
  <2> QED
    BY <1>2, <2>1, <2>2 DEF U!FinderInv
<1>3. CASE U!wait_network
  BY <1>1, <1>2, <1>3 DEF U!wait_network, U!Keeps, U!OneSocket
<1>4. CASE U!socket
  BY <1>1, <1>2, <1>4, FinderNumbers DEF U!socket, U!Keeps, U!Fails, U!OneSocket
<1>5. CASE U!bind
  BY <1>1, <1>2, <1>5, FinderNumbers DEF U!bind, U!Fails, U!OneSocket
<1>6. CASE U!select
  BY <1>1, <1>2, <1>6, FinderNumbers DEF U!select, U!Keeps, U!Fails, U!OneSocket
<1>7. CASE U!closesocket
  BY <1>1, <1>2, <1>7, FinderNumbers DEF U!closesocket, U!Closed, U!Keeps, U!OneSocket
<1>8. ASSUME NEW d \in Datagrams, U!Arrives(d) PROVE U!FinderInv'
  BY <1>1, <1>2, <1>8, FinderNumbers DEF U!Arrives, U!Keeps, U!OneSocket
<1>9. CASE U!Lost
  <2>1. /\ finder_faults < FinderFaults /\ finder_faults' = finder_faults + 1 /\ ready' = FALSE
        /\ UNCHANGED <<upc, used_sockets, finder_queue, recv_data, finder_received, beeps>>
    BY <1>9 DEF U!Lost, U!Fails, U!Keeps
  <2>2. finder_faults' \in 0 .. FinderFaults
    BY <1>1, <2>1, FinderNumbers
  <2>3. U!OneSocket'
    BY <1>1, <2>1 DEF U!OneSocket
  <2> QED
    BY <1>1, <1>2, <2>1, <2>2, <2>3
<1>10. CASE U!Back
  BY <1>1, <1>2, <1>10 DEF U!Back, U!Keeps, U!OneSocket
<1>11. CASE UNCHANGED finderVars
  BY <1>1, <1>2, <1>11 DEF finderVars, U!OneSocket
<1> QED
  BY <1>3, <1>4, <1>5, <1>6, <1>7, <1>8, <1>9, <1>10, <1>11

LEMMA FinderStep == U!UdpFinderAssumption /\ U!FinderInv /\ [U!Next]_finderVars => U!FinderInv'
BY FinderRecv, FinderRest DEF U!Next, U!udp_finder_task

-----------------------------------------------------------------------------
(* WebClient: sessions end from the last redirect to the first.            *)

BlockStates == {"none", "live", "freed"}
SocketStates == {"none", "open", "closed"}

LEMMA WebSessions ==
  ASSUME W!WebClientAssumption
  PROVE  /\ MaxRedirects \in Nat /\ W!Sessions = {k \in Nat : k >= 1 /\ k <= MaxRedirects + 1} /\ 1 \in W!Sessions
BY DEF W!WebClientAssumption, W!Sessions

LEMMA WebParts ==
  W!ReleasedInv => /\ op \in HttpOps /\ cur \in W!Sessions /\ block \in [W!Sessions -> BlockStates]
                   /\ socket \in [W!Sessions -> SocketStates]
                   /\ W!ClosedBefore /\ W!Present /\ W!Released
                   /\ pc # "done" => lost \subseteq W!Spent \union W!Given
BY DEF W!ReleasedInv, BlockStates, SocketStates

\* A step within a session: neither memory nor sockets of another change.
LEMMA WebWithin ==
  ASSUME W!WebClientAssumption, W!ReleasedInv, UNCHANGED <<op, cur>>,
         pc' \in {"create", "close", "result", "wild"} \/ W!Working',
         block' \in [W!Sessions -> BlockStates], socket' \in [W!Sessions -> SocketStates],
         \A k \in W!Sessions : k # cur => block'[k] = block[k] /\ socket'[k] = socket[k],
         W!Present', lost' \subseteq W!Spent \union W!Given, pc' = "wild" => cur > 1
  PROVE  W!ReleasedInv'
<1>1. cur \in W!Sessions /\ W!ClosedBefore
  BY WebParts
<1>2. W!ClosedBefore'
  BY <1>1, WebSessions DEF W!ClosedBefore
<1>3. W!Spent' = W!Spent /\ W!Given' = W!Given
  BY DEF W!Spent, W!Given
<1>4. pc' # "done" /\ cur' = cur
  BY DEF W!Working
<1>5. W!Released'
  <2>1. lost' \subseteq W!Spent' \union W!Given'
    BY <1>3
  <2>2. \A k \in W!Sessions : k < cur \/ k > cur \/ k = cur
    BY <1>1, WebSessions
  <2>3. \A k \in W!Sessions : block'[k] = "live" \/ socket'[k] = "open" => k = cur'
    BY <1>2, <1>4, <2>2 DEF W!ClosedBefore
  <2>4. pc' = "wild" => cur' > 1
    BY <1>4
  <2> QED
    BY <1>4, <2>1, <2>3, <2>4 DEF W!Released, W!Over
<1> QED
  BY <1>1, <1>2, <1>3, <1>4, <1>5 DEF W!ReleasedInv, BlockStates, SocketStates

\* A step that leaves the sessions alone.
LEMMA WebQuiet ==
  ASSUME W!WebClientAssumption, W!ReleasedInv, UNCHANGED <<op, cur, block, socket, lost>>, W!Working,
         W!Working' \/ pc' = "close", pc' \in {"read", "part"} => cur = 1
  PROVE  W!ReleasedInv'
<1>1. /\ cur \in W!Sessions /\ block \in [W!Sessions -> BlockStates] /\ socket \in [W!Sessions -> SocketStates]
      /\ W!Present /\ (pc # "done" => lost \subseteq W!Spent \union W!Given)
  BY WebParts
<1>2. pc # "done" /\ pc # "close" /\ pc # "create" /\ pc # "result"
  BY DEF W!Working
<1>3. pc' # "done" /\ pc' # "wild" /\ pc' # "create" /\ pc' # "result"
  BY DEF W!Working
<1>4. block[cur] = "live"
  BY <1>1 DEF W!Present
<1>5. W!Present'
  BY <1>3, <1>4 DEF W!Present
<1> QED
  BY <1>1, <1>2, <1>3, <1>5, WebWithin

\* The socket of the present session is closed, or opened.
LEMMA WebSocketChanges ==
  ASSUME W!WebClientAssumption, W!ReleasedInv, UNCHANGED <<op, cur, block, lost>>, W!Working,
         W!Working' \/ pc' = "close", pc' \in {"read", "part"} => cur = 1,
         NEW v \in SocketStates, socket' = [socket EXCEPT ![cur] = v]
  PROVE  W!ReleasedInv'
<1>1. /\ cur \in W!Sessions /\ block \in [W!Sessions -> BlockStates] /\ socket \in [W!Sessions -> SocketStates]
      /\ W!Present /\ (pc # "done" => lost \subseteq W!Spent \union W!Given)
  BY WebParts
<1>2. pc # "done" /\ pc # "close" /\ pc # "create" /\ pc # "result"
  BY DEF W!Working
<1>3. pc' # "done" /\ pc' # "wild" /\ pc' # "create" /\ pc' # "result"
  BY DEF W!Working
<1>4. block[cur] = "live"
  BY <1>1 DEF W!Present
<1>5. W!Present'
  BY <1>3, <1>4 DEF W!Present
<1>6. /\ socket' \in [W!Sessions -> SocketStates]
      /\ \A k \in W!Sessions : k # cur => socket'[k] = socket[k]
  BY <1>1
<1> QED
  BY <1>1, <1>2, <1>3, <1>5, <1>6, WebWithin

\* The beginning of a session, and what becomes of it.
LEMMA WebCreates ==
  ASSUME W!WebClientAssumption, W!ReleasedInv,
         W!webclient_session_create \/ W!webclient_session_create_fails
  PROVE  W!ReleasedInv'
<1>1. /\ cur \in W!Sessions /\ block \in [W!Sessions -> BlockStates] /\ socket \in [W!Sessions -> SocketStates]
      /\ W!Present /\ (pc # "done" => lost \subseteq W!Spent \union W!Given)
  BY WebParts
<1>2. pc = "create" /\ block[cur] = "none" /\ socket[cur] = "none"
  BY <1>1 DEF W!webclient_session_create, W!webclient_session_create_fails, W!Present
<1>3. CASE W!webclient_session_create
  <2>1. /\ block' = [block EXCEPT ![cur] = "live"] /\ pc' = "connect" /\ UNCHANGED <<op, cur, socket>>
        /\ lost' = IF op = "post_file" THEN lost \union {"header"} ELSE lost
    BY <1>3 DEF W!webclient_session_create
  <2>2. block' \in [W!Sessions -> BlockStates] /\ block'[cur] = "live" /\ \A k \in W!Sessions : k # cur => block'[k] = block[k]
    BY <1>1, <2>1 DEF BlockStates
  <2>3. W!Present' /\ W!Working'
    BY <2>1, <2>2 DEF W!Present, W!Working
  <2>4. lost' \subseteq W!Spent \union W!Given
    BY <1>1, <1>2, <2>1 DEF W!Spent
  <2> QED
    BY <1>1, <2>1, <2>2, <2>3, <2>4, WebWithin
<1>4. CASE W!webclient_session_create_fails
  <2>1. pc' = "close" /\ UNCHANGED <<op, cur, block, socket>> /\ lost' = IF cur = 1 THEN lost ELSE lost \union {"new_url"}
    BY <1>4 DEF W!webclient_session_create_fails
  <2>2. W!Present'
    BY <1>2, <2>1 DEF W!Present, W!Working
  <2>3. cur # 1 => cur > 1
    BY <1>1, WebSessions
  <2>4. lost' \subseteq W!Spent \union W!Given
    BY <1>1, <1>2, <2>1, <2>3 DEF W!Given
  <2> QED
    BY <1>1, <2>1, <2>2, <2>4, WebWithin
<1> QED
  BY <1>3, <1>4

\* Redirected: the session is closed, and the next is one not yet made.
LEMMA WebJudges ==
  ASSUME W!WebClientAssumption, W!ReleasedInv, W!Working, UNCHANGED <<op, lost>>, NEW f, W!Judge(f)
  PROVE  W!ReleasedInv'
<1>1. /\ cur \in W!Sessions /\ block \in [W!Sessions -> BlockStates] /\ socket \in [W!Sessions -> SocketStates]
      /\ W!ClosedBefore /\ W!Present /\ (pc # "done" => lost \subseteq W!Spent \union W!Given)
  BY WebParts
<1>2. CASE /\ block' = [block EXCEPT ![cur] = "freed"] /\ socket' = [socket EXCEPT ![cur] = "closed"]
           /\ cur <= MaxRedirects /\ cur' = cur + 1 /\ pc' = "create"
  <2>1. /\ cur \in Nat /\ cur >= 1 /\ cur' \in W!Sessions /\ cur' > cur
        /\ \A k \in W!Sessions : k \in Nat /\ (k < cur + 1 => k < cur \/ k = cur) /\ (k > cur + 1 => k > cur)
    BY <1>1, <1>2, WebSessions
  <2>2. /\ block' \in [W!Sessions -> BlockStates] /\ socket' \in [W!Sessions -> SocketStates]
        /\ block'[cur] = "freed" /\ socket'[cur] = "closed"
        /\ \A k \in W!Sessions : k # cur => block'[k] = block[k] /\ socket'[k] = socket[k]
    BY <1>1, <1>2 DEF BlockStates, SocketStates
  <2>3. \A k \in W!Sessions : k > cur => k # cur /\ block[k] = "none" /\ socket[k] = "none"
    BY <1>1, <2>1 DEF W!ClosedBefore
  <2>4. \A k \in W!Sessions : k < cur => k # cur /\ block[k] = "freed" /\ socket[k] = "closed"
    BY <1>1, <2>1 DEF W!ClosedBefore
  <2>5. W!ClosedBefore'
    BY <1>2, <2>1, <2>2, <2>3, <2>4 DEF W!ClosedBefore
  <2>6. block'[cur'] = "none" /\ socket'[cur'] = "none"
    BY <1>2, <2>1, <2>2, <2>3
  <2>7. W!Present'
    BY <1>2, <2>6 DEF W!Present, W!Working
  <2>8. W!Spent' = W!Spent /\ W!Given \subseteq W!Given'
    BY <1>2, <2>1 DEF W!Spent, W!Given
  <2>9. lost' \subseteq W!Spent' \union W!Given'
    BY <1>1, <2>8 DEF W!Working
  <2> QED
    BY <1>2, <2>1, <2>2, <2>5, <2>7, <2>9 DEF W!ReleasedInv, W!Released, W!Over, BlockStates, SocketStates
<1>3. CASE UNCHANGED <<block, socket, cur>> /\ pc' \in {"use", "close"}
  BY <1>3, WebQuiet DEF W!Working
<1> QED
  BY <1>2, <1>3 DEF W!Judge

LEMMA WebUses ==
  ASSUME W!WebClientAssumption, W!ReleasedInv, W!Use
  PROVE  W!ReleasedInv'
<1>1. /\ cur \in W!Sessions /\ block \in [W!Sessions -> BlockStates] /\ socket \in [W!Sessions -> SocketStates]
      /\ W!ClosedBefore /\ W!Present /\ (pc # "done" => lost \subseteq W!Spent \union W!Given)
  BY WebParts
<1>2. /\ pc = "use" /\ UNCHANGED <<op, cur, block, socket, lost>>
      /\ pc' = IF block[1] = "freed" THEN "wild" ELSE "read"
  BY DEF W!Use
<1>3. block[cur] = "live"
  BY <1>1, <1>2 DEF W!Present, W!Working
<1>4. block[1] = "freed" <=> cur > 1
  BY <1>1, <1>3, WebSessions DEF W!ClosedBefore
<1>5. block[1] # "freed" => cur = 1
  BY <1>1, <1>4, WebSessions
<1>6. CASE block[1] = "freed"
  <2>1. pc' = "wild" /\ W!Present'
    BY <1>2, <1>6 DEF W!Present, W!Working
  <2> QED
    BY <1>1, <1>2, <1>4, <1>6, <2>1, WebWithin
<1>7. CASE block[1] # "freed"
  BY <1>2, <1>5, <1>7, WebQuiet DEF W!Working
<1> QED
  BY <1>6, <1>7

\* webclient_close has the caller's session, unless that was closed before.
LEMMA WebCloses ==
  ASSUME W!WebClientAssumption, W!ReleasedInv, W!webclient_close
  PROVE  W!ReleasedInv'
<1>1. /\ cur \in W!Sessions /\ block \in [W!Sessions -> BlockStates] /\ socket \in [W!Sessions -> SocketStates]
      /\ W!ClosedBefore /\ W!Present /\ (pc # "done" => lost \subseteq W!Spent \union W!Given)
  BY WebParts
<1>2. pc = "close" /\ UNCHANGED <<op, cur, lost>> /\ block[cur] # "freed" /\ (block[cur] = "none" => socket[cur] # "open")
  BY <1>1 DEF W!webclient_close, W!Present
<1>3. block[1] # "freed" => cur = 1
  BY <1>1, WebSessions DEF W!ClosedBefore
<1>4. CASE /\ block[1] = "live"
           /\ block' = [block EXCEPT ![1] = "freed"]
           /\ socket' = [socket EXCEPT ![1] = IF socket[1] = "open" THEN "closed" ELSE socket[1]]
           /\ pc' = "result"
  <2>1. cur = 1
    BY <1>3, <1>4
  <2>2. /\ block' \in [W!Sessions -> BlockStates] /\ block'[1] = "freed"
        /\ \A k \in W!Sessions : k # 1 => block'[k] = block[k]
    BY <1>1, <1>4, WebSessions DEF BlockStates
  <2>3. /\ socket' \in [W!Sessions -> SocketStates] /\ socket'[1] # "open"
        /\ \A k \in W!Sessions : k # 1 => socket'[k] = socket[k]
    BY <1>1, <1>4, WebSessions DEF SocketStates
  <2>4. W!Present'
    BY <1>2, <1>4, <2>1, <2>2, <2>3 DEF W!Present, W!Working
  <2> QED
    BY <1>1, <1>2, <1>4, <2>1, <2>2, <2>3, <2>4, WebWithin
<1>5. CASE block[1] = "none" /\ pc' = "result" /\ UNCHANGED <<block, socket>>
  <2>1. cur = 1
    BY <1>3, <1>5
  <2>2. W!Present'
    BY <1>2, <1>5, <2>1 DEF W!Present, W!Working
  <2> QED
    BY <1>1, <1>2, <1>5, <2>2, WebWithin
<1>6. CASE block[1] = "freed" /\ pc' = "wild" /\ UNCHANGED <<block, socket>>
  <2>1. cur > 1
    BY <1>1, <1>2, <1>6, WebSessions
  <2>2. W!Present'
    BY <1>6 DEF W!Present, W!Working
  <2> QED
    BY <1>1, <1>2, <1>6, <2>1, <2>2, WebWithin
<1> QED
  BY <1>4, <1>5, <1>6 DEF W!webclient_close

\* The end: what the failures of a caller cost comes to it.
LEMMA WebResult ==
  ASSUME W!WebClientAssumption, W!ReleasedInv, W!Result
  PROVE  W!ReleasedInv'
<1>1. /\ cur \in W!Sessions /\ block \in [W!Sessions -> BlockStates] /\ socket \in [W!Sessions -> SocketStates]
      /\ W!ClosedBefore /\ W!Present /\ (pc # "done" => lost \subseteq W!Spent \union W!Given)
  BY WebParts
<1> DEFINE o == CASE op = "post_file" -> W!OutcomeOfPost [] op = "get_file"  -> W!OutcomeOfFile
                  [] op = "request"   -> W!OutcomeOfRequest
                  [] op = "bootstrap" -> W!OutcomeOfBootstrap
           May == CASE op = "bootstrap" /\ answer' = "failed" -> {"response", "tree"}
                    [] op = "post_file" -> {"header"}
                    [] OTHER -> {}
<1>2. /\ pc = "result" /\ pc' = "done" /\ UNCHANGED <<op, cur, block, socket>>
      /\ answer' = o.answer /\ lost' = lost \union o.lost
  BY DEF W!Result
<1>3. cur = 1 /\ block[1] # "live" /\ socket[1] # "open" /\ lost \subseteq W!Spent
  BY <1>1, <1>2 DEF W!Present, W!Given
<1>4. op \in {"bootstrap", "request", "get_file", "post_file"} /\ op \in HttpOps
  BY WebParts DEF W!WebClientAssumption
<1>5. W!OutcomeOfBootstrap.lost \subseteq IF W!OutcomeOfBootstrap.answer = "failed" THEN {"response", "tree"} ELSE {}
  BY DEF W!OutcomeOfBootstrap, W!parse_response, W!Outcome
<1>6. o.lost \subseteq IF op = "bootstrap" /\ answer' = "failed" THEN {"response", "tree"} ELSE {}
  <2>1. CASE op = "bootstrap"
    BY <1>2, <1>5, <2>1
  <2>2. CASE op = "post_file"
    BY <2>2 DEF W!OutcomeOfPost, W!Outcome
  <2>3. CASE op = "get_file"
    BY <2>3 DEF W!OutcomeOfFile, W!Outcome
  <2>4. CASE op = "request"
    BY <2>4 DEF W!OutcomeOfRequest, W!Outcome
  <2> QED
    BY <1>4, <2>1, <2>2, <2>3, <2>4
<1> HIDE DEF o
<1>7. lost' \subseteq May
  BY <1>2, <1>3, <1>6 DEF W!Spent
<1>8. \A k \in W!Sessions : block[k] # "live" /\ socket[k] # "open"
  <2>1. \A k \in W!Sessions : k = 1 \/ k > 1
    BY WebSessions
  <2> QED
    BY <1>1, <1>3, <2>1 DEF W!ClosedBefore
<1> HIDE DEF May
<1>12. ~(cur > 1) /\ cur' = cur
  BY <1>2, <1>3
<1>9. W!Released'
  BY <1>2, <1>7, <1>8, <1>12 DEF W!Released, W!Over, May
<1>10. W!Present'
  BY <1>2, <1>3 DEF W!Present, W!Working
<1>11. W!ClosedBefore'
  BY <1>1, <1>2 DEF W!ClosedBefore
<1> QED
  BY <1>1, <1>2, <1>4, <1>9, <1>10, <1>11 DEF W!ReleasedInv, BlockStates, SocketStates

LEMMA WebInit == W!WebClientAssumption /\ W!Init => W!ReleasedInv
<1> SUFFICES ASSUME W!WebClientAssumption, W!Init PROVE W!ReleasedInv
  OBVIOUS
<1>1. /\ pc = "create" /\ op \in HttpOps /\ cur = 1 /\ lost = {}
      /\ block = [k \in W!Sessions |-> "none"] /\ socket = [k \in W!Sessions |-> "none"]
  BY DEF W!Init
<1>2. W!ClosedBefore /\ W!Present /\ W!Released
  BY <1>1, WebSessions DEF W!ClosedBefore, W!Present, W!Released, W!Over, W!Working
<1> QED
  BY <1>1, <1>2, WebSessions DEF W!ReleasedInv

LEMMA WebStep == W!WebClientAssumption /\ W!ReleasedInv /\ [W!Next]_requestVars => W!ReleasedInv'
<1> SUFFICES ASSUME W!WebClientAssumption, W!ReleasedInv, [W!Next]_requestVars PROVE W!ReleasedInv'
  OBVIOUS
<1>1. CASE W!webclient_session_create \/ W!webclient_session_create_fails
  BY <1>1, WebCreates
<1>2. CASE W!Use
  BY <1>2, WebUses
<1>3. CASE W!webclient_close
  BY <1>3, WebCloses
<1>4. CASE W!Result
  BY <1>4, WebResult
<1>5. CASE W!HandleFields
  <2>1. W!Working /\ UNCHANGED <<op, lost>>
    BY <1>5 DEF W!HandleFields, W!Working
  <2>2. \/ W!Judge(W!Fields) \/ W!Judge([W!Fields EXCEPT !.chunk_sz = W!Number(wire)])
        \/ \E n \in -1 .. 1 : W!Judge([W!Fields EXCEPT !.chunk_sz = n, !.guess = TRUE])
    BY <1>5 DEF W!HandleFields
  <2> QED
    BY <2>1, <2>2, WebJudges
\* Steps that touch no session.
<1>6. CASE \/ W!webclient_connect_fails \/ W!webclient_send_header_fails \/ W!webclient_write
           \/ W!ReadHeaderLine \/ W!HeaderEnds \/ W!HeaderFails \/ W!HandleFieldsFails
           \/ W!UseFails \/ W!ReadsNoMore \/ W!ReadPlain \/ W!ReceivePart
  <2>1. W!Present
    BY WebParts
  <2>2. pc = "part" => cur = 1
    BY <2>1 DEF W!Present, W!Working
  <2>3. /\ W!Working /\ UNCHANGED <<op, cur, block, socket, lost>> /\ (W!Working' \/ pc' = "close")
        /\ (pc' \in {"read", "part"} => cur = 1)
    <3>1. CASE W!webclient_connect_fails
      BY <3>1 DEF W!webclient_connect_fails, W!Working
    <3>2. CASE W!webclient_send_header_fails
      BY <3>2 DEF W!webclient_send_header_fails, W!Working
    <3>3. CASE W!webclient_write
      BY <3>3 DEF W!webclient_write, W!Working
    <3>4. CASE W!ReadHeaderLine
      BY <3>4 DEF W!ReadHeaderLine, W!Working
    <3>5. CASE W!HeaderEnds
      BY <3>5 DEF W!HeaderEnds, W!Working
    <3>6. CASE W!HeaderFails
      BY <3>6 DEF W!HeaderFails, W!Working
    <3>7. CASE W!HandleFieldsFails
      BY <3>7 DEF W!HandleFieldsFails, W!Working
    <3>8. CASE W!UseFails
      BY <3>8 DEF W!UseFails, W!Working
    <3>9. CASE W!ReadsNoMore
      BY <3>9 DEF W!ReadsNoMore, W!Working
    <3>10. CASE W!ReadPlain
      <4>1. pc = "read" /\ pc' = "part" /\ UNCHANGED <<op, cur, block, socket, lost>>
        BY <3>10 DEF W!ReadPlain
      <4> QED
        BY <2>1, <4>1 DEF W!Working, W!Present
    <3>11. CASE W!ReceivePart
      <4>1. pc = "part" /\ pc' \in {"read", "part"} /\ UNCHANGED <<op, cur, block, socket, lost>>
        BY <3>11 DEF W!ReceivePart, W!Returns
      <4> QED
        BY <2>2, <4>1 DEF W!Working
    <3> QED
      BY <1>6, <3>1, <3>2, <3>3, <3>4, <3>5, <3>6, <3>7, <3>8, <3>9, <3>10, <3>11
  <2> QED
    BY <2>3, WebQuiet
<1>7. CASE W!Cut
  <2>1. UNCHANGED <<pc, op, cur, block, socket, lost, answer>>
    BY <1>7 DEF W!Cut
  <2> QED
    BY <2>1 DEF W!ReleasedInv, W!Working, W!ClosedBefore, W!Present, W!Spent, W!Given, W!Released, W!Over
\* Steps that may open or close the socket of the present session.
<1>8. CASE W!webclient_connect \/ W!webclient_write_fails \/ W!ReadChunk \/ W!ReadChunkFails \/ W!PartFails
  <2>1. W!Present
    BY WebParts
  <2>2. pc \in {"read", "part"} => cur = 1
    BY <2>1 DEF W!Present, W!Working
  <2>3. /\ W!Working /\ UNCHANGED <<op, cur, block, lost>> /\ (W!Working' \/ pc' = "close")
        /\ (pc' \in {"read", "part"} => cur = 1)
        /\ socket' = socket \/ \E v \in SocketStates : socket' = [socket EXCEPT ![cur] = v]
    <3>1. CASE W!webclient_connect
      BY <3>1 DEF W!webclient_connect, W!Working, SocketStates
    <3>2. CASE W!webclient_write_fails
      BY <3>2 DEF W!webclient_write_fails, W!Working, SocketStates
    <3>3. CASE W!ReadChunk
      <4>1. /\ pc = "read" /\ UNCHANGED <<pc, op, cur, block, lost>>
            /\ socket' = socket \/ socket' = [socket EXCEPT ![1] = "closed"]
        BY <3>3 DEF W!ReadChunk, W!webclient_next_chunk
      <4> QED
        BY <2>2, <4>1 DEF W!Working, SocketStates
    <3>4. CASE W!ReadChunkFails
      <4>1. /\ pc = "read" /\ pc' = "close" /\ UNCHANGED <<op, cur, block, lost>>
            /\ socket' = socket \/ socket' = [socket EXCEPT ![1] = "closed"]
        BY <3>4 DEF W!ReadChunkFails
      <4> QED
        BY <2>2, <4>1 DEF W!Working, SocketStates
    <3>5. CASE W!PartFails
      <4>1. /\ pc = "part" /\ pc' \in {"read", "close"} /\ UNCHANGED <<op, cur, block, lost>>
            /\ socket' = socket \/ socket' = [socket EXCEPT ![1] = "closed"]
        BY <3>5 DEF W!PartFails, W!Returns
      <4> QED
        BY <2>2, <4>1 DEF W!Working, SocketStates
    <3> QED
      BY <1>8, <3>1, <3>2, <3>3, <3>4, <3>5
  <2> QED
    BY <2>3, WebQuiet, WebSocketChanges
<1>9. CASE UNCHANGED requestVars
  <2>1. UNCHANGED <<pc, op, cur, block, socket, lost, answer>>
    BY <1>9 DEF requestVars
  <2> QED
    BY <2>1 DEF W!ReleasedInv, W!Working, W!ClosedBefore, W!Present, W!Spent, W!Given, W!Released, W!Over
<1> QED
  BY <1>1, <1>2, <1>3, <1>4, <1>5, <1>6, <1>7, <1>8, <1>9 DEF W!Next

-----------------------------------------------------------------------------
(* Resolver: one connection to the name server at a time, and one end.     *)

Reasons == {"ok", "no answers", "retries", "timeout"}
Polled ==
  [phase : {"connecting", "open"}, bad : BOOLEAN, closing : BOOLEAN, queued : Nat, retries : 0 .. LookupRetries + 1,
   age : 0 .. LookupTimeout, err : Reasons, req : BOOLEAN, sent : Nat,
   reply : {"", "address", "alias"}, from : 0 .. LookupRetries]

\* The connection to the name server within a round: while it does not close
\* nothing came of it, and if it does, an answer or an end is reported.
Unanswered(d) == ~d.closing /\ d.err = "ok" /\ d.req /\ d.reply = "" /\ d.from = 0
ClosesDown(d) == d.closing /\ (d.req <=> d.reply = "") /\ (d.reply # "" => d.err = "ok")
Within(d) ==
  /\ d \in Polled /\ d.phase = "open" /\ d.queued <= d.retries
  /\ Unanswered(d) \/ ClosesDown(d)

LEMMA ResolverNumbers ==
  ASSUME R!ResolverAssumption
  PROVE  /\ LookupRetries \in Nat /\ LookupRetries > 0 /\ LookupTimeout \in Nat /\ LookupTimeout > 0
         /\ MaxConnects \in Nat /\ MaxLost \in Nat /\ LookupReplies \subseteq {"address", "alias", "none"}
BY DEF R!ResolverAssumption

LEMMA ResolverNone ==
  /\ R!NoDns.phase = "none" /\ R!NoDns.retries = 0 /\ R!NoDns.age = 0
BY DEF R!NoDns

\* With no connection to the name server nothing grows older.
LEMMA ResolverStill == [R!NoDns EXCEPT !.age = 0] = R!NoDns
<1> DEFINE S == [phase : {"none"}, bad : BOOLEAN, closing : BOOLEAN, queued : Nat, retries : Nat, age : Nat,
                 err : {"ok"}, req : BOOLEAN, sent : Nat, reply : {""}, from : Nat]
<1>1. R!NoDns \in S
  BY DEF R!NoDns
<1>2. \A d \in S : [d EXCEPT !.age = d.age] = d
  OBVIOUS
<1> QED
  BY <1>1, <1>2, ResolverNone

\* A query is made and counted.
LEMMA ResolverAsks ==
  ASSUME R!ResolverAssumption, NEW d \in Polled, d.queued <= d.retries, d.retries <= LookupRetries
  PROVE  /\ R!Asks(d) \in Polled /\ R!Asks(d).queued <= R!Asks(d).retries
         /\ R!Asks(d).phase = d.phase /\ R!Asks(d).closing = d.closing /\ R!Asks(d).err = d.err
         /\ R!Asks(d).req = d.req /\ R!Asks(d).reply = d.reply /\ R!Asks(d).from = d.from /\ R!Asks(d).sent = d.sent
<1> DEFINE m == d.retries + 1
           n == IF d.queued = 0 THEN m ELSE d.queued
           a == [d EXCEPT !.queued = n]
           b == [a EXCEPT !.retries = m]
           c == [b EXCEPT !.age = 0]
<1>1. d.retries \in 0 .. LookupRetries + 1 /\ d.queued \in Nat /\ LookupRetries \in Nat /\ LookupTimeout \in Nat
  BY ResolverNumbers DEF Polled
<1>2. m \in 0 .. LookupRetries + 1 /\ n \in Nat /\ n <= m /\ 0 \in 0 .. LookupTimeout
  BY <1>1
<1>3. R!Asks(d) = c
  BY DEF R!Asks
<1> HIDE DEF m, n
<1>4. /\ a \in Polled /\ a.queued = n
      /\ a.phase = d.phase /\ a.closing = d.closing /\ a.err = d.err
      /\ a.req = d.req /\ a.reply = d.reply /\ a.from = d.from /\ a.sent = d.sent
  BY <1>2 DEF Polled
<1> HIDE DEF a
<1>5. /\ b \in Polled /\ b.queued = n /\ b.retries = m
      /\ b.phase = d.phase /\ b.closing = d.closing /\ b.err = d.err
      /\ b.req = d.req /\ b.reply = d.reply /\ b.from = d.from /\ b.sent = d.sent
  BY <1>2, <1>4 DEF Polled
<1> HIDE DEF b
<1>6. /\ c \in Polled /\ c.queued = n /\ c.retries = m
      /\ c.phase = d.phase /\ c.closing = d.closing /\ c.err = d.err
      /\ c.req = d.req /\ c.reply = d.reply /\ c.from = d.from /\ c.sent = d.sent
  BY <1>2, <1>5 DEF Polled
<1> HIDE DEF c
<1> QED
  BY <1>2, <1>3, <1>6

LEMMA ResolverConnected ==
  ASSUME R!ResolverAssumption, NEW d, R!Asking(d)
  PROVE  Within(R!Connected(d)) /\ R!Connected(d).sent = 0
<1>1. /\ d \in Polled /\ d.queued <= d.retries /\ Unanswered(d) /\ d.sent = 0 /\ d.bad \in BOOLEAN
      /\ (d.phase = "connecting" => d.retries = 0)
  <2>1. 0 \in 0 .. LookupRetries
    BY ResolverNumbers
  <2>2. /\ d \in [phase : {"connecting", "open"}, bad : BOOLEAN, closing : {FALSE}, queued : Nat,
                  retries : 0 .. LookupRetries + 1, age : 0 .. LookupTimeout, err : {"ok"}, req : {TRUE}, sent : {0},
                  reply : {""}, from : {0}]
        /\ d.queued <= d.retries /\ (d.phase = "connecting" => d.retries = 0)
    BY DEF R!Asking
  <2>3. d.sent = 0 /\ d.bad \in BOOLEAN /\ Unanswered(d)
    BY <2>2 DEF Unanswered
  <2>4. "ok" \in Reasons /\ "" \in {"", "address", "alias"} /\ FALSE \in BOOLEAN /\ TRUE \in BOOLEAN /\ 0 \in Nat
    BY DEF Reasons
  <2>5. d \in Polled
    BY <2>1, <2>2, <2>4 DEF Polled
  <2> QED
    BY <2>2, <2>3, <2>5
<1>2. CASE d.phase # "connecting"
  <2>1. R!Connected(d) = d /\ d.phase = "open"
    BY <1>1, <1>2 DEF R!Connected, Polled
  <2> QED
    BY <1>1, <2>1 DEF Within
<1>3. CASE d.phase = "connecting"
  <2> DEFINE a == [d EXCEPT !.phase = "open"]
             b == [a EXCEPT !.closing = d.bad]
  <2>1. R!Connected(d) = R!Asks(b)
    BY <1>3 DEF R!Connected
  <2>2. /\ a \in Polled /\ a.phase = "open" /\ a.queued = d.queued /\ a.retries = d.retries
        /\ a.err = "ok" /\ a.req /\ a.reply = "" /\ a.from = 0 /\ a.sent = 0
    BY <1>1 DEF Polled, Unanswered
  <2> HIDE DEF a
  <2>3. /\ b \in Polled /\ b.phase = "open" /\ b.queued = d.queued /\ b.retries = d.retries
        /\ b.err = "ok" /\ b.req /\ b.reply = "" /\ b.from = 0 /\ b.sent = 0 /\ b.closing = d.bad
    BY <1>1, <2>2 DEF Polled
  <2> HIDE DEF b
  <2>4. b.queued <= b.retries /\ b.retries <= LookupRetries
    <3>1. b.retries = 0 /\ b.queued = d.queued /\ d.queued <= 0
      BY <1>1, <1>3, <2>3
    <3> QED
      BY <3>1, ResolverNumbers
  <2> QED
    BY <1>1, <2>1, <2>3, <2>4, ResolverAsks DEF Within, Unanswered, ClosesDown
<1> QED
  BY <1>2, <1>3

LEMMA ResolverReceives ==
  ASSUME R!ResolverAssumption, NEW d, Within(d),
         NEW a \in [query : 1 .. LookupRetries, reply : LookupReplies] \union {R!NoReply}
  PROVE  Within(R!Receives(d, a)) /\ R!Receives(d, a).sent = d.sent
<1>1. a.reply \in {"", "address", "alias", "none"} /\ (a.reply # "" => a.query \in 0 .. LookupRetries)
  <2>1. CASE a = R!NoReply
    BY <2>1 DEF R!NoReply
  <2>2. CASE a \in [query : 1 .. LookupRetries, reply : LookupReplies]
    <3>1. a.query \in 1 .. LookupRetries /\ a.reply \in LookupReplies
      BY <2>2
    <3>2. a.query \in 0 .. LookupRetries
      BY <3>1, ResolverNumbers
    <3>3. a.reply \in {"address", "alias", "none"}
      BY <3>1, ResolverNumbers
    <3> QED
      BY <3>2, <3>3
  <2> QED
    BY <2>1, <2>2
<1>2. CASE a.reply = "" \/ d.closing
  BY <1>2 DEF R!Receives
<1>3. CASE ~(a.reply = "" \/ d.closing) /\ a.reply \in {"address", "alias"}
  <2> DEFINE b == [d EXCEPT !.reply = a.reply]
             c == [b EXCEPT !.from = a.query]
             e == [c EXCEPT !.closing = TRUE]
             f == [e EXCEPT !.req = FALSE]
  <2>1. R!Receives(d, a) = f
    BY <1>3 DEF R!Receives, R!Forgotten
  <2>2. a.query \in 0 .. LookupRetries /\ a.reply \in {"", "address", "alias"}
    BY <1>1, <1>3
  <2>3. /\ b \in Polled /\ b.phase = "open" /\ b.queued = d.queued /\ b.retries = d.retries
        /\ b.reply # "" /\ b.sent = d.sent /\ b.err = "ok"
    BY <1>3, <2>2 DEF Polled, Within, Unanswered, ClosesDown
  <2> HIDE DEF b
  <2>4. /\ c \in Polled /\ c.phase = "open" /\ c.queued = d.queued /\ c.retries = d.retries
        /\ c.reply # "" /\ c.sent = d.sent /\ c.err = "ok"
    BY <2>2, <2>3 DEF Polled
  <2> HIDE DEF c
  <2>5. /\ e \in Polled /\ e.phase = "open" /\ e.queued = d.queued /\ e.retries = d.retries
        /\ e.reply # "" /\ e.sent = d.sent /\ e.err = "ok" /\ e.closing
    BY <2>4 DEF Polled
  <2> HIDE DEF e
  <2>6. /\ f \in Polled /\ f.phase = "open" /\ f.queued = d.queued /\ f.retries = d.retries
        /\ f.reply # "" /\ f.sent = d.sent /\ f.err = "ok" /\ f.closing /\ ~f.req
    BY <2>5 DEF Polled
  <2> HIDE DEF f
  <2> QED
    BY <2>1, <2>6 DEF Within, ClosesDown
<1>4. CASE ~(a.reply = "" \/ d.closing) /\ a.reply \notin {"address", "alias"}
  <2> DEFINE b == [d EXCEPT !.closing = TRUE]
             c == [b EXCEPT !.err = "no answers"]
  <2>1. R!Receives(d, a) = c
    BY <1>4 DEF R!Receives
  <2>2. d.req /\ d.reply = ""
    BY <1>4 DEF Within, Unanswered, ClosesDown
  <2>3. /\ b \in Polled /\ b.phase = "open" /\ b.queued = d.queued /\ b.retries = d.retries
        /\ b.reply = "" /\ b.sent = d.sent /\ b.closing /\ b.req
    BY <2>2 DEF Polled, Within
  <2> HIDE DEF b
  <2>4. /\ c \in Polled /\ c.phase = "open" /\ c.queued = d.queued /\ c.retries = d.retries
        /\ c.reply = "" /\ c.sent = d.sent /\ c.closing /\ c.req
    BY <2>3 DEF Polled, Reasons
  <2> HIDE DEF c
  <2> QED
    BY <2>1, <2>4 DEF Within, ClosesDown
<1> QED
  BY <1>2, <1>3, <1>4

LEMMA ResolverWrites ==
  ASSUME R!ResolverAssumption, NEW d, Within(d), d.sent = 0, NEW ok \in BOOLEAN
  PROVE  Within(R!Writes(d, ok)) /\ R!Writes(d, ok).sent <= R!Writes(d, ok).retries
<1>1. d \in Polled /\ d.retries \in Nat /\ d.queued \in Nat /\ d.queued <= d.retries
  <2>1. d \in Polled /\ d.queued <= d.retries
    BY DEF Within
  <2>2. d.retries \in 0 .. LookupRetries + 1 /\ d.queued \in Nat
    BY <2>1 DEF Polled
  <2> QED
    BY <2>1, <2>2, ResolverNumbers
<1>2. CASE d.closing \/ ~ok
  BY <1>1, <1>2 DEF R!Writes
<1>3. CASE ~(d.closing \/ ~ok)
  <2> DEFINE n == d.queued
             b == [d EXCEPT !.queued = 0]
             c == [b EXCEPT !.sent = n]
  <2>1. R!Writes(d, ok) = c
    BY <1>3 DEF R!Writes
  <2>2. n \in Nat /\ n <= d.retries
    BY <1>1
  <2>3. d.phase = "open" /\ Unanswered(d)
    BY <1>3 DEF Within, ClosesDown
  <2> HIDE DEF n
  <2>4. b \in Polled /\ b.phase = "open" /\ b.queued = 0 /\ b.retries = d.retries /\ Unanswered(b)
    BY <1>1, <2>3 DEF Polled, Unanswered
  <2> HIDE DEF b
  <2>5. c \in Polled /\ c.phase = "open" /\ c.queued = 0 /\ c.retries = d.retries /\ c.sent = n /\ Unanswered(c)
    BY <2>2, <2>4 DEF Polled, Unanswered
  <2> HIDE DEF c
  <2> QED
    BY <1>1, <2>1, <2>2, <2>5 DEF Within
<1> QED
  BY <1>2, <1>3

\* A connection ends in a round, with a reason.
LEMMA ResolverClosing ==
  ASSUME R!ResolverAssumption, NEW d, Within(d), d.req, d.reply = "", NEW why \in Reasons
  PROVE  LET e == [d EXCEPT !.closing = TRUE, !.err = why]
         IN  Within(e) /\ e.closing /\ e.req /\ e.reply = ""
<1> DEFINE b == [d EXCEPT !.closing = TRUE]
           c == [b EXCEPT !.err = why]
<1>1. /\ b \in Polled /\ b.phase = "open" /\ b.queued <= b.retries
      /\ b.closing /\ b.req /\ b.reply = ""
  BY DEF Within, Polled
<1> HIDE DEF b
<1>2. /\ c \in Polled /\ c.phase = "open" /\ c.queued <= c.retries
      /\ c.closing /\ c.req /\ c.reply = ""
  BY <1>1 DEF Polled
<1>3. [d EXCEPT !.closing = TRUE, !.err = why] = c
  BY DEF b
<1> HIDE DEF c
<1>4. Within(c)
  BY <1>2 DEF Within, ClosesDown
<1> QED
  BY <1>2, <1>3, <1>4

\* The last query is counted in the round before the one that sends it, and
\* that round closes the connection.
LEMMA ResolverRound ==
  ASSUME R!ResolverAssumption, NEW d, R!Asking(d),
         NEW a \in [query : 1 .. LookupRetries, reply : LookupReplies] \union {R!NoReply}, NEW ok \in BOOLEAN
  PROVE  /\ Within(R!Round(d, a, ok))
         /\ ~R!Round(d, a, ok).closing => R!Round(d, a, ok).sent \in 0 .. LookupRetries
<1> DEFINE r == R!Receives(R!Connected(d), a)
           w == R!Writes(r, ok)
<1>1. Within(r) /\ r.sent = 0
  BY ResolverConnected, ResolverReceives
<1> HIDE DEF r
<1>2. Within(w) /\ w.sent <= w.retries
  BY <1>1, ResolverWrites
<1>3. R!Round(d, a, ok) = IF w.closing THEN w ELSE R!Timed(R!Polls(w), alarm = 0)
  BY DEF R!Round, r
<1> HIDE DEF w
<1>4. CASE w.closing
  BY <1>2, <1>3, <1>4
<1>5. CASE ~w.closing
  <2>1. Unanswered(w) /\ w \in Polled /\ w.retries \in Nat /\ w.sent \in Nat
    <3>1. Unanswered(w) /\ w \in Polled
      BY <1>2, <1>5 DEF Within, ClosesDown
    <3>2. w.retries \in 0 .. LookupRetries + 1 /\ w.sent \in Nat
      BY <3>1 DEF Polled
    <3> QED
      BY <3>1, <3>2, ResolverNumbers
  <2> DEFINE p == R!Polls(w)
  <2>2. Within(p) /\ p.req /\ p.reply = "" /\ (p.closing \/ p.sent \in 0 .. LookupRetries)
    <3>1. CASE R!Exceeded(w)
      <4> DEFINE e == [w EXCEPT !.closing = TRUE, !.err = "retries"]
      <4>1. p = e
        BY <1>5, <3>1 DEF R!Polls
      <4>2. "retries" \in Reasons
        BY DEF Reasons
      <4>3. Within(e) /\ e.closing /\ e.req /\ e.reply = ""
        <5>1. w.req /\ w.reply = "" /\ Within(w)
          BY <1>2, <2>1 DEF Unanswered
        <5> HIDE DEF p
        <5> QED
          BY <4>2, <5>1, ResolverClosing
      <4> HIDE DEF e, p
      <4> QED
        BY <4>1, <4>3
    <3>2. CASE ~R!Exceeded(w)
      <4>1. w.retries <= LookupRetries /\ w.sent \in 0 .. LookupRetries
        BY <1>2, <2>1, <3>2, ResolverNumbers DEF R!Exceeded
      <4>2. CASE w.age >= LookupTimeout
        <5>1. p = R!Asks(w)
          BY <1>5, <3>2, <4>2 DEF R!Polls
        <5> HIDE DEF p
        <5> QED
          BY <1>2, <2>1, <4>1, <5>1, ResolverAsks DEF Within, Unanswered
      <4>3. CASE ~(w.age >= LookupTimeout)
        <5>1. p = w
          BY <1>5, <3>2, <4>3 DEF R!Polls
        <5> QED
          BY <1>2, <2>1, <4>1, <5>1 DEF Unanswered
      <4> QED
        BY <4>2, <4>3
    <3> QED
      BY <3>1, <3>2
  <2> HIDE DEF p
  <2>3. R!Round(d, a, ok) = R!Timed(p, alarm = 0)
    BY <1>3, <1>5 DEF p
  <2> QED
    <3>1. CASE alarm = 0
      <4>1. "timeout" \in Reasons
        BY DEF Reasons
      <4> DEFINE e == [p EXCEPT !.closing = TRUE, !.err = "timeout"]
      <4>2. R!Timed(p, alarm = 0) = e
        BY <3>1 DEF R!Timed
      <4>3. Within(e) /\ e.closing /\ e.req /\ e.reply = ""
        BY <2>2, <4>1, ResolverClosing
      <4> HIDE DEF e
      <4> QED
        BY <2>3, <4>2, <4>3
    <3>2. CASE alarm # 0
      <4>1. R!Timed(p, alarm = 0) = p
        BY <3>2 DEF R!Timed
      <4> QED
        BY <2>2, <2>3, <4>1
    <3> QED
      BY <3>1, <3>2
<1> QED
  BY <1>4, <1>5

\* A round reports one thing, or nothing.
LEMMA ResolverCalls ==
  ASSUME NEW d, Within(d)
  PROVE  /\ R!CallsOf(d) = <<>> <=> ~d.closing
         /\ d.closing => Len(R!CallsOf(d)) = 1 /\ Len(<<>> \o R!CallsOf(d)) = 1
<1>1. CASE ~d.closing
  <2>1. R!CallsOf(d) = <<>> \o <<>>
    BY <1>1 DEF R!CallsOf, Within, Unanswered, ClosesDown
  <2> QED
    BY <1>1, <2>1
<1>2. CASE d.closing /\ d.reply = ""
  <2>1. R!CallsOf(d) = <<>> \o <<d.err>>
    BY <1>2 DEF R!CallsOf, Within, Unanswered, ClosesDown
  <2>2. <<>> \o <<d.err>> = <<d.err>> /\ Len(<<d.err>>) = 1 /\ <<d.err>> # <<>>
    OBVIOUS
  <2> QED
    BY <1>2, <2>1, <2>2
<1>3. CASE d.closing /\ d.reply # ""
  <2>1. R!CallsOf(d) = <<"ok">> \o <<>>
    BY <1>3 DEF R!CallsOf, Within, Unanswered, ClosesDown
  <2>2. <<"ok">> \o <<>> = <<"ok">> /\ Len(<<"ok">>) = 1 /\ <<"ok">> # <<>> /\ <<>> \o <<"ok">> = <<"ok">>
    OBVIOUS
  <2> QED
    BY <1>3, <2>1, <2>2
<1> QED
  BY <1>1, <1>2, <1>3

LEMMA ResolverParts ==
  ASSUME R!ResolverAssumption, R!ResolverInv
  PROVE  /\ nc \in {"none", "resolving", "connecting", "open", "gone"} /\ alarm \in -1 .. LookupTimeout + 1
         /\ made \in 0 .. MaxConnects /\ failures \in 0 .. MaxLost /\ used \in 0 .. LookupRetries
         /\ IF nc = "resolving" THEN R!Asking(dns) /\ heard = <<>> ELSE dns = R!NoDns
         /\ queries \subseteq 1 .. LookupRetries /\ replies \subseteq [query : 1 .. LookupRetries, reply : LookupReplies]
         /\ heard \in Seq(R!Events) /\ (nc = "resolving" => calls = <<>>)
         /\ (nc \in {"connecting", "open", "gone"} => Len(calls) = 1)
         /\ (nc # "gone" => ~fired /\ \A i \in 1 .. Len(heard) : heard[i] # "close")
         /\ (nc = "gone" => R!HeardInOrder /\ Len(heard) > 1) /\ fired \in BOOLEAN
<1>1. used \in 0 .. LookupRetries
  BY ResolverNumbers DEF R!ResolverInv, R!TypeOK, R!LastQueryInVain
<1> QED
  BY <1>1 DEF R!ResolverInv, R!TypeOK, R!CalledOnce, R!HeardInOrder

\* The parts make the whole.
LEMMA ResolverWhole ==
  ASSUME R!ResolverAssumption,
         nc' \in {"none", "resolving", "connecting", "open", "gone"}, alarm' \in -1 .. LookupTimeout + 1,
         made' \in 0 .. MaxConnects, failures' \in 0 .. MaxLost, used' \in 0 .. LookupRetries,
         IF nc' = "resolving" THEN R!Asking(dns') /\ heard' = <<>> ELSE dns' = R!NoDns,
         queries' \subseteq 1 .. LookupRetries, replies' \subseteq [query : 1 .. LookupRetries, reply : LookupReplies],
         heard' \in Seq(R!Events), nc' = "resolving" => calls' = <<>>,
         nc' \in {"connecting", "open", "gone"} => Len(calls') = 1,
         nc' # "gone" => ~fired' /\ \A i \in 1 .. Len(heard') : heard'[i] # "close",
         nc' = "gone" => R!HeardInOrder' /\ Len(heard') > 1, fired' \in BOOLEAN
  PROVE  R!ResolverInv'
<1>1. used' \in 0 .. LookupRetries + 1 /\ used' <= LookupRetries /\ queries' \subseteq 1 .. LookupRetries + 1
  BY ResolverNumbers
<1>2. dns'.phase \in {"none", "connecting", "open"} /\ dns'.retries \in 0 .. LookupRetries + 1 /\ dns'.age \in 0 .. LookupTimeout
  <2>1. CASE nc' = "resolving"
    BY <2>1 DEF R!Asking
  <2>2. CASE nc' # "resolving"
    <3>1. dns' = R!NoDns /\ 0 \in 0 .. LookupRetries + 1 /\ 0 \in 0 .. LookupTimeout
      BY <2>2, ResolverNumbers
    <3> QED
      BY <3>1, ResolverNone
  <2> QED
    BY <2>1, <2>2
<1>3. R!TypeOK'
  BY <1>1, <1>2 DEF R!TypeOK
<1>4. R!CalledOnce'
  BY DEF R!CalledOnce, R!Asking
<1>5. R!HeardInOrder'
  <2>1. CASE nc' = "gone"
    BY <2>1
  <2>2. CASE nc' # "gone"
    <3>1. DOMAIN heard' = 1 .. Len(heard')
      OBVIOUS
    <3> QED
      BY <2>2, <3>1 DEF R!HeardInOrder
  <2> QED
    BY <2>1, <2>2
<1> QED
  BY <1>1, <1>3, <1>4, <1>5 DEF R!ResolverInv, R!LastQueryInVain

\* The last that is heard.
LEMMA ResolverLast ==
  ASSUME NEW h \in Seq(R!Events), \A i \in 1 .. Len(h) : h[i] # "close"
  PROVE  LET e == h \o <<"failed", "close">>
         IN  /\ e \in Seq(R!Events) /\ Len(e) > 1 /\ e[Len(e) - 1] = "failed"
             /\ \A i \in DOMAIN e : e[i] = "close" <=> i = Len(e)
             /\ \A i \in 1 .. Len(h) : i \in DOMAIN e /\ e[i] = h[i]
<1> DEFINE e == h \o <<"failed", "close">>
           x == <<"failed", "close">>
           n == Len(h)
<1>1. x \in Seq(R!Events) /\ Len(x) = 2 /\ x[1] = "failed" /\ x[2] = "close"
  BY DEF R!Events
<1>2. n \in Nat
  OBVIOUS
<1> HIDE DEF x, n, e
<1>3. /\ e \in Seq(R!Events) /\ Len(e) = n + 2 /\ DOMAIN e = 1 .. n + 2
      /\ \A i \in 1 .. n : e[i] = h[i]
      /\ e[n + 1] = x[1] /\ e[n + 2] = x[2]
  BY <1>1, <1>2 DEF e, x, n
<1>4. \A i \in 1 .. n + 2 : i \in 1 .. n \/ i = n + 1 \/ i = n + 2
  BY <1>2
<1>5. \A i \in 1 .. n : i # n + 2
  BY <1>2
<1>6. \A i \in 1 .. n : h[i] # "close"
  BY DEF n
<1>7. \A i \in 1 .. n + 2 : e[i] = "close" <=> i = n + 2
  <2> SUFFICES ASSUME NEW i \in 1 .. n + 2 PROVE e[i] = "close" <=> i = n + 2
    OBVIOUS
  <2>1. CASE i \in 1 .. n
    BY <1>3, <1>5, <1>6, <2>1
  <2>2. CASE i = n + 1
    BY <1>1, <1>2, <1>3, <2>2
  <2>3. CASE i = n + 2
    BY <1>1, <1>3, <2>3
  <2> QED
    BY <1>4, <2>1, <2>2, <2>3
<1>8. (n + 2) - 1 = n + 1 /\ n + 2 > 1 /\ \A i \in 1 .. n : i \in 1 .. n + 2
  BY <1>2
<1> HIDE DEF e
<1>9. /\ e \in Seq(R!Events) /\ Len(e) > 1 /\ e[Len(e) - 1] = "failed"
      /\ \A i \in DOMAIN e : e[i] = "close" <=> i = Len(e)
      /\ \A i \in 1 .. Len(h) : i \in DOMAIN e /\ e[i] = h[i]
  BY <1>1, <1>3, <1>7, <1>8 DEF n
<1> QED
  BY <1>9 DEF e

\* A request is made.
LEMMA ResolverConnects ==
  ASSUME R!ResolverAssumption, R!ResolverInv, made < MaxConnects, failures' \in 0 .. MaxLost,
         NEW k \in {-1, 1, LookupTimeout + 1}, NEW bad \in BOOLEAN, R!Connects(k, bad)
  PROVE  R!ResolverInv'
<1>1. /\ made' = made + 1 /\ nc' = "resolving" /\ alarm' = k
      /\ dns' = [R!NoDns EXCEPT !.phase = "connecting", !.bad = bad, !.req = TRUE]
      /\ queries' = {} /\ replies' = {} /\ heard' = <<>> /\ calls' = <<>> /\ used' = 0 /\ fired' = FALSE
  BY DEF R!Connects
<1>2. made' \in 0 .. MaxConnects /\ alarm' \in -1 .. LookupTimeout + 1 /\ used' \in 0 .. LookupRetries
  BY <1>1, ResolverParts, ResolverNumbers
<1>3. dns' = [phase |-> "connecting", bad |-> bad, closing |-> FALSE, queued |-> 0, retries |-> 0, age |-> 0,
              err |-> "ok", req |-> TRUE, sent |-> 0, reply |-> "", from |-> 0]
  BY <1>1 DEF R!NoDns
<1>4. R!Asking(dns')
  <2>1. 0 \in 0 .. LookupRetries + 1 /\ 0 \in 0 .. LookupTimeout
    BY ResolverNumbers
  <2>2. dns' \in [phase : {"connecting", "open"}, bad : BOOLEAN, closing : {FALSE}, queued : Nat,
                  retries : 0 .. LookupRetries + 1, age : 0 .. LookupTimeout, err : {"ok"}, req : {TRUE}, sent : {0},
                  reply : {""}, from : {0}]
    BY <1>3, <2>1
  <2>3. dns'.queued = 0 /\ dns'.retries = 0
    BY <1>3
  <2> DEFINE e == dns'
  <2>4. e.queued <= e.retries
    <3> HIDE DEF e
    <3>1. e.queued = 0 /\ e.retries = 0
      BY <2>3 DEF e
    <3> QED
      BY <3>1
  <2> QED
    BY <2>2, <2>3, <2>4 DEF R!Asking
<1>5. heard' \in Seq(R!Events) /\ Len(heard') = 0
  BY <1>1
<1>6. \A i \in 1 .. Len(heard') : heard'[i] # "close"
  BY <1>5
<1> QED
  BY <1>1, <1>2, <1>4, <1>5, <1>6, ResolverWhole

LEMMA ResolverInit == R!ResolverAssumption /\ R!Init => R!ResolverInv
<1> SUFFICES ASSUME R!ResolverAssumption, R!Init PROVE R!ResolverInv
  OBVIOUS
<1>1. /\ nc = "none" /\ dns = R!NoDns /\ alarm = -1 /\ queries = {} /\ replies = {} /\ made = 0
      /\ failures \in 0 .. MaxLost /\ heard = <<>> /\ calls = <<>> /\ used = 0 /\ fired = FALSE
  BY DEF R!Init
<1>2. R!TypeOK
  <2>1. 0 \in 0 .. LookupRetries + 1 /\ 0 \in 0 .. LookupTimeout /\ -1 \in -1 .. LookupTimeout + 1 /\ 0 \in 0 .. MaxConnects
    BY ResolverNumbers
  <2> QED
    BY <1>1, <2>1, ResolverNone DEF R!TypeOK
<1>3. R!CalledOnce /\ R!LastQueryInVain /\ R!HeardInOrder
  BY <1>1, ResolverNumbers DEF R!CalledOnce, R!LastQueryInVain, R!HeardInOrder
<1>4. heard \in Seq(R!Events)
  BY <1>1
<1> QED
  BY <1>1, <1>2, <1>3, <1>4 DEF R!ResolverInv

\* A round of the connection to the name server.
LEMMA ResolverPolls ==
  ASSUME R!ResolverAssumption, R!ResolverInv, R!PollDns
  PROVE  R!ResolverInv'
<1>1. nc = "resolving" /\ R!Asking(dns) /\ heard = <<>> /\ calls = <<>> /\ fired = FALSE
  <2>1. dns # R!NoDns
    BY ResolverNone DEF R!PollDns
  <2> QED
    BY <2>1, ResolverParts
<1>2. PICK a \in replies \union {R!NoReply}, ok \in BOOLEAN, again \in BOOLEAN :
        LET d == R!Round(dns, a, ok)
        IN IF R!CallsOf(d) # <<>> /\ again /\ d.reply # "address"
             THEN R!resolve_cb(d, TRUE)
             ELSE /\ ~again /\ R!resolve_cb(d, FALSE)
                  /\ replies' = IF R!CallsOf(d) # <<>> THEN {} ELSE replies \ {a}
                  /\ queries' = IF R!CallsOf(d) # <<>> THEN {} ELSE queries \union ({d.sent} \ {0})
  BY DEF R!PollDns
<1> DEFINE d == R!Round(dns, a, ok)
<1>3. a \in [query : 1 .. LookupRetries, reply : LookupReplies] \union {R!NoReply}
  BY <1>2, ResolverParts
<1>4. Within(d) /\ (~d.closing => d.sent \in 0 .. LookupRetries)
  BY <1>1, <1>3, ResolverRound
<1>5. CASE R!CallsOf(d) # <<>> /\ again /\ d.reply # "address"
  <2>1. R!resolve_cb(d, TRUE)
    BY <1>2, <1>5
  <2>2. made < MaxConnects /\ R!Connects(-1, FALSE) /\ UNCHANGED failures
    BY <1>5, <2>1 DEF R!resolve_cb
  <2> QED
    BY <2>2, ResolverParts, ResolverConnects
<1>6. CASE ~(R!CallsOf(d) # <<>> /\ again /\ d.reply # "address")
  <2>1. /\ R!resolve_cb(d, FALSE)
        /\ replies' = IF R!CallsOf(d) # <<>> THEN {} ELSE replies \ {a}
        /\ queries' = IF R!CallsOf(d) # <<>> THEN {} ELSE queries \union ({d.sent} \ {0})
    BY <1>2, <1>6
  <2> HIDE DEF d
  <2>2. CASE ~d.closing
    <3>1. R!CallsOf(d) = <<>> /\ Unanswered(d) /\ d \in Polled /\ d.phase = "open" /\ d.queued <= d.retries
      BY <1>4, <2>2, ResolverCalls DEF Within, ClosesDown
    <3>2. /\ UNCHANGED <<nc, alarm, made, heard, calls, used, failures>>
          /\ fired' = (fired \/ d.err = "timeout") /\ dns' = [d EXCEPT !.sent = 0]
      BY <2>1, <3>1 DEF R!resolve_cb
    <3>3. fired' = FALSE
      BY <1>1, <3>1, <3>2 DEF Unanswered
    <3>4. R!Asking(dns')
      <4> DEFINE b == [d EXCEPT !.sent = 0]
      <4>1. /\ b \in [phase : {"connecting", "open"}, bad : BOOLEAN, closing : {FALSE}, queued : Nat,
                      retries : 0 .. LookupRetries + 1, age : 0 .. LookupTimeout, err : {"ok"}, req : {TRUE},
                      sent : {0}, reply : {""}, from : {0}]
        BY <3>1 DEF Polled, Unanswered
      <4>2. b.queued = d.queued /\ b.retries = d.retries /\ b.phase = "open"
        BY <3>1 DEF Polled
      <4> HIDE DEF b
      <4>3. R!Asking(b)
        BY <3>1, <4>1, <4>2 DEF R!Asking
      <4> QED
        BY <3>2, <4>3 DEF b
    <3>5. replies' \subseteq replies /\ queries' = queries \union ({d.sent} \ {0})
      BY <2>1, <3>1
    <3>6. {d.sent} \ {0} \subseteq 1 .. LookupRetries
      BY <1>4, <2>2, ResolverNumbers
    <3> QED
      BY <1>1, <3>2, <3>3, <3>4, <3>5, <3>6, ResolverParts, ResolverWhole
  <2>3. CASE d.closing
    <3>1. R!CallsOf(d) # <<>> /\ Len(<<>> \o R!CallsOf(d)) = 1 /\ d.from \in 0 .. LookupRetries /\ d.err \in Reasons
      BY <1>4, <2>3, ResolverCalls DEF Within, Polled
    <3>2. /\ nc' = IF d.reply = "address" THEN "connecting" ELSE "gone"
          /\ heard' = IF d.reply = "address" THEN heard ELSE heard \o R!Told(d.err)
          /\ calls' = calls \o R!CallsOf(d) /\ used' = d.from
          /\ fired' = (fired \/ d.err = "timeout")
          /\ dns' = R!NoDns /\ UNCHANGED <<alarm, made, failures>>
      BY <2>1, <3>1 DEF R!resolve_cb
    <3>3. replies' = {} /\ queries' = {}
      BY <2>1, <3>1
    <3>4. Len(calls') = 1
      BY <1>1, <3>1, <3>2
    <3>5. fired' \in BOOLEAN /\ (fired' <=> d.err = "timeout")
      BY <1>1, <3>2
    <3>6. CASE d.reply = "address"
      <4>1. d.err # "timeout"
        BY <1>4, <2>3, <3>6 DEF Within, Unanswered, ClosesDown
      <4> QED
        BY <1>1, <3>1, <3>2, <3>3, <3>4, <3>5, <3>6, <4>1, ResolverParts, ResolverWhole
    <3>7. CASE d.reply # "address"
      <4> DEFINE x == IF d.err = "timeout" THEN <<"timer">> ELSE <<>>
      <4>1. nc' = "gone" /\ heard' = <<>> \o (x \o <<"failed", "close">>)
        BY <1>1, <3>2, <3>7 DEF R!Told
      <4>2. x \in Seq(R!Events) /\ \A i \in 1 .. Len(x) : x[i] # "close"
        <5>1. CASE d.err = "timeout"
          <6>1. x = <<"timer">>
            BY <5>1
          <6> HIDE DEF x
          <6>2. Len(x) = 1 /\ x[1] = "timer" /\ x \in Seq(R!Events)
            BY <6>1 DEF R!Events
          <6>3. \A i \in 1 .. 1 : i = 1
            OBVIOUS
          <6> QED
            BY <6>2, <6>3
        <5>2. CASE d.err # "timeout"
          BY <5>2
        <5> QED
          BY <5>1, <5>2
      <4>3. d.err = "timeout" => 1 \in 1 .. Len(x) /\ x[1] = "timer"
        OBVIOUS
      <4> HIDE DEF x
      <4>4. x \o <<"failed", "close">> \in Seq(R!Events)
        BY <4>2, ResolverLast
      <4>5. heard' = x \o <<"failed", "close">>
        BY <4>1, <4>4
      <4>6. /\ heard' \in Seq(R!Events) /\ Len(heard') > 1 /\ heard'[Len(heard') - 1] = "failed"
            /\ \A i \in DOMAIN heard' : heard'[i] = "close" <=> i = Len(heard')
            /\ \A i \in 1 .. Len(x) : i \in DOMAIN heard' /\ heard'[i] = x[i]
        BY <4>2, <4>5, ResolverLast
      <4>7. fired' => \E i \in DOMAIN heard' : heard'[i] = "timer"
        BY <3>5, <4>3, <4>6
      <4>8. R!HeardInOrder'
        BY <4>1, <4>6, <4>7 DEF R!HeardInOrder
      <4> QED
        BY <1>1, <3>1, <3>2, <3>3, <3>4, <3>5, <3>7, <4>1, <4>6, <4>8, ResolverParts, ResolverWhole
    <3> QED
      BY <3>6, <3>7
  <2> QED
    BY <2>2, <2>3
<1> QED
  BY <1>5, <1>6

\* What is heard behind what was heard.
LEMMA ResolverHears ==
  ASSUME NEW h \in Seq(R!Events), \A i \in 1 .. Len(h) : h[i] # "close",
         NEW x \in Seq(R!Events), \A i \in 1 .. Len(x) : x[i] # "close"
  PROVE  h \o x \in Seq(R!Events) /\ \A i \in 1 .. Len(h \o x) : (h \o x)[i] # "close"
<1> DEFINE n == Len(h)
           m == Len(x)
           e == h \o x
<1>1. n \in Nat /\ m \in Nat
  OBVIOUS
<1>2. /\ e \in Seq(R!Events) /\ Len(e) = n + m
      /\ \A i \in 1 .. n + m : e[i] = IF i <= n THEN h[i] ELSE x[i - n]
  OBVIOUS
<1>3. \A i \in 1 .. n : h[i] # "close"
  OBVIOUS
<1>4. \A i \in 1 .. m : x[i] # "close"
  OBVIOUS
<1> HIDE DEF n, m, e
<1>5. \A i \in 1 .. n + m : e[i] # "close"
  <2> SUFFICES ASSUME NEW i \in 1 .. n + m PROVE e[i] # "close"
    OBVIOUS
  <2>1. CASE i <= n
    <3>1. i \in 1 .. n
      BY <1>1, <2>1
    <3> QED
      BY <1>2, <1>3, <2>1, <3>1
  <2>2. CASE ~(i <= n)
    <3>1. i - n \in 1 .. m
      BY <1>1, <2>2
    <3> QED
      BY <1>2, <1>4, <2>2, <3>1
  <2> QED
    BY <2>1, <2>2
<1>6. e \in Seq(R!Events) /\ \A i \in 1 .. Len(e) : e[i] # "close"
  BY <1>2, <1>5
<1> QED
  BY <1>6 DEF e

\* A round of the program's connection.
LEMMA ResolverPollsNc ==
  ASSUME R!ResolverAssumption, R!ResolverInv, R!PollNc
  PROVE  R!ResolverInv'
<1>1. PICK out \in {"wait", "ok", "failed"} :
        /\ nc' = CASE out = "failed" -> "gone" [] out = "ok" -> "open" [] OTHER -> nc
        /\ alarm' = IF alarm = 0 /\ out # "failed" THEN -1 ELSE alarm
        /\ heard' = heard \o (CASE out = "failed" -> <<"failed", "close">>
                                [] nc = "connecting" /\ out = "ok" -> <<"connected">>
                                [] OTHER -> <<>>)
                          \o (IF alarm = 0 /\ out # "failed" THEN <<"timer">> ELSE <<>>)
  <2>1. CASE nc = "open"
    BY <2>1 DEF R!PollNc
  <2>2. CASE nc # "open"
    BY <2>2 DEF R!PollNc
  <2> QED
    BY <2>1, <2>2
<1>2. /\ nc \in {"connecting", "open"} /\ UNCHANGED <<dns, queries, replies, failures, made, calls, used, fired>>
      /\ dns = R!NoDns /\ Len(calls) = 1 /\ fired = FALSE
      /\ heard \in Seq(R!Events) /\ \A i \in 1 .. Len(heard) : heard[i] # "close"
      /\ alarm \in -1 .. LookupTimeout + 1
  <2>1. nc \in {"connecting", "open"} /\ UNCHANGED <<dns, queries, replies, failures, made, calls, used, fired>>
    BY DEF R!PollNc
  <2> QED
    BY <2>1, ResolverParts
<1>3. alarm' \in -1 .. LookupTimeout + 1
  BY <1>1, <1>2, ResolverNumbers
<1>4. CASE out = "failed"
  <2>1. nc' = "gone" /\ heard' = (heard \o <<"failed", "close">>) \o <<>>
    BY <1>1, <1>4
  <2>2. heard \o <<"failed", "close">> \in Seq(R!Events)
    BY <1>2, ResolverLast
  <2>3. heard' = heard \o <<"failed", "close">>
    BY <2>1, <2>2
  <2>4. /\ heard' \in Seq(R!Events) /\ Len(heard') > 1 /\ heard'[Len(heard') - 1] = "failed"
        /\ \A i \in DOMAIN heard' : heard'[i] = "close" <=> i = Len(heard')
    BY <1>2, <2>3, ResolverLast
  <2>5. fired' = FALSE
    BY <1>2
  <2>6. R!HeardInOrder'
    BY <2>1, <2>4, <2>5 DEF R!HeardInOrder
  <2> QED
    BY <1>2, <1>3, <2>1, <2>4, <2>5, <2>6, ResolverParts, ResolverWhole
<1>5. CASE out # "failed"
  <2> DEFINE x == IF nc = "connecting" /\ out = "ok" THEN <<"connected">> ELSE <<>>
             y == IF alarm = 0 THEN <<"timer">> ELSE <<>>
  <2>1. nc' \in {"connecting", "open"} /\ heard' = (heard \o x) \o y
    BY <1>1, <1>2, <1>5
  <2>2. x \in Seq(R!Events) /\ \A i \in 1 .. Len(x) : x[i] # "close"
    <3>1. <<"connected">> \in Seq(R!Events) /\ \A i \in 1 .. Len(<<"connected">>) : <<"connected">>[i] # "close"
      BY DEF R!Events
    <3>2. <<>> \in Seq(R!Events) /\ \A i \in 1 .. Len(<<>>) : <<>>[i] # "close"
      OBVIOUS
    <3> QED
      BY <3>1, <3>2
  <2>3. y \in Seq(R!Events) /\ \A i \in 1 .. Len(y) : y[i] # "close"
    <3>1. <<"timer">> \in Seq(R!Events) /\ \A i \in 1 .. Len(<<"timer">>) : <<"timer">>[i] # "close"
      BY DEF R!Events
    <3>2. <<>> \in Seq(R!Events) /\ \A i \in 1 .. Len(<<>>) : <<>>[i] # "close"
      OBVIOUS
    <3> QED
      BY <3>1, <3>2
  <2> HIDE DEF x, y
  <2>4. heard \o x \in Seq(R!Events) /\ \A i \in 1 .. Len(heard \o x) : (heard \o x)[i] # "close"
    BY <1>2, <2>2, ResolverHears
  <2>5. heard' \in Seq(R!Events) /\ \A i \in 1 .. Len(heard') : heard'[i] # "close"
    <3> DEFINE h == heard \o x
    <3>1. h \in Seq(R!Events) /\ \A i \in 1 .. Len(h) : h[i] # "close"
      BY <2>4
    <3> HIDE DEF h
    <3>2. h \o y \in Seq(R!Events) /\ \A i \in 1 .. Len(h \o y) : (h \o y)[i] # "close"
      BY <2>3, <3>1, ResolverHears
    <3>3. heard' = h \o y
      BY <2>1 DEF h
    <3> QED
      BY <3>2, <3>3
  <2> QED
    BY <1>2, <1>3, <2>1, <2>5, ResolverParts, ResolverWhole
<1> QED
  BY <1>4, <1>5

LEMMA ResolverConnectOpt ==
  ASSUME R!ResolverAssumption, R!ResolverInv, R!mg_connect_opt
  PROVE  R!ResolverInv'
<1>1. PICK k \in {-1, 1, LookupTimeout + 1}, bad \in BOOLEAN :
        /\ (bad => failures > 0) /\ failures' = failures - (IF bad THEN 1 ELSE 0)
        /\ R!Connects(k, bad)
  BY DEF R!mg_connect_opt
<1>2. made < MaxConnects
  BY DEF R!mg_connect_opt
<1>3. failures' \in 0 .. MaxLost
  BY <1>1, ResolverParts, ResolverNumbers
<1> QED
  BY <1>1, <1>2, <1>3, ResolverConnects

LEMMA ResolverAnswer ==
  ASSUME R!ResolverAssumption, R!ResolverInv, R!Answer
  PROVE  R!ResolverInv'
<1>1. PICK q \in queries, r \in LookupReplies, last \in BOOLEAN :
        /\ replies' = replies \union {[query |-> q, reply |-> r]}
        /\ queries' = IF last THEN queries \ {q} ELSE queries
  BY DEF R!Answer
<1>2. UNCHANGED <<nc, dns, alarm, failures, made, heard, calls, used, fired>>
  BY DEF R!Answer
<1>3. queries' \subseteq 1 .. LookupRetries /\ replies' \subseteq [query : 1 .. LookupRetries, reply : LookupReplies]
  BY <1>1, ResolverParts
<1>4. R!HeardInOrder' <=> R!HeardInOrder
  BY <1>2 DEF R!HeardInOrder
<1> QED
  BY <1>2, <1>3, <1>4, ResolverParts, ResolverWhole

LEMMA ResolverTick ==
  ASSUME R!ResolverAssumption, R!ResolverInv, R!Tick
  PROVE  R!ResolverInv'
<1>1. /\ alarm' = IF alarm > 0 THEN alarm - 1 ELSE alarm
      /\ dns' = [dns EXCEPT !.age = IF dns.phase = "open" THEN R!AtMost(dns.age + 1, LookupTimeout) ELSE dns.age]
      /\ UNCHANGED <<nc, queries, replies, failures, made, heard, calls, used, fired>>
  BY DEF R!Tick
<1>2. alarm' \in -1 .. LookupTimeout + 1
  BY <1>1, ResolverParts, ResolverNumbers
<1>3. CASE nc = "resolving"
  <2> DEFINE n == IF dns.phase = "open" THEN R!AtMost(dns.age + 1, LookupTimeout) ELSE dns.age
             b == [dns EXCEPT !.age = n]
  <2>1. R!Asking(dns)
    BY <1>3, ResolverParts
  <2>2. dns.age \in 0 .. LookupTimeout
    BY <2>1 DEF R!Asking
  <2>3. n \in 0 .. LookupTimeout
    BY <2>2, ResolverNumbers DEF R!AtMost
  <2> HIDE DEF n
  <2>4. b \in [phase : {"connecting", "open"}, bad : BOOLEAN, closing : {FALSE}, queued : Nat,
              retries : 0 .. LookupRetries + 1, age : 0 .. LookupTimeout, err : {"ok"}, req : {TRUE}, sent : {0},
              reply : {""}, from : {0}]
    BY <2>1, <2>3 DEF R!Asking
  <2>5. b.queued = dns.queued /\ b.retries = dns.retries /\ b.phase = dns.phase
    BY <2>1 DEF R!Asking
  <2> HIDE DEF b
  <2>6. R!Asking(b)
    BY <2>1, <2>4, <2>5 DEF R!Asking
  <2>7. R!Asking(dns')
    BY <1>1, <2>6 DEF b, n
  <2> QED
    BY <1>1, <1>2, <1>3, <2>7, ResolverParts, ResolverWhole
<1>4. CASE nc # "resolving"
  <2>1. dns = R!NoDns /\ dns.phase = "none" /\ dns.age = 0
    BY <1>4, ResolverParts, ResolverNone
  <2>2. dns' = [dns EXCEPT !.age = 0]
    BY <1>1, <2>1
  <2>3. [R!NoDns EXCEPT !.age = 0] = R!NoDns
    BY ResolverStill
  <2>4. dns' = R!NoDns
    BY <2>1, <2>2, <2>3
  <2>5. R!HeardInOrder' <=> R!HeardInOrder
    BY <1>1 DEF R!HeardInOrder
  <2> QED
    BY <1>1, <1>2, <1>4, <2>4, <2>5, ResolverParts, ResolverWhole
<1> QED
  BY <1>3, <1>4

LEMMA ResolverStep == R!ResolverAssumption /\ R!ResolverInv /\ [R!Next]_resolveVars => R!ResolverInv'
<1>1. ASSUME R!ResolverAssumption, R!ResolverInv, UNCHANGED resolveVars PROVE R!ResolverInv'
  <2>1. UNCHANGED <<nc, dns, alarm, queries, replies, failures, made, heard, calls, used, fired>>
    BY <1>1 DEF resolveVars
  <2>2. R!HeardInOrder' <=> R!HeardInOrder
    BY <2>1 DEF R!HeardInOrder
  <2> QED
    BY <1>1, <2>1, <2>2, ResolverParts, ResolverWhole
<1> QED
  BY <1>1, ResolverPolls, ResolverPollsNc, ResolverConnectOpt, ResolverAnswer, ResolverTick DEF R!Next

-----------------------------------------------------------------------------
(* The parts together: only the part that runs takes steps.                *)

NetworkInv ==
  /\ which = "request" => W!ReleasedInv
  /\ which = "resolve" => R!ResolverInv
  /\ which = "tftp" => F!TransferInv
  /\ which = "ntp" => K!NtpInv
  /\ which = "sntp" => A!SntpInv
  /\ which = "ping" => I!PingInv
  /\ which = "finder" => U!FinderInv

LEMMA NetworkStart == NetworkInit => NetworkInv
<1> SUFFICES ASSUME NetworkInit PROVE NetworkInv
  OBVIOUS
<1>1. /\ which = "request" => W!Init
      /\ which = "resolve" => R!Init
      /\ which = "tftp" => F!Init
      /\ which = "ntp" => K!Init
      /\ which = "sntp" => A!Init
      /\ which = "ping" => I!Init
      /\ which = "finder" => U!Init
  BY DEF NetworkInit
<1> QED
  BY <1>1, NetworkAssumption, WebInit, ResolverInit, TurnInit, NtpBegins, SntpInit, PingInit, FinderInit
  DEF NetworkInv

LEMMA NetworkKept == NetworkInv /\ [NetworkNext]_networkVars => NetworkInv'
<1> SUFFICES ASSUME NetworkInv, [NetworkNext]_networkVars PROVE NetworkInv'
  OBVIOUS
<1>1. which' = which
  BY DEF NetworkNext, networkVars
<1>2. which = "request" => [W!Next]_requestVars
  BY DEF NetworkNext, networkVars
<1>3. which = "resolve" => [R!Next]_resolveVars
  BY DEF NetworkNext, networkVars
<1>4. which = "tftp" => [F!Next]_tftpVars
  BY DEF NetworkNext, networkVars
<1>5. which = "ntp" => [K!Next]_ntpVars
  BY DEF NetworkNext, networkVars
<1>6. which = "sntp" => [A!Next]_sntpVars
  BY DEF NetworkNext, networkVars
<1>7. which = "ping" => [I!Next]_pingVars
  BY DEF NetworkNext, networkVars
<1>8. which = "finder" => [U!Next]_finderVars
  BY DEF NetworkNext, networkVars
<1>9. /\ which = "request" => W!ReleasedInv'
      /\ which = "resolve" => R!ResolverInv'
      /\ which = "tftp" => F!TransferInv'
      /\ which = "ntp" => K!NtpInv'
  BY <1>2, <1>3, <1>4, <1>5, NetworkAssumption, WebStep, ResolverStep, TurnStep, NtpStep DEF NetworkInv
<1>10. /\ which = "sntp" => A!SntpInv'
       /\ which = "ping" => I!PingInv'
       /\ which = "finder" => U!FinderInv'
  BY <1>6, <1>7, <1>8, NetworkAssumption, SntpStep, PingStep, FinderStep DEF NetworkInv
<1> QED
  BY <1>1, <1>9, <1>10 DEF NetworkInv

LEMMA NetworkAlways == NetworkSpec => []NetworkInv
BY NetworkStart, NetworkKept, PTL DEF NetworkSpec

\* ntp.c sets the time of the datagram it received, and, for a caller alone and
\* below a midnight, the clock goes on from it; whoever returns has closed its
\* socket.  sntp.c tells an asker once, and no time that is behind.  ping.c
\* prints one line for each echo asked for, and an answer of the host that was
\* called for no more than one of them.
THEOREM TimesRight == NetworkSpec => []TimeSafe
<1>1. NetworkInv => TimeSafe
  BY NtpSafe, SntpSafe, PingSafe DEF NetworkInv, TimeSafe
<1> QED
  BY <1>1, NetworkAlways, PTL

\* webclient.c gives back, at each of its ends, all it took but what is named
\* lost, if it was not redirected; redirected, however often, it keeps its last
\* session alone and its caller goes on with one that is closed.  mongoose.c calls the callback of a
\* lookup once, and its connection hears of the end last.  tftp_server.c gives
\* a reader the blocks of a file in order and has the whole file of a writer it
\* told so, whatever is lost, repeated, late or out of order, but for the two
\* cases named; it has a timer for each transfer under way.  udp_finder.c tells
\* those who sent the password and nobody else, in the order they came.
THEOREM ClientsRight == NetworkSpec => []ClientsSafe
<1>1. NetworkInv => ClientsSafe
  <2>1. NetworkInv /\ which = "request" => W!Released
    BY DEF NetworkInv, W!ReleasedInv
  <2>2. NetworkInv /\ which = "resolve" => R!TypeOK /\ R!CalledOnce /\ R!LastQueryInVain /\ R!HeardInOrder
    BY DEF NetworkInv, R!ResolverInv
  <2>3. NetworkInv /\ which = "tftp" => F!TypeOK /\ F!ReadsInOrder /\ F!WritesWhole /\ F!Armed
    BY TurnSafe, NetworkAssumption DEF NetworkInv
  <2>4. NetworkInv /\ which = "finder" => U!TypeOK /\ U!TellsCallers
    BY DEF NetworkInv, U!FinderInv
  <2> QED
    BY <2>1, <2>2, <2>3, <2>4 DEF ClientsSafe
<1> QED
  BY <1>1, NetworkAlways, PTL
=============================================================================
