-------------------------------- MODULE Tftp --------------------------------
(***************************************************************************)
(* The TFTP server of the netutils package (tftp_server.c, tftp_port.c)    *)
(* and the clients of RFC 1350 that read and write files through it.       *)
(* Datagrams are delayed, lost, repeated and reordered.  Every handler     *)
(* runs in lwIP's thread, so each is one step; a datagram that is lost is  *)
(* one that is never delivered.                                            *)
(*                                                                         *)
(* The file has Full blocks of TFTP_MAX_PAYLOAD_SIZE bytes and a last one  *)
(* that is shorter; a block is its number.                                 *)
(***************************************************************************)
EXTENDS Integers, Sequences

CONSTANTS
  Clients,     \* who may use the server
  Jobs,        \* what they want: subset of {"read", "write"} \X {"good", "bad", "long"}
  Full,        \* full blocks of a file
  Timeout,     \* TFTP_TIMEOUT_MSECS / TFTP_TIMER_MSECS
  MaxRetries,  \* TFTP_MAX_RETRIES
  MaxChains,   \* bound: timers pending at once
  MaxFaults    \* bound: datagrams repeated, allocations and file accesses that fail

TftpAssumption ==
  /\ Full \in Nat /\ Timeout \in Nat /\ MaxRetries \in Nat /\ MaxChains \in Nat \ {0, 1}
  /\ MaxFaults \in Nat /\ "nobody" \notin Clients
  /\ Jobs \subseteq {"read", "write"} \X {"good", "bad", "long"}

VARIABLES
  tftp_state,  \* the server: handle, peer (addr and port), mode_write, blknum, last_data, retries
  quiet,       \* tftp_state.timer - tftp_state.last_pkt, up to Timeout + 1
  chains,      \* timers pending with tftp_tmr
  file,        \* what was written for each client
  pos,         \* where the open file is read or written
  user,        \* the clients
  net,         \* datagrams under way
  faults,      \* faults still to come
  astray       \* history: clients with a block written out of turn or in part, or not read

tvars == <<tftp_state, quiet, chains, file, pos, user, net, faults, astray>>

None   == 0
Nobody == "nobody"
Short   == Full + 1
File   == [i \in 1 .. Short |-> i]

\* A datagram between client c and the server.  Block numbers have 16 bits;
\* files here are shorter.
ToServer(c, op, blk) == [dst |-> "server", c |-> c, op |-> op, blk |-> blk, data |-> blk]
Data(c, blk, d)      == [dst |-> "client", c |-> c, op |-> "DATA", blk |-> blk, data |-> d]
Ack(c, blk)          == [dst |-> "client", c |-> c, op |-> "ACK", blk |-> blk, data |-> None]
Error(c)             == [dst |-> "client", c |-> c, op |-> "ERROR", blk |-> 0, data |-> None]

Closed == [handle |-> "none", peer |-> Nobody, mode_write |-> FALSE, blknum |-> 0,
           last_data |-> None, retries |-> 0]

AtMost(n, m) == IF n > m THEN m ELSE n

-----------------------------------------------------------------------------
(* The server                                                              *)

\* sys_untimeout drops one pending timer.
Untimed(n) == IF n = 0 THEN 0 ELSE n - 1

Open == tftp_state.handle # "none"

close_handle_keep(st) == [st EXCEPT !.handle = "none", !.peer = Nobody]
\* close_handle keeps mode_write, blknum and retries.
close_handle(st) == [st EXCEPT !.handle = "none", !.peer = Nobody, !.last_data = None]

\* send_data: the next block is read into last_data and sent.  Without
\* memory nothing is sent, nor read; a file that cannot be read is closed.
\* ans are the datagrams, st the state, n the timers, p the position.
Result(st, n, p, ans) == [st |-> st, chains |-> n, pos |-> p, ans |-> ans]
Sends(st, n, p, fault) ==
  LET c     == st.peer
      block == AtMost(p + 1, Short)
  IN IF fault = "memory" THEN Result([st EXCEPT !.last_data = None], n, p, {})
     ELSE IF st.handle = "bad" \/ fault = "file"
       THEN Result(close_handle(st), Untimed(n), p, {Error(c)})
     ELSE Result([st EXCEPT !.last_data = block], n, p + 1, {Data(c, st.blknum, block)})

\* The packet is not from the peer of the transfer under way.
Stranger(m) == tftp_state.peer # Nobody /\ m.c # tftp_state.peer

\* RRQ and WRQ.  The timer starts before the names are looked at.
\* tftp_open returns (void *) -1 for a file it cannot open, which is taken
\* for a handle.
Request(m, fault) ==
  LET job == user[m.c].job
      st  == [tftp_state EXCEPT !.retries = 0, !.blknum = 1, !.peer = m.c,
                                !.mode_write = (m.op = "WRQ"),
                                !.handle = IF job[2] = "good" THEN "file" ELSE "bad"]
  IN IF Open THEN Result([tftp_state EXCEPT !.retries = 0], chains, pos, {Error(m.c)})
     ELSE IF job[2] = "long" THEN Result([tftp_state EXCEPT !.retries = 0], chains + 1, pos, {Error(m.c)})
     ELSE IF m.op = "WRQ" THEN Result(st, chains + 1, 0, {Ack(m.c, 0)})
     ELSE Sends(st, chains + 1, 0, fault)

\* DATA: written whatever its number is.  The file is closed if that fails,
\* and (again) behind a short block.
WriteFails(fault) == tftp_state.handle = "bad" \/ fault = "file"
Told_unchecked(m, fault) == Ack(m.c, m.blk)
Told(m, fault) == IF WriteFails(fault) THEN Error(m.c) ELSE Ack(m.c, m.blk)
Written(m, fault) ==
  LET st    == [tftp_state EXCEPT !.retries = 0]
      fails == WriteFails(fault)
      short == m.data = Short
  IN IF ~Open \/ ~tftp_state.mode_write THEN Result(st, chains, pos, {Error(m.c)})
     ELSE Result(IF fails \/ short THEN close_handle(st) ELSE st,
                 CASE fails /\ short -> Untimed(Untimed(chains))
                   [] fails # short  -> Untimed(chains)
                   [] OTHER          -> chains,
                 IF fails THEN pos ELSE pos + 1, {Told(m, fault)})

\* ACK: the next block follows, or the transfer is over.
LastPacket == tftp_state.last_data = Short
Acked(m, fault) ==
  LET st == [tftp_state EXCEPT !.retries = 0]
  IN IF ~Open \/ tftp_state.mode_write \/ m.blk # tftp_state.blknum
       THEN Result(st, chains, pos, {Error(m.c)})
     ELSE IF LastPacket THEN Result(close_handle(st), Untimed(chains), pos, {})
     ELSE Sends([st EXCEPT !.blknum = @ + 1], chains, pos, fault)

Handled(m, fault) ==
  IF Stranger(m) THEN Result(tftp_state, chains, pos, {Error(m.c)})
  ELSE CASE m.op \in {"RRQ", "WRQ"} -> Request(m, fault)
         [] m.op = "DATA"            -> Written(m, fault)
         [] m.op = "ACK"             -> Acked(m, fault)

\* A block lands at the position of the file, and counts as written if only
\* a part of it was.
Lands(m, r) == m.op = "DATA" /\ r.pos = pos + 1 /\ ~Stranger(m)
Keep(f, at, d) == IF at <= Len(f) THEN [f EXCEPT ![at] = d] ELSE Append(f, d)

Faults == {"none"} \union (IF faults > 0 THEN {"memory", "file", "part", "repeat"} ELSE {})

\* recv: a datagram for the server, which the network may deliver again.
recv ==
  \E m \in net, fault \in Faults :
    LET r == Handled(m, fault)
    IN /\ m.dst = "server" /\ chains < MaxChains
       /\ tftp_state' = r.st /\ chains' = r.chains /\ pos' = r.pos
       /\ quiet' = IF Stranger(m) THEN quiet ELSE 0
       /\ net' = (IF fault = "repeat" THEN net ELSE net \ {m}) \union r.ans
       /\ file' = IF Lands(m, r) THEN [file EXCEPT ![tftp_state.peer] = Keep(@, r.pos, m.data)] ELSE file
       /\ astray' = IF fault = "memory" \/ (Lands(m, r) /\ (m.blk # r.pos \/ fault = "part"))
                      THEN astray \union {m.c} ELSE astray
       /\ faults' = faults - (IF fault = "none" THEN 0 ELSE 1)
       /\ UNCHANGED user

\* tftp_tmr: after Timeout ticks without a packet the last block is sent
\* again at every tick, MaxRetries times; then the transfer is given up.
Due_once == quiet = Timeout
Due == quiet >= Timeout
Resent_next == AtMost(pos + 1, Short)
Resent == tftp_state.last_data
tftp_tmr ==
  /\ chains > 0
  /\ quiet' = AtMost(quiet + 1, Timeout + 1)
  /\ IF ~Open THEN chains' = chains - 1 /\ UNCHANGED <<tftp_state, net>>
     ELSE IF ~Due THEN UNCHANGED <<chains, tftp_state, net>>
     ELSE IF tftp_state.last_data # None /\ tftp_state.retries < MaxRetries
       THEN /\ net' = net \union {Data(tftp_state.peer, tftp_state.blknum, Resent)}
            /\ tftp_state' = [tftp_state EXCEPT !.retries = @ + 1]
            /\ UNCHANGED chains
     ELSE /\ tftp_state' = close_handle(tftp_state) /\ chains' = Untimed(chains)
          /\ UNCHANGED net
  /\ UNCHANGED <<file, pos, user, faults, astray>>

-----------------------------------------------------------------------------
(* The clients and the network                                             *)

Begin(c) ==
  /\ user[c].phase = "idle"
  /\ LET m == ToServer(c, IF user[c].job[1] = "read" THEN "RRQ" ELSE "WRQ", 0)
     IN /\ user' = [user EXCEPT ![c].phase = "busy", ![c].sent = m]
        /\ net' = net \union {m}
  /\ UNCHANGED <<tftp_state, quiet, chains, file, pos, faults, astray>>

\* A client that reads takes the next block and acknowledges any it has.
Takes(c, m) ==
  LET new == m.blk = Len(user[c].got) + 1
      ack == ToServer(c, "ACK", m.blk)
  IN IF m.blk > Len(user[c].got) + 1 THEN UNCHANGED <<user, net>>
     ELSE /\ net' = (net \ {m}) \union {ack}
          /\ user' = IF ~new THEN user
                     ELSE [user EXCEPT ![c].got = Append(@, m.data), ![c].sent = ack,
                                       ![c].phase = IF m.data = Short THEN "done" ELSE "busy"]

\* A client that writes sends the block behind the one acknowledged, once.
Gives(c, m) ==
  LET next == ToServer(c, "DATA", m.blk + 1)
  IN IF m.blk # user[c].acked + 1 THEN net' = net \ {m} /\ UNCHANGED user
     ELSE IF m.blk = Short
       THEN net' = net \ {m} /\ user' = [user EXCEPT ![c].phase = "done", ![c].acked = m.blk]
     ELSE /\ net' = (net \ {m}) \union {next}
          /\ user' = [user EXCEPT ![c].acked = m.blk, ![c].sent = next]

Hears(c) ==
  \E m \in net :
    /\ m.dst = "client" /\ m.c = c
    /\ CASE m.op = "ERROR" ->
              /\ net' = net \ {m}
              /\ user' = [user EXCEPT ![c].phase = IF @ = "busy" THEN "failed" ELSE @]
         [] m.op = "DATA" /\ user[c].phase # "failed" -> Takes(c, m)
         [] m.op = "ACK" /\ user[c].phase = "busy" -> Gives(c, m)
         [] OTHER -> net' = net \ {m} /\ UNCHANGED user
    /\ UNCHANGED <<tftp_state, quiet, chains, file, pos, faults, astray>>

\* A client that hears nothing repeats what it sent last ...
Repeats(c) ==
  /\ user[c].phase = "busy" /\ faults > 0 /\ user[c].sent \notin net
  /\ net' = net \union {user[c].sent} /\ faults' = faults - 1
  /\ UNCHANGED <<tftp_state, quiet, chains, file, pos, user, astray>>

\* ... or gives up.
GivesUp(c) ==
  /\ user[c].phase = "busy"
  /\ user' = [user EXCEPT ![c].phase = "failed"]
  /\ UNCHANGED <<tftp_state, quiet, chains, file, pos, net, faults, astray>>

Init ==
  /\ tftp_state = Closed /\ quiet = 0 /\ chains = 0 /\ pos = 0 /\ net = {}
  /\ faults \in 0 .. MaxFaults /\ astray = {}
  /\ file = [c \in Clients |-> <<>>]
  /\ \E job \in [Clients -> Jobs] :
       user = [c \in Clients |-> [job |-> job[c], phase |-> "idle", got |-> <<>>, acked |-> -1,
                                  sent |-> Error(c)]]

Next == recv \/ tftp_tmr \/ \E c \in Clients : Begin(c) \/ Hears(c) \/ Repeats(c) \/ GivesUp(c)

\* lwIP's thread serves its timers (weak fairness of tftp_tmr).
Ticks == chains > 0 /\ (~Open \/ quiet <= Timeout \/ Due)
TftpSpec == Init /\ [][Next]_tvars /\ ([]<>~Ticks \/ []<><<tftp_tmr>>_tvars)

-----------------------------------------------------------------------------
\* Every variable has a value of its type.
TypeOK ==
  /\ tftp_state \in [handle : {"none", "file", "bad"}, peer : Clients \union {Nobody},
                     mode_write : BOOLEAN, blknum : Nat, last_data : 0 .. Short,
                     retries : 0 .. MaxRetries]
  /\ quiet \in 0 .. Timeout + 1 /\ chains \in 0 .. MaxChains /\ pos \in Nat
  /\ DOMAIN file = Clients /\ DOMAIN user = Clients /\ faults \in 0 .. MaxFaults /\ astray \subseteq Clients
  /\ \A m \in net : m.dst \in {"server", "client"} /\ m.c \in Clients

\* A client that reads gets the blocks in order, and all of them if it
\* ends, whatever the network repeats and the server sends again, unless
\* memory was short for a block: the next then has its contents.
ReadsInOrder ==
  \A c \in Clients \ astray :
    user[c].job[1] = "read" => /\ \E n \in 0 .. Len(File) : user[c].got = SubSeq(File, 1, n)
                               /\ user[c].phase = "done" => user[c].got = File

\* The file of a client that was told it is written holds every block, if
\* none was written out of turn: the server does not look at the numbers.
WritesWhole ==
  \A c \in Clients \ astray :
    user[c].job[1] = "write" /\ user[c].phase = "done" => file[c] = File

\* A transfer under way has a peer and a timer that will end it; what is
\* kept to be sent again belongs to a file that is being read.
Armed ==
  /\ Open => chains > 0 /\ tftp_state.peer # Nobody
  /\ ~Open => tftp_state.peer = Nobody
  /\ tftp_state.last_data # None => Open /\ ~tftp_state.mode_write

\* What of it is inductive.  Clients have their parts, and what goes to the
\* server is one of the four kinds it knows.
Messages ==
  {m \in [dst : {"server", "client"}, c : Clients, op : {"RRQ", "WRQ", "DATA", "ACK", "ERROR"}, blk : Nat, data : Nat] :
     m.dst = "server" => m.op # "ERROR"}
Talks ==
  /\ user \in [Clients -> [job : Jobs, phase : {"idle", "busy", "done", "failed"}, got : Seq(Nat), acked : Int,
                           sent : Messages]]
  /\ net \subseteq Messages
TftpInv == TypeOK /\ Talks /\ Armed

\* A message fits what its client wants.  While no block of the client went
\* astray its block is the one its number says, and one that was acknowledged is
\* in the file.
Writes(c) == user[c].job[1] = "write"
Proper(m) ==
  /\ m.op = "RRQ"  => ~Writes(m.c)
  /\ m.op = "WRQ"  => Writes(m.c)
  /\ m.op = "DATA" => (Writes(m.c) <=> m.dst = "server")
  /\ m.op = "ACK"  => (Writes(m.c) <=> m.dst = "client")
  /\ m.c \notin astray =>
       /\ m.op = "DATA" => m.data = m.blk /\ m.blk \in 1 .. Short
       /\ m.op = "ACK" /\ m.dst = "client" => m.blk <= Len(file[m.c])
\* So is the state of the transfer under way ...
Placed(st, p) ==
  st.handle # "none" =>
    /\ st.mode_write <=> Writes(st.peer)
    /\ st.peer \notin astray =>
         IF st.mode_write THEN p <= Len(file[st.peer])
         ELSE st.last_data = st.blknum /\ p = st.blknum /\ p \in 1 .. Short
\* ... and what each side has are the first blocks of the file, all of them in the end.
Front(q) == Len(q) <= Short /\ \A i \in 1 .. Len(q) : q[i] = i
Has(c) ==
  /\ Front(user[c].got) /\ Front(file[c])
  /\ user[c].phase = "done" => Len(IF Writes(c) THEN file[c] ELSE user[c].got) = Short
InTurn ==
  /\ file \in [Clients -> Seq(Nat)]
  /\ Placed(tftp_state, pos)
  /\ \A m \in net : Proper(m)
  /\ \A c \in Clients : user[c].sent.c = c /\ Proper(user[c].sent)
  /\ \A c \in Clients \ astray : Has(c)
TransferInv == TftpInv /\ InTurn

\* However a client goes away, the server becomes free for the others.
Frees == Open ~> ~Open
=============================================================================
