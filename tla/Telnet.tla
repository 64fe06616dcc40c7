------------------------------- MODULE Telnet -------------------------------
(***************************************************************************)
(* The telnet server of the netutils package (telnet.c): its thread, the   *)
(* shell that reads its lines from whatever device the console shows, a    *)
(* thread that logs to the console, and a client at a time.  The threads   *)
(* share two ring buffers, each under its lock, and a semaphore that       *)
(* counts what the shell has to read.                                      *)
(*                                                                         *)
(* A byte is a sequence that says what it is: a key, the end of a line, a  *)
(* telnet command, an option.  The shell's answer and a line of the log    *)
(* are one byte and the end of the line.                                   *)
(***************************************************************************)
EXTENDS Integers, SequencesExt

CONSTANTS
  Typings,         \* what a client sends: set of sequences of bytes
  RxSize, TxSize,  \* RX_BUFFER_SIZE, TX_BUFFER_SIZE
  ChunkSize,       \* sizeof(tx_buffer)
  Piece,           \* bound: bytes recv() returns at once
  MaxSessions,     \* bound: clients, one after the other
  MaxLogs          \* bound: lines of the log

TelnetAssumption ==
  /\ RxSize \in Nat \ {0} /\ TxSize \in Nat \ {0} /\ ChunkSize \in Nat \ {0} /\ Piece \in Nat \ {0}
  /\ MaxSessions \in Nat /\ MaxLogs \in Nat

Key(k)      == <<"key", k>>
Nl          == <<"nl">>
Cr          == <<"cr">>
Iac         == <<"iac">>
Cmd(c)      == <<c>>
Opt(o)      == <<"opt", o>>
Filler      == <<"zero">>
Words(w)    == <<"out", w>>
Commands    == {Cmd(c) : c \in {"will", "wont", "do", "dont"}}

Threads == {"telnet", "shell", "log"}

VARIABLES
  tstate,    \* telnet->state
  rx, tx,    \* the ring buffers
  notice,    \* read_notice
  tpc,       \* the thread: "accept", "version", "prompt", "recv", "rx", "release", "close1" .. "close3",
             \* or in send_to_client: after the version, the prompt, an option, or else
  todo,      \* bytes received that are still to be processed
  shell,     \* "run", "uart" or "telnet": in the read of that device, "get", "answer", "put", "flush"
  logs,      \* the log: "idle", "put", "flush", and lines so far
  chunk,     \* what a thread has taken out of tx and not sent yet
  console,   \* the console's device
  typing,    \* what the clients send
  coming,    \* what the client has still to send
  session,   \* clients so far
  linked,    \* client_fd is open
  input,     \* history: what the shell read
  cooked,    \* history: what clients meant for the shell, and of that
  escapes,   \* how many bytes were escaped, and
  full,      \* whether one found rx full
  put, sent, \* history: what was put into tx and what was sent
  raced      \* history: two threads sent at once

tlvars == <<tstate, rx, tx, notice, tpc, todo, shell, logs, chunk, console, typing, coming, session,
            linked, input, cooked, escapes, full, put, sent, raced>>

-----------------------------------------------------------------------------
(* Sending                                                                 *)

Fits(ring, size, bytes) == SubSeq(bytes, 1, IF Len(bytes) > size - Len(ring) THEN size - Len(ring) ELSE Len(bytes))

\* telnet_write: a carriage return in front of the end of a line, until
\* there is no room.
Output(w) == Fits(tx, TxSize, <<Words(w), Cr, Nl>>)
Prompt == Fits(tx, TxSize, <<Words("prompt")>>)
Puts(bytes) == tx' = tx \o bytes /\ put' = put \o bytes

\* send_to_client: takes a piece out of the ring ...
Holds(t) == chunk[t] # <<>>
\* What the thread does when it has sent all.
After == [shown |-> "prompt", prompted |-> "flush", option |-> "rx", flush |-> "recv"]
Flushing(t) == CASE t = "telnet" -> tpc \in DOMAIN After [] t = "shell" -> shell = "flush" [] OTHER -> logs[1] = "flush"
Flushed(t) ==
  /\ tpc'   = IF t = "telnet" THEN After[tpc] ELSE tpc
  /\ shell' = IF t = "shell" THEN "run" ELSE shell
  /\ logs'  = IF t = "log" THEN <<"idle", logs[2]>> ELSE logs
Left_kept(n) == tx
Left(n) == SubSeq(tx, n + 1, Len(tx))
Take(t) ==
  /\ Flushing(t) /\ ~Holds(t)
  /\ LET n == IF Len(tx) < ChunkSize THEN Len(tx) ELSE ChunkSize
     IN IF n = 0 THEN Flushed(t) /\ UNCHANGED <<tx, chunk, raced>>
        ELSE /\ chunk' = [chunk EXCEPT ![t] = SubSeq(tx, 1, n)]
             /\ tx' = Left(n)
             /\ raced' = (raced \/ \E u \in Threads \ {t} : Holds(u))
             /\ UNCHANGED <<tpc, shell, logs>>
  /\ UNCHANGED <<tstate, rx, notice, todo, console, typing, coming, session, linked, input, cooked,
                 escapes, full, put, sent>>

\* ... and sends it to whom client_fd stands for now; nobody gets what is
\* sent after it was closed.
Send(t) ==
  /\ Flushing(t) /\ Holds(t)
  /\ sent' = sent \o [i \in DOMAIN chunk[t] |-> [to |-> IF linked THEN session ELSE 0, byte |-> chunk[t][i]]]
  /\ chunk' = [chunk EXCEPT ![t] = <<>>]
  /\ UNCHANGED <<tstate, rx, tx, notice, tpc, todo, shell, logs, console, typing, coming, session,
                 linked, input, cooked, escapes, full, put, raced>>

-----------------------------------------------------------------------------
(* The server's thread                                                     *)

\* A client: the console becomes it and the shell is woken out of the read of
\* the old one.  The rings are as they were.
accept ==
  /\ tpc = "accept" /\ session < MaxSessions
  /\ session' = session + 1 /\ linked' = TRUE /\ coming' = typing[session + 1]
  /\ console' = "telnet" /\ tstate' = "normal" /\ todo' = <<>> /\ tpc' = "version"
  /\ shell' = IF shell = "uart" THEN "run" ELSE shell
  /\ UNCHANGED <<rx, tx, notice, logs, chunk, typing, input, cooked, escapes, full, put, sent, raced>>

\* The version and the prompt are written, each sent before the next.
Greets ==
  /\ \/ tpc = "version" /\ tpc' = "shown" /\ Puts(Output("version"))
     \/ tpc = "prompt" /\ tpc' = "prompted" /\ Puts(Prompt)
  /\ UNCHANGED <<tstate, rx, notice, todo, shell, logs, chunk, console, typing, coming, session, linked,
                 input, cooked, escapes, full, sent, raced>>

recv ==
  /\ tpc = "recv"
  /\ \/ \E n \in 1 .. Piece :
          /\ n <= Len(coming)
          /\ todo' = SubSeq(coming, 1, n) /\ coming' = SubSeq(coming, n + 1, Len(coming))
          /\ tpc' = "rx"
     \/ tpc' = "close1" /\ UNCHANGED <<todo, coming>>
  /\ UNCHANGED <<tstate, rx, tx, notice, shell, logs, chunk, console, typing, session, linked, input,
                 cooked, escapes, full, put, sent, raced>>

\* A byte for the shell is put into the ring; an escaped one without a notice.
ForShell(b, escaped) ==
  /\ rx' = IF Len(rx) < RxSize THEN Append(rx, b) ELSE rx
  /\ cooked' = Append(cooked, b)
  /\ full' = (full \/ Len(rx) = RxSize)
  /\ escapes' = IF escaped THEN escapes + 1 ELSE escapes
  /\ tpc' = IF escaped THEN tpc ELSE "release"

Refusal(b) == <<Iac, IF tstate \in {"will", "wont"} THEN Cmd("dont") ELSE Cmd("wont"), b>>
AfterIac_stays(b) == IF b \in Commands THEN b[1] ELSE "iac"
AfterIac(b) == IF b \in Commands THEN b[1] ELSE "normal"

\* process_rx, a byte at a time; an option is refused at once.
process_rx ==
  /\ tpc = "rx" /\ todo # <<>>
  /\ LET b == todo[1]
     IN /\ todo' = Tail(todo)
        /\ CASE tstate = "iac" /\ b = Iac ->
                  /\ tstate' = "normal" /\ ForShell(b, TRUE) /\ UNCHANGED <<tx, put>>
             [] tstate = "iac" /\ b # Iac ->
                  /\ tstate' = AfterIac(b) /\ tpc' = tpc
                  /\ UNCHANGED <<rx, cooked, full, escapes, tx, put>>
             [] tstate \in {"will", "wont", "do", "dont"} ->
                  /\ tstate' = "normal" /\ tpc' = "option"
                  /\ Puts(Fits(tx, TxSize, Refusal(b)))
                  /\ UNCHANGED <<rx, cooked, full, escapes>>
             [] tstate = "normal" /\ b = Iac ->
                  /\ tstate' = "iac" /\ tpc' = tpc
                  /\ UNCHANGED <<rx, cooked, full, escapes, tx, put>>
             [] tstate = "normal" /\ b = Cr ->
                  tpc' = tpc /\ UNCHANGED <<tstate, rx, cooked, full, escapes, tx, put>>
             [] OTHER ->
                  ForShell(b, FALSE) /\ UNCHANGED <<tstate, tx, put>>
  /\ UNCHANGED <<notice, shell, logs, chunk, console, typing, coming, session, linked, input, sent, raced>>

\* The notice follows, when the lock of the ring is given back.
Noticed_once(n) == IF Len(rx) = 1 THEN n + 1 ELSE n
Noticed(n) == n + 1
rt_sem_release ==
  /\ tpc = "release" /\ tpc' = "rx" /\ notice' = Noticed(notice)
  /\ UNCHANGED <<tstate, rx, tx, todo, shell, logs, chunk, console, typing, coming, session, linked,
                 input, cooked, escapes, full, put, sent, raced>>

Processed ==
  /\ tpc = "rx" /\ todo = <<>> /\ tpc' = "flush"
  /\ UNCHANGED <<tstate, rx, tx, notice, todo, shell, logs, chunk, console, typing, coming, session,
                 linked, input, cooked, escapes, full, put, sent, raced>>

\* client_close: the console is the serial line again, the shell is let out
\* of telnet_read, and the socket is closed.
Released_not(n) == n
Released(n) == n + 1
client_close ==
  /\ \/ tpc = "close1" /\ tpc' = "close2" /\ console' = "uart" /\ UNCHANGED <<notice, linked>>
     \/ tpc = "close2" /\ tpc' = "close3" /\ notice' = Released(notice) /\ UNCHANGED <<console, linked>>
     \/ tpc = "close3" /\ tpc' = "accept" /\ linked' = FALSE /\ UNCHANGED <<console, notice>>
  /\ UNCHANGED <<tstate, rx, tx, todo, shell, logs, chunk, typing, coming, session, input, cooked,
                 escapes, full, put, sent, raced>>

-----------------------------------------------------------------------------
(* The shell and the log                                                   *)

getchar ==
  /\ shell = "run" /\ shell' = console
  /\ UNCHANGED <<tstate, rx, tx, notice, tpc, todo, logs, chunk, console, typing, coming, session,
                 linked, input, cooked, escapes, full, put, sent, raced>>

\* telnet_read waits for a notice and looks into the ring then; it returns a
\* byte in any case.  The shell answers a line.
telnet_read ==
  /\ \/ /\ shell = "telnet" /\ notice > 0 /\ notice' = notice - 1
        /\ shell' = "get" /\ UNCHANGED <<rx, input>>
     \/ /\ shell = "get"
        /\ LET b == IF rx = <<>> THEN Filler ELSE rx[1]
           IN /\ rx' = IF rx = <<>> THEN rx ELSE Tail(rx)
              /\ input' = IF b = Filler THEN input ELSE Append(input, b)
              /\ shell' = IF b = Nl THEN "answer" ELSE "run"
        /\ UNCHANGED notice
  /\ UNCHANGED <<tstate, tx, tpc, todo, logs, chunk, console, typing, coming, session, linked, cooked,
                 escapes, full, put, sent, raced>>

\* A thread looks up the console and then writes to it.
ShellLooks ==
  /\ shell = "answer" /\ shell' = IF console = "telnet" THEN "put" ELSE "run"
  /\ UNCHANGED <<tstate, rx, tx, notice, tpc, todo, logs, chunk, console, typing, coming, session,
                 linked, input, cooked, escapes, full, put, sent, raced>>
ShellWrites ==
  /\ shell = "put" /\ shell' = "flush" /\ Puts(Output("answer"))
  /\ UNCHANGED <<tstate, rx, notice, tpc, todo, logs, chunk, console, typing, coming, session, linked,
                 input, cooked, escapes, full, sent, raced>>

\* And so does the one that logs.
LogBegins ==
  /\ logs[1] = "idle" /\ logs[2] < MaxLogs /\ console = "telnet"
  /\ logs' = <<"put", logs[2] + 1>>
  /\ UNCHANGED <<tstate, rx, tx, notice, tpc, todo, shell, chunk, console, typing, coming, session,
                 linked, input, cooked, escapes, full, put, sent, raced>>
LogWrites ==
  /\ logs[1] = "put" /\ logs' = <<"flush", logs[2]>> /\ Puts(Output("log"))
  /\ UNCHANGED <<tstate, rx, notice, tpc, todo, shell, chunk, console, typing, coming, session, linked,
                 input, cooked, escapes, full, sent, raced>>

Init ==
  /\ tstate = "normal" /\ rx = <<>> /\ tx = <<>> /\ notice = 0 /\ tpc = "accept" /\ todo = <<>>
  /\ shell = "uart" /\ logs \in {"idle"} \X (0 .. MaxLogs) /\ chunk = [t \in Threads |-> <<>>] /\ console = "uart"
  /\ typing \in [1 .. MaxSessions -> Typings] /\ coming = <<>> /\ session = 0 /\ linked = FALSE
  /\ input = <<>> /\ cooked = <<>> /\ escapes = 0 /\ full = FALSE /\ put = <<>> /\ sent = <<>>
  /\ raced = FALSE

Server == \/ accept \/ Greets \/ recv \/ process_rx \/ rt_sem_release \/ Processed \/ client_close
          \/ Take("telnet") \/ Send("telnet")
Shell  == getchar \/ telnet_read \/ ShellLooks \/ ShellWrites \/ Take("shell") \/ Send("shell")
Log    == LogBegins \/ LogWrites \/ Take("log") \/ Send("log")
Next   == Server \/ Shell \/ Log

\* The scheduler runs the shell and, once it closes, the server's thread
\* (weak fairness, with the conditions under which these have a step).
ShellRuns == shell \in {"run", "get", "answer", "put", "flush"} \/ (shell = "telnet" /\ notice > 0)
Ends      == tpc \in {"close1", "close2", "close3"}
TelnetSpec ==
  /\ Init /\ [][Next]_tlvars
  /\ []<>~ShellRuns \/ []<><<Shell>>_tlvars
  /\ []<>~Ends \/ []<><<client_close>>_tlvars

-----------------------------------------------------------------------------
\* Every variable has a value of its type.
TypeOK ==
  /\ tstate \in {"normal", "iac", "will", "wont", "do", "dont"} /\ Len(rx) <= RxSize /\ Len(tx) <= TxSize
  /\ notice \in Nat /\ console \in {"uart", "telnet"} /\ session \in 0 .. MaxSessions
  /\ shell \in {"run", "uart", "telnet", "get", "answer", "put", "flush"} /\ \A t \in Threads : Len(chunk[t]) <= ChunkSize
  /\ linked <=> tpc # "accept"

\* What a stream means to the shell: without commands and options, an
\* escaped byte once, without carriage returns.
RECURSIVE Meant(_)
Meant(s) ==
  IF s = <<>> THEN <<>>
  ELSE IF s[1] = Cr THEN Meant(Tail(s))
  ELSE IF s[1] # Iac THEN <<s[1]>> \o Meant(Tail(s))
  ELSE IF Len(s) = 1 THEN <<>>
  ELSE IF s[2] = Iac THEN <<Iac>> \o Meant(SubSeq(s, 3, Len(s)))
  ELSE IF s[2] \in Commands THEN Meant(SubSeq(s, 4, Len(s)))
  ELSE Meant(SubSeq(s, 3, Len(s)))

\* However the stream is cut into pieces, the shell gets what the client
\* means; the bytes of the clients follow each other, and none is lost
\* unless there was no room.
Taken == SubSeq(typing[session], 1, Len(typing[session]) - Len(coming) - Len(todo))
InputAsMeant ==
  /\ session = 1 => cooked = Meant(Taken)
  /\ session > 1 /\ tpc # "accept" => IsSuffix(Meant(Taken), cooked)
  /\ ~full => input \o rx = cooked

\* Whoever is between ring and notice: the byte is put and not noticed yet, or
\* its notice is taken and it is not.
Underway == (IF tpc = "release" THEN 1 ELSE 0) + (IF shell = "get" THEN 1 ELSE 0)

\* For every byte in the ring there is a notice, one that the server is about to
\* give, or the shell on its way to it; but not for as many bytes as were
\* escaped: those are put without a notice, and the last ones typed stay behind,
\* with the shell waiting, until more is typed.
NobodyStranded == Len(rx) <= notice + Underway + escapes

\* All that was put into the ring is sent once, is in it, or is held by one
\* thread; and in that order, if two threads never sent at once.
Held == chunk["telnet"] \o chunk["shell"] \o chunk["log"]
Times(b, s) == Len(SelectSeq(s, LAMBDA x : x = b))
SentBytes == [i \in DOMAIN sent |-> sent[i].byte]
OutputKept ==
  /\ \A b \in ToSet(SentBytes \o Held \o tx \o put) : Times(b, SentBytes \o Held \o tx) = Times(b, put)
  /\ ~raced => SentBytes \o Held \o tx = put

\* When the client is gone the shell returns to the serial line.
ShellReturns == console = "uart" ~> shell = "uart" \/ console = "telnet"
=============================================================================
