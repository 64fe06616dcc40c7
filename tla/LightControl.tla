---------------------------- MODULE LightControl ---------------------------
(***************************************************************************)
(* The light protocol carried by uart frames (lightproto.c) over the GPIO  *)
(* lines (pin_drv.c).  A frame is a record                                 *)
(*   method : what handle_frame dispatches on                              *)
(*   len    : bytes on the wire, head included: the length field and what   *)
(*            it announces, so that 2 and 3 are less than a head           *)
(*   cmd, line, on : the light request in a uart body of 8 bytes           *)
(* and the GPIO lines are a function from line numbers to on/off.          *)
(***************************************************************************)
EXTENDS Integers

CONSTANTS
  NLines,   \* entries of gl_lines
  Before    \* the line whose pin lies in memory in front of gl_lines, 0: none

ASSUME NLinesAssumption == NLines \in Nat \ {0} /\ Before \in 0..NLines

Lines == 1..NLines

Methods == {"heart", "upgrade", "uart", "reboot", "probe", "other"}
Commands == {"query", "line", "batch", "other", "none"}

\* The only uart body handle_uart_buffer looks at has 8 bytes.
LightLen == 12

IsFrame(f) ==
  /\ f.method \in Methods
  /\ f.len \in Nat /\ f.len >= 2
  /\ f.cmd \in Commands
  /\ f.line \in Nat
  /\ f.on \in BOOLEAN

Frames == [method : Methods, len : Nat, cmd : Commands, line : Nat, on : BOOLEAN]

\* The line number of a request has 16 bits, device_set_line_state takes 8 of
\* them.  line_pin ignores a line above the last one and does not look at 0: it
\* reads gl_lines[-1] and drives the pin it finds there, whichever that is.
line_pin(lines, idx, on) ==
  LET line == IF (idx % 256) = 0 THEN Before ELSE (idx % 256)
  IN  [l \in Lines |-> IF l = line THEN on ELSE lines[l]]

handle_proto_set_batch(lines, on) == [l \in Lines |-> on]

\* A request handle_uart_buffer acts on and answers.
IsLightRequest(f) ==
  /\ f.method = "uart"
  /\ f.len = LightLen
  /\ f.cmd \in {"query", "line", "batch"}

\* The lines once handle_uart_buffer has served f.
handle_uart_buffer(lines, f) ==
  IF f.cmd = "line" THEN line_pin(lines, f.line, f.on)
  ELSE IF f.cmd = "batch" THEN handle_proto_set_batch(lines, f.on) ELSE lines

\* device_get_lines_state: the set of the lines that are on.
device_get_lines_state(lines) == {l \in Lines : lines[l]}

\* What is written back: a query carries the state of the lines, the other
\* two echo the request.  frame is the index of the request in the stream.
Answer(lines, f, frame) ==
  [kind |-> f.cmd, frame |-> frame,
   state |-> IF f.cmd = "query" THEN device_get_lines_state(lines) ELSE {}]

ProbeAnswer(frame) == [kind |-> "probe", frame |-> frame, state |-> {}]

NoAnswer == [kind |-> "none", frame |-> 0, state |-> {}]

Answers(n) ==
  [kind : {"query", "line", "batch", "probe"}, frame : 1..n, state : SUBSET Lines]
    \cup {NoAnswer}
=============================================================================
