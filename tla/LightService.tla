---------------------------- MODULE LightService ---------------------------
(***************************************************************************)
(* What one session with the cloud promises about the lights, without      *)
(* buffers, segments or threads: the frames the cloud sends are served one *)
(* by one in the order sent, none twice and none left out; serving a light *)
(* request takes its effect on the lines at once and owes one answer that  *)
(* tells the lines of that moment; an owed answer is written before the    *)
(* next frame is served, or never.                                         *)
(***************************************************************************)
EXTENDS Sequences, LightControl

CONSTANT Traffic   \* the frames the cloud may send

VARIABLES
  sent,      \* the frames sent by the cloud
  served,    \* how many of them were served
  lines,
  owed,      \* the answer not yet written, or NoAnswer
  written    \* the answers written

vars == <<sent, served, lines, owed, written>>

Init ==
  /\ sent = <<>> /\ served = 0
  /\ lines \in [Lines -> BOOLEAN]
  /\ owed = NoAnswer /\ written = <<>>

\* The cloud sends one more frame.
Send ==
  /\ \E f \in Traffic : sent' = Append(sent, f)
  /\ UNCHANGED <<served, lines, owed, written>>

\* The next frame is served; no answer is owed for what asks for none, and
\* an answer may fail for lack of memory.
Serve ==
  /\ served < Len(sent) /\ owed = NoAnswer
  /\ LET f == sent[served + 1]
     IN  /\ lines' = IF IsLightRequest(f) THEN handle_uart_buffer(lines, f) ELSE lines
         /\ \/ owed' = NoAnswer
            \/ IsLightRequest(f) /\ owed' = Answer(lines', f, served + 1)
            \/ f.method = "probe" /\ owed' = ProbeAnswer(served + 1)
  /\ served' = served + 1
  /\ UNCHANGED <<sent, written>>

Write ==
  /\ owed # NoAnswer
  /\ owed' = NoAnswer
  /\ written' \in {written, Append(written, owed)}
  /\ UNCHANGED <<sent, served, lines>>

Next == Send \/ Serve \/ Write

Spec == Init /\ [][Next]_vars
=============================================================================
