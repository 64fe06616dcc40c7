------------------------------- MODULE EnvStore -----------------------------
(***************************************************************************)
(* What power fail safeguard promises of a set of environment variables,   *)
(* without areas, counts or check sums: a save replaces what a restart     *)
(* would load by all of the variables at once, and a restart loads exactly *)
(* what the last such replacement left.                                    *)
(***************************************************************************)
CONSTANTS
  Envs,      \* the possible sets of variables
  Default    \* the variables of a new device

VARIABLES
  view,      \* the variables as the program sees them
  durable    \* the variables a restart would load

vars == <<view, durable>>

Init == view = Default /\ durable = Default

\* The program sets or deletes variables, or resets them all.
Change == view' \in Envs /\ UNCHANGED durable

\* The variables become durable, all at once.
Commit == durable' = view /\ UNCHANGED view

\* The power fails.
PowerFail == view' = durable /\ UNCHANGED durable

Next == Change \/ Commit \/ PowerFail

Spec == Init /\ [][Next]_vars
=============================================================================
