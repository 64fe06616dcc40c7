------------------------------ MODULE MCFlash ------------------------------
(***************************************************************************)
(* The parts of EasyFlash this build leaves out and the flash abstraction  *)
(* layer, one at a time: which says whose states these are.  The layer is  *)
(* this module's own (it extends Fal) and waits in an initial state while  *)
(* another part is at work; the variables of the other parts stay 0 then.  *)
(***************************************************************************)
EXTENDS Fal

CONSTANTS v, w, default   \* values of the environment

VARIABLES which,
  log_flash, log_start, log_end, log_pc, rest, addr, log, beyond, tail, mess, cut, log_cuts, log_errors,
  cleaned, brim,
  flash, pc, todo, cur, next, end, value, count, changed, bak, init_ok, saves, cuts, faults,
    may, spoilt,
  bak_app, app, step, cur_size, copied, ready, errors, losses

logVars == <<log_flash, log_start, log_end, log_pc, rest, addr, log, beyond, tail, mess, cut, log_cuts, log_errors,
  cleaned, brim>>
envVars == <<flash, pc, todo, cur, next, end, value, count, changed, bak, init_ok, saves, cuts,
             faults, may, spoilt>>
iapVars == <<bak_app, app, step, cur_size, copied, ready, errors, losses>>
flashVars == <<which, logVars, envVars, iapVars, vars>>

\* The partition table.
OnFlashTable == <<"app", "easyflash", "download">>

L == INSTANCE EfLog WITH Sectors <- 3, E <- 3, Sizes <- {1, 5}, Numbers <- 4, MaxCuts <- 1,
       MaxBlanks <- 1, MaxErrors <- 1

\* With the safeguard and without.
Safe   == INSTANCE EfEnvWl WITH Values <- {v, w}, Default <- default,
            MaxSaves <- 3, MaxCuts <- 2, MaxFaults <- 2, Pfs <- TRUE, Area <- 6
Unsafe == INSTANCE EfEnvWl WITH Values <- {v, w}, Default <- default,
            MaxSaves <- 3, MaxCuts <- 2, MaxFaults <- 2, Pfs <- FALSE, Area <- 4

I == INSTANCE EfIap WITH Total <- 5, Sector <- 6, Buff <- 2, Sizes <- {1, 2, 3}, MaxFaults <- 2,
       MaxCuts <- 2

\* What the modules assume of their constants.
ASSUME L!LogAssumption /\ Safe!EnvWlAssumption /\ Unsafe!EnvWlAssumption /\ I!IapAssumption /\ FalAssumption

FlashInit ==
  /\ which \in {"log", "safe", "unsafe", "iap", "fal"}
  /\ IF which = "log" THEN L!Init
     ELSE /\ log_flash = 0 /\ log_start = 0 /\ log_end = 0 /\ log_pc = 0 /\ rest = 0 /\ addr = 0 /\ log = 0
          /\ beyond = 0 /\ tail = 0 /\ mess = 0 /\ cut = 0 /\ log_cuts = 0 /\ log_errors = 0 /\ cleaned = 0 /\ brim = 0
  /\ IF which = "safe" THEN Safe!Init ELSE IF which = "unsafe" THEN Unsafe!Init
     ELSE /\ flash = 0 /\ pc = 0 /\ todo = 0 /\ cur = 0 /\ next = 0 /\ end = 0 /\ value = 0
          /\ count = 0 /\ changed = 0 /\ bak = 0 /\ init_ok = 0 /\ saves = 0 /\ cuts = 0
          /\ faults = 0 /\ may = 0 /\ spoilt = 0
  /\ IF which = "iap" THEN I!Init
     ELSE /\ bak_app = 0 /\ app = 0 /\ step = 0 /\ cur_size = 0 /\ copied = 0 /\ ready = 0
          /\ errors = 0 /\ losses = 0
  /\ Init /\ (which # "fal" => user = "block")

FlashNext ==
  /\ UNCHANGED which
  /\ \/ which = "log" /\ L!Next /\ UNCHANGED <<envVars, iapVars, vars>>
     \/ which = "safe" /\ Safe!Next /\ UNCHANGED <<logVars, iapVars, vars>>
     \/ which = "unsafe" /\ Unsafe!Next /\ UNCHANGED <<logVars, iapVars, vars>>
     \/ which = "iap" /\ I!Next /\ UNCHANGED <<logVars, envVars, vars>>
     \/ which = "fal" /\ Next /\ UNCHANGED <<logVars, envVars, iapVars>>

FlashSpec == FlashInit /\ [][FlashNext]_flashVars

-----------------------------------------------------------------------------
(* The properties of the parts, which their modules state and explain,     *)
(* together with each part's TypeOK; PartitionSafe is that of Fal.         *)

\* ef_log.c: the log keeps its newest words, its size and what is read are its
\* content.  ef_env_wl.c: saves stay off the system sectors and at addresses that
\* are some.  ef_iap.c: an update puts the whole application in place and
\* nothing else, and the backup holds it.
StorageSafe ==
  /\ which = "log" => L!TypeOK /\ L!KeepsNewest /\ L!ReadsContent
  /\ which = "safe" => Safe!TypeOK /\ Safe!NeverHangs /\ Safe!SystemSectors
  /\ which = "unsafe" => Unsafe!TypeOK /\ Unsafe!NeverHangs /\ Unsafe!SystemSectors
  /\ which = "iap" => I!TypeOK /\ I!WholeApplication /\ I!BackupKept

\* ef_log.c: a power loss at rest cleans no log (EfLog.CleansOnlyAtChange).
LogCleansOnlyAtChange ==
  [][which = "log" /\ cleaned' /\ log_pc = "off" /\ ~brim /\ mess # "spoilt" => cut \in L!Changing]_flashVars

Boots == which \in {"safe", "unsafe"} /\ pc = "off" /\ pc' # "off"
\* ef_env_wl.c: a start loads what was saved last (EfEnvWl.BootsWhatWasSaved).
EnvBootsWhatWasSaved ==
  [][Boots => spoilt # {} \/ (IF init_ok' THEN value' \in may ELSE default \in may)]_flashVars

\* Whatever step of a change the power was lost in, a start finds the log and the
\* environment that were kept.
StartsFindWhatWasKept == LogCleansOnlyAtChange /\ EnvBootsWhatWasSaved
=============================================================================
