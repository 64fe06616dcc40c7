------------------------------- MODULE EfIap -------------------------------
(***************************************************************************)
(* ef_iap.c: an application is downloaded into the backup area piece by    *)
(* piece and copied from there to where it runs.  The updater that calls   *)
(* it is external: it goes on with the download in the order of the file,  *)
(* repeats what failed, and remembers over a restart only that the         *)
(* download is complete.                                                   *)
(***************************************************************************)
EXTENDS Integers, FiniteSets

CONSTANTS
  Total,     \* words of the application
  Sector,    \* words of a sector; both areas are one
  Buff,      \* words copied at once
  Sizes,     \* of the pieces that arrive
  MaxFaults, \* bound: operations of the flash that fail
  MaxCuts    \* bound: power losses

IapAssumption ==
  /\ Total \in Nat \ {0} /\ Buff \in Nat \ {0} /\ Sector \in Nat
  /\ Total <= Sector /\ Sector % Buff = 0 /\ Sizes \subseteq Nat \ {0}

VARIABLES
  bak_app,       \* the backup area: its words
  app,       \* the words where the application runs and one behind its sector
  step,        \* what the updater does
  cur_size,  \* words downloaded
  copied,    \* words copied
  ready,     \* kept over restarts: the download is complete
  errors, losses

vars == <<bak_app, app, step, cur_size, copied, ready, errors, losses>>

\* A word: erased, the application's i-th, some bits of the i-th, anything,
\* or another program's.
Word(kind, i) == [kind |-> kind, i |-> i]
Erased  == Word("erased", 0)
Garbage == Word("garbage", 0)
Foreign == Word("foreign", 0)
Words   == {Word("app", i) : i \in 0 .. Total - 1}

\* A flash only clears bits: writing the same again completes it.
Part(w) == IF w.kind = "app" THEN Word("part", w.i) ELSE w
Over(old, w) ==
  IF w = Erased \/ w = old \/ w = Part(old) THEN old
  ELSE IF old = Erased \/ old = Part(w) THEN w
  ELSE Garbage

Rewritten(area, at, words) ==
  [k \in DOMAIN area |-> IF k - at \in DOMAIN words THEN Over(area[k], words[k - at]) ELSE area[k]]

\* A write that fails or is cut has written its first n words, the next in part.
Partly(words, n) ==
  [k \in 0 .. n |-> IF k < n THEN words[k] ELSE Part(words[k])]

Fault == errors < MaxFaults /\ errors' = errors + 1 /\ UNCHANGED losses
Cut   == /\ losses < MaxCuts /\ losses' = losses + 1 /\ step' = "off" /\ cur_size' = 0 /\ copied' = 0
         /\ UNCHANGED errors
Fine  == UNCHANGED <<errors, losses>>

-----------------------------------------------------------------------------
(* ef_erase_bak_app, ef_write_data_to_bak.                                 *)

ef_erase_bak_app ==
  /\ step = "erase bak"
  /\ \/ /\ Fine /\ bak_app' = [k \in DOMAIN bak_app |-> Erased] /\ step' = "download" /\ cur_size' = 0
        /\ UNCHANGED copied
     \/ Fault /\ UNCHANGED <<bak_app, step, cur_size, copied>>
     \/ Cut /\ \E k \in DOMAIN bak_app : bak_app' = [bak_app EXCEPT ![k] = Garbage]
  /\ UNCHANGED <<app, ready>>

\* Fault variant: the size grows although the write failed.
Advance_always(n, ok) == n

Clamped(size) == IF cur_size + size > Total THEN Total - cur_size ELSE size
Advance(n, ok) == IF ok THEN n ELSE 0

Piece(n) == [k \in 0 .. n - 1 |-> Word("app", (cur_size + k) % Total)]
ef_write_data_to_bak ==
  /\ step = "download"
  /\ \E size \in Sizes : LET n == Clamped(size) IN
       \/ /\ Fine /\ bak_app' = Rewritten(bak_app, cur_size, Piece(n)) /\ cur_size' = cur_size + Advance(n, TRUE)
          /\ IF cur_size' >= Total THEN step' = "erase app" /\ ready' = TRUE
             ELSE UNCHANGED <<step, ready>>
          /\ UNCHANGED copied
       \/ \E k \in 0 .. n - 1 :
            /\ bak_app' = Rewritten(bak_app, cur_size, Partly(Piece(n), k)) /\ UNCHANGED ready
            /\ \/ Fault /\ cur_size' = cur_size + Advance(n, FALSE) /\ UNCHANGED <<step, copied>>
               \/ Cut
  /\ UNCHANGED app

-----------------------------------------------------------------------------
(* ef_erase_user_app, ef_copy_app_from_bak.                                *)

ef_erase_user_app ==
  /\ step = "erase app"
  /\ \/ /\ Fine /\ app' = [k \in DOMAIN app |-> IF k < Sector THEN Erased ELSE app[k]]
        /\ step' = "copy" /\ copied' = 0 /\ UNCHANGED cur_size
     \/ Fault /\ UNCHANGED <<app, step, cur_size, copied>>
     \/ Cut /\ \E k \in 0 .. Sector - 1 : app' = [app EXCEPT ![k] = Garbage]
  /\ UNCHANGED <<bak_app, ready>>

\* One round of the loop; the last one copies what lies behind the
\* application, too.  Fault variant: only whole buffers are copied.
CopyEnds_whole(n) == n + Buff > Total

CopyEnds(n) == n >= Total
Read(at) == [k \in 0 .. Buff - 1 |-> IF at + k \in DOMAIN bak_app THEN bak_app[at + k] ELSE Garbage]
ef_copy_app_from_bak ==
  /\ step = "copy"
  /\ \/ /\ Fine /\ app' = Rewritten(app, copied, Read(copied)) /\ copied' = copied + Buff
        /\ step' = (IF CopyEnds(copied') THEN "done" ELSE "copy") /\ UNCHANGED cur_size
     \/ \E k \in 0 .. Buff - 1 :
          /\ app' = Rewritten(app, copied, Partly(Read(copied), k))
          /\ \/ Fault /\ step' \in {"erase app", "copy"} /\ copied' = 0 /\ UNCHANGED cur_size
             \/ Cut
  /\ UNCHANGED <<bak_app, ready>>

Restart ==
  /\ step = "off" /\ step' = (IF ready THEN "erase app" ELSE "erase bak")
  /\ UNCHANGED <<bak_app, app, cur_size, copied, ready, errors, losses>>

Init ==
  /\ bak_app \in {[k \in 0 .. Sector - 1 |-> Garbage]} /\ app = [k \in 0 .. Sector |-> Foreign]
  /\ step = "erase bak" /\ cur_size = 0 /\ copied = 0 /\ ready = FALSE /\ errors = 0 /\ losses = 0

Next == \/ ef_erase_bak_app \/ ef_write_data_to_bak \/ ef_erase_user_app \/ ef_copy_app_from_bak
        \/ Restart

Spec == Init /\ [][Next]_vars

-----------------------------------------------------------------------------
(* Properties.                                                             *)

\* Every variable has a value of its type.
TypeOK ==
  /\ \A k \in DOMAIN bak_app : bak_app[k].kind \in {"erased", "app", "part", "garbage"}
  /\ cur_size \in 0 .. Total /\ copied \in 0 .. Sector /\ ready \in BOOLEAN

\* Whatever is repeated, fails or is cut short, an update that is over has put
\* the whole application where it runs, and what lies behind its sector is as
\* it was although the copying goes by whole buffers.
WholeApplication ==
  /\ step = "done" => \A i \in 0 .. Total - 1 : app[i] = Word("app", i)
  /\ app[Sector] = Foreign

\* As long as the backup is needed it holds the application.
BackupKept == ready => \A i \in 0 .. Total - 1 : bak_app[i] = Word("app", i)
=============================================================================
