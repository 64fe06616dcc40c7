------------------------------- MODULE EfLog -------------------------------
(***************************************************************************)
(* ef_log.c: a log kept as a ring of flash sectors.  Each sector begins    *)
(* with a header that tells whether it is empty, in use or full; the       *)
(* sector in use is the newest, the one behind it is erased when it is     *)
(* full.  Where the log begins and ends is found again at each start.      *)
(*                                                                         *)
(* A cell is a word of flash, an erased one reads FF.  A header is one     *)
(* cell, whose words are programmed one after the other.  A word whose     *)
(* programming was cut short is torn, and may end in bytes FF or not.      *)
(***************************************************************************)
EXTENDS Integers, SequencesExt

CONSTANTS
  Sectors,   \* LOG_AREA_SIZE / EF_ERASE_MIN_SIZE
  E,         \* cells of a sector
  Sizes,     \* lengths of the logs that are written
  Numbers,   \* bound: words written are numbers modulo this
  MaxCuts,   \* bound: power losses
  MaxBlanks, \* bound: words FF in the log
  MaxErrors  \* bound: operations of flash that fail

LogAssumption == /\ Sectors \in Nat /\ Sectors >= 2 /\ E \in Nat /\ E >= 2
                        /\ Numbers \in Nat \ {0} /\ Sizes \subseteq Nat \ {0}

H    == 1
Area == 0 .. Sectors * E - 1
\* Cells that are no words of the log.
FF    == -1
Torn  == -2
TornTail == -8  \* torn, its last byte reads FF
Other == -3  \* what lies behind the area
EMPTY == -4
USING == -5
FULL  == -6
HEADER_ERROR == -7

VARIABLES
  log_flash,   \* [Area -> cell]
  log_start,   \* log_start_addr
  log_end,     \* log_end_addr
  log_pc,      \* what ef_log_write does next
  rest,    \* words it has left to write
  addr,    \* write_addr
  log,     \* history: the words flash should hold
  beyond,  \* history: how many of them lie behind log_end
  tail,    \* history: how many of them the sector in use holds
  mess,    \* history: "failed": a call gave up half way and none was made since;
           \* "spoilt": a call wrote over what such a one had left, log is not kept
  cut,     \* history: where power was lost, or a call gave up, before the start to come
  log_cuts, log_errors,  \* numbers of power losses, of operations that failed
  cleaned, \* a start has just cleaned the log
  brim     \* history: the log was found, or left, to end where its sector ends

vars == <<log_flash, log_start, log_end, log_pc, rest, addr, log, beyond, tail, mess, cut,
          log_cuts, log_errors, cleaned, brim>>
logBounds == <<log_cuts, log_errors>>

-----------------------------------------------------------------------------
(* Flash.                                                                  *)

Sector(a)  == (a \div E) * E
Base(s)    == s * E
Cell(f, a) == IF a \in Area THEN f[a] ELSE Other

\* What is programmed over what: bits are only cleared.
Over == {<<EMPTY, USING>>, <<EMPTY, FULL>>, <<USING, FULL>>}
Program(old, new) ==
  IF old = FF \/ old = new \/ <<old, new>> \in Over THEN new ELSE IF new = FF THEN old ELSE Torn

Write(f, a, ws) == [b \in Area |-> IF b \in a .. a + Len(ws) - 1 THEN Program(f[b], ws[b - a + 1])
                                   ELSE f[b]]
Erase(f, a)     == [b \in Area |-> IF Sector(b) = a THEN FF ELSE f[b]]

\* get_sector_status, write_sector_status.
Status(f, a) ==
  IF Cell(f, Sector(a)) \in {EMPTY, USING, FULL} THEN Cell(f, Sector(a)) ELSE HEADER_ERROR
WriteStatus(f, a, status) == Write(f, Sector(a), <<status>>)

\* Fault variant: the ring ends a sector late.
NextSector_late(a) == IF a < 0 \/ a \div E + 1 > Sectors THEN 0 ELSE Sector(a) + E

\* get_next_flash_sec_addr: an address in front of the area wraps.
NextSector(a) == IF a < 0 \/ a \div E + 1 >= Sectors THEN 0 ELSE Sector(a) + E

-----------------------------------------------------------------------------
(* find_start_and_end_addr.                                                *)

\* continue_ff: the bytes FF the sector ends in, in words; four make a word, and
\* then the bytes FF of the torn word in front of them are rounded up to one.
BlankWords(f, s) == LET used == {b \in Base(s) + H .. Base(s) + E - 1 : f[b] # FF}
                    IN  IF used = {} THEN E - H ELSE Base(s) + E - 1 - Max(used)

BlankTail(f, s) ==
  LET n == BlankWords(f, s)
  IN  IF n \in 1 .. E - H - 1 /\ f[Base(s) + E - 1 - n] = TornTail THEN n + 1 ELSE n
UsingEnd(f, s)  == Base(s) + E - BlankTail(f, s)

\* What two neighbours s - 1 and s say: found holds the log's start and the
\* sector in use.
Nowhere == [start |-> 0, using |-> 0]
Found(st, s, was) ==
  CASE st[s - 1] = USING /\ st[s] = EMPTY -> [start |-> 0, using |-> s - 1]
    [] st[s - 1] = USING /\ st[s] = FULL  -> [start |-> Base(s), using |-> s - 1]
    [] st[s - 1] = FULL /\ st[s] = USING /\ Sectors = 2      -> [start |-> 0, using |-> s]
    [] st[s - 1] = FULL /\ st[s] = USING /\ s = Sectors - 1  -> [start |-> 0, using |-> s]
    [] OTHER -> was

Illegal(st, s) ==
  \/ st[s - 1] = EMPTY /\ st[s] \in {USING, FULL}
  \/ st[s - 1] = USING /\ st[s] = USING
  \/ \E r \in 1 .. s - 1 : st[r - 1] = USING /\ st[r] = FULL /\ st[s - 1] = FULL /\ st[s] = EMPTY

Statuses(f) == [s \in 0 .. Sectors - 1 |-> Status(f, Base(s))]

\* Fault variant: the last sector is not counted.
Cleans_last(st) ==
  \/ \E s \in DOMAIN st : st[s] = HEADER_ERROR
  \/ \E s \in 1 .. Sectors - 1 : Illegal(st, s)
  \/ Quantify(0 .. Sectors - 2, LAMBDA s : st[s] = USING) # 1

\* Whether the log is cleaned: the order is none that writing leads to.
Cleans(st) ==
  \/ \E s \in DOMAIN st : st[s] = HEADER_ERROR
  \/ \E s \in 1 .. Sectors - 1 : Illegal(st, s)
  \/ Quantify(DOMAIN st, LAMBDA s : st[s] = USING) # 1

FoundIn(st) == FoldLeft(LAMBDA was, s : Found(st, s, was), Nowhere, [i \in 1 .. Sectors - 1 |-> i])

\* ef_log_clean, with headers for the first n sectors.
CleanArea(n) == [a \in Area |-> IF a % E # 0 \/ a \div E >= n THEN FF
                                ELSE IF a = 0 THEN USING ELSE EMPTY]

-----------------------------------------------------------------------------
(* Reading.                                                                *)

InOrder == log_start < log_end

\* ef_log_get_used_size.
UsedOf(physical) == physical - (physical \div E + 1) * H
ef_log_get_used_size ==
  UsedOf(IF InOrder THEN log_end - log_start ELSE Sectors * E - (log_start - log_end))

\* log_index2addr.
Plain(i) == log_start + i + (i \div (E - H) + 1) * H
log_index2addr(i) == IF InOrder \/ Plain(i) < Sectors * E THEN Plain(i) ELSE Plain(i) - Sectors * E

\* Fault variant: headers are read as log.
ToDataAddr_same(a, done) == a

\* log_seq_read: done words are read, from addresses a + done on.
ToDataAddr(a, done) == IF (a + done) % E = 0 THEN a + H ELSE a

RECURSIVE SeqRead(_, _, _)
SeqReadAt(a, done, size) ==
  LET n == IF size < E - (a % E) THEN size ELSE E - (a % E)
  IN  [i \in 1 .. n |-> Cell(log_flash, a + done + i - 1)] \o SeqRead(a, done + n, size - n)
SeqRead(a, done, size) ==
  IF size = 0 THEN <<>> ELSE SeqReadAt(ToDataAddr(a, done), done, size)
log_seq_read(a, size) == SeqRead(a, 0, size)

\* ef_log_read, within the used size.
ToEnd(a)     == Sectors * E - a
Readable(a)  == ToEnd(a) - (ToEnd(a) \div E) * H
ef_log_read(index, size) ==
  LET a == log_index2addr(index)
  IN  IF InOrder \/ a + size <= Sectors * E THEN log_seq_read(a, size)
      ELSE log_seq_read(a, Readable(a)) \o log_seq_read(0, size - Readable(a))

-----------------------------------------------------------------------------
(* ef_log_write.                                                           *)

Writable == E - (addr % E)
Low(n, m) == IF n < m THEN n ELSE m
Room     == E - H
Take(n)  == SubSeq(rest, 1, n)
Drop(n)  == SubSeq(rest, n + 1, Len(rest))
\* The log with ws behind it; no more is kept than a full area holds.
Kept(ws) == IF Len(ws) <= Sectors * Room THEN ws
            ELSE SubSeq(ws, Len(ws) - Sectors * Room + 1, Len(ws))
\* The first word may be programmed over a torn one, whose bits stay cleared.
Laid(ws) == IF ws # <<>> /\ Cell(log_flash, addr) = TornTail
            THEN <<Program(TornTail, ws[1])>> \o Tail(ws) ELSE ws
Logged(ws) == IF mess = "spoilt" THEN <<>> ELSE Kept(log \o Laid(ws))
InSector(n) == (addr % E) - H + n

LastNumber == FoldLeft(LAMBDA was, w : IF w >= 0 THEN w ELSE was, 0, log)
Counting(n) == [i \in 1 .. n |-> (LastNumber + i) % Numbers]
Blank(n)    == Append(Counting(n - 1), FF)
Texts == {Counting(n) : n \in Sizes}
         \union (IF Quantify(DOMAIN log, LAMBDA i : log[i] = FF) < MaxBlanks
                 THEN {Blank(n) : n \in Sizes} ELSE {})

Begin ==
  /\ log_pc = "idle" /\ Status(log_flash, log_end) # HEADER_ERROR
  /\ rest' \in Texts /\ addr' = log_end
  /\ log_pc' = IF Status(log_flash, log_end) = FULL THEN "erase" ELSE "fill"
  /\ IF mess = "none" THEN mess' = mess /\ log' = log ELSE mess' = "spoilt" /\ log' = <<>>
  /\ beyond' = 0 /\ cleaned' = FALSE
  /\ UNCHANGED <<log_flash, log_start, log_end, tail, cut, logBounds, brim>>

\* The erased rest of the sector.
Fill ==
  /\ log_pc = "fill"
  /\ log_flash' = Write(log_flash, addr, Take(Low(Len(rest), Writable)))
  /\ log' = Logged(Take(Low(Len(rest), Writable)))
  /\ rest' = Drop(Low(Len(rest), Writable))
  /\ tail' = InSector(Low(Len(rest), Writable))
  /\ IF Len(rest) >= Writable THEN log_pc' = "filled" /\ log_end' = log_end /\ beyond' = Writable
     ELSE log_pc' = "idle" /\ log_end' = addr + Len(rest) /\ beyond' = 0
  /\ UNCHANGED <<log_start, addr, mess, cut, logBounds, cleaned, brim>>

Filled ==
  /\ log_pc = "filled" /\ log_pc' = "erase"
  /\ log_flash' = WriteStatus(log_flash, addr, FULL)
  /\ UNCHANGED <<log_start, log_end, rest, addr, log, beyond, tail, mess, cut, logBounds, cleaned, brim>>

\* Fault variant: the oldest sector is erased but stays the oldest.
NewStart_same(erased) == log_start

NewStart(erased) == IF log_start = erased THEN NextSector(log_start) ELSE log_start

EraseNext ==
  /\ log_pc = "erase" /\ log_pc' = "use"
  /\ addr' = NextSector(addr - 1) /\ log_start' = NewStart(NextSector(addr - 1))
  /\ log_flash' = Erase(log_flash, NextSector(addr - 1))
  /\ UNCHANGED <<log_end, rest, log, beyond, tail, mess, cut, logBounds, cleaned, brim>>

UseNext ==
  /\ log_pc = "use" /\ log_pc' = "body"
  /\ log_flash' = WriteStatus(log_flash, addr, USING) /\ addr' = addr + H
  /\ tail' = 0
  /\ UNCHANGED <<log_start, log_end, rest, log, beyond, mess, cut, logBounds, cleaned, brim>>

Body ==
  /\ log_pc = "body"
  /\ log_flash' = Write(log_flash, addr, Take(Low(Len(rest), Room)))
  /\ log' = Logged(Take(Low(Len(rest), Room))) /\ rest' = Drop(Low(Len(rest), Room))
  /\ tail' = Low(Len(rest), Room)
  /\ IF Len(rest) >= Room THEN log_pc' = "bodyfull" /\ log_end' = log_end /\ beyond' = beyond + Room
     ELSE log_pc' = "idle" /\ log_end' = addr + Len(rest) /\ beyond' = 0
  /\ UNCHANGED <<log_start, addr, mess, cut, logBounds, cleaned, brim>>

BodyFull ==
  /\ log_pc = "bodyfull" /\ log_pc' = "erase"
  /\ log_flash' = WriteStatus(log_flash, addr, FULL) /\ log_end' = addr + Room /\ addr' = addr + Room
  /\ beyond' = 0
  /\ UNCHANGED <<log_start, rest, log, tail, mess, cut, logBounds, cleaned, brim>>

-----------------------------------------------------------------------------
(* An operation of flash fails, and ef_log_write gives up (goto exit), or   *)
(* power is lost in it, and what flash then holds; ef_log_init.            *)

\* It fails with f in flash, ws of it words behind the log, t in the sector.
Stops(f, ws, t) ==
  /\ log_flash' = f /\ log' = Logged(ws) /\ rest' = <<>> /\ cut' = log_pc
  /\ beyond' = beyond + Len(ws) /\ tail' = t
  /\ \/ /\ log_cuts < MaxCuts /\ log_cuts' = log_cuts + 1 /\ log_pc' = "off"
        /\ UNCHANGED <<log_errors, mess, brim>>
     \/ /\ log_errors < MaxErrors /\ log_errors' = log_errors + 1 /\ log_pc' = "idle"
        /\ mess' = (IF mess = "none" THEN "failed" ELSE mess) /\ brim' = (brim \/ log_end % E = 0)
        /\ UNCHANGED log_cuts
  /\ UNCHANGED <<log_end, cleaned>>

\* What may have been programmed of the words that fit: some, and a part of the next.
Programmed == {Take(n) \o ws : n \in 0 .. Low(Len(rest), Writable), ws \in {<<>>, <<Torn>>, <<TornTail>>}}
WholeOrTorn == {ws \in Programmed : Len(ws) <= Low(Len(rest), Writable)}

StopsWriting ==
  /\ log_pc \in {"fill", "body"} /\ UNCHANGED <<log_start, addr>>
  /\ \E ws \in WholeOrTorn : Stops(Write(log_flash, addr, ws), ws, InSector(Len(ws)))

\* The words that fit the sector are written as if they had been: log_end is set.
ShortFails ==
  /\ log_pc = "fill" /\ Len(rest) < Writable /\ log_errors < MaxErrors
  /\ \E ws \in WholeOrTorn :
       /\ log_flash' = Write(log_flash, addr, ws)
       /\ log' = Logged(ws \o [i \in 1 .. Len(rest) - Len(ws) |-> FF])
  /\ log_pc' = "idle" /\ log_end' = addr + Len(rest) /\ tail' = InSector(Len(rest)) /\ rest' = <<>>
  /\ beyond' = 0 /\ log_errors' = log_errors + 1
  /\ UNCHANGED <<log_start, addr, mess, cut, log_cuts, cleaned, brim>>

\* A header from the magic word on: a new one is an empty sector's first.
StopsHeader ==
  /\ log_pc \in {"filled", "bodyfull", "use"} /\ UNCHANGED <<log_start, addr>>
  /\ \E h \in {Cell(log_flash, Sector(addr)), Torn, EMPTY, IF log_pc = "use" THEN USING ELSE FULL} :
       (h = EMPTY => log_pc = "use") /\
         Stops([log_flash EXCEPT ![Sector(addr)] = h], <<>>, IF log_pc = "use" THEN 0 ELSE tail)

\* Nothing, the header, all or parts of a sector's words are erased.
Erasures(s) == {log_flash, [log_flash EXCEPT ![s] = FF], Erase(log_flash, s),
                [a \in Area |-> IF Sector(a) = s THEN Torn ELSE log_flash[a]]}

StopsErasing ==
  /\ log_pc = "erase"
  /\ addr' = NextSector(addr - 1) /\ log_start' = NewStart(NextSector(addr - 1))
  /\ \E f \in Erasures(NextSector(addr - 1)) : Stops(f, <<>>, tail)

CutIdle ==
  /\ log_pc = "idle" /\ log_cuts < MaxCuts /\ log_cuts' = log_cuts + 1 /\ log_pc' = "off"
  /\ cut' = (IF mess = "none" THEN log_pc ELSE cut)
  /\ UNCHANGED <<log_flash, log_start, log_end, rest, addr, log, beyond, tail, mess, log_errors,
                 cleaned, brim>>

\* What a start finds of the log's last n words, which are in the sector in use:
\* it takes words FF at their end, and with words FF behind it a torn word whose
\* last byte is FF, for free.
FoundAgain(l, n) ==
  LET front == IF n \in 0 .. Len(l) THEN Len(l) - n ELSE 0
      last  == Max({front} \union {i \in front + 1 .. Len(l) : l[i] # FF})
      half  == last > front /\ l[last] = TornTail /\ last - front < Room
  IN  SubSeq(l, 1, IF half THEN last - 1 ELSE last)

\* ef_log_clean takes no notice of a header it could not write, nor ef_log_init
\* of an area that could not be erased.
CleansUp ==
  /\ \/ log_flash' = CleanArea(Sectors) /\ log_pc' = "idle" /\ mess' = "none" /\ UNCHANGED logBounds
     \/ /\ \E n \in 0 .. Sectors - 1 : log_flash' = CleanArea(n)
        /\ log_pc' = "off" /\ log_cuts < MaxCuts /\ log_cuts' = log_cuts + 1
        /\ mess' = "none" /\ UNCHANGED log_errors
     \/ /\ \E n \in 0 .. Sectors - 1 : log_flash' \in {CleanArea(n), log_flash}
        /\ log_pc' = "idle" /\ log_errors < MaxErrors /\ log_errors' = log_errors + 1
        /\ mess' = "spoilt" /\ UNCHANGED log_cuts
  /\ log_start' = 0 /\ log_end' = H /\ log' = <<>> /\ tail' = 0 /\ cleaned' = TRUE /\ brim' = FALSE

FindsLog ==
  LET found == FoundIn(Statuses(log_flash))
  IN  /\ log_start' = found.start /\ log_end' = UsingEnd(log_flash, found.using)
      /\ log' = FoundAgain(log, tail) /\ tail' = log_end' - Base(found.using) - H
      /\ mess' = (IF mess = "failed" THEN "none" ELSE mess)
      /\ log_pc' = "idle" /\ cleaned' = FALSE /\ brim' = (brim \/ log_end' % E = 0)
      /\ UNCHANGED <<log_flash, logBounds>>

ef_log_init ==
  /\ log_pc = "off"
  /\ IF Cleans(Statuses(log_flash)) THEN CleansUp ELSE FindsLog
  /\ beyond' = 0 /\ cut' = (IF log_pc' = "off" THEN cut ELSE "no") /\ UNCHANGED <<rest, addr>>

Init ==
  /\ log_flash = [a \in Area |-> FF] /\ log_start = 0 /\ log_end = 0 /\ log_pc = "off"
  /\ rest = <<>> /\ addr = 0
  /\ log = <<>> /\ beyond = 0 /\ tail = 0 /\ mess = "none" /\ cut = "new"
  /\ log_cuts = 0 /\ log_errors = 0 /\ cleaned = FALSE /\ brim = FALSE

Next == \/ Begin \/ Fill \/ Filled \/ EraseNext \/ UseNext \/ Body \/ BodyFull
        \/ StopsWriting \/ ShortFails \/ StopsHeader \/ StopsErasing \/ CutIdle \/ ef_log_init

Spec == Init /\ [][Next]_vars

-----------------------------------------------------------------------------
(* Properties.                                                             *)

Quiet == log_pc = "idle" /\ ~brim /\ mess # "spoilt"
\* What ef_log_read can reach of the log.
Told  == SubSeq(log, 1, Len(log) - beyond)

TypeOK ==
  /\ log_flash \in [Area -> (Other + 1 .. Numbers - 1) \union (FULL .. EMPTY) \union {TornTail}]
  /\ log_start \in {Base(s) : s \in 0 .. Sectors - 1} /\ log_end \in 0 .. Sectors * E
  /\ log_pc \in {"off", "idle", "fill", "filled", "erase", "use", "body", "bodyfull"}
  /\ log_cuts \in 0 .. MaxCuts /\ log_errors \in 0 .. MaxErrors
  /\ mess \in {"none", "failed", "spoilt"} /\ cleaned \in BOOLEAN /\ brim \in BOOLEAN

\* The words from start to end, headers left out.
Ahead(a)  == (a - log_start + Sectors * E) % (Sectors * E)
InLog(a)  == a % E # 0 /\ Ahead(a) < (IF InOrder THEN log_end - log_start ELSE Ahead(log_end))
Content   == LET words == {a \in Area : InLog(a)}
             IN  [i \in 1 .. Cardinality(words) |->
                    log_flash[CHOOSE a \in words :
                                Cardinality({b \in words : Ahead(b) < Ahead(a)}) = i - 1]]

\* The flash holds the last words that were written, in their order, and loses
\* no more than the oldest sector, and a new start finds the same words; after a
\* call that gave up half way what was told before it, its own words only after a
\* start.  It says nothing of a call made after that one without a start: it
\* programs over the words that lie behind log_end.
KeepsNewest ==
  Quiet => /\ IsSuffix(Content, Told)
           /\ Len(Content) + beyond >= Low(Len(log), (Sectors - 1) * Room)

\* The size ef_log_get_used_size tells is that of the log, and what is read at
\* an index are the words there: as long as one reading reaches no third
\* sector, nor by its headers the end of the area.
Reaches(i, n)   == (log_index2addr(i) % E) - H + n
ReadsWell(i, n) == Reaches(i, n) <= 2 * Room
ReadsContent ==
  Quiet => /\ ef_log_get_used_size = Len(Content)
           /\ \A i \in 0 .. Len(Content) - 1 : \A n \in 1 .. Len(Content) - i :
                ReadsWell(i, n) => ef_log_read(i, n) = SubSeq(Content, i + 1, i + n)

\* A start cleans the log only if there was none, or if power was lost while
\* one sector was given up for the next: a loss at rest, or while words are
\* appended, costs no log; nor does a call that gave up then.
Changing == {"new", "filled", "erase", "use", "bodyfull"}
CleansOnlyAtChange == [][cleaned' /\ log_pc = "off" /\ ~brim /\ mess # "spoilt" => cut \in Changing]_vars
=============================================================================
