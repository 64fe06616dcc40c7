-------------------------------- MODULE Fal --------------------------------
(***************************************************************************)
(* The flash abstraction layer (packages/fal-v0.3.0): the partition table, *)
(* which is loaded from the flash, and a partition seen as a block device, *)
(* as an MTD or a character device, as a file or through the shell's       *)
(* commands.  A device of the table may fail to start, reads may fail and  *)
(* memory may be short; erasing and writing may fail half way.             *)
(***************************************************************************)
EXTENDS Integers, Sequences

CONSTANTS
  OnFlash,   \* the partition table on the flash, last entry first
  Offset, PartLen, \* a partition of it, in cells
  Blk,       \* cells that are erased at once
  DevLen,    \* cells of its device
  Wrap,      \* 2 ^ bits of an address, and of a size
  Data,      \* what is written
  Users,     \* how the partition is used
  MaxFaults, MaxOom, MaxSize \* bounds: failures, allocations that fail, arguments
                             \* (and how far from the last address they begin again)

FalAssumption ==
  /\ {Offset, PartLen, DevLen, Wrap, MaxFaults, MaxOom, MaxSize} \subseteq Nat /\ Blk \in Nat \ {0}
  /\ OnFlash \in Seq({OnFlash[n] : n \in DOMAIN OnFlash}) /\ OnFlash # <<>>
  /\ (Offset % Blk) = 0 /\ (PartLen % Blk) = 0 /\ Offset + PartLen <= DevLen
  /\ DevLen + MaxSize < Wrap /\ DevLen + DevLen <= Wrap /\ Blk <= DevLen

VARIABLES
  user,      \* who uses the partition
  started,   \* fal_flash_init is through; its device is up
  up,
  table,     \* partition_table
  len,       \* partition_table_len
  part_init_ok,
  cells,     \* of the device
  access,    \* history: the last write of the block device, or any access that was let
             \* through and ends behind the partition, in numbers without a width
  mode,      \* how the file is open
  pos,       \* fd->pos
  file,      \* history: what has been written to the file
  dirty,     \* history: an erase or a write for the file failed
  bench,     \* the shell's benchmark: its step, its block size, where it is
  failures, oom

vars == <<user, started, up, table, len, part_init_ok, cells, access, mode, pos, file, dirty, bench,
          failures, oom>>
tables == <<started, up, table, len, part_init_ok, oom>>
files  == <<mode, pos, file, dirty>>

Erased  == "erased"
Mixed   == "mixed"
Foreign == "foreign"
Pattern == "pattern"
NoAccess == [op |-> "none", addr |-> 0, size |-> 0, data |-> Erased, ok |-> FALSE]
Idle     == [step |-> "idle", n |-> 0, at |-> 0]

-----------------------------------------------------------------------------
(* fal_init.                                                               *)

\* The result of a device's init is ignored, and it is not called again.
fal_flash_init ==
  /\ ~started /\ started' = TRUE /\ up' \in BOOLEAN
  /\ UNCHANGED <<user, table, len, part_init_ok, cells, access, files, bench, failures, oom>>

\* Fault variant: what was read before an error is the table.
Found_so_far(n) == n

Found(n) == IF n = Len(OnFlash) THEN n ELSE 0
Loads(n) == table' = SubSeq(OnFlash, 1, n) /\ len' = Found(n) /\ part_init_ok' = (Found(n) > 0)
\* An entry may not be read or stored, or its device has nothing behind it.
fal_partition_init ==
  /\ started /\ ~part_init_ok
  /\ \/ /\ IF up THEN Loads(Len(OnFlash)) ELSE table' = OnFlash /\ UNCHANGED <<len, part_init_ok>>
        /\ UNCHANGED <<failures, oom>>
     \/ /\ failures < MaxFaults /\ failures' = failures + 1 /\ UNCHANGED oom
        /\ \/ \E n \in 0 .. Len(OnFlash) - 1 : Loads(n)
           \/ UNCHANGED <<table, len, part_init_ok>>        \* while looking for its end
     \/ /\ oom < MaxOom /\ oom' = oom + 1 /\ UNCHANGED failures
        /\ table' = <<>> /\ UNCHANGED <<len, part_init_ok>>
  /\ UNCHANGED <<user, started, up, cells, access, files, bench>>

-----------------------------------------------------------------------------
(* fal_partition_read, _write and _erase with the device below: what the   *)
(* cells may be afterwards, whether that is reported as done, and whether  *)
(* the flash failed.  Addresses and sizes are numbers of a width.          *)

Outcome(c, ok, fault) == [cells |-> c, ok |-> ok, fault |-> fault]

\* Fault variant: only the start is compared.
OutOfBound_start(addr, size) == addr > PartLen

OutOfBound(addr, size) == (addr + size) % Wrap > PartLen

Over(old, d) == IF old = d THEN old ELSE IF old = Erased THEN d ELSE Mixed
\* The cells of the device that an access meets.
Reach(addr, size) == {(Offset + addr + j) % Wrap : j \in 0 .. (size % Wrap) - 1}
Put(c, addr, n, d) ==
  LET reached == Reach(addr, n)
  IN  [k \in DOMAIN c |-> IF k \in reached THEN Over(c[k], d) ELSE c[k]]
\* Whole blocks are erased.
Down(a) == a - (a % Blk)
Clean(c, addr, size) ==
  LET blocks == {Down(j) : j \in Reach(addr, size)}
  IN  [k \in DOMAIN c |-> IF Down(k) \in blocks THEN Erased ELSE c[k]]

fal_partition_write(c, addr, size, d) ==
  IF OutOfBound(addr, size) THEN {Outcome(c, FALSE, 0)}
  ELSE {Outcome(Put(c, addr, size, d), TRUE, 0)}
       \union {Outcome(Put(c, addr, n, d), FALSE, 1) : n \in 0 .. (size % Wrap) - 1}
fal_partition_erase(c, addr, size) ==
  IF OutOfBound(addr, size) THEN {Outcome(c, FALSE, 0)}
  ELSE {Outcome(Clean(c, addr, size), TRUE, 0), Outcome(c, FALSE, 1)}
fal_partition_read(c, addr, size) ==
  IF OutOfBound(addr, size) THEN {Outcome(c, FALSE, 0)}
  ELSE {Outcome(c, TRUE, 0), Outcome(c, FALSE, 1)}

\* A write after an erase.
WriteAfter(o, addr, size, d) ==
  {[p EXCEPT !.fault = p.fault + o.fault] : p \in fal_partition_write(o.cells, addr, size, d)}

Take(o) == cells' = o.cells /\ failures' = failures + o.fault /\ failures' <= MaxFaults
Accessed(op, addr, size, d, o) ==
  access' = IF OutOfBound(addr, size) \/ (op # "block_write" /\ addr + size <= PartLen) THEN NoAccess
            ELSE [op |-> op, addr |-> addr, size |-> size, data |-> d, ok |-> o.ok]
\* The end of an access, or its beginning, lies behind the last address: the sum
\* wraps, and passes for one in the partition.  What its user does then is not told.
Astray   == access.addr + access.size >= Wrap
Ready(u) == part_init_ok /\ user = u /\ ~Astray
\* The arguments up to n, and the last ones there are.
Args(n)  == 0 .. n \union (Wrap - MaxSize) .. Wrap - 1

-----------------------------------------------------------------------------
(* The block device, and the MTD device, whose operations are the          *)
(* partition's.                                                            *)

\* Fault variant: it does not matter whether the erasing failed.
BlockWritten_anyway(erased, a, n, d) == WriteAfter(erased, a, n, d)

BlockWritten(erased, a, n, d) == IF erased.ok THEN WriteAfter(erased, a, n, d) ELSE {erased}

blk_dev_write(a, n, d) ==
  \E e \in fal_partition_erase(cells, a, n) : \E o \in BlockWritten(e, a, n, d) :
    Take(o) /\ Accessed("block_write", a, n, d, o)
\* RT_DEVICE_CTRL_BLK_ERASE: an end that is the start is the block behind it.
blk_dev_control(start, end) ==
  LET n == IF end = start THEN 1 ELSE end - start IN
  /\ start <= end
  /\ \E o \in fal_partition_erase(cells, start * Blk, n * Blk) :
       Take(o) /\ Accessed("block_write", start * Blk, n * Blk, Erased, o)

\* Blocks from 0 on, and those where their address wraps.
Blocks == 0 .. MaxSize \union (Wrap \div Blk) - 1 .. (Wrap \div Blk)
Block ==
  /\ Ready("block")
  /\ \E i, n \in Blocks :
       (\E d \in Data : blk_dev_write(i * Blk, n * Blk, d)) \/ blk_dev_control(i, n)
  /\ UNCHANGED <<user, tables, files, bench>>

Mtd ==
  /\ Ready("mtd")
  /\ \E a, n \in Args(PartLen + 1) :
       \/ \E d \in Data : \E o \in fal_partition_write(cells, a, n, d) :
            Take(o) /\ Accessed("write", a, n, Erased, o)
       \/ \E o \in fal_partition_erase(cells, a, n) : Take(o) /\ Accessed("erase", a, n, Erased, o)
       \/ \E o \in fal_partition_read(cells, a, n) : Take(o) /\ Accessed("read", a, n, Erased, o)
  /\ UNCHANGED <<user, tables, files, bench>>

-----------------------------------------------------------------------------
(* The character device.  A size that ends behind the partition is cut.    *)

Cut(p, size) == IF OutOfBound(p, size) THEN (PartLen - p) % Wrap ELSE size

char_dev_read(p, n) ==
  \E o \in fal_partition_read(cells, p, Cut(p, n)) :
    Take(o) /\ Accessed("read", p, Cut(p, n), Erased, o)
\* Writing to the start erases everything first, whether that works or not.
CharSize(p, n) == IF p = 0 THEN n ELSE Cut(p, n)
char_dev_write(p, n, d) ==
  \E e \in (IF p = 0 THEN fal_partition_erase(cells, 0, PartLen) ELSE {Outcome(cells, TRUE, 0)}) :
    \E o \in WriteAfter(e, p, CharSize(p, n), d) :
      Take(o) /\ Accessed("write", p, CharSize(p, n), Erased, o)

Char ==
  /\ Ready("char")
  /\ \E p \in Args(PartLen + 1), n \in Args(MaxSize) :
       char_dev_read(p, n) \/ \E d \in Data : char_dev_write(p, n, d)
  /\ UNCHANGED <<user, tables, files, bench>>

-----------------------------------------------------------------------------
(* A file: opening it to write erases the partition, whether that works or *)
(* not; then it is written or read from its start on.                      *)

\* Fault variant: a file opened to write is written over what there is.
Opened_kept == {Outcome(cells, TRUE, 0)}

Opened == fal_partition_erase(cells, 0, PartLen)
char_dev_fopen ==
  \/ \E o \in Opened : /\ Take(o) /\ dirty' = ~o.ok /\ mode' = "write" /\ pos' = 0 /\ file' = <<>>
                       /\ UNCHANGED access
  \/ mode' = "read" /\ pos' = 0 /\ UNCHANGED <<cells, failures, access, file, dirty>>
char_dev_fwrite(n, d) ==
  \E o \in fal_partition_write(cells, pos, Cut(pos, n), d) :
    /\ mode = "write" /\ Take(o) /\ Accessed("write", pos, Cut(pos, n), Erased, o)
    /\ IF ~o.ok THEN UNCHANGED <<pos, file>>
       ELSE /\ pos' = (pos + Cut(pos, n)) % Wrap
            /\ file' = IF Astray' THEN file ELSE file \o [i \in 1 .. Cut(pos, n) |-> d]
    /\ dirty' = (dirty \/ ~o.ok \/ Astray') /\ UNCHANGED mode
char_dev_fread(n) ==
  \E o \in fal_partition_read(cells, pos, Cut(pos, n)) :
    /\ mode = "read" /\ Take(o) /\ Accessed("read", pos, Cut(pos, n), Erased, o)
    /\ pos' = (IF o.ok THEN (pos + Cut(pos, n)) % Wrap ELSE pos) /\ UNCHANGED <<mode, file, dirty>>

File ==
  /\ Ready("file")
  /\ \/ char_dev_fopen
     \/ \E n \in Args(MaxSize) : char_dev_fread(n) \/ \E d \in Data : char_dev_fwrite(n, d)
  /\ UNCHANGED <<user, tables, bench>>

-----------------------------------------------------------------------------
(* The shell's benchmark of a partition; its other commands are the        *)
(* partition's operations (Mtd).  Errors of its first two parts are        *)
(* printed; the result is that of the last.                                *)

Begin == \E n \in 1 .. PartLen : /\ bench.step \in {"idle", "passed", "failed"}
                                 /\ bench' = [step |-> "erase", n |-> n, at |-> 0]
                                 /\ UNCHANGED <<cells, failures>>
BenchErase ==
  /\ bench.step = "erase" /\ bench' = [bench EXCEPT !.step = "write"]
  /\ \E o \in fal_partition_erase(cells, 0, PartLen) : Take(o)
BenchWrite ==
  /\ bench.step = "write"
  /\ \E o \in fal_partition_write(cells, bench.at, bench.n, Pattern) :
       /\ Take(o)
       /\ bench' = IF o.ok /\ bench.at + bench.n < PartLen THEN [bench EXCEPT !.at = @ + bench.n]
                   ELSE [bench EXCEPT !.at = 0, !.step = "read"]
\* Fault variant: a last piece that is shorter is not compared.
ToCompare_whole == bench.at .. bench.at + (IF bench.at + bench.n > PartLen THEN 0 ELSE bench.n) - 1

ToCompare == bench.at .. bench.at + (IF bench.at + bench.n > PartLen THEN PartLen - bench.at
                                     ELSE bench.n) - 1
BenchRead ==
  /\ bench.step = "read"
  /\ \/ UNCHANGED failures
     \/ failures < MaxFaults /\ failures' = failures + 1
  /\ bench' = IF failures' # failures \/ \E i \in ToCompare : cells[Offset + i] # Pattern
              THEN [Idle EXCEPT !.step = "failed"]
              ELSE IF bench.at + bench.n < PartLen THEN [bench EXCEPT !.at = @ + bench.n]
              ELSE [Idle EXCEPT !.step = "passed"]
  /\ UNCHANGED cells

fal == /\ Ready("shell") /\ (Begin \/ BenchErase \/ BenchWrite \/ BenchRead)
       /\ UNCHANGED <<user, tables, files, access>>

-----------------------------------------------------------------------------

InPart == {k \in 0 .. DevLen - 1 : k \in Offset .. Offset + PartLen - 1}
Init ==
  /\ user \in Users /\ started = FALSE /\ up = FALSE /\ table = <<>> /\ len = 0 /\ part_init_ok = FALSE
  /\ cells = [k \in 0 .. DevLen - 1 |-> IF k \in InPart THEN Erased ELSE Foreign]
  /\ access = NoAccess /\ mode = "closed" /\ pos = 0 /\ file = <<>> /\ dirty = FALSE /\ bench = Idle
  /\ failures = 0 /\ oom = 0

Next == fal_flash_init \/ fal_partition_init \/ Block \/ Mtd \/ Char \/ File \/ fal

Spec == Init /\ [][Next]_vars

-----------------------------------------------------------------------------
(* Properties.                                                             *)

Kinds == Data \union {Erased, Mixed, Foreign, Pattern}

\* Every variable has a value of its type.
TypeOK ==
  /\ user \in Users /\ {started, up, part_init_ok, dirty} \subseteq BOOLEAN
  /\ len \in 0 .. Len(OnFlash) /\ pos \in 0 .. PartLen /\ mode \in {"closed", "read", "write"}
  /\ cells \in [0 .. DevLen - 1 -> Kinds] /\ file \in Seq(Data)
  /\ access \in [op : {"none", "read", "write", "erase", "block_write"}, addr : Nat, size : Nat,
                 data : Kinds, ok : BOOLEAN]
  /\ bench \in [step : {"idle", "erase", "write", "read", "passed", "failed"}, n : 0 .. PartLen,
                at : 0 .. PartLen]
  /\ failures \in 0 .. MaxFaults /\ oom \in 0 .. MaxOom

\* Whatever failed and was tried again, the layer is initialised only with the
\* whole table, and only if its device works.
TableWhole == part_init_ok => up /\ len = Len(OnFlash) /\ table = OnFlash

\* What lies outside a partition is never touched through it, as long as no
\* access wraps: then fal_partition.c lets through what leaves the partition, and
\* the character device makes such an access of any that begins behind the end.
StaysInside ==
  ~Astray => /\ access.addr + access.size <= PartLen
             /\ \A k \in DOMAIN cells \ InPart : cells[k] = Foreign

\* What the block device reports as written is there, although what was there
\* before was in the way and erasing it may fail; a number of blocks whose size
\* wraps is reported as it was asked for.
ReportedIsWritten ==
  access.op = "block_write" /\ access.ok /\ ~Astray =>
    \A i \in 0 .. access.size - 1 : cells[Offset + access.addr + i] = access.data

\* What has been written to a file since it was opened is what is read from
\* its start, as far as nothing failed.
FileReadsBack ==
  user = "file" /\ mode # "closed" /\ ~dirty =>
    \A i \in 1 .. Len(file) : i <= PartLen /\ cells[Offset + i - 1] = file[i]

\* A benchmark that passes has written the whole partition.
BenchIsRight == bench.step = "passed" => \A k \in InPart : cells[k] = Pattern

\* All of the above.
PartitionSafe ==
  TypeOK /\ TableWhole /\ StaysInside /\ ReportedIsWritten /\ FileReadsBack /\ BenchIsRight

\* What of it is inductive: who may have changed what, what a file that is
\* written has before it, and how far a benchmark is.
FileInv ==
  user = "file" /\ ~dirty =>
    /\ Len(file) <= PartLen /\ (mode = "closed" => file = <<>>)
    /\ \A i \in 1 .. Len(file) : cells[Offset + i - 1] = file[i]
    /\ mode = "write" =>
         Len(file) = pos /\ \A k \in Offset + pos .. Offset + PartLen - 1 : cells[k] = Erased
BenchInv ==
  /\ user # "shell" => bench = Idle
  /\ bench.step \in {"erase", "write", "read"} => bench.n > 0 /\ bench.at < PartLen
  /\ bench.step = "read" => \A k \in Offset .. Offset + bench.at - 1 : cells[k] = Pattern
FalInv ==
  /\ TypeOK /\ TableWhole /\ (part_init_ok => started)
  /\ StaysInside /\ ReportedIsWritten /\ (access.op = "block_write" => user = "block")
  /\ FileInv /\ BenchInv /\ BenchIsRight
=============================================================================
