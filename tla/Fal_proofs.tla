---------------------------- MODULE Fal_proofs ----------------------------
(***************************************************************************)
(* Proofs about Fal, for every partition of every device and every number  *)
(* of failures: no user of a partition leaves it with an access that does  *)
(* not wrap; what is reported as written is there; and the layer is        *)
(* initialised with the whole table only.                                  *)
(***************************************************************************)
EXTENDS Fal, TLAPS

Cells   == [0 .. DevLen - 1 -> Kinds]
Results == [cells : Cells, ok : BOOLEAN, fault : Nat]
\* The cells of an access.
At(addr, size) == Offset + addr .. Offset + addr + size - 1
\* A device on which only the partition has changed.
OnlyPart(c, new) == \A k \in (0 .. DevLen - 1) \ InPart : new[k] = c[k]

-----------------------------------------------------------------------------
(* Arithmetic.                                                             *)

\* The constants are numbers, and a partition lies on its device.
LEMMA Numbers ==
  ASSUME FalAssumption
  PROVE  /\ Offset \in Nat /\ PartLen \in Nat /\ DevLen \in Nat /\ Wrap \in Nat
         /\ MaxSize \in Nat /\ MaxFaults \in Nat /\ MaxOom \in Nat /\ Blk \in Nat /\ Blk > 0
         /\ Offset + PartLen <= DevLen
BY DEF FalAssumption

LEMMA NearBy == FalAssumption => Wrap > PartLen /\ Wrap > 0 /\ Wrap > DevLen /\ Wrap - MaxSize \in Nat
BY Numbers DEF FalAssumption

\* An end that lies twice as far as a partition is long does not wrap around.
LEMMA TwoOfThem ==
  ASSUME FalAssumption, NEW a \in 0 .. PartLen, NEW n \in 0 .. PartLen, a < PartLen
  PROVE  a + n < Wrap
<1>1. DevLen + DevLen <= Wrap /\ PartLen <= DevLen /\ PartLen \in Nat /\ DevLen \in Nat /\ Wrap \in Nat
  BY Numbers DEF FalAssumption
<1> QED
  BY <1>1

\* Arguments are numbers, and so are the blocks asked for in cells.
LEMMA Arguments ==
  ASSUME FalAssumption
  PROVE  /\ \A n \in Nat : Args(n) \subseteq Nat
         /\ \A i \in Blocks : i \in Nat /\ i * Blk \in Nat
<1>1. Wrap \in Nat /\ MaxSize \in Nat /\ Wrap - MaxSize \in Nat /\ Blk \in Nat /\ Blk > 0 /\ Blk <= Wrap
  BY Numbers, NearBy DEF FalAssumption
<1>2. (Wrap \div Blk) \in Nat /\ (Wrap \div Blk) >= 1
  <2> DEFINE q == Wrap \div Blk
  <2>1. Wrap = Blk * q + (Wrap % Blk) /\ (Wrap % Blk) \in 0 .. Blk - 1 /\ q \in Nat
    BY <1>1
  <2>2. q # 0
    <3>1. q = 0 => Blk * q = 0
      BY <1>1
    <3> QED
      BY <1>1, <2>1, <3>1
  <2> QED
    BY <2>1, <2>2
<1>3. ASSUME NEW i \in Blocks PROVE i \in Nat
  BY <1>1, <1>2, <1>3 DEF Blocks
<1>4. \A i \in Nat : i * Blk \in Nat
  BY <1>1
<1> QED
  BY <1>1, <1>3, <1>4 DEF Args

\* The check of fal_partition.c is right where the end does not wrap around.
LEMMA NoWrap ==
  FalAssumption => \A a, n \in Nat : a + n < Wrap /\ ~OutOfBound(a, n) => a + n <= PartLen
<1> SUFFICES ASSUME FalAssumption, NEW a \in Nat, NEW n \in Nat, a + n < Wrap, ~OutOfBound(a, n)
             PROVE  a + n <= PartLen
  OBVIOUS
<1> DEFINE x == a + n
<1>1. x \in Nat /\ Wrap \in Nat /\ x < Wrap
  BY Numbers
<1>2. (x % Wrap) = x
  <2> HIDE DEF x
  <2> QED
    BY <1>1
<1>3. ~(x > PartLen)
  BY <1>2 DEF OutOfBound
<1> QED
  BY <1>1, <1>3, Numbers

\* In the partition an access meets the cells from its address on.
LEMMA ReachIsAt ==
  ASSUME FalAssumption, NEW a \in Nat, NEW n \in Nat, a + n <= PartLen
  PROVE  Reach(a, n) = At(a, n)
<1>1. (n % Wrap) = n
  <2>1. n \in 0 .. Wrap - 1 /\ Wrap \in Nat /\ Wrap > 0
    BY Numbers, NearBy
  <2> QED
    BY <2>1
<1>2. ASSUME NEW j \in 0 .. n - 1 PROVE ((Offset + a + j) % Wrap) = Offset + a + j
  <2> DEFINE x == Offset + a + j
  <2>1. x \in 0 .. Wrap - 1 /\ Wrap \in Nat /\ Wrap > 0
    BY Numbers, NearBy
  <2> HIDE DEF x
  <2>2. (x % Wrap) = x
    BY <2>1
  <2> QED
    BY <2>2 DEF x
<1>3. Reach(a, n) = {Offset + a + j : j \in 0 .. n - 1}
  BY <1>1, <1>2 DEF Reach
<1>4. ASSUME NEW k \in At(a, n) PROVE \E j \in 0 .. n - 1 : k = Offset + a + j
  <2>1. k - Offset - a \in 0 .. n - 1 /\ k = Offset + a + (k - Offset - a)
    BY Numbers DEF At
  <2> QED
    BY <2>1
<1>5. \A j \in 0 .. n - 1 : Offset + a + j \in At(a, n)
  BY Numbers DEF At
<1> QED
  BY <1>3, <1>4, <1>5

\* Multiples keep the order.
LEMMA Multiples ==
  ASSUME NEW b \in Nat, NEW x \in Nat, NEW y \in Nat
  PROVE  /\ x <= y => b * x <= b * y
         /\ b * x < b * y => x < y
<1>1. ASSUME NEW u \in Nat, NEW v \in Nat, u <= v PROVE b * u <= b * v
  <2> DEFINE w == v - u
  <2>1. w \in Nat /\ v = u + w
    BY <1>1
  <2> HIDE DEF w
  <2>2. b * v = b * u + b * w /\ b * w \in Nat /\ b * u \in Nat
    BY <2>1
  <2> QED
    BY <2>2
<1>2. x <= y => b * x <= b * y
  BY <1>1
<1>3. y <= x => b * y <= b * x
  BY <1>1
<1>4. b * x \in Nat /\ b * y \in Nat
  OBVIOUS
<1> QED
  BY <1>2, <1>3, <1>4

\* A multiple of a number is it, so many times.
LEMMA Times ==
  ASSUME NEW b \in Nat, b > 0, NEW x \in Nat
  PROVE  /\ (x \div b) \in Nat /\ (x % b) \in 0 .. b - 1
         /\ x = b * (x \div b) + (x % b)
OBVIOUS

\* A block that has a cell of the partition lies in it.
LEMMA WholeBlocks ==
  ASSUME FalAssumption, NEW j \in InPart, NEW k \in 0 .. DevLen - 1, Down(j) = Down(k)
  PROVE  k \in InPart
<1>1. /\ Blk \in Nat /\ Blk > 0 /\ PartLen \in Nat /\ Offset \in Nat
      /\ (PartLen % Blk) = 0 /\ (Offset % Blk) = 0
  BY DEF FalAssumption
<1>2. j \in Nat /\ k \in Nat /\ Offset <= j /\ j < Offset + PartLen
  BY <1>1 DEF InPart
<1> DEFINE q == j \div Blk
           r == k \div Blk
           o == Offset \div Blk
           p == PartLen \div Blk
<1>3. /\ (j % Blk) \in 0 .. Blk - 1 /\ j = Blk * q + (j % Blk) /\ q \in Nat
      /\ (k % Blk) \in 0 .. Blk - 1 /\ k = Blk * r + (k % Blk) /\ r \in Nat
  BY <1>1, <1>2, Times
<1>4. Offset = Blk * o /\ o \in Nat /\ PartLen = Blk * p /\ p \in Nat
  <2>1. Offset = Blk * o + (Offset % Blk) /\ o \in Nat
    BY <1>1, Times
  <2>2. PartLen = Blk * p + (PartLen % Blk) /\ p \in Nat
    BY <1>1, Times
  <2>3. Blk * o \in Nat /\ Blk * p \in Nat
    BY <1>1, <2>1, <2>2
  <2> HIDE DEF o, p
  <2> QED
    BY <1>1, <2>1, <2>2, <2>3
<1> HIDE DEF q, r, o, p
<1>5. Blk * q = Blk * r /\ Blk * q \in Nat /\ Blk * o \in Nat /\ Blk * p \in Nat
  <2>1. Blk * q \in Nat /\ Blk * r \in Nat /\ Blk * o \in Nat /\ Blk * p \in Nat
    BY <1>1, <1>3, <1>4
  <2>2. j - (j % Blk) = Blk * q
    BY <1>1, <1>2, <1>3, <2>1
  <2>3. k - (k % Blk) = Blk * r
    BY <1>1, <1>2, <1>3, <2>1
  <2> QED
    BY <2>1, <2>2, <2>3 DEF Down
<1>6. Blk * (o + p) = Blk * o + Blk * p /\ Blk * (q + 1) = Blk * q + Blk
  BY <1>1, <1>3, <1>4
<1>7. o <= q
  <2>1. Blk * o < Blk * (q + 1)
    BY <1>1, <1>2, <1>3, <1>4, <1>5, <1>6
  <2>2. o < q + 1
    BY <1>1, <1>3, <1>4, <2>1, Multiples
  <2> QED
    BY <1>3, <1>4, <2>2
<1>8. q + 1 <= o + p
  <2>1. Blk * q < Blk * (o + p)
    BY <1>1, <1>2, <1>3, <1>4, <1>5, <1>6
  <2>2. q < o + p
    BY <1>1, <1>3, <1>4, <2>1, Multiples
  <2> QED
    BY <1>3, <1>4, <2>2
<1>9. Blk * o <= Blk * q
  BY <1>1, <1>3, <1>4, <1>7, Multiples
<1>10. Blk * (q + 1) <= Blk * (o + p)
  BY <1>1, <1>3, <1>4, <1>8, Multiples
<1>11. Offset <= k /\ k < Offset + PartLen
  BY <1>1, <1>2, <1>3, <1>4, <1>5, <1>6, <1>9, <1>10
<1> QED
  BY <1>1, <1>11 DEF InPart

-----------------------------------------------------------------------------
(* The operations of a partition.                                          *)

\* What does not leave the partition is in it.
LEMMA Inside ==
  ASSUME FalAssumption, NEW a \in Nat, NEW n \in Nat, a + n <= PartLen
  PROVE  At(a, n) \subseteq InPart
BY Numbers DEF At, InPart

LEMMA PutFacts ==
  ASSUME FalAssumption, NEW c \in Cells, NEW a \in Nat, NEW n \in Nat, NEW d \in Kinds
  PROVE  /\ Put(c, a, n, d) \in Cells
         /\ a + n <= PartLen =>
              /\ \A k \in (0 .. DevLen - 1) \ At(a, n) : Put(c, a, n, d)[k] = c[k]
              /\ \A k \in (0 .. DevLen - 1) \cap At(a, n) : c[k] = Erased => Put(c, a, n, d)[k] = d
<1>1. DOMAIN c = 0 .. DevLen - 1 /\ \A k \in 0 .. DevLen - 1 : c[k] \in Kinds
  BY DEF Cells
<1>2. \A old \in Kinds : Over(old, d) \in Kinds /\ Over(Erased, d) = d
  BY DEF Over, Kinds
<1>3. a + n <= PartLen => Reach(a, n) = At(a, n)
  BY ReachIsAt
<1> QED
  BY <1>1, <1>2, <1>3 DEF Put, Cells

LEMMA CleanFacts ==
  ASSUME FalAssumption, NEW c \in Cells, NEW a \in Nat, NEW n \in Nat
  PROVE  /\ Clean(c, a, n) \in Cells
         /\ a + n <= PartLen => /\ OnlyPart(c, Clean(c, a, n))
                                /\ \A k \in (0 .. DevLen - 1) \cap At(a, n) : Clean(c, a, n)[k] = Erased
<1>1. DOMAIN c = 0 .. DevLen - 1 /\ \A k \in 0 .. DevLen - 1 : c[k] \in Kinds
  BY DEF Cells
<1> DEFINE blocks == {Down(j) : j \in Reach(a, n)}
<1>2. Clean(c, a, n) = [k \in 0 .. DevLen - 1 |-> IF Down(k) \in blocks THEN Erased ELSE c[k]]
  BY <1>1 DEF Clean
<1>3. Clean(c, a, n) \in Cells
  <2> HIDE DEF blocks
  <2> QED
    BY <1>1, <1>2 DEF Cells, Kinds
<1>4. ASSUME a + n <= PartLen
      PROVE  /\ OnlyPart(c, Clean(c, a, n))
             /\ \A k \in (0 .. DevLen - 1) \cap At(a, n) : Clean(c, a, n)[k] = Erased
  <2>1. Reach(a, n) = At(a, n) /\ At(a, n) \subseteq InPart
    BY <1>4, ReachIsAt, Inside
  <2>2. ASSUME NEW k \in (0 .. DevLen - 1) \ InPart PROVE Clean(c, a, n)[k] = c[k]
    <3>1. Down(k) \notin blocks
      BY <2>1, <2>2, WholeBlocks
    <3> QED
      BY <1>2, <3>1
  <2>3. ASSUME NEW k \in (0 .. DevLen - 1) \cap At(a, n) PROVE Clean(c, a, n)[k] = Erased
    BY <1>2, <2>1, <2>3
  <2> QED
    BY <2>2, <2>3 DEF OnlyPart
<1> QED
  BY <1>3, <1>4

LEMMA OutcomeFacts ==
  ASSUME NEW c \in Cells, NEW ok \in BOOLEAN, NEW f \in Nat
  PROVE  Outcome(c, ok, f) \in Results /\ Outcome(c, ok, f).cells = c
BY DEF Outcome, Results

LEMMA FailureFacts ==
  ASSUME NEW c, NEW f
  PROVE  ~Outcome(c, FALSE, f).ok
BY DEF Outcome

LEMMA EraseFacts ==
  ASSUME FalAssumption, NEW c \in Cells, NEW a \in Nat, NEW n \in Nat,
         NEW o \in fal_partition_erase(c, a, n)
  PROVE  /\ o \in Results
         /\ a + n < Wrap \/ OutOfBound(a, n) => OnlyPart(c, o.cells)
         /\ a + n < Wrap /\ o.ok => /\ a + n <= PartLen
                                    /\ \A k \in At(a, n) : o.cells[k] = Erased
<1>1. CASE o = Outcome(Clean(c, a, n), TRUE, 0) /\ ~OutOfBound(a, n)
  <2>1. Clean(c, a, n) \in Cells /\ o.cells = Clean(c, a, n) /\ o \in Results
    BY <1>1, CleanFacts, OutcomeFacts
  <2>2. a + n < Wrap => a + n <= PartLen
    BY <1>1, NoWrap
  <2>3. a + n <= PartLen => At(a, n) \subseteq 0 .. DevLen - 1
    BY Inside DEF InPart
  <2>4. a + n <= PartLen => OnlyPart(c, o.cells)
    BY <2>1, CleanFacts
  <2>5. a + n <= PartLen => \A k \in At(a, n) : o.cells[k] = Erased
    <3>1. a + n <= PartLen => \A k \in (0 .. DevLen - 1) \cap At(a, n) : Clean(c, a, n)[k] = Erased
      BY CleanFacts
    <3> QED
      BY <2>1, <2>3, <3>1
  <2> QED
    BY <1>1, <2>1, <2>2, <2>4, <2>5
<1>2. CASE o \in {Outcome(c, FALSE, 0), Outcome(c, FALSE, 1)}
  <2>1. PICK f \in {0, 1} : o = Outcome(c, FALSE, f)
    BY <1>2
  <2>2. f \in Nat /\ FALSE \in BOOLEAN
    OBVIOUS
  <2>3. o.cells = c /\ o \in Results
    BY <2>1, <2>2, OutcomeFacts
  <2>4. ~o.ok
    BY <2>1, FailureFacts
  <2> QED
    BY <2>3, <2>4 DEF OnlyPart
<1> QED
  BY <1>1, <1>2 DEF fal_partition_erase

LEMMA WriteFacts ==
  ASSUME FalAssumption, NEW c \in Cells, NEW a \in Nat, NEW n \in Nat, NEW d \in Kinds,
         NEW o \in fal_partition_write(c, a, n, d)
  PROVE  /\ o \in Results
         /\ a + n < Wrap \/ OutOfBound(a, n) => OnlyPart(c, o.cells)
         /\ a + n < Wrap /\ o.ok =>
              /\ a + n <= PartLen
              /\ \A k \in (0 .. DevLen - 1) \ At(a, n) : o.cells[k] = c[k]
              /\ \A k \in At(a, n) : c[k] = Erased => o.cells[k] = d
<1>1. CASE OutOfBound(a, n)
  <2>1. o = Outcome(c, FALSE, 0)
    BY <1>1 DEF fal_partition_write
  <2>2. o.cells = c /\ ~o.ok /\ o \in Results
    BY <2>1, OutcomeFacts, FailureFacts
  <2> QED
    BY <2>2 DEF OnlyPart
<1>2. CASE ~OutOfBound(a, n)
  <2>1. \/ o = Outcome(Put(c, a, n, d), TRUE, 0)
        \/ \E m \in 0 .. (n % Wrap) - 1 : o = Outcome(Put(c, a, m, d), FALSE, 1)
    BY <1>2 DEF fal_partition_write
  <2>2. (n % Wrap) \in Nat /\ (n < Wrap => (n % Wrap) = n)
    <3>1. Wrap \in Nat /\ Wrap > 0
      BY NearBy, Numbers
    <3>2. n < Wrap => n \in 0 .. Wrap - 1
      BY <3>1
    <3> QED
      BY ONLY <3>1, <3>2, n \in Nat
  <2>3. PICK m \in Nat : /\ o.cells = Put(c, a, m, d) /\ (o.ok => m = n) /\ o \in Results
                         /\ n < Wrap => m <= n
    <3>1. ASSUME o = Outcome(Put(c, a, n, d), TRUE, 0)
          PROVE  o.cells = Put(c, a, n, d) /\ o \in Results
      <4>1. Put(c, a, n, d) \in Cells /\ 0 \in Nat /\ TRUE \in BOOLEAN
        BY PutFacts
      <4> QED
        BY <3>1, <4>1, OutcomeFacts
    <3>2. ASSUME NEW m \in 0 .. (n % Wrap) - 1, o = Outcome(Put(c, a, m, d), FALSE, 1)
          PROVE  m \in Nat /\ o.cells = Put(c, a, m, d) /\ ~o.ok /\ o \in Results /\ (n < Wrap => m <= n)
      <4>1. m \in Nat /\ (n < Wrap => m <= n)
        BY <2>2
      <4>2. Put(c, a, m, d) \in Cells
        BY <4>1, PutFacts
      <4> QED
        BY <3>2, <4>1, <4>2, OutcomeFacts, FailureFacts
    <3>3. n <= n
      OBVIOUS
    <3> QED
      BY <2>1, <3>1, <3>2, <3>3
  <2>4. ASSUME a + n < Wrap
        PROVE  /\ a + n <= PartLen /\ At(a, m) \subseteq InPart
               /\ \A k \in (0 .. DevLen - 1) \ At(a, m) : o.cells[k] = c[k]
               /\ \A k \in (0 .. DevLen - 1) \cap At(a, m) : c[k] = Erased => o.cells[k] = d
    <3>1. a + n <= PartLen /\ n < Wrap
      BY <1>2, <2>4, NoWrap, Numbers
    <3>2. a + m <= PartLen
      BY <2>3, <3>1, Numbers
    <3>3. At(a, m) \subseteq InPart
      BY <3>2, Inside
    <3>4. /\ \A k \in (0 .. DevLen - 1) \ At(a, m) : Put(c, a, m, d)[k] = c[k]
          /\ \A k \in (0 .. DevLen - 1) \cap At(a, m) : c[k] = Erased => Put(c, a, m, d)[k] = d
      BY <3>2, PutFacts
    <3> QED
      BY <2>3, <3>1, <3>3, <3>4
  <2>5. a + n < Wrap => OnlyPart(c, o.cells)
    BY <2>4 DEF OnlyPart
  <2>6. ASSUME a + n < Wrap, o.ok
        PROVE  /\ \A k \in (0 .. DevLen - 1) \ At(a, n) : o.cells[k] = c[k]
               /\ \A k \in At(a, n) : c[k] = Erased => o.cells[k] = d
    <3>1. m = n /\ At(a, n) \subseteq 0 .. DevLen - 1
      BY <2>3, <2>4, <2>6 DEF InPart
    <3> QED
      BY <2>4, <2>6, <3>1
  <2> QED
    BY <1>2, <2>3, <2>4, <2>5, <2>6
<1> QED
  BY <1>1, <1>2

LEMMA WriteAfterFacts ==
  ASSUME FalAssumption, NEW e \in Results, NEW a \in Nat, NEW n \in Nat, NEW d \in Kinds,
         NEW o \in WriteAfter(e, a, n, d)
  PROVE  /\ o \in Results
         /\ \E p \in fal_partition_write(e.cells, a, n, d) : o.cells = p.cells /\ o.ok = p.ok
<1>1. PICK p \in fal_partition_write(e.cells, a, n, d) : o = [p EXCEPT !.fault = p.fault + e.fault]
  BY DEF WriteAfter
<1>2. e.cells \in Cells /\ e.fault \in Nat /\ p \in Results
  BY WriteFacts DEF Results
<1> QED
  BY <1>1, <1>2 DEF Results

LEMMA ReadFacts ==
  ASSUME NEW c \in Cells, NEW a, NEW n, NEW o \in fal_partition_read(c, a, n)
  PROVE  o \in Results /\ o.cells = c
<1>1. o \in {Outcome(c, FALSE, 0), Outcome(c, TRUE, 0), Outcome(c, FALSE, 1)}
  BY DEF fal_partition_read
<1> QED
  BY <1>1, OutcomeFacts

LEMMA TakeFacts ==
  ASSUME FalAssumption, TypeOK, NEW o \in Results, Take(o)
  PROVE  cells' = o.cells /\ cells' \in Cells /\ failures' \in 0 .. MaxFaults
<1>1. failures \in Nat /\ o.cells \in Cells /\ o.fault \in Nat /\ MaxFaults \in Nat
  <2>1. failures \in 0 .. MaxFaults
    BY DEF TypeOK
  <2> QED
    BY <2>1, Numbers DEF Results
<1> QED
  BY <1>1 DEF Take

\* An access that is kept either ends in the partition or wraps around.
LEMMA AccessedFacts ==
  ASSUME FalAssumption, NEW op \in {"read", "write", "erase", "block_write"}, NEW a \in Nat,
         NEW n \in Nat, NEW d \in Kinds, NEW o \in Results
  PROVE  Accessed(op, a, n, d, o) =>
         /\ access' \in [op : {"none", "read", "write", "erase", "block_write"}, addr : Nat,
                         size : Nat, data : Kinds, ok : BOOLEAN]
         /\ a + n < Wrap => access'.addr + access'.size <= PartLen
         /\ access'.op = "block_write" => /\ op = "block_write" /\ access'.addr = a /\ access'.size = n
                                          /\ access'.data = d /\ (access'.ok => o.ok)
         /\ ~OutOfBound(a, n) /\ a + n >= Wrap => access'.addr = a /\ access'.size = n
<1> DEFINE kept == [op |-> op, addr |-> a, size |-> n, data |-> d, ok |-> o.ok]
<1>1. ~OutOfBound(a, n) /\ a + n < Wrap => a + n <= PartLen
  BY NoWrap
<1>2. NoAccess \in [op : {"none", "read", "write", "erase", "block_write"}, addr : Nat,
                    size : Nat, data : Kinds, ok : BOOLEAN]
  BY DEF NoAccess, Kinds
<1>3. NoAccess.op = "none" /\ NoAccess.addr = 0 /\ NoAccess.size = 0
  BY DEF NoAccess
<1>4. kept \in [op : {"none", "read", "write", "erase", "block_write"}, addr : Nat,
                size : Nat, data : Kinds, ok : BOOLEAN]
  BY DEF Results
<1>5. /\ kept.op = op /\ kept.addr = a /\ kept.size = n /\ kept.data = d
      /\ kept.ok => o.ok
  OBVIOUS
<1>6. Accessed(op, a, n, d, o) => \/ access' = NoAccess /\ (OutOfBound(a, n) \/ a + n < Wrap)
                                  \/ access' = kept /\ ~OutOfBound(a, n)
  BY Numbers, NearBy DEF Accessed
<1> HIDE DEF kept
<1>7. ASSUME access' = NoAccess
      PROVE  /\ access'.op = "none" /\ access'.addr + access'.size = 0
             /\ access'.addr + access'.size <= PartLen
  BY <1>3, <1>7, Numbers
<1>8. ASSUME access' = kept, ~OutOfBound(a, n)
      PROVE  /\ access'.addr = a /\ access'.size = n /\ access'.op = op /\ access'.data = d
             /\ access'.ok => o.ok
             /\ a + n < Wrap => access'.addr + access'.size <= PartLen
  BY <1>1, <1>5, <1>8
<1>9. CASE access' = NoAccess /\ (OutOfBound(a, n) \/ a + n < Wrap)
  <2>1. ~(~OutOfBound(a, n) /\ a + n >= Wrap)
    BY <1>9, Numbers
  <2> QED
    BY <1>2, <1>7, <1>9, <2>1
<1>10. CASE access' = kept /\ ~OutOfBound(a, n)
  BY <1>4, <1>8, <1>10
<1> QED
  BY <1>6, <1>9, <1>10

\* The address behind what is let through, wrapped around or not.
LEMMA EndsInside ==
  ASSUME FalAssumption, NEW a \in Nat, NEW n \in Nat, ~OutOfBound(a, n)
  PROVE  ((a + n) % Wrap) \in 0 .. PartLen
<1> DEFINE x == a + n
           y == x % Wrap
<1>1. y \in Nat
  <2>1. x \in Nat /\ Wrap \in Nat /\ Wrap > 0
    BY Numbers, NearBy
  <2> HIDE DEF x
  <2> QED
    BY <2>1
<1>2. ~(y > PartLen)
  BY DEF OutOfBound
<1> HIDE DEF y
<1>3. y \in 0 .. PartLen
  BY <1>1, <1>2, Numbers
<1> QED
  BY <1>3 DEF y

\* The character device cuts what ends behind the partition.
LEMMA CutFacts ==
  ASSUME FalAssumption, NEW p \in Nat, NEW n \in Nat
  PROVE  /\ Cut(p, n) \in Nat
         /\ p + Cut(p, n) < Wrap /\ p <= PartLen => p + Cut(p, n) <= PartLen
<1> DEFINE left == PartLen - p
<1>1. left \in Int /\ Wrap \in Nat /\ Wrap > 0 /\ PartLen \in Nat /\ PartLen < Wrap
  BY Numbers, NearBy
<1>2. (left % Wrap) \in Nat /\ (left >= 0 => (left % Wrap) = left)
  <2>1. left >= 0 => left < Wrap
    BY <1>1
  <2> HIDE DEF left
  <2> QED
    BY <1>1, <2>1
<1>3. CASE OutOfBound(p, n)
  BY <1>1, <1>2, <1>3 DEF Cut
<1>4. CASE ~OutOfBound(p, n)
  <2>1. Cut(p, n) = n
    BY <1>4 DEF Cut
  <2> QED
    BY <1>4, <2>1, NoWrap
<1> QED
  BY <1>3, <1>4

-----------------------------------------------------------------------------
(* The invariant.                                                          *)

Access == [op : {"none", "read", "write", "erase", "block_write"}, addr : Nat, size : Nat,
           data : Kinds, ok : BOOLEAN]

Steps == [step : {"idle", "erase", "write", "read", "passed", "failed"}, n : 0 .. PartLen,
          at : 0 .. PartLen]

\* An access of one of the devices.
LEMMA AccessStep ==
  ASSUME FalAssumption, FalInv, ~Astray, NEW op \in {"read", "write", "erase", "block_write"},
         NEW a \in Nat, NEW n \in Nat, NEW d \in Kinds, NEW o \in Results,
         Take(o), Accessed(op, a, n, d, o), UNCHANGED <<user, tables>>,
         a + n < Wrap \/ OutOfBound(a, n) => OnlyPart(cells, o.cells)
  PROVE  /\ cells' = o.cells /\ cells' \in Cells /\ failures' \in 0 .. MaxFaults /\ access' \in Access
         /\ StaysInside' /\ (a + n < Wrap => ~Astray')
         /\ a + n >= Wrap /\ ~OutOfBound(a, n) => Astray'
<1>1. TypeOK /\ StaysInside
  BY DEF FalInv
<1>2. cells' = o.cells /\ cells' \in Cells /\ failures' \in 0 .. MaxFaults
  BY <1>1, TakeFacts
<1>3. /\ access' \in Access
      /\ a + n < Wrap => access'.addr + access'.size <= PartLen
      /\ ~OutOfBound(a, n) /\ a + n >= Wrap => access'.addr = a /\ access'.size = n
  BY AccessedFacts DEF Access
<1>4. access'.addr \in Nat /\ access'.size \in Nat /\ PartLen < Wrap /\ PartLen \in Nat /\ Wrap \in Nat
  BY <1>3, Numbers, NearBy DEF Access
<1>5. a + n < Wrap => ~Astray'
  BY <1>3, <1>4 DEF Astray
<1>6. a + n >= Wrap /\ ~OutOfBound(a, n) => Astray'
  BY <1>3 DEF Astray
<1>7. ASSUME OutOfBound(a, n) PROVE access' = NoAccess
  BY <1>7 DEF Accessed
<1>8. ASSUME ~Astray'
      PROVE  access'.addr + access'.size <= PartLen /\ OnlyPart(cells, o.cells)
  <2>1. a + n < Wrap \/ OutOfBound(a, n)
    BY <1>4, <1>6, <1>8
  <2>2. NoAccess.addr + NoAccess.size <= PartLen
    BY <1>4 DEF NoAccess
  <2> QED
    BY <1>3, <1>7, <2>1, <2>2
<1>9. ASSUME ~Astray', NEW k \in DOMAIN cells' \ InPart
      PROVE  cells'[k] = Foreign
  <2>1. k \in (0 .. DevLen - 1) \ InPart /\ k \in DOMAIN cells
    BY <1>1, <1>2 DEF Cells, TypeOK
  <2>2. cells'[k] = cells[k]
    BY <1>2, <1>8, <1>9, <2>1 DEF OnlyPart
  <2> QED
    BY <1>1, <2>1, <2>2 DEF StaysInside
<1> QED
  BY <1>2, <1>3, <1>5, <1>6, <1>8, <1>9 DEF StaysInside

\* Who is not the shell has no benchmark.
LEMMA NoBenchmark ==
  ASSUME FalInv, user # "shell", UNCHANGED <<user, bench>>
  PROVE  BenchInv' /\ BenchIsRight'
<1>1. bench' = Idle /\ Idle.step = "idle"
  BY DEF FalInv, BenchInv, Idle
<1> QED
  BY <1>1 DEF BenchInv, BenchIsRight

LEMMA FalInvInit == FalAssumption /\ Init => FalInv
<1> SUFFICES ASSUME FalAssumption, Init PROVE FalInv
  OBVIOUS
<1>1. /\ 0 \in 0 .. PartLen /\ 0 \in 0 .. MaxFaults /\ 0 \in 0 .. MaxOom
      /\ 0 \in 0 .. Len(OnFlash) /\ PartLen \in Nat
  BY Numbers DEF FalAssumption
<1>2. NoAccess \in Access /\ Idle \in Steps
  BY <1>1 DEF NoAccess, Access, Idle, Kinds, Steps
<1>3. NoAccess.op = "none" /\ NoAccess.addr = 0 /\ NoAccess.size = 0 /\ Idle.step = "idle"
  BY DEF NoAccess, Idle
<1>4. cells \in Cells /\ \A k \in (0 .. DevLen - 1) \ InPart : cells[k] = Foreign
  BY DEF Init, Cells, Kinds
<1>5. TypeOK
  <2>1. /\ user \in Users /\ started = FALSE /\ up = FALSE /\ part_init_ok = FALSE /\ dirty = FALSE
        /\ len = 0 /\ pos = 0 /\ mode = "closed" /\ file = <<>> /\ file \in Seq(Data)
        /\ access = NoAccess /\ bench = Idle /\ failures = 0 /\ oom = 0
    BY DEF Init
  <2> QED
    BY <1>1, <1>2, <1>4, <2>1 DEF TypeOK, Access, Cells, Steps
<1>6. StaysInside /\ ReportedIsWritten
  BY <1>1, <1>3, <1>4 DEF StaysInside, ReportedIsWritten, Init, Cells
<1>7. FileInv
  BY <1>1 DEF FileInv, Init
<1>8. BenchInv /\ BenchIsRight
  BY <1>3 DEF BenchInv, BenchIsRight, Init
<1> QED
  BY <1>3, <1>5, <1>6, <1>7, <1>8 DEF FalInv, Init, TableWhole

\* fal_init.
LEMMA LayerStep ==
  ASSUME FalAssumption, FalInv, fal_flash_init \/ fal_partition_init
  PROVE  FalInv'
<1>1. TypeOK /\ TableWhole /\ (part_init_ok => started)
  BY DEF FalInv
<1>2. UNCHANGED <<user, cells, access, files, bench>>
  BY DEF fal_flash_init, fal_partition_init
<1>3. Len(OnFlash) \in Nat \ {0} /\ SubSeq(OnFlash, 1, Len(OnFlash)) = OnFlash
  BY DEF FalAssumption
<1>4. /\ {started', up', part_init_ok'} \subseteq BOOLEAN /\ len' \in 0 .. Len(OnFlash)
      /\ failures' \in 0 .. MaxFaults /\ oom' \in 0 .. MaxOom
      /\ TableWhole' /\ (part_init_ok' => started')
  <2>1. CASE fal_flash_init
    BY <1>1, <2>1 DEF fal_flash_init, TypeOK, TableWhole
  <2>2. CASE fal_partition_init
    <3>1. /\ started' = started /\ up' = up /\ started
          /\ failures' \in 0 .. MaxFaults /\ oom' \in 0 .. MaxOom
      <4>1. failures \in 0 .. MaxFaults /\ oom \in 0 .. MaxOom /\ MaxFaults \in Nat /\ MaxOom \in Nat
        BY <1>1, Numbers DEF TypeOK
      <4>2. /\ failures' = failures \/ (failures < MaxFaults /\ failures' = failures + 1)
            /\ oom' = oom \/ (oom < MaxOom /\ oom' = oom + 1)
        <5>1. CASE up
          BY <2>2, <5>1 DEF fal_partition_init
        <5>2. CASE ~up
          BY <2>2, <5>2 DEF fal_partition_init
        <5> QED
          BY <5>1, <5>2
      <4> QED
        BY <2>2, <4>1, <4>2 DEF fal_partition_init
    <3>2. \/ \E n \in 0 .. Len(OnFlash) : Loads(n) /\ (n = Len(OnFlash) => up)
          \/ UNCHANGED <<len, part_init_ok>> /\ ~part_init_ok
      <4>1. \/ up /\ Loads(Len(OnFlash))
            \/ \E n \in 0 .. Len(OnFlash) - 1 : Loads(n)
            \/ UNCHANGED <<len, part_init_ok>> /\ ~part_init_ok
        BY <2>2 DEF fal_partition_init
      <4>2. Len(OnFlash) \in 0 .. Len(OnFlash)
            /\ \A n \in 0 .. Len(OnFlash) - 1 : n \in 0 .. Len(OnFlash) /\ n # Len(OnFlash)
        <5>1. Len(OnFlash) \in Nat
          BY <1>3
        <5> QED
          BY ONLY <5>1
      <4> QED
        BY <4>1, <4>2
    <3>3. ASSUME NEW n \in 0 .. Len(OnFlash), Loads(n), n = Len(OnFlash) => up
          PROVE  part_init_ok' \in BOOLEAN /\ len' \in 0 .. Len(OnFlash) /\ TableWhole'
      <4>1. len' = Found(n) /\ table' = SubSeq(OnFlash, 1, n)
        BY <3>3 DEF Loads
      <4>2. part_init_ok' \in BOOLEAN /\ (~(Found(n) > 0) => ~part_init_ok')
        <5>1. part_init_ok' = (Found(n) > 0)
          BY <3>3 DEF Loads
        <5>2. CASE Found(n) > 0
          BY <5>1, <5>2, Zenon
        <5>3. CASE ~(Found(n) > 0)
          <6>1. (Found(n) > 0) = FALSE
            BY <5>3
          <6>2. part_init_ok' = FALSE
            BY <5>1, <6>1, Zenon
          <6> QED
            BY <6>2
        <5> QED
          BY <5>2, <5>3
      <4>3. CASE n = Len(OnFlash)
        <5>1. Found(n) = Len(OnFlash) /\ table' = OnFlash
          BY <1>3, <4>1, <4>3 DEF Found
        <5> QED
          BY <1>3, <3>1, <3>3, <4>1, <4>2, <4>3, <5>1 DEF TableWhole
      <4>4. CASE n # Len(OnFlash)
        <5>1. Found(n) = 0 /\ ~(0 > 0)
          BY <4>4 DEF Found
        <5>2. ~part_init_ok'
          BY <4>2, <5>1
        <5>3. TableWhole'
          BY <5>2 DEF TableWhole
        <5>4. len' \in 0 .. Len(OnFlash)
          BY <1>3, <4>1, <5>1
        <5> QED
          BY <4>2, <5>3, <5>4
      <4> QED
        BY <4>3, <4>4
    <3>4. CASE \E n \in 0 .. Len(OnFlash) : Loads(n) /\ (n = Len(OnFlash) => up)
      BY <1>1, <3>1, <3>3, <3>4 DEF TypeOK
    <3>5. CASE UNCHANGED <<len, part_init_ok>> /\ ~part_init_ok
      BY <1>1, <3>1, <3>5 DEF TableWhole, TypeOK
    <3> QED
      BY <3>2, <3>4, <3>5
  <2> QED
    BY <2>1, <2>2
<1>5. TypeOK'
  BY <1>1, <1>2, <1>4 DEF TypeOK, files
<1> QED
  BY <1>2, <1>4, <1>5 DEF FalInv, StaysInside, Astray, ReportedIsWritten, FileInv, BenchInv,
     BenchIsRight, files

\* What there is to show of a step of a device.
LEMMA DeviceStep ==
  ASSUME FalInv, user \in {"block", "mtd", "char"}, UNCHANGED <<user, tables, files, bench>>,
         cells' \in Cells, failures' \in 0 .. MaxFaults, access' \in Access, StaysInside',
         ReportedIsWritten', access'.op = "block_write" => user = "block"
  PROVE  FalInv'
<1>1. TypeOK'
  BY DEF FalInv, TypeOK, tables, files, Access, Cells
<1>2. TableWhole' /\ (part_init_ok' => started')
  BY DEF FalInv, TableWhole, tables
<1>3. FileInv'
  BY DEF FileInv
<1>4. BenchInv' /\ BenchIsRight'
  BY NoBenchmark
<1> QED
  BY <1>1, <1>2, <1>3, <1>4 DEF FalInv

\* Two writes of a partition, or an erasing and a write, change only it.
LEMMA OnlyPartTwice ==
  ASSUME NEW c \in Cells, NEW c1 \in Cells, NEW c2 \in Cells, OnlyPart(c, c1), OnlyPart(c1, c2)
  PROVE  OnlyPart(c, c2)
BY DEF OnlyPart

\* blk_dev_write: erase, then write.
LEMMA BlkDevWrite ==
  ASSUME FalAssumption, FalInv, user = "block", ~Astray, NEW a \in Nat, NEW n \in Nat, NEW d \in Data,
         blk_dev_write(a, n, d), UNCHANGED <<user, tables, files, bench>>
  PROVE  FalInv'
<1>0. PICK e \in fal_partition_erase(cells, a, n) :
        \E o \in BlockWritten(e, a, n, d) : Take(o) /\ Accessed("block_write", a, n, d, o)
  BY DEF blk_dev_write
<1>1. PICK o \in BlockWritten(e, a, n, d) : Take(o) /\ Accessed("block_write", a, n, d, o)
  BY <1>0
<1>2. cells \in Cells /\ d \in Kinds
  BY DEF FalInv, TypeOK, Cells, Kinds
<1>3. /\ e \in Results /\ e.cells \in Cells
      /\ a + n < Wrap \/ OutOfBound(a, n) => OnlyPart(cells, e.cells)
      /\ a + n < Wrap /\ e.ok => \A k \in At(a, n) : e.cells[k] = Erased
  BY <1>2, EraseFacts DEF Results
<1>4. /\ o \in Results
      /\ a + n < Wrap \/ OutOfBound(a, n) => OnlyPart(cells, o.cells)
      /\ a + n < Wrap /\ o.ok => \A k \in At(a, n) : o.cells[k] = d
  <2>1. CASE e.ok
    <3>1. o \in WriteAfter(e, a, n, d)
      BY <1>1, <2>1 DEF BlockWritten
    <3>2. PICK p \in fal_partition_write(e.cells, a, n, d) : o.cells = p.cells /\ o.ok = p.ok
      BY <1>2, <1>3, <3>1, WriteAfterFacts
    <3>3. /\ p.cells \in Cells
          /\ a + n < Wrap \/ OutOfBound(a, n) => OnlyPart(e.cells, p.cells)
          /\ a + n < Wrap /\ p.ok => \A k \in At(a, n) : e.cells[k] = Erased => p.cells[k] = d
      BY <1>2, <1>3, WriteFacts DEF Results
    <3> QED
      BY <1>2, <1>3, <2>1, <3>1, <3>2, <3>3, OnlyPartTwice, WriteAfterFacts
  <2>2. CASE ~e.ok
    BY <1>1, <1>3, <2>2 DEF BlockWritten
  <2> QED
    BY <2>1, <2>2
<1>5. /\ cells' = o.cells /\ cells' \in Cells /\ failures' \in 0 .. MaxFaults /\ access' \in Access
      /\ StaysInside' /\ (a + n >= Wrap /\ ~OutOfBound(a, n) => Astray')
  BY <1>1, <1>2, <1>4, AccessStep
<1>6. access'.op = "block_write" => /\ access'.addr = a /\ access'.size = n
                                    /\ access'.data = d /\ (access'.ok => o.ok)
  BY <1>1, <1>2, <1>4, AccessedFacts
<1>7. ReportedIsWritten'
  <2> SUFFICES ASSUME access'.op = "block_write", access'.ok, ~Astray', NEW i \in 0 .. n - 1
               PROVE  cells'[Offset + a + i] = d
    BY <1>6 DEF ReportedIsWritten
  <2>1. Offset + a + i \in At(a, n)
    BY Numbers DEF At
  <2>2. a + n < Wrap
    BY <1>6, Numbers DEF Astray
  <2> QED
    BY <1>4, <1>5, <1>6, <2>1, <2>2
<1> QED
  BY <1>5, <1>7, DeviceStep

\* blk_dev_control: erase.
LEMMA BlkDevControl ==
  ASSUME FalAssumption, FalInv, user = "block", ~Astray, NEW start \in Blocks, NEW end \in Blocks,
         blk_dev_control(start, end), UNCHANGED <<user, tables, files, bench>>
  PROVE  FalInv'
<1> DEFINE blocks == IF end = start THEN 1 ELSE end - start
           a      == start * Blk
           n      == blocks * Blk
<1>1. PICK o \in fal_partition_erase(cells, a, n) :
         Take(o) /\ Accessed("block_write", a, n, Erased, o)
  BY DEF blk_dev_control
<1>2. a \in Nat /\ n \in Nat
  <2>1. start <= end /\ start \in Nat /\ end \in Nat /\ a \in Nat /\ Blk \in Nat
    BY Arguments, Numbers DEF blk_dev_control
  <2>2. blocks \in Nat
    BY <2>1
  <2> HIDE DEF blocks
  <2> QED
    BY <2>1, <2>2
<1>3. cells \in Cells /\ Erased \in Kinds
  BY DEF FalInv, TypeOK, Cells, Kinds
<1> HIDE DEF a, n
<1>4. /\ o \in Results
      /\ a + n < Wrap \/ OutOfBound(a, n) => OnlyPart(cells, o.cells)
      /\ a + n < Wrap /\ o.ok => \A k \in At(a, n) : o.cells[k] = Erased
  BY <1>1, <1>2, <1>3, EraseFacts
<1>5. /\ cells' = o.cells /\ cells' \in Cells /\ failures' \in 0 .. MaxFaults /\ access' \in Access
      /\ StaysInside'
  BY <1>1, <1>2, <1>3, <1>4, AccessStep
<1>6. access'.op = "block_write" => /\ access'.addr = a /\ access'.size = n
                                    /\ access'.data = Erased /\ (access'.ok => o.ok)
  BY <1>1, <1>2, <1>3, <1>4, AccessedFacts
<1>7. ReportedIsWritten'
  <2> SUFFICES ASSUME access'.op = "block_write", access'.ok, ~Astray', NEW i \in 0 .. n - 1
               PROVE  cells'[Offset + a + i] = Erased
    BY <1>6 DEF ReportedIsWritten
  <2>1. Offset + a + i \in At(a, n)
    BY <1>2, Numbers DEF At
  <2>2. a + n < Wrap
    BY <1>2, <1>6, Numbers DEF Astray
  <2> QED
    BY <1>4, <1>5, <1>6, <2>1, <2>2
<1> QED
  BY <1>5, <1>7, DeviceStep

LEMMA BlockStep == ASSUME FalAssumption, FalInv, Block PROVE FalInv'
<1>1. user = "block" /\ ~Astray /\ UNCHANGED <<user, tables, files, bench>>
  BY DEF Block, Ready
<1>2. PICK i \in Blocks, n \in Blocks :
        (\E d \in Data : blk_dev_write(i * Blk, n * Blk, d)) \/ blk_dev_control(i, n)
  BY DEF Block
<1>3. i * Blk \in Nat /\ n * Blk \in Nat
  BY Arguments
<1>4. CASE blk_dev_control(i, n)
  BY <1>1, <1>4, BlkDevControl
<1>5. ASSUME NEW d \in Data, blk_dev_write(i * Blk, n * Blk, d)
      PROVE  FalInv'
  BY <1>1, <1>3, <1>5, BlkDevWrite
<1> QED
  BY <1>2, <1>4, <1>5

\* A step of a device that is not the block device.
LEMMA OtherDevice ==
  ASSUME FalAssumption, FalInv, user \in {"mtd", "char"}, ~Astray, UNCHANGED <<user, tables, files, bench>>,
         NEW op \in {"read", "write", "erase"}, NEW a \in Nat, NEW n \in Nat, NEW o \in Results,
         Take(o), Accessed(op, a, n, Erased, o),
         a + n < Wrap \/ OutOfBound(a, n) => OnlyPart(cells, o.cells)
  PROVE  FalInv'
<1>1. Erased \in Kinds /\ op \in {"read", "write", "erase", "block_write"} /\ op # "block_write"
  BY DEF Kinds
<1>2. /\ cells' \in Cells /\ failures' \in 0 .. MaxFaults /\ access' \in Access /\ StaysInside'
  BY <1>1, AccessStep
<1>3. access'.op # "block_write"
  BY <1>1, AccessedFacts
<1> QED
  BY <1>2, <1>3, DeviceStep DEF ReportedIsWritten

LEMMA MtdStep == ASSUME FalAssumption, FalInv, Mtd PROVE FalInv'
<1>1. user = "mtd" /\ ~Astray /\ UNCHANGED <<user, tables, files, bench>>
  BY DEF Mtd, Ready
<1>2. cells \in Cells /\ Erased \in Kinds /\ Data \subseteq Kinds
  BY DEF FalInv, TypeOK, Cells, Kinds
<1>3. PICK a \in Args(PartLen + 1), n \in Args(PartLen + 1) :
        \/ \E d \in Data : \E o \in fal_partition_write(cells, a, n, d) :
             Take(o) /\ Accessed("write", a, n, Erased, o)
        \/ \E o \in fal_partition_erase(cells, a, n) : Take(o) /\ Accessed("erase", a, n, Erased, o)
        \/ \E o \in fal_partition_read(cells, a, n) : Take(o) /\ Accessed("read", a, n, Erased, o)
  BY DEF Mtd
<1>4. a \in Nat /\ n \in Nat
  BY Arguments, Numbers
<1>5. ASSUME NEW op \in {"read", "write", "erase"}, NEW o \in Results,
             a + n < Wrap \/ OutOfBound(a, n) => OnlyPart(cells, o.cells), Take(o), Accessed(op, a, n, Erased, o)
      PROVE  FalInv'
  BY <1>1, <1>4, <1>5, OtherDevice
<1>6. CASE \E d \in Data : \E o \in fal_partition_write(cells, a, n, d) :
             Take(o) /\ Accessed("write", a, n, Erased, o)
  BY <1>2, <1>4, <1>5, <1>6, WriteFacts
<1>7. CASE \E o \in fal_partition_erase(cells, a, n) : Take(o) /\ Accessed("erase", a, n, Erased, o)
  BY <1>2, <1>4, <1>5, <1>7, EraseFacts
<1>8. CASE \E o \in fal_partition_read(cells, a, n) : Take(o) /\ Accessed("read", a, n, Erased, o)
  <2>1. PICK o \in fal_partition_read(cells, a, n) : Take(o) /\ Accessed("read", a, n, Erased, o)
    BY <1>8
  <2>2. o \in Results /\ OnlyPart(cells, o.cells)
    BY <1>2, ReadFacts DEF OnlyPart
  <2> QED
    BY <1>5, <2>1, <2>2
<1> QED
  BY <1>3, <1>6, <1>7, <1>8

\* char_dev_write: erase if it is the start, then write.
LEMMA CharWrite ==
  ASSUME FalAssumption, FalInv, user = "char", ~Astray, UNCHANGED <<user, tables, files, bench>>,
         NEW p \in Nat, NEW n \in Nat, NEW d \in Data, char_dev_write(p, n, d)
  PROVE  FalInv'
<1> DEFINE m == CharSize(p, n)
<1>1. /\ cells \in Cells /\ d \in Kinds /\ m \in Nat /\ PartLen \in Nat /\ 0 + PartLen < Wrap
  <2>1. cells \in Cells /\ d \in Kinds
    BY DEF FalInv, TypeOK, Cells, Kinds
  <2>2. Cut(p, n) \in Nat
    BY CutFacts
  <2>3. m \in Nat
    BY <2>2 DEF CharSize
  <2> QED
    BY <2>1, <2>3, Numbers, NearBy
<1>2. PICK e \in (IF p = 0 THEN fal_partition_erase(cells, 0, PartLen)
                  ELSE {Outcome(cells, TRUE, 0)}) :
        \E o \in WriteAfter(e, p, m, d) : Take(o) /\ Accessed("write", p, m, Erased, o)
  BY DEF char_dev_write
<1>3. PICK o \in WriteAfter(e, p, m, d) : Take(o) /\ Accessed("write", p, m, Erased, o)
  BY <1>2
<1> HIDE DEF m
<1>4. e \in Results /\ e.cells \in Cells /\ OnlyPart(cells, e.cells)
  <2>1. CASE p = 0
    <3>1. e \in fal_partition_erase(cells, 0, PartLen) /\ 0 \in Nat
      BY <1>2, <2>1
    <3>2. e \in Results /\ OnlyPart(cells, e.cells)
      BY <1>1, <3>1, EraseFacts
    <3> QED
      BY <3>2 DEF Results
  <2>2. CASE p # 0
    <3>1. e = Outcome(cells, TRUE, 0) /\ 0 \in Nat /\ TRUE \in BOOLEAN
      BY <1>2, <2>2
    <3>2. e \in Results /\ e.cells = cells
      BY <1>1, <3>1, OutcomeFacts
    <3> QED
      BY <1>1, <3>2 DEF OnlyPart
  <2> QED
    BY <2>1, <2>2
<1>5. PICK w \in fal_partition_write(e.cells, p, m, d) : o.cells = w.cells /\ o.ok = w.ok
  BY <1>1, <1>3, <1>4, WriteAfterFacts
<1>6. o \in Results
  BY <1>1, <1>3, <1>4, WriteAfterFacts
<1>7. w.cells \in Cells /\ (p + m < Wrap \/ OutOfBound(p, m) => OnlyPart(e.cells, w.cells))
  BY <1>1, <1>4, <1>5, WriteFacts DEF Results
<1>8. p + m < Wrap \/ OutOfBound(p, m) => OnlyPart(cells, o.cells)
  BY <1>1, <1>4, <1>5, <1>7, OnlyPartTwice
<1> QED
  BY <1>1, <1>3, <1>6, <1>8, OtherDevice

LEMMA CharStep == ASSUME FalAssumption, FalInv, Char PROVE FalInv'
<1>1. user = "char" /\ ~Astray /\ UNCHANGED <<user, tables, files, bench>>
  BY DEF Char, Ready
<1>2. cells \in Cells
  BY DEF FalInv, TypeOK, Cells
<1>3. PICK p \in Args(PartLen + 1), n \in Args(MaxSize) :
        char_dev_read(p, n) \/ \E d \in Data : char_dev_write(p, n, d)
  BY DEF Char
<1>4. p \in Nat /\ n \in Nat /\ Cut(p, n) \in Nat
  <2>1. p \in Nat /\ n \in Nat
    BY Arguments, Numbers
  <2> QED
    BY <2>1, CutFacts
<1>5. CASE char_dev_read(p, n)
  <2>1. PICK o \in fal_partition_read(cells, p, Cut(p, n)) :
          Take(o) /\ Accessed("read", p, Cut(p, n), Erased, o)
    BY <1>5 DEF char_dev_read
  <2>2. o \in Results /\ OnlyPart(cells, o.cells)
    BY <1>2, ReadFacts DEF OnlyPart
  <2> QED
    BY <1>1, <1>4, <2>1, <2>2, OtherDevice
<1>6. ASSUME NEW d \in Data, char_dev_write(p, n, d) PROVE FalInv'
  BY <1>1, <1>4, <1>6, CharWrite
<1> QED
  BY <1>3, <1>5, <1>6

\* Without a new access what lies outside is untouched if only the partition is.
LEMMA KeepsInside ==
  ASSUME FalInv, ~Astray, UNCHANGED access, cells' \in Cells, OnlyPart(cells, cells')
  PROVE  StaysInside'
<1>1. StaysInside /\ DOMAIN cells = 0 .. DevLen - 1 /\ DOMAIN cells' = 0 .. DevLen - 1
  BY DEF FalInv, TypeOK, Cells
<1>2. \A k \in DOMAIN cells' \ InPart : cells'[k] = Foreign
  BY <1>1 DEF StaysInside, OnlyPart
<1> QED
  BY <1>1, <1>2 DEF StaysInside, Astray

\* What there is to show of a step on a file.
LEMMA OnFile ==
  ASSUME FalInv, user = "file", UNCHANGED <<user, tables, bench>>,
         cells' \in Cells, failures' \in 0 .. MaxFaults, access' \in Access, StaysInside',
         access'.op # "block_write", mode' \in {"closed", "read", "write"}, pos' \in 0 .. PartLen,
         file' \in Seq(Data), dirty' \in BOOLEAN, FileInv'
  PROVE  FalInv'
<1>1. TypeOK'
  BY DEF FalInv, TypeOK, tables, Access, Cells
<1>2. TableWhole' /\ (part_init_ok' => started')
  BY DEF FalInv, TableWhole, tables
<1>3. BenchInv' /\ BenchIsRight'
  BY NoBenchmark
<1> QED
  BY <1>1, <1>2, <1>3 DEF FalInv, ReportedIsWritten

LEMMA OpenStep ==
  ASSUME FalAssumption, FalInv, user = "file", ~Astray, char_dev_fopen, UNCHANGED <<user, tables, bench>>
  PROVE  FalInv'
<1>1. /\ TypeOK /\ cells \in Cells /\ access \in Access /\ access.op # "block_write" /\ FileInv
      /\ failures \in 0 .. MaxFaults /\ file \in Seq(Data) /\ dirty \in BOOLEAN /\ StaysInside
  BY DEF FalInv, TypeOK, Cells, Access
<1>2. PartLen \in Nat /\ 0 + PartLen < Wrap /\ 0 \in 0 .. PartLen
  BY Numbers, NearBy
<1>3. CASE \E o \in Opened : /\ Take(o) /\ dirty' = ~o.ok /\ mode' = "write" /\ pos' = 0
                             /\ file' = <<>> /\ UNCHANGED access
  <2>1. PICK o \in fal_partition_erase(cells, 0, PartLen) :
          /\ Take(o) /\ dirty' = ~o.ok /\ mode' = "write" /\ pos' = 0 /\ file' = <<>>
          /\ UNCHANGED access
    BY <1>3 DEF Opened
  <2>2. /\ o \in Results /\ OnlyPart(cells, o.cells)
        /\ o.ok => \A k \in At(0, PartLen) : o.cells[k] = Erased
    BY <1>1, <1>2, EraseFacts
  <2>3. cells' = o.cells /\ cells' \in Cells /\ failures' \in 0 .. MaxFaults
    BY <1>1, <2>1, <2>2, TakeFacts
  <2>4. StaysInside'
    BY <2>1, <2>2, <2>3, KeepsInside
  <2>5. dirty' \in BOOLEAN /\ (~dirty' => o.ok)
    BY <2>1
  <2>6. FileInv'
    <3>1. At(0, PartLen) = Offset .. Offset + PartLen - 1 /\ Offset + pos' = Offset
      BY <2>1, Numbers DEF At
    <3>2. Len(file') = 0 /\ file' = <<>> /\ mode' = "write" /\ pos' = 0
      BY <2>1
    <3>3. ~dirty' => \A k \in Offset .. Offset + PartLen - 1 : cells'[k] = Erased
      BY <2>2, <2>3, <2>5, <3>1
    <3> QED
      BY <1>2, <3>1, <3>2, <3>3 DEF FileInv
  <2> QED
    BY <1>1, <1>2, <2>1, <2>3, <2>4, <2>5, <2>6, OnFile
<1>4. CASE mode' = "read" /\ pos' = 0 /\ UNCHANGED <<cells, failures, access, file, dirty>>
  <2>1. FileInv'
    BY <1>1, <1>4 DEF FileInv
  <2>2. StaysInside'
    BY <1>1, <1>4 DEF StaysInside, Astray
  <2> QED
    BY <1>1, <1>2, <1>4, <2>1, <2>2, OnFile
<1> QED
  BY <1>3, <1>4 DEF char_dev_fopen

LEMMA FreadStep ==
  ASSUME FalAssumption, FalInv, user = "file", ~Astray, NEW n \in Nat, char_dev_fread(n),
         UNCHANGED <<user, tables, bench>>
  PROVE  FalInv'
<1>1. /\ TypeOK /\ cells \in Cells /\ FileInv /\ pos \in 0 .. PartLen
      /\ file \in Seq(Data) /\ dirty \in BOOLEAN /\ mode \in {"closed", "read", "write"}
  BY DEF FalInv, TypeOK, Cells
<1> DEFINE m == Cut(pos, n)
<1>2. PICK o \in fal_partition_read(cells, pos, m) :
        /\ mode = "read" /\ Take(o) /\ Accessed("read", pos, m, Erased, o)
        /\ pos' = (IF o.ok THEN (pos + m) % Wrap ELSE pos) /\ UNCHANGED <<mode, file, dirty>>
  BY DEF char_dev_fread
<1>3. /\ pos \in Nat /\ pos <= PartLen /\ PartLen \in Nat
      /\ "read" \in {"read", "write", "erase", "block_write"} /\ Erased \in Kinds
  BY <1>1, Numbers DEF Kinds
<1>4. m \in Nat
  BY <1>3, CutFacts
<1> HIDE DEF m
<1>5. o \in Results /\ o.cells = cells /\ OnlyPart(cells, o.cells)
  BY <1>1, ReadFacts DEF OnlyPart
<1>6. /\ cells' = o.cells /\ cells' \in Cells /\ failures' \in 0 .. MaxFaults
      /\ access' \in Access /\ StaysInside'
  BY <1>2, <1>3, <1>4, <1>5, AccessStep
<1>7. access'.op # "block_write"
  BY <1>2, <1>3, <1>4, <1>5, AccessedFacts
<1>8. pos' \in 0 .. PartLen
  <2>1. CASE o.ok
    <3>1. ~OutOfBound(pos, m) /\ pos' = (pos + m) % Wrap
      BY <1>2, <2>1, FailureFacts DEF fal_partition_read
    <3> QED
      BY <1>3, <1>4, <3>1, EndsInside
  <2>2. CASE ~o.ok
    BY <1>1, <1>2, <2>2
  <2> QED
    BY <2>1, <2>2
<1>9. FileInv'
  BY <1>1, <1>2, <1>5, <1>6 DEF FileInv
<1> QED
  BY <1>1, <1>2, <1>6, <1>7, <1>8, <1>9, OnFile

LEMMA FwriteStep ==
  ASSUME FalAssumption, FalInv, user = "file", ~Astray, NEW n \in Nat, NEW d \in Data,
         char_dev_fwrite(n, d), UNCHANGED <<user, tables, bench>>
  PROVE  FalInv'
<1>1. /\ TypeOK /\ cells \in Cells /\ FileInv /\ pos \in 0 .. PartLen
      /\ file \in Seq(Data) /\ dirty \in BOOLEAN /\ mode \in {"closed", "read", "write"}
  BY DEF FalInv, TypeOK, Cells
<1> DEFINE m    == Cut(pos, n)
           more == [i \in 1 .. m |-> d]
<1>2. PICK o \in fal_partition_write(cells, pos, m, d) :
        /\ mode = "write" /\ Take(o) /\ Accessed("write", pos, m, Erased, o)
        /\ IF ~o.ok THEN UNCHANGED <<pos, file>>
           ELSE pos' = (pos + m) % Wrap /\ file' = IF Astray' THEN file ELSE file \o more
        /\ dirty' = (dirty \/ ~o.ok \/ Astray') /\ UNCHANGED mode
  BY DEF char_dev_fwrite
<1>3. /\ pos \in Nat /\ pos <= PartLen /\ PartLen \in Nat
      /\ "write" \in {"read", "write", "erase", "block_write"} /\ Erased \in Kinds /\ d \in Kinds
  BY <1>1, Numbers DEF Kinds
<1>4. m \in Nat /\ (pos + m < Wrap => pos + m <= PartLen)
  BY <1>3, CutFacts
<1> HIDE DEF m
<1>5. /\ o \in Results
      /\ pos + m < Wrap \/ OutOfBound(pos, m) => OnlyPart(cells, o.cells)
      /\ pos + m < Wrap /\ o.ok => /\ \A k \in (0 .. DevLen - 1) \ At(pos, m) : o.cells[k] = cells[k]
                 /\ \A k \in At(pos, m) : cells[k] = Erased => o.cells[k] = d
  BY <1>1, <1>3, <1>4, WriteFacts
<1>6. /\ cells' = o.cells /\ cells' \in Cells /\ failures' \in 0 .. MaxFaults
      /\ access' \in Access /\ StaysInside'
      /\ pos + m >= Wrap /\ ~OutOfBound(pos, m) => Astray'
  BY <1>2, <1>3, <1>4, <1>5, AccessStep
<1>7. access'.op # "block_write"
  BY <1>2, <1>3, <1>4, <1>5, AccessedFacts
<1>8. dirty' \in BOOLEAN /\ (~dirty' => ~dirty /\ o.ok /\ ~Astray')
  <2>1. dirty' = (dirty \/ ~o.ok \/ Astray') /\ dirty \in BOOLEAN
    BY <1>1, <1>2
  <2> QED
    BY ONLY <2>1
<1>9. more \in Seq(Data) /\ Len(more) = m /\ \A i \in 1 .. m : more[i] = d
  BY <1>4
<1> HIDE DEF more
<1>10. o.ok => ~OutOfBound(pos, m)
  BY <1>2, FailureFacts DEF fal_partition_write
<1>11. file' \in Seq(Data) /\ pos' \in 0 .. PartLen
  <2>1. CASE o.ok
    <3>1. pos' = (pos + m) % Wrap /\ (file' = file \/ file' = file \o more)
      BY <1>2, <2>1
    <3>2. pos' \in 0 .. PartLen
      BY <1>3, <1>4, <1>10, <2>1, <3>1, EndsInside
    <3>3. file \o more \in Seq(Data)
      BY <1>1, <1>9
    <3> QED
      BY <1>1, <3>1, <3>2, <3>3
  <2>2. CASE ~o.ok
    BY <1>1, <1>2, <2>2
  <2> QED
    BY <2>1, <2>2
<1>12. ASSUME ~dirty' PROVE FileInv'
  <2>0. pos + m < Wrap /\ pos + m <= PartLen /\ ((pos + m) % Wrap) = pos + m
    <3> DEFINE x == pos + m
    <3>1. x < Wrap /\ x \in Nat /\ Wrap \in Nat
      BY <1>3, <1>4, <1>6, <1>8, <1>10, <1>12, Numbers
    <3>2. (x % Wrap) = x
      <4> HIDE DEF x
      <4> QED
        BY <3>1
    <3> QED
      BY <1>4, <3>1, <3>2
  <2>1. /\ ~dirty /\ pos' = pos + m /\ file' = file \o more /\ mode' = "write"
        /\ \A k \in (0 .. DevLen - 1) \ At(pos, m) : cells'[k] = cells[k]
        /\ \A k \in At(pos, m) : cells[k] = Erased => cells'[k] = d
    BY <1>2, <1>5, <1>6, <1>8, <1>12, <2>0
  <2>2. /\ Len(file) = pos
        /\ \A i \in 1 .. Len(file) : cells[Offset + i - 1] = file[i]
        /\ \A k \in Offset + pos .. Offset + PartLen - 1 : cells[k] = Erased
    BY <1>1, <1>2, <2>1 DEF FileInv
  <2>3. /\ Len(file') = pos + m /\ \A i \in 1 .. pos : file'[i] = file[i]
        /\ \A i \in pos + 1 .. pos + m : file'[i] = d
    <3>1. \A i \in 1 .. pos : file'[i] = file[i]
      BY <1>1, <1>4, <1>9, <2>1, <2>2
    <3>2. ASSUME NEW i \in pos + 1 .. pos + m PROVE file'[i] = d
      <4>1. i - pos \in 1 .. m /\ i \in 1 .. pos + m /\ i > pos
        BY <1>3, <1>4
      <4>2. file'[i] = more[i - pos]
        BY <1>1, <1>3, <1>4, <1>9, <2>1, <2>2, <4>1
      <4> QED
        BY <1>9, <4>1, <4>2
    <3>3. Len(file') = pos + m
      <4>1. Len(file') = Len(file) + Len(more)
        <5>1. file \in Seq(Data) /\ more \in Seq(Data)
          BY <1>1, <1>9
        <5>2. Len(file \o more) = Len(file) + Len(more)
          BY ONLY <5>1
        <5> QED
          BY ONLY <2>1, <5>2
      <4> QED
        BY <1>9, <2>2, <4>1
    <3> QED
      BY <3>1, <3>2, <3>3
  <2>4. ASSUME NEW i \in 1 .. pos + m PROVE cells'[Offset + i - 1] = file'[i]
    <3>1. CASE i <= pos
      <4>1. i \in 1 .. pos /\ Offset + i - 1 \in (0 .. DevLen - 1) \ At(pos, m)
        BY <1>3, <1>4, <2>0, <3>1, Numbers DEF At
      <4> QED
        BY <2>1, <2>2, <2>3, <4>1
    <3>2. CASE i > pos
      <4>1. /\ i \in pos + 1 .. pos + m /\ Offset + i - 1 \in At(pos, m)
            /\ Offset + i - 1 \in Offset + pos .. Offset + PartLen - 1
        BY <1>3, <1>4, <2>0, <3>2, Numbers DEF At
      <4> QED
        BY <2>1, <2>2, <2>3, <4>1
    <3> QED
      BY <1>3, <1>4, <3>1, <3>2
  <2>5. ASSUME NEW k \in Offset + pos' .. Offset + PartLen - 1 PROVE cells'[k] = Erased
    <3>1. k \in Offset + (pos + m) .. Offset + PartLen - 1
      BY <2>1
    <3>2. k \in (0 .. DevLen - 1) \ At(pos, m) /\ k \in Offset + pos .. Offset + PartLen - 1
      BY <1>3, <1>4, <2>0, <3>1, Numbers DEF At
    <3> QED
      BY <2>1, <2>2, <3>2
  <2> QED
    BY <1>4, <2>0, <2>1, <2>3, <2>4, <2>5 DEF FileInv
<1>13. FileInv'
  BY <1>12 DEF FileInv
<1> QED
  BY <1>1, <1>2, <1>6, <1>7, <1>8, <1>11, <1>13, OnFile

LEMMA FileStep == ASSUME FalAssumption, FalInv, File PROVE FalInv'
<1>1. user = "file" /\ ~Astray /\ UNCHANGED <<user, tables, bench>>
  BY DEF File, Ready
<1>2. Args(MaxSize) \subseteq Nat
  BY Arguments, Numbers
<1> QED
  BY <1>1, <1>2, OpenStep, FreadStep, FwriteStep DEF File

-----------------------------------------------------------------------------
(* The benchmark of the shell.                                             *)

\* What there is to show of a step of the benchmark.
LEMMA OnShell ==
  ASSUME FalAssumption, FalInv, user = "shell", ~Astray, UNCHANGED <<user, tables, files, access>>,
         cells' \in Cells, OnlyPart(cells, cells'), failures' \in 0 .. MaxFaults, bench' \in Steps,
         BenchInv', BenchIsRight'
  PROVE  FalInv'
<1>1. TypeOK'
  BY DEF FalInv, TypeOK, tables, files, Steps, Cells
<1>2. TableWhole' /\ (part_init_ok' => started')
  BY DEF FalInv, TableWhole, tables
<1>3. StaysInside'
  BY KeepsInside
<1>4. ReportedIsWritten' /\ access'.op # "block_write"
  BY DEF FalInv, ReportedIsWritten
<1>5. FileInv'
  BY DEF FileInv
<1> QED
  BY <1>1, <1>2, <1>3, <1>4, <1>5 DEF FalInv

LEMMA ShellStep == ASSUME FalAssumption, FalInv, fal PROVE FalInv'
<1>1. user = "shell" /\ ~Astray /\ UNCHANGED <<user, tables, files, access>> /\ user' = "shell"
  BY DEF fal, Ready
<1>2. /\ TypeOK /\ cells \in Cells /\ bench \in Steps /\ failures \in 0 .. MaxFaults /\ BenchInv
      /\ PartLen \in Nat /\ Offset \in Nat /\ MaxFaults \in Nat /\ Pattern \in Kinds
  BY Numbers DEF FalInv, TypeOK, Cells, Steps, Kinds
<1>3. /\ bench.step \in {"idle", "erase", "write", "read", "passed", "failed"}
      /\ bench.n \in 0 .. PartLen /\ bench.at \in 0 .. PartLen
  BY <1>2 DEF Steps
<1>4. OnlyPart(cells, cells)
  BY DEF OnlyPart
<1>5. CASE Begin
  <2>1. PICK n \in 1 .. PartLen : bench' = [step |-> "erase", n |-> n, at |-> 0]
    BY <1>5 DEF Begin
  <2>2. /\ bench' \in Steps /\ bench'.step = "erase" /\ bench'.n = n /\ bench'.at = 0 /\ n > 0
        /\ 0 < PartLen
    BY <1>2, <2>1 DEF Steps
  <2>3. BenchInv' /\ BenchIsRight'
    BY <1>1, <2>2 DEF BenchInv, BenchIsRight
  <2> QED
    BY <1>1, <1>2, <1>4, <1>5, <2>2, <2>3, OnShell DEF Begin
<1>6. CASE BenchErase
  <2>1. PICK o \in fal_partition_erase(cells, 0, PartLen) : Take(o)
    BY <1>6 DEF BenchErase
  <2>2. o \in Results /\ OnlyPart(cells, o.cells)
    <3>1. 0 \in Nat /\ 0 + PartLen < Wrap
      BY <1>2, Numbers, NearBy
    <3> QED
      BY <1>2, <2>1, <3>1, EraseFacts
  <2>3. cells' = o.cells /\ cells' \in Cells /\ failures' \in 0 .. MaxFaults
    BY <1>2, <2>1, <2>2, TakeFacts
  <2>4. /\ bench' \in Steps /\ bench'.step = "write" /\ bench'.n = bench.n /\ bench'.at = bench.at
        /\ bench.step = "erase"
    BY <1>2, <1>6 DEF BenchErase, Steps
  <2>5. BenchInv' /\ BenchIsRight'
    BY <1>1, <1>2, <2>4 DEF BenchInv, BenchIsRight
  <2> QED
    BY <1>1, <2>2, <2>3, <2>4, <2>5, OnShell
<1>7. CASE BenchWrite
  <2>1. PICK o \in fal_partition_write(cells, bench.at, bench.n, Pattern) :
          /\ Take(o)
          /\ bench' = IF o.ok /\ bench.at + bench.n < PartLen THEN [bench EXCEPT !.at = @ + bench.n]
                      ELSE [bench EXCEPT !.at = 0, !.step = "read"]
    BY <1>7 DEF BenchWrite
  <2>2. bench.step = "write" /\ bench.n > 0 /\ bench.at < PartLen
    BY <1>2, <1>7 DEF BenchWrite, BenchInv
  <2>3. bench.at \in Nat /\ bench.n \in Nat
    BY <1>2, <1>3
  <2>4. o \in Results /\ OnlyPart(cells, o.cells)
    <3>1. o \in Results /\ (bench.at + bench.n < Wrap \/ OutOfBound(bench.at, bench.n) =>
                             OnlyPart(cells, o.cells))
      BY <1>2, <2>3, WriteFacts
    <3>2. OutOfBound(bench.at, bench.n) \/ bench.at + bench.n < Wrap
      BY <1>2, <1>3, <2>2, TwoOfThem
    <3> QED
      BY <3>1, <3>2
  <2>5. cells' = o.cells /\ cells' \in Cells /\ failures' \in 0 .. MaxFaults
    BY <1>2, <2>1, <2>4, TakeFacts
  <2>6. CASE bench' = [bench EXCEPT !.at = @ + bench.n] /\ bench.at + bench.n < PartLen
    <3>1. /\ bench' \in Steps /\ bench'.step = "write" /\ bench'.n = bench.n
          /\ bench'.at = bench.at + bench.n
      BY <1>2, <1>3, <2>2, <2>3, <2>6 DEF Steps
    <3>2. BenchInv' /\ BenchIsRight'
      BY <1>1, <2>2, <2>6, <3>1 DEF BenchInv, BenchIsRight
    <3> QED
      BY <1>1, <2>4, <2>5, <3>1, <3>2, OnShell
  <2>7. CASE bench' = [bench EXCEPT !.at = 0, !.step = "read"]
    <3>1. bench' \in Steps /\ bench'.step = "read" /\ bench'.n = bench.n /\ bench'.at = 0
      <4>1. 0 \in 0 .. PartLen
        BY <1>2
      <4> QED
        BY ONLY <1>2, <2>7, <4>1 DEF Steps
    <3>2. BenchInv' /\ BenchIsRight'
      <4>1. bench'.at < PartLen /\ Offset + 0 - 1 < Offset /\ Offset \in Nat
        <5>1. bench'.at = 0 /\ PartLen \in Nat /\ Offset \in Nat /\ bench.at < PartLen
              /\ bench.at \in 0 .. PartLen
          BY <1>2, <1>3, <2>2, <3>1
        <5> QED
          BY ONLY <5>1
      <4>2. \A k \in Offset .. Offset + bench'.at - 1 : cells'[k] = Pattern
        BY <3>1, <4>1
      <4> QED
        BY <1>1, <2>2, <3>1, <4>1, <4>2 DEF BenchInv, BenchIsRight
    <3> QED
      BY <1>1, <2>4, <2>5, <3>1, <3>2, OnShell
  <2> QED
    BY <2>1, <2>6, <2>7
<1>8. CASE BenchRead
  <2>1. bench.step = "read" /\ bench.n > 0 /\ bench.at < PartLen
        /\ \A k \in Offset .. Offset + bench.at - 1 : cells[k] = Pattern
    BY <1>2, <1>8 DEF BenchRead, BenchInv
  <2>2. cells' = cells /\ failures' \in 0 .. MaxFaults
    BY <1>2, <1>8 DEF BenchRead
  <2>3. \/ bench' = [Idle EXCEPT !.step = "failed"]
        \/ /\ \A i \in ToCompare : cells[Offset + i] = Pattern
           /\ bench.at + bench.n < PartLen /\ bench' = [bench EXCEPT !.at = @ + bench.n]
        \/ /\ \A i \in ToCompare : cells[Offset + i] = Pattern
           /\ ~(bench.at + bench.n < PartLen) /\ bench' = [Idle EXCEPT !.step = "passed"]
    BY <1>8 DEF BenchRead
  <2>4. CASE bench' = [Idle EXCEPT !.step = "failed"]
    <3>1. bench' \in Steps /\ bench'.step = "failed"
      BY <1>2, <2>4 DEF Steps, Idle
    <3>2. BenchInv' /\ BenchIsRight'
      BY <1>1, <3>1 DEF BenchInv, BenchIsRight
    <3> QED
      BY <1>1, <1>2, <1>4, <2>2, <3>1, <3>2, OnShell
  <2>5. CASE /\ \A i \in ToCompare : cells[Offset + i] = Pattern
             /\ bench.at + bench.n < PartLen /\ bench' = [bench EXCEPT !.at = @ + bench.n]
    <3>1. /\ bench' \in Steps /\ bench'.step = "read" /\ bench'.n = bench.n
          /\ bench'.at = bench.at + bench.n /\ bench'.at < PartLen
      BY <1>2, <1>3, <2>1, <2>5 DEF Steps
    <3>2. ToCompare = bench.at .. bench.at + bench.n - 1
      BY <1>2, <1>3, <2>5 DEF ToCompare
    <3>3. ASSUME NEW k \in Offset .. Offset + (bench.at + bench.n) - 1 PROVE cells[k] = Pattern
      <4>1. CASE k < Offset + bench.at
        BY <1>2, <1>3, <2>1, <4>1
      <4>2. CASE k >= Offset + bench.at
        <5>1. k - Offset \in ToCompare /\ Offset + (k - Offset) = k
          BY <1>2, <1>3, <3>2, <4>2
        <5> QED
          BY <2>5, <5>1
      <4> QED
        BY <1>2, <1>3, <4>1, <4>2
    <3>4. BenchInv' /\ BenchIsRight'
      BY <1>1, <1>2, <2>1, <2>2, <3>1, <3>3 DEF BenchInv, BenchIsRight
    <3> QED
      BY <1>1, <1>2, <1>4, <2>2, <3>1, <3>4, OnShell
  <2>6. CASE /\ \A i \in ToCompare : cells[Offset + i] = Pattern
             /\ ~(bench.at + bench.n < PartLen) /\ bench' = [Idle EXCEPT !.step = "passed"]
    <3>1. bench' \in Steps /\ bench'.step = "passed"
      BY <1>2, <2>6 DEF Steps, Idle
    <3>2. ToCompare = bench.at .. PartLen - 1
      <4>1. CASE bench.at + bench.n > PartLen
        <5>1. ToCompare = bench.at .. bench.at + (PartLen - bench.at) - 1
          BY <4>1 DEF ToCompare
        <5> QED
          BY <1>2, <1>3, <5>1
      <4>2. CASE ~(bench.at + bench.n > PartLen)
        <5>1. ToCompare = bench.at .. bench.at + bench.n - 1
          BY <4>2 DEF ToCompare
        <5> QED
          BY <1>2, <1>3, <2>6, <4>2, <5>1
      <4> QED
        BY <4>1, <4>2
    <3>3. ASSUME NEW k \in InPart PROVE cells[k] = Pattern
      <4>1. k \in Offset .. Offset + PartLen - 1
        BY DEF InPart
      <4>2. CASE k < Offset + bench.at
        BY <1>2, <1>3, <2>1, <4>1, <4>2
      <4>3. CASE k >= Offset + bench.at
        <5>1. k - Offset \in ToCompare /\ Offset + (k - Offset) = k
          BY <1>2, <1>3, <3>2, <4>1, <4>3
        <5> QED
          BY <2>6, <5>1
      <4> QED
        BY <1>2, <1>3, <4>1, <4>2, <4>3
    <3>4. BenchInv' /\ BenchIsRight'
      BY <1>1, <2>2, <3>1, <3>3 DEF BenchInv, BenchIsRight
    <3> QED
      BY <1>1, <1>2, <1>4, <2>2, <3>1, <3>4, OnShell
  <2> QED
    BY <2>3, <2>4, <2>5, <2>6
<1> QED
  BY <1>5, <1>6, <1>7, <1>8 DEF fal

-----------------------------------------------------------------------------
(* The theorem.                                                            *)

LEMMA FalInvStep == FalAssumption /\ FalInv /\ [Next]_vars => FalInv'
<1> SUFFICES ASSUME FalAssumption, FalInv, [Next]_vars PROVE FalInv'
  OBVIOUS
<1>1. CASE UNCHANGED vars
  BY <1>1 DEF FalInv, vars, tables, files, TypeOK, TableWhole, StaysInside, Astray,
     ReportedIsWritten, FileInv, BenchInv, BenchIsRight
<1> QED
  BY <1>1, LayerStep, BlockStep, MtdStep, CharStep, FileStep, ShellStep DEF Next

LEMMA FalInvSafe == FalAssumption /\ FalInv => PartitionSafe
<1> SUFFICES ASSUME FalAssumption, FalInv PROVE PartitionSafe
  OBVIOUS
<1>1. FileReadsBack
  <2> SUFFICES ASSUME user = "file", ~dirty, NEW i \in 1 .. Len(file)
               PROVE  i <= PartLen /\ cells[Offset + i - 1] = file[i]
    BY DEF FileReadsBack
  <2>1. file \in Seq(Data)
    BY DEF FalInv, TypeOK
  <2>2. /\ Len(file) <= PartLen /\ Len(file) \in Nat /\ PartLen \in Nat
        /\ \A k \in 1 .. Len(file) : cells[Offset + k - 1] = file[k]
    BY <2>1, Numbers DEF FalInv, FileInv
  <2> QED
    BY <2>2
<1> QED
  BY <1>1 DEF FalInv, PartitionSafe

\* fal_partition.c and fal_rtt.c, for every table, partition, size of a block
\* and number of failures: the layer is initialised with its whole table or not
\* at all; as long as no access wraps around, no user of a partition touches what
\* lies outside, and blocks reported as written are; a file reads back what was
\* written while nothing failed; and a benchmark that passes has written
\* everything.
THEOREM PartitionsAreSafe == ASSUME FalAssumption PROVE Spec => []PartitionSafe
<1>1. Init => FalInv
  BY FalInvInit
<1>2. FalInv /\ [Next]_vars => FalInv'
  BY FalInvStep
<1>3. FalInv => PartitionSafe
  BY FalInvSafe
<1> QED
  BY <1>1, <1>2, <1>3, PTL DEF Spec
=============================================================================
