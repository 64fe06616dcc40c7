------------------------------ MODULE DnsNames ------------------------------
(***************************************************************************)
(* Domain names in the packets of the mDNS responder (mdns.c): how they    *)
(* are written with jumps to names that are already there, and how they    *)
(* are read back.                                                          *)
(*                                                                         *)
(* A name is a sequence of labels, a label a name of itself with a length. *)
(* A packet has cells at some of its offsets: the labels, ends and jumps   *)
(* of the names in it.                                                     *)
(***************************************************************************)
EXTENDS Integers, SequencesExt

CONSTANTS
  LabelLen,            \* the length of each label
  NUM_DOMAIN_OFFSETS,  \* names a packet remembers
  MaxJumps             \* 5, of mdns_readname_loop

SIZEOF_DNS_HDR == 12
DOMAIN_JUMP_SIZE == 2

\* domain->length: a length byte for each label, and the zero at the end.
Length(name) ==
  LET bytes[i \in 0 .. Len(name)] == IF i = 0 THEN 1 ELSE bytes[i - 1] + 1 + LabelLen[name[i]]
  IN  bytes[Len(name)]

Suffix(name, i) == SubSeq(name, i, Len(name))

LabelCell(l) == [kind |-> "label", label |-> l, to |-> 0]
JumpCell(o)  == [kind |-> "jump", label |-> "", to |-> o]
EndCell      == [kind |-> "end", label |-> "", to |-> 0]

NoName == [name |-> <<>>, len |-> 0, ok |-> FALSE]

\* mdns_readname: the name at an offset, the bytes read there, and whether
\* that went well; jumps are followed MaxJumps deep.
mdns_readname(cells, offset) ==
  LET read[o \in Nat, depth \in 0..MaxJumps + 1] ==
        IF depth > MaxJumps \/ o \notin DOMAIN cells THEN NoName
        ELSE LET c == cells[o] IN
          CASE c.kind = "end" -> [name |-> <<>>, len |-> 1, ok |-> TRUE]
            [] c.kind = "jump" ->
                 IF c.to < SIZEOF_DNS_HDR THEN NoName
                 ELSE [read[c.to, depth + 1] EXCEPT !.len = DOMAIN_JUMP_SIZE]
            [] c.kind = "label" ->
                 LET size == 1 + LabelLen[c.label]
                     rest == read[o + size, depth]
                 IN  [rest EXCEPT !.name = <<c.label>> \o @, !.len = @ + size]
  IN  read[offset, 0]

\* The part of the name from label i on is part of the one read at an offset,
\* and before its jump if that has one.
Reusable(target, name, i) ==
  LET pos == Length(target.name) - Length(Suffix(name, i))
  IN  /\ pos >= 0
      /\ pos + DOMAIN_JUMP_SIZE < target.len
      /\ \E j \in DOMAIN target.name : Suffix(target.name, j) = Suffix(name, i)

\* The first such label, 0 if there is none; and what to write then.
FirstReusable(target, name) ==
  SelectInSeq([i \in DOMAIN name |-> Reusable(target, name, i)], LAMBDA reusable : reusable)

WholeName(name) == [labels |-> Len(name), to |-> 0]

\* Fault variant: the jump is to the start of the name.
JumpTo_start(offset, target, name, first) ==
  IF ~target.ok \/ first = 0 THEN WholeName(name)
  ELSE [labels |-> first - 1, to |-> offset]

JumpTo(offset, target, name, first) ==
  IF ~target.ok \/ first = 0 THEN WholeName(name)
  ELSE [labels |-> first - 1,
        to |-> offset + Length(target.name) - Length(Suffix(name, first))]

\* mdns_compress_domain: how many labels to write before a jump to the name
\* at the offset, and where to jump; all of them if that is of no use.
Compressed(offset, target, name) ==
  JumpTo(offset, target, name, FirstReusable(target, name))
mdns_compress_domain(cells, offset, name) ==
  Compressed(offset, mdns_readname(cells, offset), name)

\* The jump mdns_write_domain settles for: the shortest rest to write, of two
\* the one to the name remembered first.
Shorter(best, c) == IF c.labels < best.labels THEN c ELSE best
BestJump(pkt, name) ==
  FoldLeft(LAMBDA best, offset : Shorter(best, mdns_compress_domain(pkt.cells, offset, name)),
           WholeName(name), pkt.domain_offsets)

\* The cells of the labels of a name from an offset on.
LabelOffset(name, offset, i) == offset + Length(SubSeq(name, 1, i - 1)) - 1
LabelCells(name, offset) ==
  FoldLeft(LAMBDA cells, i : (LabelOffset(name, offset, i) :> LabelCell(name[i])) @@ cells,
           <<>>, [i \in DOMAIN name |-> i])

\* mdns_write_domain; a name that must not be compressed is written in full.
Written(pkt, name, best, after) ==
  [pkt EXCEPT
     !.cells = (after :> IF best.to = 0 THEN EndCell ELSE JumpCell(best.to))
               @@ LabelCells(SubSeq(name, 1, best.labels), pkt.write_offset) @@ @,
     !.names = @ \union {<<pkt.write_offset, name>>},
     !.write_offset = after + (IF best.to = 0 THEN 1 ELSE DOMAIN_JUMP_SIZE),
     !.domain_offsets =
        IF (best.labels # 0 \/ best.to = 0) /\ Len(@) < NUM_DOMAIN_OFFSETS
        THEN Append(@, pkt.write_offset) ELSE @]
WrittenWith(pkt, name, best) ==
  Written(pkt, name, best, pkt.write_offset + Length(SubSeq(name, 1, best.labels)) - 1)
mdns_write_domain(pkt, name, skip_compression) ==
  WrittenWith(pkt, name, IF skip_compression THEN WholeName(name) ELSE BestJump(pkt, name))

EmptyPacket ==
  [cells |-> <<>>, names |-> {}, write_offset |-> SIZEOF_DNS_HDR, domain_offsets |-> <<>>,
   fits |-> TRUE]

\* A reader finds the names that were written.
Finds(read, name) == read.ok /\ read.name = name
NamesDecode(pkt) ==
  \A n \in pkt.names : Finds(mdns_readname(pkt.cells, n[1]), n[2])
=============================================================================
