------------------------------ MODULE JsonText ------------------------------
(***************************************************************************)
(* cJSON.c: what cJSON prints it parses again, and what was cut short on   *)
(* its way it refuses, giving back all the memory it took.                 *)
(*                                                                         *)
(* A text is a sequence of cells: a character each, the literals and a run *)
(* of white space one cell.  Behind its last cell is the terminating zero; *)
(* what lies behind that is no part of it, but the parser may get there.   *)
(***************************************************************************)
EXTENDS Integers, SequencesExt

CONSTANTS
  Values,      \* documents: arrays and objects
  CodePoints,  \* samples for \u escapes
  MaxAllocs    \* bound: allocations before memory may run out

\* Values.  A string is a sequence of characters; "^A" is a control character
\* that has no escape of its own.
Null        == [type |-> "null"]
True        == [type |-> "true"]
Number(d)   == [type |-> "number", digits |-> d]
String(s)   == [type |-> "string", chars |-> s]
Array(e)    == [type |-> "array", items |-> e]
Object(e)   == [type |-> "object", items |-> e]
Named(k, v) == [name |-> k, value |-> v]

Quote     == "\""
Backslash == "\\"
Digits    == {"0", "1", "2"}
\* The characters with a letter for their escape.
Letter    == [c \in {Quote, Backslash, "\n", "\t"} |->
                CASE c = "\n" -> "n" [] c = "\t" -> "t" [] OTHER -> c]
Unletter(l) == CASE l = "n" -> "\n" [] l = "t" -> "\t" [] OTHER -> l

-----------------------------------------------------------------------------
(* Printing.                                                               *)

\* print_string_ptr: its room, as it counts, and what it writes.
Escape(c) == IF c \in DOMAIN Letter THEN <<Backslash, Letter[c]>>
             ELSE IF c = "^A" THEN <<Backslash, "u", "0", "0", "0", "1">> ELSE <<c>>

\* Fault variant: a control character takes as much as another escape.
Counted_two(c) == IF c \in DOMAIN Letter \union {"^A"} THEN 2 ELSE 1

Counted(c) == IF c \in DOMAIN Letter THEN 2 ELSE IF c = "^A" THEN 6 ELSE 1
StringRoom(s)    == 3 + FoldLeft(LAMBDA n, c : n + Counted(c), 0, s)
print_string_ptr(s) == <<Quote>> \o FlattenSeq([i \in DOMAIN s |-> Escape(s[i])]) \o <<Quote>>

Sp(fmt) == IF fmt THEN <<" ">> ELSE <<>>

\* Entries with commas between them.
Joined(es, fmt, after) ==
  FlattenSeq([i \in DOMAIN es |-> es[i] \o (IF i < Len(es) THEN <<",">> ELSE <<>>)
                                    \o (IF i < Len(es) \/ after THEN Sp(fmt) ELSE <<>>)])

RECURSIVE print_value(_, _)
print_array(v, fmt) ==
  <<"[">> \o Joined([i \in DOMAIN v.items |-> print_value(v.items[i], fmt)], fmt, FALSE) \o <<"]">>

print_object(v, fmt) ==
  <<"{">> \o Sp(fmt)
    \o Joined([i \in DOMAIN v.items |-> print_string_ptr(v.items[i].name) \o <<":">> \o Sp(fmt)
                                          \o print_value(v.items[i].value, fmt)], fmt, TRUE)
    \o <<"}">>

print_value(v, fmt) ==
  CASE v.type = "null"   -> <<"null">>
    [] v.type = "true"   -> <<"true">>
    [] v.type = "number" -> v.digits
    [] v.type = "string" -> print_string_ptr(v.chars)
    [] v.type = "array"  -> print_array(v, fmt)
    [] v.type = "object" -> print_object(v, fmt)

-----------------------------------------------------------------------------
(* Parsing of what is in memory from the text on, up to another zero.  mem *)
(* is the number of allocations that succeed.                              *)

Zero     == "NUL"
At(t, p) == IF p <= Len(t) THEN t[p] ELSE Zero

\* Fault variant: the terminating zero is skipped like other low codes.
skip_zero(t, p) == IF At(t, p) \in {" ", Zero} THEN p + 1 ELSE p

skip(t, p) == IF At(t, p) = " " THEN p + 1 ELSE p

\* used blocks were taken, the item reaches linked ones; pos is how far it was
\* read.
Result(ok, pos, v, used, linked) ==
  [ok |-> ok, pos |-> pos, v |-> v, used |-> used, linked |-> linked]
Fail(pos, used, linked) == Result(FALSE, pos, Null, used, linked)

\* The four cells behind \u are hexadecimal.
IsHex4(t, p)  == \A i \in 0 .. 3 : At(t, p + i) \in Digits
Unicode(t, p) == IF IsHex4(t, p) /\ SubSeq(t, p, p + 3) = <<"0", "0", "0", "1">> THEN <<"^A">>
                 ELSE <<>>

\* parse_string behind its quote: the end of the text ends a string as well, but
\* an escape steps over it.  Its room was counted before, as FirstLoop does; what
\* a write behind that room does to the heap is not told.
RECURSIVE Unescape(_, _, _)
Unescape(t, p, out) ==
  CASE At(t, p) = Quote             -> [pos |-> p + 1, s |-> out]
    [] At(t, p) = Zero              -> [pos |-> p, s |-> out]
    [] At(t, p) = Backslash /\ At(t, p + 1) = "u" ->
         Unescape(t, p + 6, out \o Unicode(t, p + 2))
    [] At(t, p) = Backslash /\ At(t, p + 1) # "u" ->
         Unescape(t, p + 2, Append(out, Unletter(At(t, p + 1))))
    [] OTHER -> Unescape(t, p + 1, Append(out, At(t, p)))

RECURSIVE FirstLoop(_, _)
FirstLoop(t, p) ==
  IF At(t, p) \in {Quote, Zero} THEN 0
  ELSE 1 + FirstLoop(t, p + (IF At(t, p) = Backslash THEN 2 ELSE 1))

StringFrom(u) == Result(TRUE, u.pos, String(u.s), 1, 1)
parse_string(t, p, mem) ==
  IF At(t, p) # Quote \/ mem = 0 THEN Fail(p, 0, 0) ELSE StringFrom(Unescape(t, p + 1, <<>>))

RECURSIVE NumberEnd(_, _)
NumberEnd(t, p) == IF At(t, p) \in Digits THEN NumberEnd(t, p + 1) ELSE p
parse_number(t, p) ==
  Result(TRUE, NumberEnd(t, p), Number(SubSeq(t, p, NumberEnd(t, p) - 1)), 0, 0)

\* Fault variant: a child is linked when it was parsed.
Linked_late(r) == IF r.ok THEN r.linked + 1 ELSE 0

\* What a child adds to its parent: its item, and what it took.  It is linked
\* before it is parsed.
Linked(r) == r.linked + 1

RECURSIVE parse_value(_, _, _)
RECURSIVE Members(_, _, _, _, _)

\* parse_array, parse_object from the p'th cell on, at a member; acc has what
\* was read so far.
Closing(type) == IF type = "array" THEN "]" ELSE "}"

\* Fault variant: the end of the text closes what is open.
Closes_end(type, c) == c \in {Closing(type), Zero}

Closes(type, c) == c = Closing(type)

MemberValue(type, t, p, mem) ==
  IF type = "array" THEN parse_value(t, p, mem) ELSE parse_string(t, p, mem)

\* An object's member goes on behind its name.
NamedValue(t, name, r) ==
  [r EXCEPT !.v = Named(name.v.chars, r.v), !.used = @ + name.used, !.linked = @ + name.linked]
MemberOf(type, t, r, mem) ==
  IF type = "array" \/ ~r.ok THEN r
  ELSE IF At(t, skip(t, r.pos)) # ":" THEN [r EXCEPT !.ok = FALSE]
  ELSE NamedValue(t, r, parse_value(t, skip(t, skip(t, r.pos) + 1), mem - r.used))
Member(type, t, p, mem) == MemberOf(type, t, MemberValue(type, t, p, mem), mem)

With(acc, r) == [acc EXCEPT !.items = Append(@, r.v), !.used = @ + r.used + 1,
                            !.linked = @ + Linked(r)]
Ended(type, p, acc) ==
  Result(TRUE, p, [type |-> type, items |-> acc.items], acc.used, acc.linked)
Refused(p, acc) == Result(FALSE, p, Null, acc.used, acc.linked)

\* What follows a member r that ends at p.
Following(type, t, p, mem, acc) ==
  IF At(t, p) = "," THEN Members(type, t, skip(t, p + 1), mem, acc)
  ELSE IF Closes(type, At(t, p)) THEN Ended(type, p + 1, acc)
  ELSE Refused(p, acc)
Continue(type, t, mem, acc, r) ==
  IF ~r.ok THEN Refused(r.pos, With(acc, r))
  ELSE Following(type, t, skip(t, r.pos), mem, With(acc, r))

Members(type, t, p, mem, acc) ==
  IF mem = acc.used THEN Refused(p, acc)
  ELSE Continue(type, t, mem, acc, Member(type, t, p, mem - acc.used - 1))

NoMembers == [items |-> <<>>, used |-> 0, linked |-> 0]

parse_members(type, t, p, mem) ==
  IF At(t, p) = Closing(type) THEN Ended(type, p + 1, NoMembers)
  ELSE Members(type, t, p, mem, NoMembers)

parse_value(t, p, mem) ==
  CASE At(t, p) = "null"   -> Result(TRUE, p + 1, Null, 0, 0)
    [] At(t, p) = "true"   -> Result(TRUE, p + 1, True, 0, 0)
    [] At(t, p) = Quote    -> parse_string(t, p, mem)
    [] At(t, p) \in Digits -> parse_number(t, p)
    [] At(t, p) = "["      -> parse_members("array", t, skip(t, p + 1), mem)
    [] At(t, p) = "{"      -> parse_members("object", t, skip(t, p + 1), mem)
    [] OTHER               -> Fail(p, 0, 0)

\* cJSON_Parse: with the root, which it gives back if it fails.
cJSON_Parse(t, mem) ==
  IF mem = 0 THEN Fail(1, 0, 0)
  ELSE LET r == parse_value(t, skip(t, 1), mem - 1)
       IN  [r EXCEPT !.used = @ + 1, !.linked = @ + 1]

-----------------------------------------------------------------------------
(* parse_string: UTF-16 escapes to UTF-8.                                  *)

\* As written: one escape, or a surrogate pair.
Escapes(cp) == IF cp < 65536 THEN <<cp>>
               ELSE <<55296 + (cp - 65536) \div 1024, 56320 + ((cp - 65536) % 1024)>>

FromEscapes(u) == IF Len(u) = 1 THEN u[1]
                  ELSE 65536 + ((u[1] % 1024) * 1024) + (u[2] % 1024)

Utf8Len(uc) == IF uc < 128 THEN 1 ELSE IF uc < 2048 THEN 2 ELSE IF uc < 65536 THEN 3 ELSE 4

firstByteMark == <<0, 192, 224, 240>>
Pow64(n) == <<1, 64, 4096, 262144>>[n + 1]
Utf8(uc, len) ==
  [i \in 1 .. len |-> IF i = 1 THEN (firstByteMark[len] + uc \div Pow64(len - 1)) % 256
                      ELSE 128 + ((uc \div Pow64(len - i)) % 64)]

\* Reference: RFC 3629.
FromUtf8(b) ==
  LET lead == IF b[1] < 128 THEN b[1] ELSE IF b[1] < 224 THEN b[1] - 192
              ELSE IF b[1] < 240 THEN b[1] - 224 ELSE b[1] - 240
  IN  FoldLeft(LAMBDA a, k : a * 64 + (k - 128), lead, Tail(b))

-----------------------------------------------------------------------------
VARIABLES
  stage,   \* "printed", "sent", "parsed"
  doc,     \* the document
  text,    \* what was printed; what arrives of it
  behind,  \* what lies in memory behind its zero
  whole,   \* history: all of it arrives
  mem,     \* allocations that succeed
  outcome  \* of cJSON_Parse

vars == <<stage, doc, text, behind, whole, mem, outcome>>

Init ==
  /\ stage = "printed" /\ doc \in Values
  /\ text \in {print_value(doc, fmt) : fmt \in BOOLEAN} /\ behind = <<>> /\ whole = TRUE
  /\ mem \in 0 .. MaxAllocs /\ outcome = Fail(1, 0, 0)

Arrives == /\ stage = "printed" /\ stage' = "sent"
           /\ UNCHANGED <<doc, text, behind, whole, mem, outcome>>
\* Behind it are zeros, or what is left there of the same document, which came
\* before.
CutShort == /\ stage = "printed" /\ stage' = "sent"
            /\ \E n \in 0 .. Len(text) - 1 :
                 text' = SubSeq(text, 1, n) /\ behind' \in {<<>>, SubSeq(text, n + 2, Len(text))}
            /\ whole' = FALSE
            /\ UNCHANGED <<doc, mem, outcome>>
Parse == /\ stage = "sent" /\ stage' = "parsed"
         /\ outcome' = cJSON_Parse(text \o <<Zero>> \o behind, mem)
         /\ UNCHANGED <<doc, text, behind, whole, mem>>

Next == Arrives \/ CutShort \/ Parse

Spec == Init /\ [][Next]_vars

-----------------------------------------------------------------------------
(* Properties.                                                             *)

\* Every variable has a value of its type.
TypeOK ==
  /\ stage \in {"printed", "sent", "parsed"}
  /\ whole \in BOOLEAN /\ mem \in 0 .. MaxAllocs
  /\ outcome.ok \in BOOLEAN /\ outcome.used \in 0 .. mem
  /\ outcome.linked <= outcome.used

RECURSIVE Strings(_)
Strings(v) ==
  CASE v.type = "string" -> {v.chars}
    [] v.type = "array"  -> UNION {Strings(v.items[i]) : i \in DOMAIN v.items}
    [] v.type = "object" -> UNION {{v.items[i].name} \union Strings(v.items[i].value) : i \in DOMAIN v.items}
    [] OTHER             -> {}

\* What was printed is parsed to the document it was printed from, formatted
\* or not; nothing was written beyond the room for it, and no byte of a
\* character is lost.
RoundTrip ==
  /\ stage = "parsed" /\ whole /\ outcome.used < mem => outcome.ok
  /\ outcome.ok /\ whole => outcome.v = doc
  /\ \A s \in Strings(doc) : Len(print_string_ptr(s)) + 1 <= StringRoom(s)
  /\ \A cp \in CodePoints :
       LET uc == FromEscapes(Escapes(cp)) IN FromUtf8(Utf8(uc, Utf8Len(uc))) = cp

\* What ends within an escape.
EndsInEscape(t) ==
  \E i \in 1 .. Len(t) : t[i] = Backslash /\ (Len(t) = i \/ (t[i + 1] = "u" /\ Len(t) < i + 5))

\* An array or object that was cut short is refused, wherever it was cut, but
\* within an escape: then the parser may go on in what lies behind, and accept it.
CutIsRefused == outcome.ok => whole \/ EndsInEscape(text)

\* A failure leaves no memory that nobody can give back.
NothingLost == stage = "parsed" => outcome.linked = outcome.used

\* Nothing is read behind the end, and no string is written behind its room, but
\* if the text ends within an escape.
ReadsInside ==
  EndsInEscape(text) \/
    /\ outcome.pos <= Len(text) + 1
    /\ \A i \in {k \in DOMAIN text : text[k] = Quote} :
         Len(Unescape(text, i + 1, <<>>).s) <= FirstLoop(text, i + 1)
=============================================================================
