------------------------------ MODULE JsonTree ------------------------------
(***************************************************************************)
(* cJSON.c: items, their lists of children and references to items of      *)
(* other trees.  What distinguishes arrays, objects and leaves is left     *)
(* out: each item may have children, a name or a text lives and dies with  *)
(* its item.                                                               *)
(*                                                                         *)
(* The caller follows cJSON.h: it adds items that are its own, adds        *)
(* nothing through a reference, and builds no loop.                        *)
(***************************************************************************)
EXTENDS Integers, SequencesExt

CONSTANTS
  N,              \* items there is memory for
  MaxReferences   \* bound: references at a time

NAssumption == N \in Nat \ {0} /\ MaxReferences \in Nat

Items == 1 .. N
None  == 0

VARIABLES
  heap,   \* [item -> [live, child, next, prev, isref]]
  held,   \* roots the caller owns
  orig,   \* history: the item a reference was made of
  stale,  \* history: references whose original lost the child they show
  fault   \* a freed item or none was written

vars == <<heap, held, orig, stale, fault>>

Item(c) == [live |-> TRUE, child |-> c, next |-> None, prev |-> None, isref |-> FALSE]
Freed   == [Item(None) EXCEPT !.live = FALSE]

-----------------------------------------------------------------------------
(* Operations on a heap h; m is the number of items malloc still gives.    *)

Free(h)        == {n \in Items : ~h[n].live}
Given(h, m)    == IF m = 0 \/ Free(h) = {} THEN None ELSE Min(Free(h))
New(h, n)      == IF n = None THEN h ELSE [h EXCEPT ![n] = Item(None)]

\* Fault variant: a reference's children are freed as well.
RECURSIVE Dies_all(_, _)
Dies_all(h, c) == IF c = None \/ ~h[c].live THEN {}
                  ELSE {c} \union Dies_all(h, h[c].child) \union Dies_all(h, h[c].next)

\* What is freed with a list that begins at c: a reference's children stay.
RECURSIVE Dies(_, _)
Dies(h, c) == IF c = None THEN {}
              ELSE {c} \union (IF h[c].isref THEN {} ELSE Dies(h, h[c].child)) \union Dies(h, h[c].next)

cJSON_Delete(h, c) == [n \in Items |-> IF n \in Dies(h, c) THEN Freed ELSE h[n]]

RECURSIVE ListFrom(_, _)
ListFrom(h, c) == IF c = None THEN <<>> ELSE <<c>> \o ListFrom(h, h[c].next)
Children(h, a) == ListFrom(h, h[a].child)
Nth(h, a, i)   == IF i <= Len(Children(h, a)) THEN Children(h, a)[i] ELSE None
LastOf(s)      == s[Len(s)]

suffix_object(h, p, n) == [h EXCEPT ![p].next = n, ![n].prev = p]

cJSON_AddItemToArray(h, a, n) ==
  IF n = None THEN h
  ELSE IF h[a].child = None THEN [h EXCEPT ![a].child = n]
  ELSE suffix_object(h, LastOf(Children(h, a)), n)

\* n's place in its list goes to p, and in the list of a.
Before(h, a, n, p) == IF h[a].child = n THEN [h EXCEPT ![a].child = p]
                      ELSE [h EXCEPT ![h[n].prev].next = p]
Behind(h, n, p)    == IF h[n].next = None THEN h ELSE [h EXCEPT ![h[n].next].prev = p]

\* Fault variant: the item keeps its neighbours.
Alone_not(h, n) == h
Alone(h, n)     == [h EXCEPT ![n].next = None, ![n].prev = None]

\* cJSON_DetachItemFromArray.
Detached(h, a, n) == Alone(Behind(Before(h, a, n, h[n].next), n, h[n].prev), n)

\* Fault variant: the item behind keeps the old one in front of it.
Neighbours_front(h, c, n) == [h EXCEPT ![n].next = h[c].next, ![n].prev = h[c].prev]

\* The place of c in its list, taken by n.
Neighbours(h, c, n) == Behind([h EXCEPT ![n].next = h[c].next, ![n].prev = h[c].prev], c, n)

cJSON_InsertItemInArray(h, a, i, n) ==
  IF Nth(h, a, i) = None THEN cJSON_AddItemToArray(h, a, n)
  ELSE LET c == Nth(h, a, i)
           g == [h EXCEPT ![n].next = c, ![n].prev = h[c].prev, ![c].prev = n]
       IN  IF h[a].child = c THEN [g EXCEPT ![a].child = n] ELSE [g EXCEPT ![h[c].prev].next = n]

cJSON_ReplaceItemInArray(h, a, i, n) ==
  LET c == Nth(h, a, i)
  IN  cJSON_Delete(Alone(Before(Neighbours(h, c, n), a, c, n), c), c)

create_reference(h, n, of) ==
  [h EXCEPT ![n] = [h[of] EXCEPT !.next = None, !.prev = None, !.isref = TRUE]]

\* cJSON_Duplicate: the copy's root, or None when memory ran out and all was
\* given back, and the items left.
Copied(h, n, m) == [h |-> h, n |-> n, m |-> m]
RECURSIVE cJSON_Duplicate(_, _, _)
RECURSIVE DuplicateChildren(_, _, _, _)
DuplicateChildren(r, root, last, c) ==
  IF c = None THEN Copied(r.h, root, r.m)
  ELSE LET d == cJSON_Duplicate(r.h, c, r.m)
       IN  IF d.n = None THEN Copied(cJSON_Delete(d.h, root), None, d.m)
           ELSE DuplicateChildren(
                  [d EXCEPT !.h = IF last = None THEN [d.h EXCEPT ![root].child = d.n]
                                  ELSE suffix_object(d.h, last, d.n)],
                  root, d.n, r.h[c].next)
cJSON_Duplicate(h, n, m) ==
  LET new == Given(h, m)
  IN  IF new = None THEN Copied(h, None, 0)
      ELSE DuplicateChildren(Copied(New(h, new), None, m - 1), new, None, h[n].child)

-----------------------------------------------------------------------------
(* What the caller may do.                                                 *)

RECURSIVE Below(_, _)
Below(h, c) == IF c = None THEN {}
               ELSE {c} \union (IF h[c].isref THEN {} ELSE Below(h, h[c].child)) \union Below(h, h[c].next)
Tree(r)    == {r} \union (IF heap[r].isref THEN {} ELSE Below(heap, heap[r].child))
Mine       == UNION {Tree(r) : r \in held}
Arrays     == {a \in Mine : ~heap[a].isref}

\* No item is reached from itself, by lists and children.
RECURSIVE Reach(_, _)
Reach(h, s) == LET t == (s \union {h[n].child : n \in s} \union {h[n].next : n \in s}) \ {None}
               IN  IF t = s THEN s ELSE Reach(h, t)
NoLoop(h) == \A n \in Items : n \notin Reach(h, {h[n].child, h[n].next} \ {None})
Shown(n)  == {n} \union Reach(heap, {heap[n].child} \ {None})

\* of gives the originals; those of freed items are forgotten.
Made(h, roots, of) ==
  /\ heap' = h /\ held' = roots
  /\ orig' = [n \in Items |-> IF h[n].live THEN of[n] ELSE None]
  /\ stale' = {r \in Items : /\ h[r].live /\ h[r].isref
                             /\ \/ r \in stale
                                \/ heap[r].isref /\ heap[r].live /\ h[orig[r]].child # h[r].child
                                \/ heap[r].isref /\ heap[r].live /\ ~h[orig[r]].live}

Becomes(h, roots) == Made(h, roots, orig)
Step(h, roots)    == Becomes(h, roots) /\ UNCHANGED fault

Create == \E m \in 0 .. 1 : LET n == Given(heap, m) IN Step(New(heap, n), held \union ({n} \ {None}))

\* cJSON_CreateIntArray with two numbers: a number there is no memory for is
\* linked like the others.
CreateArray ==
  \E m \in 0 .. 3 :
    LET a == Given(heap, m)
        h == New(heap, a)
        x == Given(h, m - 1)
        i == New(h, x)
        y == Given(i, m - 2)
    IN  IF a = None THEN UNCHANGED vars
        ELSE /\ fault' = (fault \/ x = None \/ y = None)
             /\ IF x = None THEN Becomes(h, held \union {a})
                ELSE IF y = None THEN Becomes([i EXCEPT ![a].child = x], held \union {a})
                ELSE Becomes(suffix_object(New([i EXCEPT ![a].child = x], y), x, y), held \union {a})

Add(a, n) == LET h == cJSON_AddItemToArray(heap, a, n)
             IN  n \in held /\ a \notin Tree(n) /\ NoLoop(h) /\ Step(h, held \ {n})

AddReference(a, of) ==
  \E m \in 0 .. 1 :
    LET n == Given(heap, m)
        h == IF n = None THEN heap ELSE cJSON_AddItemToArray(create_reference(heap, n, of), a, n)
    IN  /\ of \notin stale /\ NoLoop(h) /\ UNCHANGED fault
        /\ Quantify(Items, LAMBDA r : heap[r].isref) < MaxReferences
        /\ Made(h, held, [r \in Items |-> IF r # n THEN orig[r]
                                          ELSE IF heap[of].isref THEN orig[of] ELSE of])

Detach(a, i) == LET n == Nth(heap, a, i)
                IN  n # None /\ Step(Detached(heap, a, n), held \union {n})

DeleteItem(a, i) == LET n == Nth(heap, a, i)
                    IN  n # None /\ Step(cJSON_Delete(Detached(heap, a, n), n), held)

Insert(a, i, n) == LET h == cJSON_InsertItemInArray(heap, a, i, n)
                   IN  n \in held /\ a \notin Tree(n) /\ NoLoop(h) /\ Step(h, held \ {n})

\* The item is still the caller's if there is none to replace.
Replace(a, i, n) ==
  /\ n \in held /\ a \notin Tree(n)
  /\ IF Nth(heap, a, i) = None THEN UNCHANGED vars
     ELSE LET h == cJSON_ReplaceItemInArray(heap, a, i, n) IN NoLoop(h) /\ Step(h, held \ {n})

Delete(n) == n \in held /\ Step(cJSON_Delete(heap, n), held \ {n})

Duplicate(n, m) == /\ Shown(n) \intersect stale = {}
                   /\ LET d == cJSON_Duplicate(heap, n, m)
                      IN  Step(d.h, held \union ({d.n} \ {None}))

Init == /\ heap = [n \in Items |-> Freed] /\ held = {} /\ orig = [n \in Items |-> None]
        /\ stale = {} /\ fault = FALSE

Next ==
  ~fault /\ (\/ Create \/ CreateArray
             \/ \E a \in Arrays : \/ \E n \in held : Add(a, n)
                                  \/ \E of \in Mine : AddReference(a, of)
                                  \/ \E i \in 1 .. N : Detach(a, i) \/ DeleteItem(a, i)
                                  \/ \E i \in 1 .. N, n \in held : Insert(a, i, n) \/ Replace(a, i, n)
             \/ \E n \in held : Delete(n)
             \/ \E n \in Mine, m \in 0 .. N : Duplicate(n, m))

Spec == Init /\ [][Next]_vars

-----------------------------------------------------------------------------
(* Properties.                                                             *)

\* Every variable has a value of its type.
TypeOK ==
  /\ heap \in [Items -> [live : BOOLEAN, child : Items \union {None}, next : Items \union {None},
                         prev : Items \union {None}, isref : BOOLEAN]]
  /\ held \subseteq Items /\ stale \subseteq Items /\ fault \in BOOLEAN
  /\ \A n \in stale : heap[n].live /\ heap[n].isref

\* Every list is linked both ways and ends; a root the caller holds has no
\* neighbour that would be deleted with it.
Linked(n) == heap[n].next # None => heap[heap[n].next].live /\ heap[heap[n].next].prev = n
Heads     == (held \union {heap[a].child : a \in Arrays}) \ {None}
ListsLinked ==
  ~fault => /\ NoLoop(heap) /\ \A n \in Mine : heap[n].live /\ Linked(n)
            /\ \A n \in Heads : heap[n].prev = None
            /\ \A r \in held : heap[r].next = None

\* Each item belongs to one root or to one array: none is freed twice, and
\* none is left that nobody can free.
Owners(n) == (IF n \in held THEN {None} ELSE {}) \union {a \in Arrays : n \in ToSet(Children(heap, a))}
OwnedOnce == ~fault => /\ \A n \in Items : heap[n].live => Cardinality(Owners(n)) = 1
                       /\ \A n \in Items : ~heap[n].live => Owners(n) = {}

\* A reference shows children of its original, as long as the original has not
\* lost the first of them and has not been deleted.
ReferencesShow ==
  \A r \in Items : heap[r].live /\ heap[r].isref /\ r \notin stale /\ heap[r].child # None =>
    /\ heap[orig[r]].live
    /\ \A c \in Reach(heap, {heap[r].child}) : heap[c].live
=============================================================================
