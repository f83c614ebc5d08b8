------------------------------ MODULE JxxValues -----------------------------
(***************************************************************************)
(* Values, arrays and objects of jsonxx (src/json/jsonxx.h, jsonxx.cc) as  *)
(* they lie in memory: who owns which Value, what a copy copies, and what  *)
(* is deleted when.  The program has a few Values of its own (Roots) and   *)
(* reaches the others through get<>.  An Array or Object is one with the   *)
(* Value that holds it.                                                    *)
(***************************************************************************)
EXTENDS Integers, Sequences, SequencesExt, FiniteSetsExt

CONSTANTS
  Roots,     \* the Values that are variables of the program
  MaxCells,  \* bound: Values alive at a time, the roots included
  Keys,
  MaxItems,  \* bound: items of an array
  MaxCalls,  \* bound
  NoKey      \* the empty string, odd when no key has been streamed

JxxValuesAssumption ==
  /\ Roots = 1 .. Cardinality(Roots) /\ Cardinality(Roots) = 2 /\ MaxCells >= 5
  /\ NoKey \notin Keys

VARIABLES
  heap,     \* heap.cell[i]: the Value at i; heap.bad: freed memory was used
  call,     \* the last call: its name, target, argument and key
  misused,  \* an argument lay in what the call deletes
  leaked,   \* a call dropped what it owned
  calls

vars == <<heap, call, misused, leaked, calls>>

NoMembers == [k \in {} |-> 0]
Cell(t, items, members) == [t |-> t, items |-> items, members |-> members, odd |-> NoKey, gone |-> FALSE]
Free == Cell("free", <<>>, NoMembers)
Scalars == {"null", "string"}
Pointers == {"string", "array", "object"}

Put(h, i, c) == [h EXCEPT !.cell[i] = c]
With(members, k, i) == [x \in DOMAIN members \cup {k} |-> IF x = k THEN i ELSE members[x]]

-----------------------------------------------------------------------------
(* Memory *)

Children(c) == ToSet(c.items) \cup {c.members[k] : k \in DOMAIN c.members}

RECURSIVE Below(_, _)
Below(h, i) == {i} \cup UNION {Below(h, j) : j \in Children(h.cell[i])}
Reached(h) == UNION {Below(h, r) : r \in Roots}

\* Value::reset: what it points to is deleted, and type_ stays as it was.
RECURSIVE Delete(_, _)
reset(h, i) ==
  LET dropped == FoldSet(LAMBDA j, g : Delete(g, j), h, Children(h.cell[i]))
  IN  Put(dropped, i, [dropped.cell[i] EXCEPT !.items = <<>>, !.members = NoMembers, !.odd = NoKey,
                                       !.gone = h.cell[i].t \in Pointers])
Delete(h, i) ==
  IF h.cell[i].t = "free" THEN [h EXCEPT !.bad = TRUE] ELSE Put(reset(h, i), i, Free)

New(h) == Min({i \in DOMAIN h.cell : h.cell[i].t = "free"})

\* new Value(other): a copy of all that is below other.
RECURSIVE Copied(_, _)
CopyItems(h, i, items) ==
  FoldLeft(LAMBDA g, j : LET c == Copied(g, j)
                         IN  Put(c.h, i, [c.h.cell[i] EXCEPT !.items = Append(@, c.i)]), h, items)
CopyMembers(h, i, members) ==
  FoldSet(LAMBDA k, g : LET c == Copied(g, members[k])
                        IN  Put(c.h, i, [c.h.cell[i] EXCEPT !.members = With(@, k, c.i)]), h, DOMAIN members)
Copied(h, j) ==
  LET i == New(h)
      src == h.cell[j]
      begun == Put(h, i, Cell(IF src.t = "free" THEN "invalid" ELSE src.t, <<>>, NoMembers))
      filled == CopyMembers(CopyItems(begun, i, src.items), i, src.members)
  IN  [h |-> IF src.t = "free" THEN [begun EXCEPT !.bad = TRUE] ELSE filled, i |-> i]

Room(n) == Cardinality({i \in DOMAIN heap.cell : heap.cell[i].t = "free"}) >= n
Weight(i) == Cardinality(Below(heap, i))

-----------------------------------------------------------------------------
(* What a call does *)

Called(op, i, j, k) == call' = [op |-> op, i |-> i, j |-> j, k |-> k]
Is(i, t) == i \in Reached(heap) /\ heap.cell[i].t = t /\ ~heap.cell[i].gone
\* A copy follows every pointer below what it copies.
Whole(j) == \A i \in Below(heap, j) : ~heap.cell[i].gone
Inside(i, j) == j \in Below(heap, i)
\* What a call does that is given a part of what it deletes or changes, or what
\* holds it, is left open: it is taken to use freed memory.
Does(m, h) ==
  /\ heap' = IF m THEN [heap EXCEPT !.bad = TRUE] ELSE h
  /\ misused' = m /\ UNCHANGED leaked

\* Value::import of something that is not a container.
ImportScalar(i, t) ==
  /\ i \in Reached(heap) /\ t \in Scalars
  /\ Does(FALSE, Put(reset(heap, i), i, Cell(t, <<>>, NoMembers)))
  /\ Called("scalar", i, i, t)

\* Value::import of an empty Array or Object.
ImportEmpty(i, t) ==
  /\ i \in Reached(heap) /\ t \in {"array", "object"}
  /\ Does(FALSE, Put(reset(heap, i), i, Cell(t, <<>>, NoMembers)))
  /\ Called("empty", i, i, t)

\* Value::import(const Value &): the payload is deleted before the other's is
\* copied; an invalid one is taken over without a reset.
ImportValue(i, j) ==
  /\ {i, j} \subseteq Reached(heap) /\ Whole(j) /\ Room(Weight(j))
  /\ LET src == heap.cell[j]
         fresh == Put(reset(heap, i), i, Cell(src.t, <<>>, NoMembers))
     IN  \/ /\ src.t # "invalid" \/ i = j
            /\ Does(src.t \in Pointers /\ i # j /\ (Inside(i, j) \/ Inside(j, i)),
                    IF i = j THEN heap ELSE CopyMembers(CopyItems(fresh, i, src.items), i, src.members))
         \/ /\ src.t = "invalid" /\ i # j
            /\ heap' = Put(heap, i, Cell("invalid", <<>>, NoMembers))
            /\ leaked' = (leaked \/ Children(heap.cell[i]) # {})
            /\ misused' = FALSE
  /\ Called("value", i, j, NoKey)

\* Faulty form: the old member is not deleted.
InsertOver(h, i, k, j) ==
  LET c == Copied(h, j) IN Put(c.h, i, [c.h.cell[i] EXCEPT !.members = With(@, k, c.i), !.odd = NoKey])

\* Object::import(key, value): the member found is deleted first.
Insert(h, i, k, j) ==
  LET found == k \in DOMAIN h.cell[i].members
      g == IF found THEN Delete(h, h.cell[i].members[k]) ELSE h
      c == Copied(g, j)
  IN  Put(c.h, i, [c.h.cell[i] EXCEPT !.members = With(@, k, c.i), !.odd = NoKey])

\* A member is deleted that the value is, holds or is held by.
Clash(i, k, j) ==
  /\ k \in DOMAIN heap.cell[i].members
  /\ Inside(heap.cell[i].members[k], j) \/ Inside(j, i)

ObjectImport(i, k, j) ==
  /\ Is(i, "object") /\ j \in Reached(heap) /\ Whole(j) /\ k \in Keys /\ Room(Weight(j))
  /\ Does(Clash(i, k, j), Insert(heap, i, k, j))
  /\ Called("member", i, j, k)

\* Object::import(const Object &): member by member, of a copy if it is the
\* object itself.
Merged(h, i, j) ==
  FoldSet(LAMBDA k, g : Insert(g, i, k, h.cell[j].members[k]), Put(h, i, [h.cell[i] EXCEPT !.odd = NoKey]),
          DOMAIN h.cell[j].members)

ObjectMerge(i, j) ==
  /\ Is(i, "object") /\ Is(j, "object") /\ Whole(j) /\ Room(Weight(j) + Weight(j))
  /\ LET c == Copied(heap, j)
     IN  Does(i # j /\ (Inside(i, j) \/ Inside(j, i)),
              IF i = j THEN Delete(Merged(c.h, i, c.i), c.i) ELSE Merged(heap, i, j))
  /\ Called("merge", i, j, NoKey)

\* Object::operator<<: a key first, then its value, by way of an object of its
\* own.
ObjectStream(i, j, k) ==
  /\ Is(i, "object") /\ j \in Reached(heap) /\ Whole(j)
  /\ LET o == heap.cell[i]
         c == Copied(heap, j)
         put == Delete(Insert(c.h, i, o.odd, c.i), c.i)
     IN  \/ /\ o.odd = NoKey /\ heap.cell[j].t = "string" /\ k \in Keys
            /\ Does(FALSE, Put(heap, i, [o EXCEPT !.odd = k]))
            /\ Called("key", i, j, k)
         \/ /\ o.odd # NoKey /\ k = o.odd /\ Room(Weight(j) + Weight(j))
            /\ Does(FALSE, put)
            /\ Called("member", i, j, o.odd)

\* Object::operator=, which leaves odd behind.
ObjectAssign(i, j) ==
  /\ Is(i, "object") /\ Is(j, "object") /\ Whole(j) /\ Room(Weight(j))
  /\ LET o == [heap.cell[i] EXCEPT !.odd = NoKey]
         fresh == Put(reset(heap, i), i, Cell("object", <<>>, NoMembers))
     IN  Does(i # j /\ (Inside(i, j) \/ Inside(j, i)), IF i = j THEN Put(heap, i, o) ELSE Merged(fresh, i, j))
  /\ Called("assign", i, j, NoKey)

\* Array::import(const Value &), and with an Array's Value Array::append.
ArrayAppend(i, j) ==
  /\ Is(i, "array") /\ j \in Reached(heap) /\ Whole(j)
  /\ Room(Weight(j)) /\ Len(heap.cell[i].items) < MaxItems
  /\ LET c == Copied(heap, j) IN Does(FALSE, Put(c.h, i, [c.h.cell[i] EXCEPT !.items = Append(@, c.i)]))
  /\ Called("append", i, j, NoKey)

\* Array::import(const Array &): of a copy, if it is the array itself.
ArrayConcat(i, j) ==
  /\ Is(i, "array") /\ Is(j, "array") /\ Whole(j) /\ Room(Weight(j) + Weight(j))
  /\ Len(heap.cell[i].items) + Len(heap.cell[j].items) <= MaxItems
  /\ LET c == Copied(heap, j)
     IN  Does(i # j /\ Inside(j, i),
              IF i = j THEN Delete(CopyItems(c.h, i, c.h.cell[c.i].items), c.i)
              ELSE CopyItems(heap, i, heap.cell[j].items))
  /\ Called("concat", i, j, NoKey)

\* Array::operator= of an array and of a value.
ArrayAssign(i, j) ==
  /\ Is(i, "array") /\ Is(j, "array") /\ Whole(j) /\ Room(Weight(j))
  /\ LET fresh == Put(reset(heap, i), i, Cell("array", <<>>, NoMembers))
     IN  Does(i # j /\ (Inside(i, j) \/ Inside(j, i)), IF i = j THEN heap ELSE CopyItems(fresh, i, heap.cell[j].items))
  /\ Called("assign", i, j, NoKey)

ArrayAssignValue(i, j) ==
  /\ i # j /\ Is(i, "array") /\ j \in Reached(heap) /\ Whole(j) /\ Room(Weight(j))
  /\ LET fresh == Put(reset(heap, i), i, Cell("array", <<>>, NoMembers))
         c == Copied(fresh, j)
     IN  Does(Inside(i, j) \/ Inside(j, i), Put(c.h, i, [c.h.cell[i] EXCEPT !.items = <<c.i>>]))
  /\ Called("single", i, j, NoKey)

\* Value::reset, and parse when the text is none: type_ tells of what is gone.
Reset(i) ==
  /\ i \in Reached(heap)
  /\ Does(FALSE, reset(heap, i))
  /\ Called("reset", i, i, NoKey)

\* Nothing but the roots, and an array of one object and one string, and an
\* object of one array.
Nothing == [i \in 1 .. MaxCells |-> IF i \in Roots THEN Cell("invalid", <<>>, NoMembers) ELSE Free]
Nested(k) == [Nothing EXCEPT ![1] = Cell("array", <<3, 4>>, NoMembers), ![2] = Cell("object", <<>>, With(NoMembers, k, 5)),
                             ![3] = Cell("object", <<>>, NoMembers), ![4] = Cell("string", <<>>, NoMembers),
                             ![5] = Cell("array", <<>>, NoMembers)]

Init ==
  /\ \E cell \in {Nothing} \cup {Nested(k) : k \in Keys} : heap = [cell |-> cell, bad |-> FALSE]
  /\ call = [op |-> "reset", i |-> 1, j |-> 1, k |-> NoKey]
  /\ misused = FALSE /\ leaked = FALSE
  /\ calls = 0

Next ==
  /\ ~misused /\ calls < MaxCalls
  /\ calls' = calls + 1
  /\ \E i \in 1 .. MaxCells :
       \/ Reset(i)
       \/ \E t \in Scalars : ImportScalar(i, t)
       \/ \E t \in {"array", "object"} : ImportEmpty(i, t)
       \/ \E j \in 1 .. MaxCells :
            \/ ImportValue(i, j) \/ ObjectMerge(i, j) \/ ObjectAssign(i, j)
            \/ ArrayAppend(i, j) \/ ArrayConcat(i, j) \/ ArrayAssign(i, j) \/ ArrayAssignValue(i, j)
            \/ \E k \in Keys : ObjectImport(i, k, j) \/ ObjectStream(i, j, k)

-----------------------------------------------------------------------------
(* Properties *)

\* As long as no call is given a part of what it deletes, no freed memory is
\* used, every Value has one owner, and none is lost, but by the import of an
\* invalid Value.
OwnedOnce ==
  ~misused =>
    /\ ~heap.bad
    /\ \A i \in Reached(heap) : heap.cell[i].t # "free"
    /\ \A i \in Reached(heap) \ Roots :
         1 = Cardinality({<<o, n>> \in Reached(heap) \X (1 .. MaxItems) :
                            n \in DOMAIN heap.cell[o].items /\ heap.cell[o].items[n] = i})
             + Cardinality({<<o, k>> \in Reached(heap) \X Keys :
                              k \in DOMAIN heap.cell[o].members /\ heap.cell[o].members[k] = i})
    /\ ~leaked => \A i \in 1 .. MaxCells : heap.cell[i].t # "free" => i \in Reached(heap)

\* What a Value is worth, wherever it lies.
RECURSIVE Tree(_, _)
Tree(h, i) ==
  LET c == h.cell[i] IN
  [t |-> c.t, gone |-> c.gone, items |-> [n \in DOMAIN c.items |-> Tree(h, c.items[n])],
   members |-> [k \in DOMAIN c.members |-> Tree(h, c.members[k])]]

\* What each call means for values.
Meant(c, a, b) ==
  CASE c.op \in {"scalar", "empty"} -> [t |-> c.k, gone |-> FALSE, items |-> <<>>, members |-> NoMembers]
    [] c.op \in {"value", "assign"} -> b
    [] c.op = "key" -> a
    [] c.op = "member" -> [a EXCEPT !.members = With(@, c.k, b)]
    [] c.op = "merge" -> [a EXCEPT !.members = [k \in DOMAIN a.members \cup DOMAIN b.members |->
                            IF k \in DOMAIN b.members THEN b.members[k] ELSE a.members[k]]]
    [] c.op = "append" -> [a EXCEPT !.items = Append(@, b)]
    [] c.op = "concat" -> [a EXCEPT !.items = @ \o b.items]
    [] c.op = "single" -> [a EXCEPT !.items = <<b>>]
    [] c.op = "reset" -> [a EXCEPT !.items = <<>>, !.members = NoMembers, !.gone = a.t \in Pointers]

\* A call gives its target the value that it means, copied from its argument,
\* and changes no other value of the program.
CallsMeanValues ==
  [][/\ call'.i \in Reached(heap) /\ (~misused' =>
        /\ Tree(heap', call'.i) = Meant(call', Tree(heap, call'.i), Tree(heap, call'.j))
        /\ \A r \in Roots : ~Inside(r, call'.i) => Tree(heap', r) = Tree(heap, r))]_vars

=============================================================================
