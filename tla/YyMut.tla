-------------------------------- MODULE YyMut --------------------------------
(***************************************************************************)
(* The mutable arrays and objects of yyjson 0.3.0, and their iterators: a  *)
(* container has its length and a pointer to its last element, and the     *)
(* elements are a ring of nodes.  In an object a key leads to its value    *)
(* and the value to the next key.                                          *)
(***************************************************************************)
EXTENDS Naturals, Sequences, SequencesExt

CONSTANTS
  Elements,   \* the values, or the pairs of a key and a value
  Namesakes,  \* the pairs whose keys say the same
  MaxRemovals \* bound: how many elements a loop with an iterator removes

YyMutAssumption == MaxRemovals \in Nat

VARIABLES
  c,   \* the container
  it,  \* the iterator
  call \* the last call and its result

vars == <<c, it, call>>

\* What the key of a pair says.
NameOf == [e \in Elements |-> IF e \in Namesakes THEN "name" ELSE e]

Key(e) == <<e, "key">>
Val(e) == <<e, "val">>
NoNode == <<"none", "none">>
Nodes == Elements \X {"key", "val"}

\* What the container links: values, or keys.
First(k, e) == IF k.kind = "arr" THEN Val(e) ELSE Key(e)
NextOf(k, n) == IF k.kind = "arr" THEN k.next[n] ELSE k.next[k.next[n]]
Link(k, n, to) ==
  [k EXCEPT !.next = [@ EXCEPT ![IF k.kind = "arr" THEN n ELSE @[n]] = to]]

\* The node that is i links beyond n.
Beyond(k, n, i) == FoldLeft(LAMBDA m, x : NextOf(k, m), n, [x \in 1 .. i |-> x])

\* The elements, as a reader that follows the links finds them.
Elems == [i \in 1 .. c.len |-> Beyond(c, c.ptr, i)[1]]

-----------------------------------------------------------------------------
(* Arrays *)

ArrAppend(k, e) ==
  LET linked == IF k.len = 0 THEN Link(k, Val(e), Val(e))
                ELSE Link(Link(k, k.ptr, Val(e)), Val(e), k.next[k.ptr])
  IN  [linked EXCEPT !.len = @ + 1, !.ptr = Val(e)]

ArrPrepend(k, e) ==
  IF k.len = 0 THEN ArrAppend(k, e)
  ELSE [Link(Link(k, k.ptr, Val(e)), Val(e), k.next[k.ptr]) EXCEPT !.len = @ + 1]

ArrInsert(k, e, idx) ==
  LET prev == Beyond(k, k.ptr, idx)
  IN  CASE idx > k.len -> k
        [] idx = k.len -> ArrAppend(k, e)
        [] OTHER -> [Link(Link(k, prev, Val(e)), Val(e), k.next[prev]) EXCEPT !.len = @ + 1]

ArrReplace(k, e, idx) ==
  LET prev == Beyond(k, k.ptr, idx)
      old == k.next[prev]
      linked == IF k.len > 1 THEN Link(Link(k, prev, Val(e)), Val(e), k.next[old])
                ELSE Link(k, Val(e), Val(e))
  IN  IF idx >= k.len THEN k
      ELSE [linked EXCEPT !.ptr = IF old = k.ptr THEN Val(e) ELSE @]

\* Faulty form: the pointer to the last element stays.
ArrRemoveKeepsPtr(k, idx) ==
  LET prev == Beyond(k, k.ptr, idx)
      old == k.next[prev]
  IN  IF idx >= k.len THEN k
      ELSE [(IF k.len > 1 THEN Link(k, prev, k.next[old]) ELSE k) EXCEPT !.len = @ - 1]

ArrRemove(k, idx) ==
  LET prev == Beyond(k, k.ptr, idx)
      old == k.next[prev]
      linked == IF k.len > 1 THEN Link(k, prev, k.next[old]) ELSE k
  IN  IF idx >= k.len THEN k
      ELSE [linked EXCEPT !.len = @ - 1, !.ptr = IF old = @ THEN prev ELSE @]

ArrRemoveFirst(k) ==
  CASE k.len > 1 -> [Link(k, k.ptr, NextOf(k, k.next[k.ptr])) EXCEPT !.len = @ - 1]
    [] k.len = 1 -> [k EXCEPT !.len = 0]
    [] OTHER -> k

ArrRemoveLast(k) ==
  LET prev == Beyond(k, k.ptr, k.len - 1)
  IN  CASE k.len > 1 -> [Link(k, prev, k.next[k.ptr]) EXCEPT !.len = @ - 1, !.ptr = prev]
        [] k.len = 1 -> [k EXCEPT !.len = 0]
        [] OTHER -> k

ArrRemoveRange(k, idx, n) ==
  LET prev == Beyond(k, k.ptr, idx)
      linked == Link(k, prev, Beyond(k, k.next[prev], n))
  IN  IF idx + n > k.len \/ n = 0 THEN k
      ELSE IF n > 0 /\ n = k.len THEN [k EXCEPT !.len = 0]
      ELSE [linked EXCEPT !.len = @ - n, !.ptr = IF idx + n = k.len THEN prev ELSE @]

-----------------------------------------------------------------------------
(* Objects *)

ObjAdd(k, e) ==
  LET val == k.next[k.ptr]
      next == [k.next EXCEPT ![Key(e)] = Val(e),
                             ![Val(e)] = IF k.len > 0 THEN k.next[val] ELSE Key(e)]
  IN  [k EXCEPT !.next = IF k.len > 0 THEN [next EXCEPT ![val] = Key(e)] ELSE next,
                !.ptr = Key(e), !.len = @ + 1]

\* unsafe_yyjson_mut_obj_remove: one turn of its loop for each pair.
ObjRemove(k, name) ==
  LET turn(s, x) ==
        LET after == NextOf(s.k, s.cur)
            cut == Link(s.k, s.pre, after)
        IN  IF NameOf[s.cur[1]] = name
              THEN [s EXCEPT !.cur = after,
                             !.k = [cut EXCEPT !.len = @ - 1,
                                               !.ptr = IF s.i + 1 = s.k.len THEN s.pre ELSE @]]
              ELSE [s EXCEPT !.pre = s.cur, !.cur = after, !.i = @ + 1]
  IN  IF k.len = 0 THEN k
      ELSE FoldLeft(turn, [k |-> k, pre |-> k.ptr, cur |-> NextOf(k, k.ptr), i |-> 0],
                    [x \in 1 .. k.len |-> x]).k

-----------------------------------------------------------------------------
(* Iterators *)

IterInit(k) == [on |-> TRUE, idx |-> 0, max |-> k.len, prev |-> NoNode, removed |-> 0,
                cur |-> IF k.len > 0 THEN k.ptr ELSE NoNode]

IterNext(k, i) == [i EXCEPT !.prev = i.cur, !.cur = NextOf(k, i.cur), !.idx = @ + 1]

\* iter_remove, of the container and of the iterator.
IterCut(k, i) ==
  [Link(k, i.prev, NextOf(k, i.cur)) EXCEPT !.ptr = IF i.idx = i.max THEN i.prev ELSE @,
                                            !.len = i.max - 1]
IterCutOff(k, i) == [i EXCEPT !.idx = @ - 1, !.max = @ - 1, !.cur = NextOf(k, @),
                              !.removed = @ + 1]

\* yyjson_mut_obj_remove_strn: one turn for each pair.
ObjRemoveStrn(k, name) ==
  LET turn(s, x) ==
        LET i == IterNext(s.k, s.i)
        IN  IF NameOf[i.cur[1]] = name THEN [k |-> IterCut(s.k, i), i |-> IterCutOff(s.k, i)]
            ELSE [s EXCEPT !.i = i]
  IN  FoldLeft(turn, [k |-> k, i |-> IterInit(k)], [x \in 1 .. k.len |-> x]).k

-----------------------------------------------------------------------------
(* Calls *)

NoCall == [op |-> "none", idx |-> 0, n |-> 0, e |-> "none", name |-> "none", ret |-> "none"]
NoIter == [on |-> FALSE]

Init == /\ \E kind \in {"arr", "obj"} :
             c = [kind |-> kind, next |-> [n \in Nodes |-> NoNode], ptr |-> NoNode, len |-> 0]
        /\ it = NoIter /\ call = NoCall

\* A client that is not in a loop makes a call that turns the container into k.
Call(kind, f, k) == /\ ~it.on /\ c.kind = kind
                    /\ c' = k /\ call' = f @@ NoCall
                    /\ UNCHANGED it

\* An element is in the container once; its nodes may be used again after it
\* has been removed.
Unused == Elements \ {Elems[i] : i \in 1 .. c.len}
Indices == 0 .. c.len + 1
At(idx) == IF idx < c.len THEN Beyond(c, c.ptr, idx + 1)[1] ELSE "none"
Named(name) == {i \in 1 .. c.len : NameOf[Elems[i]] = name}
Names == {NameOf[e] : e \in Elements}

Insert == \E e \in Unused, i \in Indices :
            Call("arr", [op |-> "insert", e |-> e, idx |-> i], ArrInsert(c, e, i))
AppendOne == \E e \in Unused : Call("arr", [op |-> "append", e |-> e], ArrAppend(c, e))
Prepend == \E e \in Unused : Call("arr", [op |-> "prepend", e |-> e], ArrPrepend(c, e))
Replace == \E e \in Unused, i \in Indices :
             Call("arr", [op |-> "replace", e |-> e, idx |-> i, ret |-> At(i)], ArrReplace(c, e, i))
RemoveIdx == \E i \in Indices :
            Call("arr", [op |-> "remove", idx |-> i, ret |-> At(i)], ArrRemove(c, i))
RemoveHead == Call("arr", [op |-> "remove_first", ret |-> At(0)], ArrRemoveFirst(c))
RemoveEnd == Call("arr", [op |-> "remove_last",
                         ret |-> IF c.len > 0 THEN c.ptr[1] ELSE "none"], ArrRemoveLast(c))
RemoveRange == \E i, n \in Indices :
                 Call("arr", [op |-> "remove_range", idx |-> i, n |-> n], ArrRemoveRange(c, i, n))

Add == \E e \in Unused : Call("obj", [op |-> "obj_add", e |-> e], ObjAdd(c, e))
Put == \E e \in Unused :
         Call("obj", [op |-> "obj_put", e |-> e, name |-> NameOf[e]],
              ObjAdd(ObjRemove(c, NameOf[e]), e))
RemoveKey == \E name \in Names :
               Call("obj", [op |-> "obj_remove", name |-> name], ObjRemove(c, name))
RemoveStrn == \E name \in Names :
                /\ Cardinality(Named(name)) <= MaxRemovals
                /\ Call("obj", [op |-> "obj_remove", name |-> name], ObjRemoveStrn(c, name))

Clear == Call(c.kind, [op |-> "clear"], [c EXCEPT !.len = 0])

\* The loop of the sample code at iter_init, which a client may leave early.
Start == /\ ~it.on
         /\ it' = IterInit(c) /\ call' = NoCall /\ UNCHANGED c
Step == /\ it.on /\ it.idx < it.max
        /\ it' = IterNext(c, it) /\ call' = NoCall /\ UNCHANGED c
RemoveCurrent == /\ it.on /\ 0 < it.idx /\ it.idx <= it.max /\ it.removed < MaxRemovals
                 /\ c' = IterCut(c, it) /\ it' = IterCutOff(c, it)
                 /\ call' = [NoCall EXCEPT !.op = "iter_remove", !.e = it.cur[1], !.ret = it.cur[1]]
Leave == /\ it.on
         /\ it' = NoIter /\ call' = NoCall /\ UNCHANGED c

Next == \/ Insert \/ AppendOne \/ Prepend \/ Replace \/ RemoveIdx \/ RemoveHead \/ RemoveEnd
        \/ RemoveRange \/ Add \/ Put \/ RemoveKey \/ RemoveStrn \/ Clear
        \/ Start \/ Step \/ RemoveCurrent \/ Leave

Spec == Init /\ [][Next]_vars

-----------------------------------------------------------------------------
(* Properties *)

List == INSTANCE JsonList WITH elems <- Elems

\* What a reader finds along the links is the sequence that the comments of
\* yyjson.h promise, after any calls in any order.
ImplementsList == List!Spec

\* "Removes all key-value pairs for the given key", says yyjson.h of
\* yyjson_mut_obj_remove_strn.
RemovesAllPairs == call.op = "obj_remove" => Named(call.name) = {}

=============================================================================
