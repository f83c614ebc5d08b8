------------------------------ MODULE JsonList ------------------------------
(***************************************************************************)
(* What yyjson.h promises of a mutable array or object: a sequence, in     *)
(* which a call does what its comment says.  An element of an object is a  *)
(* pair of a key, whose name is NameOf, and a value.                       *)
(***************************************************************************)
EXTENDS Naturals, Sequences, SequencesExt

CONSTANTS Elements, NameOf

VARIABLES
  elems, \* the elements, in order
  call   \* the last call: [op, idx, n, e, name, ret]

\* The elements after a call.
After(c, s) ==
  CASE c.op = "insert" /\ c.idx <= Len(s) -> InsertAt(s, c.idx + 1, c.e)
    [] c.op = "append" -> Append(s, c.e)
    [] c.op = "prepend" -> <<c.e>> \o s
    [] c.op = "replace" /\ c.idx < Len(s) -> ReplaceAt(s, c.idx + 1, c.e)
    [] c.op = "remove" /\ c.idx < Len(s) -> RemoveAt(s, c.idx + 1)
    [] c.op = "remove_first" /\ s # <<>> -> Tail(s)
    [] c.op = "remove_last" /\ s # <<>> -> Front(s)
    [] c.op = "remove_range" /\ c.idx + c.n <= Len(s) ->
         SubSeq(s, 1, c.idx) \o SubSeq(s, c.idx + c.n + 1, Len(s))
    [] c.op = "clear" -> <<>>
    [] c.op = "obj_add" -> Append(s, c.e)
    [] c.op = "obj_put" -> Append(SelectSeq(s, LAMBDA e : NameOf[e] # c.name), c.e)
    [] c.op = "obj_remove" -> SelectSeq(s, LAMBDA e : NameOf[e] # c.name)
    [] c.op = "iter_remove" -> SelectSeq(s, LAMBDA e : e # c.ret)
    [] OTHER -> s

\* The element that a call removes or replaces, or none.
Returned(c, s) ==
  CASE c.op \in {"replace", "remove"} /\ c.idx < Len(s) -> s[c.idx + 1]
    [] c.op = "remove_first" /\ s # <<>> -> s[1]
    [] c.op = "remove_last" /\ s # <<>> -> s[Len(s)]
    [] c.op = "iter_remove" -> c.e
    [] OTHER -> "none"

Init == elems = <<>> /\ call.op = "none"

Next == /\ elems' = After(call', elems)
        /\ call'.ret = Returned(call', elems)

Spec == Init /\ [][Next]_<<elems, call>>

=============================================================================
