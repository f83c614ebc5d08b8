------------------------------ MODULE BoundedFifo ------------------------------
(***************************************************************************)
(* What shmfifo/shmfifo.h promises ("several readers, several writers,     *)
(* across processes"): a first-in first-out queue of at most blockNum      *)
(* blocks.  A reader gets the oldest block, whole, and nobody else gets    *)
(* it.                                                                     *)
(***************************************************************************)
EXTENDS Integers, Sequences

CONSTANTS Readers, Writers, Data, NULL, blockNum

VARIABLES
  items,    \* the blocks in the queue, oldest first
  offered,  \* offered[w]: the data of a Write that has not taken effect
  got       \* got[r]: the data of a Read that has taken effect

vars == <<items, offered, got>>

Init == /\ items = <<>>
        /\ offered = [w \in Writers |-> NULL]
        /\ got = [r \in Readers |-> NULL]

Offer(w, d) == /\ offered[w] = NULL
               /\ offered' = [offered EXCEPT ![w] = d]
               /\ UNCHANGED <<items, got>>

Put(w) == /\ offered[w] # NULL
          /\ Len(items) < blockNum
          /\ items' = Append(items, offered[w])
          /\ offered' = [offered EXCEPT ![w] = NULL]
          /\ UNCHANGED got

Get(r) == /\ got[r] = NULL
          /\ items # <<>>
          /\ items' = Tail(items)
          /\ got' = [got EXCEPT ![r] = Head(items)]
          /\ UNCHANGED offered

Use(r) == /\ got[r] # NULL
          /\ got' = [got EXCEPT ![r] = NULL]
          /\ UNCHANGED <<items, offered>>

Next == \/ \E w \in Writers : Put(w) \/ \E d \in Data : Offer(w, d)
        \/ \E r \in Readers : Get(r) \/ Use(r)

Spec == Init /\ [][Next]_vars

=============================================================================
