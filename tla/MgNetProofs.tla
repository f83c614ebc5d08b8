---------------------------- MODULE MgNetProofs ----------------------------
(***************************************************************************)
(* What holds of MCMgNet for every value of its constants: NetworkIsTrue.  *)
(* The four parts do not know of each other, so that each has an inductive *)
(* invariant of its own, and the whole has all of them.                    *)
(***************************************************************************)
EXTENDS MCMgNet, QueueLemmas, TLAPS

-----------------------------------------------------------------------------
(* The messages are intact, for every size of the buffer                   *)
(*                                                                         *)
(* The unread messages lie one behind the other: from tail to head, or,    *)
(* when head is below tail, from tail to a marker, a length of 0, and then *)
(* from the beginning to head.  The producer writes nowhere else, since    *)
(* what it has read of tail is at worst old, and tail has only come closer *)
(* to head, or back to the beginning, by the time that it writes.          *)

QueueTypes ==
  /\ buf \in [0 .. Size - 1 -> Nat \X Nat]
  /\ head \in 0 .. Size - 1 /\ tail \in 0 .. Size - 1
  /\ ppc \in {"idle", "ahead", "wrap?", "mark?", "wrap", "before", "space",
              "booked", "length", "add"}
  /\ len \in Lens \cup {0} /\ (ppc # "idle" => len \in Lens)
  /\ space \in Nat
  /\ cpc \in {"next", "length", "reset", "again", "read", "del"}
  /\ n \in Nat
  /\ added \in Seq(Lens)
  /\ got \in Seq(Seq(Nat \X Nat))

\* From P[lo + 1] to P[hi + 1] the buffer b holds the messages lo + 1 to hi,
\* whose lengths are in s.
Chain(P, b, s, lo, hi) ==
  /\ \A i, j \in lo + 1 .. hi + 1 : i <= j => P[i] <= P[j]
  /\ \A m \in lo + 1 .. hi :
       /\ P[m + 1] = P[m] + s[m] + 1
       /\ b[P[m]] = Length(s[m])
       /\ \A k \in 1 .. s[m] : b[P[m] + k] = <<m, k>>

\* The messages lo + 1 to hi lie between the positions from and to.
Lies(b, s, lo, hi, from, to) ==
  \E P \in [Nat -> Nat] : /\ Chain(P, b, s, lo, hi)
                          /\ P[lo + 1] = from /\ P[hi + 1] = to

\* How many messages have been deleted.
Deleted == IF cpc = "del" THEN Len(got) - 1 ELSE Len(got)

Wrapped(w, e) ==
  /\ buf[e] = Length(0)
  /\ Lies(buf, added, Deleted, w, tail, e)
  /\ Lies(buf, added, w, Len(added), 0, head)

LayoutInv ==
  /\ Deleted \in 0 .. Len(added)
  /\ tail <= head => Lies(buf, added, Deleted, Len(added), tail, head)
  /\ head < tail => \E w \in Deleted .. Len(added) : \E e \in tail .. Size - 1 : Wrapped(w, e)

\* There is room for the booked message, a further header and a marker.
Room == IF tail <= head THEN head + len + hs <= Size ELSE head + len + hs < tail

\* What mg_queue_book has found out stays true until mg_queue_add is done.
ProducerInv ==
  /\ ppc \in {"ahead", "wrap?", "mark?", "wrap"} => space = 0
  /\ ppc = "mark?" => tail <= head
  /\ ppc = "wrap" => tail <= head /\ hs < tail /\ buf[head] = Length(0)
  /\ ppc = "before" => space = 0 \/ (tail <= head /\ Room)
  /\ ppc = "space" => Room
  /\ ppc = "booked" => space < len \/ Room
  /\ ppc \in {"length", "add"} =>
       Room /\ \A k \in 1 .. len : buf[head + k] = <<Len(added) + 1, k>>
  /\ ppc = "add" => buf[head] = Length(len)

\* The consumer is at a message or at the marker, and what it received before
\* is what was added.
ConsumerInv ==
  /\ cpc \in {"length", "reset", "read", "del"} => tail # head
  /\ cpc = "reset" => head < tail /\ buf[tail] = Length(0)
  /\ cpc = "again" => tail = 0
  /\ cpc \in {"read", "del"} => n # 0 /\ buf[tail] = Length(n)
  /\ cpc = "del" => Len(got) # 0
  /\ \A m \in DOMAIN got : got[m] = [k \in 1 .. added[m] |-> <<m, k>>]

QueueInv == QueueTypes /\ LayoutInv /\ ProducerInv /\ ConsumerInv

-----------------------------------------------------------------------------
(* Messages that lie one behind the other *)

\* A message lies within the positions of its chain.
LEMMA LiesWithin ==
  ASSUME NEW b, NEW s, NEW lo \in Nat, NEW hi \in Nat, NEW P \in [Nat -> Nat],
         Chain(P, b, s, lo, hi), NEW m \in lo + 1 .. hi, s[m] \in Nat
  PROVE  /\ P[lo + 1] <= P[m] /\ P[m] + s[m] + 1 <= P[hi + 1]
         /\ P[m] \in Nat /\ P[m + 1] = P[m] + s[m] + 1
<1>1. /\ m \in Nat /\ m + 1 \in Nat /\ lo + 1 <= m /\ lo + 1 \in lo + 1 .. hi + 1
      /\ m + 1 <= hi + 1 /\ hi + 1 \in lo + 1 .. hi + 1
      /\ m \in lo + 1 .. hi + 1 /\ m + 1 \in lo + 1 .. hi + 1
  OBVIOUS
<1> QED
  BY <1>1 DEF Chain

LEMMA LiesOrder ==
  ASSUME NEW b, NEW s, NEW lo \in Nat, NEW hi \in Nat, lo <= hi, NEW f, NEW t,
         Lies(b, s, lo, hi, f, t)
  PROVE  f \in Nat /\ t \in Nat /\ f <= t /\ (lo = hi => f = t)
<1>1. PICK P \in [Nat -> Nat] : Chain(P, b, s, lo, hi) /\ P[lo + 1] = f /\ P[hi + 1] = t
  BY DEF Lies
<1>2. lo + 1 \in lo + 1 .. hi + 1 /\ hi + 1 \in lo + 1 .. hi + 1 /\ lo + 1 <= hi + 1
      /\ lo + 1 \in Nat /\ hi + 1 \in Nat
  OBVIOUS
<1> QED
  BY <1>1, <1>2 DEF Chain

LEMMA LiesEmpty ==
  ASSUME NEW b, NEW s, NEW lo \in Nat, NEW f \in Nat
  PROVE  Lies(b, s, lo, lo, f, f)
<1> DEFINE P == [i \in Nat |-> f]
<1>1. P \in [Nat -> Nat] /\ P[lo + 1] = f
  OBVIOUS
<1>2. Chain(P, b, s, lo, lo)
  BY DEF Chain
<1> QED
  BY <1>1, <1>2 DEF Lies

\* Writing elsewhere, and adding to the lengths, leaves the messages alone.
LEMMA LiesFrame ==
  ASSUME NEW b, NEW s, NEW b2, NEW s2, NEW lo \in Nat, NEW hi \in Nat,
         NEW f \in Nat, NEW t \in Nat, Lies(b, s, lo, hi, f, t),
         \A i \in f .. t - 1 : b2[i] = b[i],
         \A m \in lo + 1 .. hi : s[m] \in Nat /\ s2[m] = s[m]
  PROVE  Lies(b2, s2, lo, hi, f, t)
<1>1. PICK P \in [Nat -> Nat] : Chain(P, b, s, lo, hi) /\ P[lo + 1] = f /\ P[hi + 1] = t
  BY DEF Lies
<1>2. ASSUME NEW m \in lo + 1 .. hi
      PROVE  /\ P[m + 1] = P[m] + s2[m] + 1
             /\ b2[P[m]] = Length(s2[m])
             /\ \A k \in 1 .. s2[m] : b2[P[m] + k] = <<m, k>>
  <2>1. f <= P[m] /\ P[m] + s[m] + 1 <= t /\ P[m] \in Nat /\ s[m] \in Nat
        /\ P[m + 1] = P[m] + s[m] + 1
    <3>1. s[m] \in Nat
      OBVIOUS
    <3>2. /\ P[lo + 1] <= P[m] /\ P[m] + s[m] + 1 <= P[hi + 1]
          /\ P[m] \in Nat /\ P[m + 1] = P[m] + s[m] + 1
      BY <1>1, <3>1, LiesWithin
    <3> QED
      BY <1>1, <3>1, <3>2
  <2>2. P[m] \in f .. t - 1 /\ \A k \in 1 .. s[m] : P[m] + k \in f .. t - 1
    BY <2>1
  <2>3. b[P[m]] = Length(s[m]) /\ \A k \in 1 .. s[m] : b[P[m] + k] = <<m, k>>
    BY <1>1 DEF Chain
  <2> QED
    BY <2>1, <2>2, <2>3
<1>3. Chain(P, b2, s2, lo, hi)
  BY <1>1, <1>2 DEF Chain
<1> QED
  BY <1>1, <1>3 DEF Lies

\* The first message, and the rest.
LEMMA LiesFirst ==
  ASSUME NEW b, NEW s, NEW lo \in Nat, NEW hi \in Nat, lo < hi, NEW f, NEW t,
         Lies(b, s, lo, hi, f, t), s[lo + 1] \in Nat
  PROVE  /\ b[f] = Length(s[lo + 1])
         /\ \A k \in 1 .. s[lo + 1] : b[f + k] = <<lo + 1, k>>
         /\ f + s[lo + 1] + 1 <= t
         /\ Lies(b, s, lo + 1, hi, f + s[lo + 1] + 1, t)
<1>1. PICK P \in [Nat -> Nat] : Chain(P, b, s, lo, hi) /\ P[lo + 1] = f /\ P[hi + 1] = t
  BY DEF Lies
<1>2. lo + 1 \in lo + 1 .. hi
  OBVIOUS
<1>3. /\ f + s[lo + 1] + 1 <= t
      /\ P[(lo + 1) + 1] = f + s[lo + 1] + 1
  <2>1. /\ P[lo + 1] + s[lo + 1] + 1 <= P[hi + 1]
        /\ P[(lo + 1) + 1] = P[lo + 1] + s[lo + 1] + 1
    <3>1. P[(lo + 1) + 1] = P[lo + 1] + s[lo + 1] + 1
      BY <1>1, <1>2 DEF Chain
    <3>2. (lo + 1) + 1 \in lo + 1 .. hi + 1 /\ hi + 1 \in lo + 1 .. hi + 1 /\ (lo + 1) + 1 <= hi + 1
      OBVIOUS
    <3>3. P[(lo + 1) + 1] <= P[hi + 1]
      BY <1>1, <3>2 DEF Chain
    <3> QED
      BY <3>1, <3>3
  <2> QED
    BY <1>1, <2>1
<1>4. b[f] = Length(s[lo + 1]) /\ \A k \in 1 .. s[lo + 1] : b[f + k] = <<lo + 1, k>>
  BY <1>1, <1>2 DEF Chain
<1>5. Chain(P, b, s, lo + 1, hi)
  <2>1. \A i \in (lo + 1) + 1 .. hi + 1 : i \in lo + 1 .. hi + 1
    OBVIOUS
  <2>2. \A m \in (lo + 1) + 1 .. hi : m \in lo + 1 .. hi
    OBVIOUS
  <2> QED
    BY <1>1, <2>1, <2>2 DEF Chain
<1> QED
  BY <1>1, <1>3, <1>4, <1>5 DEF Lies

\* One message more behind them.
LEMMA LiesGrow ==
  ASSUME NEW b, NEW s, NEW lo \in Nat, NEW hi \in Nat, lo <= hi, NEW f, NEW t,
         Lies(b, s, lo, hi, f, t), s[hi + 1] \in Nat,
         b[t] = Length(s[hi + 1]),
         \A k \in 1 .. s[hi + 1] : b[t + k] = <<hi + 1, k>>
  PROVE  Lies(b, s, lo, hi + 1, f, t + s[hi + 1] + 1)
<1>1. PICK P \in [Nat -> Nat] : Chain(P, b, s, lo, hi) /\ P[lo + 1] = f /\ P[hi + 1] = t
  BY DEF Lies
<1>2. hi + 1 \in Nat /\ (hi + 1) + 1 \in Nat /\ lo + 1 \in Nat /\ t \in Nat /\ lo + 1 # (hi + 1) + 1
  BY <1>1
<1> DEFINE e == t + s[hi + 1] + 1
           Q == [P EXCEPT ![(hi + 1) + 1] = e]
<1>3. e \in Nat /\ t <= e
  BY <1>2
<1>4. Q \in [Nat -> Nat] /\ Q[(hi + 1) + 1] = e /\ \A i \in lo + 1 .. hi + 1 : Q[i] = P[i]
  BY <1>2, <1>3
<1>5. \A i, j \in lo + 1 .. (hi + 1) + 1 : i <= j => Q[i] <= Q[j]
  <2> SUFFICES ASSUME NEW i \in lo + 1 .. (hi + 1) + 1, NEW j \in lo + 1 .. (hi + 1) + 1, i <= j
               PROVE  Q[i] <= Q[j]
    OBVIOUS
  <2>1. CASE j \in lo + 1 .. hi + 1
    <3>1. i \in lo + 1 .. hi + 1
      BY <2>1
    <3> QED
      BY <1>1, <1>4, <2>1, <3>1 DEF Chain
  <2>2. CASE i \in lo + 1 .. hi + 1 /\ j = (hi + 1) + 1
    <3>1. hi + 1 \in lo + 1 .. hi + 1 /\ i <= hi + 1 /\ i \in Nat
      BY <2>2
    <3>2. P[i] <= P[hi + 1] /\ P[i] \in Nat
      BY <1>1, <2>2, <3>1 DEF Chain
    <3>3. P[i] <= e
      BY <1>1, <1>2, <1>3, <3>2
    <3> QED
      BY <1>4, <2>2, <3>3
  <2>3. CASE i = (hi + 1) + 1 /\ j = (hi + 1) + 1
    BY <1>3, <1>4, <2>3
  <2> QED
    BY <2>1, <2>2, <2>3
<1>6. ASSUME NEW m \in lo + 1 .. hi + 1
      PROVE  /\ Q[m + 1] = Q[m] + s[m] + 1
             /\ b[Q[m]] = Length(s[m])
             /\ \A k \in 1 .. s[m] : b[Q[m] + k] = <<m, k>>
  <2>1. CASE m \in lo + 1 .. hi
    <3>1. m \in lo + 1 .. hi + 1 /\ m + 1 \in lo + 1 .. hi + 1
      BY <2>1
    <3>2. Q[m] = P[m] /\ Q[m + 1] = P[m + 1]
      BY <1>4, <3>1
    <3>3. /\ P[m + 1] = P[m] + s[m] + 1
          /\ b[P[m]] = Length(s[m])
          /\ \A k \in 1 .. s[m] : b[P[m] + k] = <<m, k>>
      BY <1>1, <2>1 DEF Chain
    <3> HIDE DEF Q
    <3> QED
      BY <3>2, <3>3
  <2>2. CASE m = hi + 1
    <3>1. Q[m] = t
      BY <1>1, <1>4, <2>2
    <3> QED
      BY <1>4, <2>2, <3>1
  <2> QED
    BY SMTT(30), <2>1, <2>2
<1> HIDE DEF Q, e
<1>7. Chain(Q, b, s, lo, hi + 1)
  BY <1>5, <1>6 DEF Chain
<1>8. Q[lo + 1] = f
  BY <1>1, <1>4
<1> QED
  BY <1>4, <1>7, <1>8 DEF Lies, e

-----------------------------------------------------------------------------
(* The invariant *)

LEMMA QueueInit == MgQueueAssumption /\ Init => QueueInv
<1> SUFFICES ASSUME MgQueueAssumption, Init PROVE QueueInv
  OBVIOUS
<1> USE DEF MgQueueAssumption, Init
<1>1. added \in Seq(Lens) /\ Len(added) = 0 /\ Len(got) = 0 /\ DOMAIN got = {}
      /\ got \in Seq(Seq(Nat \X Nat))
  BY EmptySeq
<1>2. QueueTypes
  BY <1>1 DEF QueueTypes, Length
<1>3. LayoutInv
  <2>1. Deleted = 0 /\ tail <= head /\ ~(head < tail)
    BY <1>1 DEF Deleted
  <2>2. Lies(buf, added, 0, 0, 0, 0)
    BY LiesEmpty
  <2> QED
    BY <1>1, <2>1, <2>2 DEF LayoutInv
<1>4. ProducerInv /\ ConsumerInv
  BY <1>1 DEF ProducerInv, ConsumerInv
<1> QED
  BY <1>2, <1>3, <1>4 DEF QueueInv

\* The numbers that the invariant speaks of.
LEMMA Numbers ==
  ASSUME MgQueueAssumption, QueueInv
  PROVE  /\ Len(added) \in Nat /\ Len(got) \in Nat /\ Deleted \in Nat
         /\ Deleted <= Len(added)
         /\ \A m \in 1 .. Len(added) : added[m] \in Lens /\ added[m] \in Nat /\ added[m] # 0
         /\ \A l \in Lens : l \in Nat /\ l # 0
         /\ head \in Nat /\ tail \in Nat /\ Size \in Nat /\ len \in Nat /\ space \in Nat
         /\ head < Size /\ tail < Size
         /\ DOMAIN buf = 0 .. Size - 1
<1>1. Len(added) \in Nat /\ Len(got) \in Nat /\ \A m \in 1 .. Len(added) : added[m] \in Lens
  BY EmptyFacts DEF QueueInv, QueueTypes
<1>2. /\ head \in Nat /\ tail \in Nat /\ Size \in Nat /\ len \in Nat /\ space \in Nat
      /\ head < Size /\ tail < Size /\ DOMAIN buf = 0 .. Size - 1
  BY DEF QueueInv, QueueTypes, MgQueueAssumption
<1>3. Deleted \in Nat /\ Deleted <= Len(added)
  BY <1>1 DEF QueueInv, LayoutInv
<1> QED
  BY <1>1, <1>2, <1>3 DEF MgQueueAssumption

\* What is at tail when tail is not head: the oldest message, whole, or the
\* marker.
LEMMA Front ==
  ASSUME MgQueueAssumption, QueueInv, tail # head
  PROVE  \/ /\ Deleted < Len(added)
            /\ buf[tail] = Length(added[Deleted + 1])
            /\ \A k \in 1 .. added[Deleted + 1] : buf[tail + k] = <<Deleted + 1, k>>
            /\ tail + added[Deleted + 1] + 1 < Size
         \/ head < tail /\ buf[tail] = Length(0)
<1>0. /\ Deleted \in Nat /\ Len(added) \in Nat /\ Deleted <= Len(added)
      /\ \A m \in 1 .. Len(added) : added[m] \in Nat
      /\ head \in Nat /\ tail \in Nat /\ Size \in Nat /\ head < Size
  BY Numbers
<1>1. CASE tail < head
  <2>1. Lies(buf, added, Deleted, Len(added), tail, head)
    BY <1>0, <1>1 DEF QueueInv, LayoutInv
  <2>2. Deleted < Len(added)
    BY <1>0, <1>1, <2>1, LiesOrder
  <2>3. added[Deleted + 1] \in Nat
    BY <1>0, <2>2
  <2>4. /\ buf[tail] = Length(added[Deleted + 1])
        /\ \A k \in 1 .. added[Deleted + 1] : buf[tail + k] = <<Deleted + 1, k>>
        /\ tail + added[Deleted + 1] + 1 <= head
    BY <1>0, <2>1, <2>2, <2>3, LiesFirst
  <2> QED
    BY <1>0, <2>2, <2>3, <2>4
<1>2. CASE head < tail
  <2>1. PICK w \in Deleted .. Len(added) : \E e \in tail .. Size - 1 : Wrapped(w, e)
    BY <1>2 DEF QueueInv, LayoutInv
  <2>2. PICK e \in tail .. Size - 1 : Wrapped(w, e)
    BY <2>1
  <2>3. w \in Nat /\ Deleted <= w /\ e \in Nat /\ e < Size /\ w <= Len(added)
    BY <1>0
  <2>4. CASE w = Deleted
    <3>1. e = tail
      BY <1>0, <2>2, <2>3, <2>4, LiesOrder DEF Wrapped
    <3> QED
      BY <1>2, <2>2, <3>1 DEF Wrapped
  <2>5. CASE Deleted < w
    <3>1. Deleted < Len(added) /\ added[Deleted + 1] \in Nat
      BY <1>0, <2>3, <2>5
    <3>2. Lies(buf, added, Deleted, w, tail, e)
      BY <2>2 DEF Wrapped
    <3>3. /\ buf[tail] = Length(added[Deleted + 1])
          /\ \A k \in 1 .. added[Deleted + 1] : buf[tail + k] = <<Deleted + 1, k>>
          /\ tail + added[Deleted + 1] + 1 <= e
      BY SMTT(30), <1>0, <2>3, <2>5, <3>1, <3>2, LiesFirst
    <3> QED
      BY <1>0, <2>3, <3>1, <3>3
  <2> QED
    BY <1>0, <2>3, <2>4, <2>5
<1> QED
  BY <1>0, <1>1, <1>2

\* What the consumer reads, or has read, is the oldest message.
LEMMA Reading ==
  ASSUME MgQueueAssumption, QueueInv, cpc \in {"read", "del"}
  PROVE  /\ Deleted < Len(added)
         /\ n = added[Deleted + 1]
         /\ \A k \in 1 .. n : buf[tail + k] = <<Deleted + 1, k>>
         /\ tail + n + 1 < Size
<1>1. tail # head /\ n # 0 /\ buf[tail] = Length(n)
  BY DEF QueueInv, ConsumerInv
<1>2. buf[tail] # Length(0)
  BY <1>1 DEF Length
<1>3. /\ Deleted < Len(added)
      /\ buf[tail] = Length(added[Deleted + 1])
      /\ \A k \in 1 .. added[Deleted + 1] : buf[tail + k] = <<Deleted + 1, k>>
      /\ tail + added[Deleted + 1] + 1 < Size
  BY <1>1, <1>2, Front
<1>4. n = added[Deleted + 1]
  BY <1>1, <1>3 DEF Length
<1> QED
  BY <1>3, <1>4

\* Every message received was added.
LEMMA GotFacts ==
  ASSUME MgQueueAssumption, QueueInv
  PROVE  /\ DOMAIN got = 1 .. Len(got) /\ Len(got) \in Nat
         /\ Len(got) <= Len(added)
<1>1. DOMAIN got = 1 .. Len(got) /\ Len(got) \in Nat
  BY EmptyFacts, RangeFacts DEF QueueInv, QueueTypes
<1>2. CASE cpc = "del"
  BY <1>1, <1>2, Reading, Numbers DEF Deleted
<1>3. CASE cpc # "del"
  BY <1>1, <1>3, Numbers DEF Deleted
<1> QED
  BY <1>1, <1>2, <1>3

LEMMA ProducerKeepsTypes ==
  ASSUME MgQueueAssumption, QueueInv, Produce
  PROVE  QueueTypes'
<1>0. /\ Len(added) \in Nat /\ head \in Nat /\ tail \in Nat /\ Size \in Nat
      /\ len \in Nat /\ head < Size /\ tail < Size
      /\ QueueTypes
  BY Numbers DEF QueueInv
<1>1. CASE Book \/ Ahead \/ WrapTest \/ Before
  <2>1. CASE Book
    BY <1>0, <2>1 DEF QueueTypes, consumer, Book
  <2>2. CASE Ahead
    <3>1. space' \in Nat
      BY <1>0, <2>2 DEF QueueTypes, Ahead, hs
    <3>2. ppc = "ahead" /\ ppc' \in {"before", "wrap?"}
          /\ UNCHANGED <<buf, head, tail, len, consumer, added, got>>
      BY <2>2 DEF Ahead
    <3> QED
      BY <1>0, <3>1, <3>2 DEF QueueTypes, consumer
  <2>3. CASE WrapTest \/ Before
    <3>1. ppc # "idle" /\ ppc' \in {"mark?", "before", "space", "booked"}
          /\ UNCHANGED <<buf, head, tail, len, space, consumer, added, got>>
      BY <2>3 DEF WrapTest, Before
    <3> QED
      BY <1>0, <3>1 DEF QueueTypes, consumer
  <2> QED
    BY <1>1, <2>1, <2>2, <2>3
<1>2. CASE Mark \/ AddLength
  <2>1. Length(0) \in Nat \X Nat /\ Length(len) \in Nat \X Nat
    BY <1>0 DEF Length
  <2>2. buf' \in [0 .. Size - 1 -> Nat \X Nat]
    BY <1>0, <1>2, <2>1 DEF QueueTypes, Mark, AddLength, Write
  <2>3. ppc # "idle" /\ ppc' \in {"wrap", "before", "add"}
        /\ UNCHANGED <<head, tail, len, space, consumer, added, got>>
    BY <1>2 DEF Mark, AddLength
  <2> QED
    BY <1>0, <2>2, <2>3 DEF QueueTypes, consumer
<1>3. CASE Wrap
  BY <1>0, <1>3 DEF QueueTypes, consumer, Wrap
<1>4. CASE Space
  <2>1. space' \in Nat
    BY <1>0, <1>4 DEF Space, hs
  <2> QED
    BY <1>0, <1>4, <2>1 DEF QueueTypes, consumer, Space
<1>5. CASE Fill
  <2>1. buf' \in [0 .. Size - 1 -> Nat \X Nat]
    <3>1. CASE UNCHANGED buf
      BY <1>0, <3>1 DEF QueueTypes
    <3>2. CASE buf' = [i \in DOMAIN buf |->
                         IF i \in head + 1 .. head + len
                           THEN <<Len(added) + 1, i - head>> ELSE buf[i]]
      <4>1. \A i \in head + 1 .. head + len : <<Len(added) + 1, i - head>> \in Nat \X Nat
        BY <1>0
      <4> QED
        BY <1>0, <3>2, <4>1 DEF QueueTypes
    <3> QED
      BY <1>5, <3>1, <3>2 DEF Fill
  <2> QED
    BY <1>0, <1>5, <2>1 DEF QueueTypes, consumer, Fill
<1>6. CASE Add
  <2>1. len \in Lens
    BY <1>0, <1>6 DEF Add, QueueTypes
  <2>2. added' \in Seq(Lens)
    BY <1>0, <1>6, <2>1, AppendFacts DEF Add, QueueTypes
  <2>3. Room
    BY <1>6 DEF Add, QueueInv, ProducerInv
  <2>4. head' \in 0 .. Size - 1
    BY <1>0, <1>6, <2>3 DEF Add, Room, hs
  <2> QED
    BY <1>0, <1>6, <2>2, <2>4 DEF QueueTypes, consumer, Add
<1> QED
  BY <1>1, <1>2, <1>3, <1>4, <1>5, <1>6 DEF Produce

LEMMA ConsumerKeepsTypes ==
  ASSUME MgQueueAssumption, QueueInv, Consume
  PROVE  QueueTypes'
<1>0. /\ head \in Nat /\ tail \in Nat /\ Size \in Nat /\ head < Size /\ tail < Size
      /\ QueueTypes
  BY Numbers DEF QueueInv
<1>1. buf[tail][2] \in Nat
  BY <1>0 DEF QueueTypes
<1>2. CASE Next0 \/ ReadLength \/ ReadAgain
  <2>1. /\ n' \in Nat
        /\ cpc' \in {"next", "length", "reset", "read"}
        /\ UNCHANGED <<buf, head, tail, producer, added, got>>
    <3>1. CASE Next0
      <4>1. n' = n /\ cpc' \in {"next", "length"}
        BY <3>1 DEF Next0
      <4> QED
        BY <1>0, <3>1, <4>1 DEF QueueTypes, Next0
    <3>2. CASE ReadLength
      <4>1. n' = buf[tail][2] /\ cpc' \in {"reset", "read"}
        BY <3>2 DEF ReadLength
      <4> QED
        BY <1>1, <3>2, <4>1 DEF ReadLength
    <3>3. CASE ReadAgain
      BY <1>1, <3>3 DEF ReadAgain
    <3> QED
      BY <1>2, <3>1, <3>2, <3>3
  <2> QED
    BY <1>0, <2>1 DEF QueueTypes, producer
<1>3. CASE Reset
  BY <1>0, <1>3 DEF QueueTypes, producer, Reset
<1>4. CASE Receive
  <2>1. n \in Nat /\ tail + n + 1 < Size
    BY <1>0, <1>4, Reading DEF Receive, QueueTypes
  <2>2. \A k \in 1 .. n : buf[tail + k] \in Nat \X Nat
    <3>1. \A k \in 1 .. n : tail + k \in 0 .. Size - 1
      BY <1>0, <2>1
    <3> QED
      BY <1>0, <3>1 DEF QueueTypes
  <2>3. [k \in 1 .. n |-> buf[tail + k]] \in Seq(Nat \X Nat)
    BY <2>1, <2>2, SeqDef
  <2>4. got' \in Seq(Seq(Nat \X Nat))
    BY <1>0, <1>4, <2>3, AppendFacts DEF Receive, QueueTypes
  <2> QED
    BY <1>0, <1>4, <2>4 DEF QueueTypes, producer, Receive
<1>5. CASE Del
  <2>1. n \in Nat /\ tail + n + 1 < Size
    BY <1>0, <1>5, Reading DEF Del, QueueTypes
  <2> QED
    BY <1>0, <1>5, <2>1 DEF QueueTypes, producer, Del
<1> QED
  BY <1>2, <1>3, <1>4, <1>5 DEF Consume

-----------------------------------------------------------------------------
(* The layout *)

\* Writing from head on, within the room there, disturbs no message.
LEMMA WritesInRoom ==
  ASSUME MgQueueAssumption, QueueInv, UNCHANGED <<head, tail, added, cpc, got>>,
         \/ Room /\ \A i \in 0 .. Size - 1 : i \notin head .. head + len => buf'[i] = buf[i]
         \/ tail <= head /\ \A i \in 0 .. Size - 1 : i # head => buf'[i] = buf[i]
  PROVE  LayoutInv'
<1>0. /\ Deleted \in Nat /\ Len(added) \in Nat /\ Deleted <= Len(added)
      /\ \A m \in 1 .. Len(added) : added[m] \in Nat
      /\ head \in Nat /\ tail \in Nat /\ Size \in Nat /\ len \in Nat
      /\ head < Size /\ tail < Size
  BY Numbers
<1>1. Deleted' = Deleted
  BY DEF Deleted
<1>2. \A lo, hi \in 0 .. Len(added) : \A m \in lo + 1 .. hi : added[m] \in Nat /\ added'[m] = added[m]
  <2> SUFFICES ASSUME NEW lo \in 0 .. Len(added), NEW hi \in 0 .. Len(added),
                      NEW m \in lo + 1 .. hi
               PROVE  added[m] \in Nat /\ added'[m] = added[m]
    OBVIOUS
  <2>1. m \in 1 .. Len(added)
    BY <1>0
  <2> QED
    BY <1>0, <2>1
<1>3. CASE tail <= head
  <2>1. \A i \in tail .. head - 1 : buf'[i] = buf[i]
    <3>1. \A i \in tail .. head - 1 : i \in 0 .. Size - 1 /\ i # head /\ i \notin head .. head + len
      BY <1>0
    <3> QED
      BY <3>1
  <2>2. Lies(buf, added, Deleted, Len(added), tail, head)
    BY <1>3 DEF QueueInv, LayoutInv
  <2>3. \A m \in Deleted + 1 .. Len(added) : added[m] \in Nat /\ added'[m] = added[m]
    BY <1>0, <1>2
  <2>4. Lies(buf', added', Deleted, Len(added), tail, head)
    BY <1>0, <2>1, <2>2, <2>3, LiesFrame
  <2> QED
    BY <1>0, <1>1, <1>3, <2>4 DEF LayoutInv
<1>4. CASE head < tail
  <2>0. Room /\ \A i \in 0 .. Size - 1 : i \notin head .. head + len => buf'[i] = buf[i]
    BY <1>0, <1>4
  <2>1. head + len < tail
    BY <1>0, <1>4, <2>0 DEF Room, hs
  <2>2. PICK w \in Deleted .. Len(added) : \E e \in tail .. Size - 1 : Wrapped(w, e)
    BY <1>4 DEF QueueInv, LayoutInv
  <2>3. PICK e \in tail .. Size - 1 : Wrapped(w, e)
    BY <2>2
  <2>4. w \in Nat /\ w \in 0 .. Len(added) /\ e \in Nat /\ e < Size /\ tail <= e
    BY <1>0
  <2>5. (\A i \in tail .. e : buf'[i] = buf[i]) /\ \A i \in 0 .. head - 1 : buf'[i] = buf[i]
    <3>1. \A i \in tail .. e : i \in 0 .. Size - 1 /\ i \notin head .. head + len
      BY <1>0, <2>1, <2>4
    <3>2. \A i \in 0 .. head - 1 : i \in 0 .. Size - 1 /\ i \notin head .. head + len
      BY <1>0
    <3> QED
      BY <2>0, <3>1, <3>2
  <2>6. \A i \in tail .. e - 1 : buf'[i] = buf[i]
    BY <1>0, <2>4, <2>5
  <2>7. e \in tail .. e
    BY <1>0, <2>4
  <2>8. Lies(buf', added', Deleted, w, tail, e)
    <3>1. \A m \in Deleted + 1 .. w : added[m] \in Nat /\ added'[m] = added[m]
      BY <1>0, <1>2, <2>4
    <3>2. Lies(buf, added, Deleted, w, tail, e)
      BY <2>3 DEF Wrapped
    <3> QED
      BY <1>0, <2>4, <2>6, <3>1, <3>2, LiesFrame
  <2>9. Lies(buf', added', w, Len(added), 0, head)
    <3>1. \A m \in w + 1 .. Len(added) : added[m] \in Nat /\ added'[m] = added[m]
      BY <1>0, <1>2, <2>4
    <3>2. Lies(buf, added, w, Len(added), 0, head)
      BY <2>3 DEF Wrapped
    <3> QED
      BY <1>0, <2>4, <2>5, <3>1, <3>2, LiesFrame
  <2>10. Wrapped(w, e)'
    BY <1>1, <2>3, <2>5, <2>7, <2>8, <2>9 DEF Wrapped
  <2> QED
    BY <1>0, <1>1, <1>4, <2>10 DEF LayoutInv
<1> QED
  BY <1>0, <1>3, <1>4

LEMMA WrapKeepsLayout ==
  ASSUME MgQueueAssumption, QueueInv, Wrap
  PROVE  LayoutInv'
<1>0. /\ Deleted \in Nat /\ Len(added) \in Nat /\ Deleted <= Len(added)
      /\ head \in Nat /\ tail \in Nat /\ Size \in Nat /\ head < Size /\ tail < Size
  BY Numbers
<1>1. /\ tail <= head /\ 0 < tail /\ buf[head] = Length(0)
      /\ head' = 0 /\ UNCHANGED <<buf, tail, cpc, added, got>>
  BY <1>0 DEF Wrap, consumer, QueueInv, ProducerInv, hs
<1>2. Deleted' = Deleted
  BY <1>1 DEF Deleted
<1>3. Lies(buf, added, Deleted, Len(added), tail, head)
  BY <1>1 DEF QueueInv, LayoutInv
<1>4. Lies(buf, added, Len(added), Len(added), 0, 0)
  BY <1>0, LiesEmpty
<1>5. PICK w \in Deleted .. Len(added) : w = Len(added)
  BY <1>0
<1>6. PICK e \in tail .. Size - 1 : e = head
  BY <1>0, <1>1
<1>7. Wrapped(w, e)'
  BY <1>1, <1>2, <1>3, <1>4, <1>5, <1>6 DEF Wrapped
<1> QED
  BY <1>0, <1>1, <1>2, <1>7 DEF LayoutInv

LEMMA AddKeepsLayout ==
  ASSUME MgQueueAssumption, QueueInv, Add
  PROVE  LayoutInv'
<1> DEFINE a == Len(added)
<1>0. /\ Deleted \in Nat /\ a \in Nat /\ Deleted <= a
      /\ \A m \in 1 .. a : added[m] \in Nat
      /\ head \in Nat /\ tail \in Nat /\ Size \in Nat /\ len \in Nat
      /\ head < Size /\ tail < Size
  BY Numbers
<1>1. /\ Room /\ buf[head] = Length(len)
      /\ \A k \in 1 .. len : buf[head + k] = <<a + 1, k>>
      /\ head' = head + len + 1 /\ added' = Append(added, len)
      /\ UNCHANGED <<buf, tail, cpc, got>>
      /\ added \in Seq(Lens) /\ len \in Lens
  BY DEF Add, consumer, QueueInv, ProducerInv, QueueTypes
<1>2. /\ Len(added') = a + 1 /\ added'[a + 1] = len
      /\ \A m \in 1 .. a : added'[m] = added[m]
  BY <1>1, AppendFacts
<1>3. Deleted' = Deleted
  BY <1>1 DEF Deleted
<1> HIDE DEF a
<1>4. ASSUME NEW lo \in Nat, lo <= a, NEW f \in Nat, Lies(buf, added, lo, a, f, head)
      PROVE  Lies(buf, added', lo, a + 1, f, head + len + 1)
  <2>1. \A m \in lo + 1 .. a : added[m] \in Nat /\ added'[m] = added[m]
    <3>1. \A m \in lo + 1 .. a : m \in 1 .. a
      BY <1>0
    <3> QED
      BY <1>0, <1>2, <3>1
  <2>2. Lies(buf, added', lo, a, f, head)
    BY <1>0, <1>4, <2>1, LiesFrame
  <2>3. added'[a + 1] \in Nat /\ buf[head] = Length(added'[a + 1])
        /\ \A k \in 1 .. added'[a + 1] : buf[head + k] = <<a + 1, k>>
    BY <1>0, <1>1, <1>2
  <2>4. Lies(buf, added', lo, a + 1, f, head + added'[a + 1] + 1)
    BY <1>0, <1>4, <2>2, <2>3, LiesGrow
  <2> QED
    BY <1>2, <2>4
<1>5. CASE tail <= head
  <2>1. Lies(buf, added, Deleted, a, tail, head)
    BY <1>5 DEF QueueInv, LayoutInv, a
  <2>2. Lies(buf, added', Deleted, a + 1, tail, head + len + 1)
    BY <1>0, <1>4, <2>1
  <2>3. tail <= head' /\ ~(head' < tail)
    BY <1>0, <1>1, <1>5
  <2> QED
    BY <1>0, <1>1, <1>2, <1>3, <2>2, <2>3 DEF LayoutInv
<1>6. CASE head < tail
  <2>1. PICK w \in Deleted .. a : \E e \in tail .. Size - 1 : Wrapped(w, e)
    BY <1>6 DEF QueueInv, LayoutInv, a
  <2>2. PICK e \in tail .. Size - 1 : Wrapped(w, e)
    BY <2>1
  <2>3. w \in Nat /\ w <= a /\ Deleted <= w /\ e \in Nat /\ w \in Deleted .. a + 1
    BY <1>0
  <2>4. /\ buf[e] = Length(0)
        /\ Lies(buf, added, Deleted, w, tail, e)
        /\ Lies(buf, added, w, a, 0, head)
    BY <2>2 DEF Wrapped, a
  <2>5. Lies(buf, added', w, a + 1, 0, head + len + 1)
    BY <1>4, <2>3, <2>4
  <2>6. Lies(buf, added', Deleted, w, tail, e)
    <3>1. \A m \in Deleted + 1 .. w : added[m] \in Nat /\ added'[m] = added[m]
      <4>1. \A m \in Deleted + 1 .. w : m \in 1 .. a
        BY <1>0, <2>3
      <4> QED
        BY <1>0, <1>2, <4>1
    <3> QED
      BY <1>0, <2>3, <2>4, <3>1, LiesFrame
  <2>7. Wrapped(w, e)'
    BY <1>1, <1>2, <1>3, <2>4, <2>5, <2>6 DEF Wrapped
  <2>8. head' < tail' /\ ~(tail' <= head')
    BY <1>0, <1>1, <1>6 DEF Room, hs
  <2>9. Deleted' \in 0 .. Len(added')
    BY <1>0, <1>2, <1>3
  <2>10. w \in Deleted' .. Len(added') /\ e \in tail' .. Size - 1
    BY <1>1, <1>2, <1>3, <2>3
  <2> QED
    BY <2>7, <2>8, <2>9, <2>10 DEF LayoutInv
<1> QED
  BY <1>0, <1>5, <1>6

LEMMA ProducerKeepsLayout ==
  ASSUME MgQueueAssumption, QueueInv, Produce
  PROVE  LayoutInv'
<1>1. CASE Book \/ Ahead \/ WrapTest \/ Before \/ Space
  BY <1>1 DEF Book, Ahead, WrapTest, Before, Space, consumer, QueueInv, LayoutInv,
              Deleted, Wrapped
<1>2. CASE Mark
  <2>1. tail <= head /\ \A i \in 0 .. Size - 1 : i # head => buf'[i] = buf[i]
    BY <1>2 DEF Mark, Write, QueueInv, ProducerInv, QueueTypes
  <2> QED
    BY <1>2, <2>1, WritesInRoom DEF Mark, consumer
<1>3. CASE Wrap
  BY <1>3, WrapKeepsLayout
<1>4. CASE Fill
  <2>1. CASE UNCHANGED buf
    BY <1>4, <2>1 DEF Fill, consumer, QueueInv, LayoutInv, Deleted, Wrapped
  <2>2. CASE ~UNCHANGED buf
    <3>1. Room
      BY <1>4, <2>2, Numbers DEF Fill, QueueInv, ProducerInv
    <3>2. buf' = [i \in DOMAIN buf |-> IF i \in head + 1 .. head + len
                                          THEN <<Len(added) + 1, i - head>> ELSE buf[i]]
      BY <1>4, <2>2 DEF Fill
    <3>3. \A i \in 0 .. Size - 1 : i \notin head .. head + len => buf'[i] = buf[i]
      <4>1. \A i \in 0 .. Size - 1 : i \in head + 1 .. head + len => i \in head .. head + len
        BY Numbers
      <4> QED
        BY <3>2, <4>1, Numbers
    <3> QED
      BY <1>4, <3>1, <3>3, WritesInRoom DEF Fill, consumer
  <2> QED
    BY <2>1, <2>2
<1>5. CASE AddLength
  <2>1. Room
    BY <1>5 DEF AddLength, QueueInv, ProducerInv
  <2>2. \A i \in 0 .. Size - 1 : i \notin head .. head + len => buf'[i] = buf[i]
    <3>1. head \in head .. head + len
      BY Numbers
    <3>2. buf' = [buf EXCEPT ![head] = Length(len)]
      BY <1>5 DEF AddLength, Write
    <3> QED
      BY <3>1, <3>2, Numbers
  <2> QED
    BY <1>5, <2>1, <2>2, WritesInRoom DEF AddLength, consumer
<1>6. CASE Add
  BY <1>6, AddKeepsLayout
<1> QED
  BY <1>1, <1>2, <1>3, <1>4, <1>5, <1>6 DEF Produce

LEMMA DelKeepsLayout ==
  ASSUME MgQueueAssumption, QueueInv, Del
  PROVE  /\ LayoutInv'
         /\ tail <= head => tail <= tail' /\ tail' <= head
         /\ head < tail => tail <= tail'
<1> DEFINE a == Len(added)
<1>0. /\ Deleted \in Nat /\ a \in Nat /\ Deleted < a
      /\ added[Deleted + 1] = n /\ n \in Nat /\ n # 0
      /\ head \in Nat /\ tail \in Nat /\ Size \in Nat
      /\ buf[tail] = Length(n)
  BY Numbers, Reading DEF Del, QueueInv, QueueTypes, ConsumerInv
<1>1. /\ tail' = tail + n + 1 /\ Deleted' = Deleted + 1
      /\ UNCHANGED <<buf, head, added>>
  BY Numbers DEF Del, producer, Deleted, QueueInv, ConsumerInv
<1>2. CASE tail <= head
  <2>1. Lies(buf, added, Deleted, a, tail, head)
    BY <1>2 DEF QueueInv, LayoutInv
  <2>2. tail + n + 1 <= head /\ Lies(buf, added, Deleted + 1, a, tail + n + 1, head)
    <3>1. tail + added[Deleted + 1] + 1 <= head
          /\ Lies(buf, added, Deleted + 1, a, tail + added[Deleted + 1] + 1, head)
      BY <1>0, <2>1, LiesFirst
    <3> QED
      BY <1>0, <3>1
  <2> QED
    BY <1>0, <1>1, <1>2, <2>2 DEF LayoutInv
<1>3. CASE head < tail
  <2>1. PICK w \in Deleted .. a : \E e \in tail .. Size - 1 : Wrapped(w, e)
    BY <1>3 DEF QueueInv, LayoutInv
  <2>2. PICK e \in tail .. Size - 1 : Wrapped(w, e)
    BY <2>1
  <2>3. w \in Nat /\ w <= a /\ Deleted <= w /\ e \in Nat /\ e < Size
    BY <1>0
  <2>4. /\ buf[e] = Length(0)
        /\ Lies(buf, added, Deleted, w, tail, e)
        /\ Lies(buf, added, w, a, 0, head)
    BY <2>2 DEF Wrapped
  <2>5. Deleted < w
    <3>1. w # Deleted
      <4> SUFFICES ASSUME w = Deleted PROVE FALSE
        OBVIOUS
      <4>1. e = tail
        BY <1>0, <2>3, <2>4, LiesOrder
      <4> QED
        BY <1>0, <2>4, <4>1 DEF Length
    <3> QED
      BY <1>0, <2>3, <3>1
  <2>6. tail + n + 1 <= e /\ Lies(buf, added, Deleted + 1, w, tail + n + 1, e)
    <3>1. tail + added[Deleted + 1] + 1 <= e
          /\ Lies(buf, added, Deleted + 1, w, tail + added[Deleted + 1] + 1, e)
      BY <1>0, <2>3, <2>4, <2>5, LiesFirst
    <3> QED
      BY <1>0, <3>1
  <2>7. Wrapped(w, e)'
    BY <1>1, <2>4, <2>6 DEF Wrapped
  <2>8. w \in Deleted' .. Len(added') /\ e \in tail' .. Size - 1
    BY <1>0, <1>1, <2>3, <2>5, <2>6
  <2>9. head' < tail' /\ ~(tail' <= head') /\ tail <= tail'
    BY <1>0, <1>1, <1>3
  <2>10. Deleted' \in 0 .. Len(added')
    BY <1>0, <1>1
  <2>11. LayoutInv'
    BY <2>7, <2>8, <2>9, <2>10 DEF LayoutInv
  <2> QED
    BY <1>0, <1>3, <2>9, <2>11
<1> QED
  BY <1>0, <1>2, <1>3

\* The tail goes back to the beginning when the first part is read.
LEMMA ResetKeepsLayout ==
  ASSUME MgQueueAssumption, QueueInv, Reset
  PROVE  LayoutInv'
<1> DEFINE a == Len(added)
<1>0. /\ Deleted \in Nat /\ a \in Nat
      /\ \A m \in 1 .. a : added[m] \in Nat /\ added[m] # 0
      /\ head \in Nat /\ tail \in Nat /\ Size \in Nat
  BY Numbers
<1>1. /\ tail' = 0 /\ Deleted' = Deleted
      /\ UNCHANGED <<buf, head, added>>
      /\ head < tail /\ buf[tail] = Length(0)
  BY DEF Reset, producer, Deleted, QueueInv, ConsumerInv
<1>2. PICK w \in Deleted .. a : \E e \in tail .. Size - 1 : Wrapped(w, e)
  BY <1>1 DEF QueueInv, LayoutInv
<1>3. PICK e \in tail .. Size - 1 : Wrapped(w, e)
  BY <1>2
<1>4. w \in Nat /\ w <= a /\ Deleted <= w
  BY <1>0
<1>5. Lies(buf, added, Deleted, w, tail, e) /\ Lies(buf, added, w, a, 0, head)
  BY <1>3 DEF Wrapped
<1>6. w = Deleted
  <2> SUFFICES ASSUME Deleted < w PROVE FALSE
    BY <1>0, <1>4
  <2>1. added[Deleted + 1] \in Nat /\ added[Deleted + 1] # 0
    BY <1>0, <1>4
  <2>2. buf[tail] = Length(added[Deleted + 1])
    BY <1>0, <1>4, <1>5, <2>1, LiesFirst
  <2> QED
    BY <1>1, <2>1, <2>2 DEF Length
<1>7. Lies(buf, added, Deleted, a, 0, head)
  BY <1>5, <1>6
<1> QED
  BY <1>0, <1>1, <1>4, <1>7 DEF LayoutInv

LEMMA ConsumerKeepsLayout ==
  ASSUME MgQueueAssumption, QueueInv, Consume
  PROVE  LayoutInv'
<1>1. CASE Next0 \/ ReadLength \/ ReadAgain
  BY <1>1 DEF Next0, ReadLength, ReadAgain, producer, QueueInv, LayoutInv, Deleted, Wrapped
<1>2. CASE Receive
  <2>1. Deleted' = Deleted
    <3>1. Len(got') = Len(got) + 1 /\ Len(got) \in Nat
      BY <1>2, ConsumerKeepsTypes, Numbers DEF Receive, QueueInv, QueueTypes, Consume
    <3> QED
      BY <1>2, <3>1 DEF Receive, Deleted
  <2> QED
    BY <1>2, <2>1 DEF Receive, producer, QueueInv, LayoutInv, Wrapped
<1>3. CASE Reset
  BY <1>3, ResetKeepsLayout
<1>4. CASE Del
  BY <1>4, DelKeepsLayout
<1> QED
  BY <1>1, <1>2, <1>3, <1>4 DEF Consume

-----------------------------------------------------------------------------
(* The two sides *)

\* What the consumer does to the tail.
LEMMA ConsumerMoves ==
  ASSUME MgQueueAssumption, QueueInv, Consume
  PROVE  /\ UNCHANGED <<buf, head, producer, added>>
         /\ tail <= head => tail <= tail' /\ tail' <= head
         /\ head < tail => tail <= tail' \/ tail' = 0
         /\ tail' \in Nat /\ tail' < Size
<1>1. UNCHANGED <<buf, head, producer, added>>
  BY DEF Consume, Next0, ReadLength, ReadAgain, Receive, Reset, Del
<1>2. tail' \in Nat /\ tail' < Size
  BY ConsumerKeepsTypes, Numbers DEF QueueTypes
<1>3. CASE Del
  BY <1>1, <1>2, <1>3, DelKeepsLayout
<1>4. CASE Reset
  BY <1>1, <1>2, <1>4, Numbers DEF Reset, QueueInv, ConsumerInv
<1>5. CASE UNCHANGED tail
  BY <1>1, <1>2, <1>5, Numbers
<1> QED
  BY <1>3, <1>4, <1>5 DEF Consume, Next0, ReadLength, ReadAgain, Receive

\* Room that there is stays, whatever the consumer does.
LEMMA ConsumerKeepsProducerInv ==
  ASSUME MgQueueAssumption, QueueInv, Consume
  PROVE  ProducerInv'
<1>0. /\ head \in Nat /\ tail \in Nat /\ Size \in Nat /\ len \in Nat /\ space \in Nat
      /\ head < Size /\ tail < Size
  BY Numbers
<1>1. /\ UNCHANGED <<buf, head, ppc, len, space, added>>
      /\ tail <= head => tail <= tail' /\ tail' <= head
      /\ head < tail => tail <= tail' \/ tail' = 0
      /\ tail' \in Nat /\ tail' < Size
  BY ConsumerMoves DEF producer
<1>2. Room => Room'
  <2>1. CASE tail <= head
    BY <1>0, <1>1, <2>1 DEF Room, hs
  <2>2. CASE head < tail
    BY <1>0, <1>1, <2>2 DEF Room, hs
  <2> QED
    BY <1>0, <2>1, <2>2
<1>3. hs < tail /\ tail <= head => hs < tail' /\ tail' <= head
  BY <1>0, <1>1 DEF hs
<1>4. tail <= head => tail' <= head'
  BY <1>1
<1> QED
  BY <1>1, <1>2, <1>3, <1>4 DEF QueueInv, ProducerInv

LEMMA ProducerKeepsProducerInv ==
  ASSUME MgQueueAssumption, QueueInv, Produce
  PROVE  ProducerInv'
<1>0. /\ head \in Nat /\ tail \in Nat /\ Size \in Nat /\ len \in Nat /\ space \in Nat
      /\ head < Size /\ tail < Size /\ DOMAIN buf = 0 .. Size - 1
      /\ ProducerInv
      /\ ppc # "idle" => len # 0
  BY Numbers DEF QueueInv, QueueTypes
<1>1. CASE Book
  BY <1>1 DEF Book, ProducerInv
<1>2. CASE Ahead
  <2>1. CASE ppc' = "before"
    BY <1>0, <1>2, <2>1 DEF Ahead, ProducerInv, Room, hs
  <2>2. CASE ppc' = "wrap?"
    <3>1. space' = space
      BY <1>2, <2>2 DEF Ahead
    <3> QED
      BY <1>0, <1>2, <2>2, <3>1 DEF Ahead, ProducerInv
  <2> QED
    BY <1>2, <2>1, <2>2 DEF Ahead
<1>3. CASE WrapTest
  BY <1>0, <1>3 DEF WrapTest, ProducerInv
<1>4. CASE Mark
  <2>1. CASE tail > hs
    <3>1. buf'[head] = Length(0)
      BY <1>0, <1>4, <2>1 DEF Mark, Write
    <3> QED
      BY <1>0, <1>4, <2>1, <3>1 DEF Mark, ProducerInv, hs
  <2>2. CASE ~(tail > hs)
    BY <1>0, <1>4, <2>2 DEF Mark, ProducerInv
  <2> QED
    BY <2>1, <2>2
<1>5. CASE Wrap
  BY <1>0, <1>5 DEF Wrap, ProducerInv
<1>6. CASE Before
  <2>1. CASE head + hs + len < tail
    BY <1>0, <1>6, <2>1 DEF Before, ProducerInv, Room, hs
  <2>2. CASE ~(head + hs + len < tail)
    BY <1>0, <1>6, <2>2 DEF Before, ProducerInv, Room, hs
  <2> QED
    BY <2>1, <2>2
<1>7. CASE Space
  BY <1>0, <1>7 DEF Space, ProducerInv, Room
<1>8. CASE Fill
  <2>1. CASE space >= len
    <3>1. Room
      BY <1>0, <1>8, <2>1 DEF Fill, ProducerInv
    <3>2. \A k \in 1 .. len : head + k \in DOMAIN buf /\ head + k \in head + 1 .. head + len
                              /\ (head + k) - head = k
      <4>1. head + len < Size
        BY <1>0, <3>1 DEF Room, hs
      <4> QED
        BY <1>0, <4>1
    <3>3. \A k \in 1 .. len : buf'[head + k] = <<Len(added) + 1, k>>
      BY <1>8, <2>1, <3>2 DEF Fill
    <3>4. Room' /\ ppc' = "length" /\ UNCHANGED <<head, len, added>>
      BY <1>8, <2>1, <3>1 DEF Fill, Room, consumer
    <3> QED
      BY <3>3, <3>4 DEF ProducerInv
  <2>2. CASE ~(space >= len)
    BY <1>8, <2>2 DEF Fill, ProducerInv
  <2> QED
    BY <2>1, <2>2
<1>9. CASE AddLength
  <2>1. buf'[head] = Length(len) /\ \A k \in 1 .. len : buf'[head + k] = buf[head + k]
    <3>1. \A k \in 1 .. len : head + k # head
      BY <1>0
    <3> QED
      BY <1>0, <1>9, <3>1 DEF AddLength, Write
  <2>2. Room' /\ ppc' = "add" /\ UNCHANGED <<head, len, added>>
    BY <1>0, <1>9 DEF AddLength, ProducerInv, Room, consumer
  <2>3. \A k \in 1 .. len : buf[head + k] = <<Len(added) + 1, k>>
    BY <1>0, <1>9 DEF AddLength, ProducerInv
  <2> QED
    BY <2>1, <2>2, <2>3 DEF ProducerInv
<1>10. CASE Add
  BY <1>10 DEF Add, ProducerInv
<1> QED
  BY <1>1, <1>2, <1>3, <1>4, <1>5, <1>6, <1>7, <1>8, <1>9, <1>10 DEF Produce

\* What the producer does not touch.
LEMMA ProducerMoves ==
  ASSUME MgQueueAssumption, QueueInv, Produce
  PROVE  /\ UNCHANGED <<tail, consumer, got>>
         /\ \A m \in 1 .. Len(added) : added'[m] = added[m]
         /\ tail # head => tail # head' /\ buf'[tail] = buf[tail]
         /\ head < tail => head' < tail
<1>0. /\ head \in Nat /\ tail \in Nat /\ Size \in Nat /\ len \in Nat
      /\ head < Size /\ tail < Size /\ DOMAIN buf = 0 .. Size - 1
      /\ ProducerInv
  BY Numbers DEF QueueInv
<1>1. UNCHANGED <<tail, consumer, got>>
  BY DEF Produce, Book, Ahead, WrapTest, Mark, Wrap, Before, Space, Fill, AddLength, Add
<1>2. \A m \in 1 .. Len(added) : added'[m] = added[m]
  <2>1. CASE Add
    BY <2>1, AppendFacts DEF Add, QueueInv, QueueTypes
  <2>2. CASE UNCHANGED added
    BY <2>2
  <2> QED
    BY <2>1, <2>2 DEF Produce, Book, Ahead, WrapTest, Mark, Wrap, Before, Space, Fill, AddLength
<1>3. CASE UNCHANGED <<buf, head>>
  BY <1>1, <1>2, <1>3
<1>4. CASE Mark \/ AddLength
  <2>1. head' = head /\ (buf' = buf \/ \E l : buf' = [buf EXCEPT ![head] = l])
    BY <1>4 DEF Mark, AddLength, Write
  <2>2. tail # head => buf'[tail] = buf[tail]
    BY <1>0, <2>1
  <2> QED
    BY <1>1, <1>2, <2>1, <2>2
<1>5. CASE Wrap
  BY <1>0, <1>1, <1>2, <1>5 DEF Wrap, ProducerInv, hs
<1>6. CASE Fill /\ ~UNCHANGED buf
  <2>1. Room /\ head' = head
    BY <1>0, <1>6 DEF Fill, ProducerInv
  <2>2. tail \notin head + 1 .. head + len /\ tail \in DOMAIN buf
    BY <1>0, <2>1 DEF Room, hs
  <2>3. buf'[tail] = buf[tail]
    BY <1>6, <2>2 DEF Fill
  <2> QED
    BY <1>1, <1>2, <2>1, <2>3
<1>7. CASE Add
  <2>1. Room /\ head' = head + len + 1 /\ buf' = buf
    BY <1>0, <1>7 DEF Add, ProducerInv
  <2>2. (tail # head => tail # head') /\ (head < tail => head' < tail)
    BY <1>0, <2>1 DEF Room, hs
  <2> QED
    BY <1>1, <1>2, <2>1, <2>2
<1> QED
  BY <1>3, <1>4, <1>5, <1>6, <1>7 DEF Produce, Book, Ahead, WrapTest, Before, Space, Fill

LEMMA ProducerKeepsConsumerInv ==
  ASSUME MgQueueAssumption, QueueInv, Produce
  PROVE  ConsumerInv'
<1>1. /\ UNCHANGED <<tail, cpc, n, got>>
      /\ \A m \in 1 .. Len(added) : added'[m] = added[m]
      /\ tail # head => tail # head' /\ buf'[tail] = buf[tail]
      /\ head < tail => head' < tail
  BY ProducerMoves DEF consumer
<1>2. \A m \in DOMAIN got : m \in 1 .. Len(added)
  BY GotFacts, Numbers
<1>3. \A m \in DOMAIN got' : got'[m] = [k \in 1 .. added'[m] |-> <<m, k>>]
  BY <1>1, <1>2 DEF QueueInv, ConsumerInv
<1>4. ConsumerInv
  BY DEF QueueInv
<1> QED
  BY <1>1, <1>3, <1>4 DEF ConsumerInv

LEMMA ConsumerKeepsConsumerInv ==
  ASSUME MgQueueAssumption, QueueInv, Consume
  PROVE  ConsumerInv'
<1>0. /\ head \in Nat /\ tail \in Nat /\ Size \in Nat
      /\ ConsumerInv /\ n \in Nat
      /\ Deleted \in Nat /\ Len(added) \in Nat
      /\ \A m \in 1 .. Len(added) : added[m] \in Nat /\ added[m] # 0
  BY Numbers DEF QueueInv, QueueTypes
<1>1. CASE Next0
  BY <1>0, <1>1 DEF Next0, producer, ConsumerInv
<1>2. CASE ReadLength
  <2>1. \/ buf[tail] = Length(0) /\ head < tail
        \/ \E l \in Nat : l # 0 /\ buf[tail] = Length(l)
    <3>1. tail # head
      BY <1>0, <1>2 DEF ReadLength, ConsumerInv
    <3>2. Deleted < Len(added) => Deleted + 1 \in 1 .. Len(added)
      BY <1>0
    <3> QED
      BY <1>0, <3>1, <3>2, Front
  <2>2. \A l : Length(l)[2] = l
    BY DEF Length
  <2>3. buf[tail] = Length(n')
    BY <1>2, <2>1, <2>2 DEF ReadLength
  <2>4. n' = 0 => head < tail
    BY <1>2, <2>1, <2>2 DEF ReadLength
  <2> QED
    BY <1>0, <1>2, <2>3, <2>4 DEF ReadLength, producer, ConsumerInv
<1>3. CASE Reset
  BY <1>0, <1>3 DEF Reset, producer, ConsumerInv
<1>4. CASE ReadAgain
  <2>1. CASE head > tail
    <3>1. \E l \in Nat : l # 0 /\ buf[tail] = Length(l)
      <4>1. tail # head /\ ~(head < tail)
        BY <1>0, <2>1
      <4>2. Deleted < Len(added) => Deleted + 1 \in 1 .. Len(added)
        BY <1>0
      <4> QED
        BY <1>0, <4>1, <4>2, Front
    <3>2. n' # 0 /\ buf[tail] = Length(n')
      BY <1>4, <2>1, <3>1 DEF ReadAgain, Length
    <3> QED
      BY <1>0, <1>4, <2>1, <3>2 DEF ReadAgain, producer, ConsumerInv
  <2>2. CASE ~(head > tail)
    BY <1>0, <1>4, <2>2 DEF ReadAgain, producer, ConsumerInv
  <2> QED
    BY <2>1, <2>2
<1>5. CASE Receive
  <2> DEFINE new == [k \in 1 .. n |-> buf[tail + k]]
  <2>1. got \in Seq(Seq(Nat \X Nat)) /\ got' \in Seq(Seq(Nat \X Nat))
    BY <1>5, ConsumerKeepsTypes DEF QueueInv, QueueTypes, Consume
  <2>2. got' = Append(got, new) /\ cpc' = "del" /\ UNCHANGED <<buf, head, tail, n, added>>
        /\ cpc = "read" /\ Deleted = Len(got)
    BY <1>5 DEF Receive, producer, Deleted
  <2>3. new = [k \in 1 .. added[Len(got) + 1] |-> <<Len(got) + 1, k>>]
    BY <2>2, Reading
  <2> HIDE DEF new
  <2>4. /\ Len(got) \in Nat /\ DOMAIN got = 1 .. Len(got) /\ DOMAIN got' = 1 .. Len(got) + 1
        /\ got'[Len(got) + 1] = new /\ \A m \in 1 .. Len(got) : got'[m] = got[m]
        /\ Len(got') = Len(got) + 1
    BY <2>1, <2>2, LenProperties, AppendProperties
  <2>5. \A m \in DOMAIN got' : m \in DOMAIN got \/ m = Len(got) + 1
    BY <2>4
  <2>6. \A m \in DOMAIN got' : got'[m] = [k \in 1 .. added[m] |-> <<m, k>>]
    BY <1>0, <2>3, <2>4, <2>5 DEF ConsumerInv
  <2>7. Len(got') # 0
    BY <2>4
  <2> QED
    BY <1>0, <2>2, <2>6, <2>7 DEF ConsumerInv
<1>6. CASE Del
  BY <1>0, <1>6 DEF Del, producer, ConsumerInv
<1> QED
  BY <1>1, <1>2, <1>3, <1>4, <1>5, <1>6 DEF Consume

LEMMA QueueNext == MgQueueAssumption /\ QueueInv /\ [Next]_vars => QueueInv'
<1> SUFFICES ASSUME MgQueueAssumption, QueueInv, [Next]_vars PROVE QueueInv'
  OBVIOUS
<1>1. CASE UNCHANGED vars
  BY <1>1 DEF vars, producer, consumer, QueueInv, QueueTypes, LayoutInv, Deleted, Wrapped,
              ProducerInv, Room, ConsumerInv
<1>2. CASE Produce
  BY <1>2, ProducerKeepsTypes, ProducerKeepsLayout, ProducerKeepsProducerInv,
     ProducerKeepsConsumerInv DEF QueueInv
<1>3. CASE Consume
  BY <1>3, ConsumerKeepsTypes, ConsumerKeepsLayout, ConsumerKeepsProducerInv,
     ConsumerKeepsConsumerInv DEF QueueInv
<1> QED
  BY <1>1, <1>2, <1>3 DEF Next

\* What follows of a state.
LEMMA QueueIsTrue == MgQueueAssumption /\ QueueInv => MessagesIntact /\ AssertsHold
<1> SUFFICES ASSUME MgQueueAssumption, QueueInv PROVE MessagesIntact /\ AssertsHold
  OBVIOUS
<1>1. MessagesIntact
  BY GotFacts DEF QueueInv, ConsumerInv, MessagesIntact
<1>2. AssertsHold
  <2>0. /\ head \in Nat /\ tail \in Nat /\ Size \in Nat /\ len \in Nat /\ n \in Nat
        /\ head < Size /\ tail < Size
        /\ Deleted \in Nat /\ Len(added) \in Nat
        /\ \A m \in 1 .. Len(added) : added[m] \in Nat /\ added[m] # 0
    BY Numbers DEF QueueInv, QueueTypes
  <2>1. tail # head => buf[tail][1] = 0 /\ tail + buf[tail][2] + 1 <= Size
    <3> SUFFICES ASSUME tail # head PROVE buf[tail][1] = 0 /\ tail + buf[tail][2] + 1 <= Size
      OBVIOUS
    <3>1. CASE buf[tail] = Length(0)
      BY <2>0, <3>1 DEF Length
    <3>2. CASE buf[tail] # Length(0)
      <4>1. Deleted < Len(added) /\ buf[tail] = Length(added[Deleted + 1])
            /\ tail + added[Deleted + 1] + 1 < Size
        BY <3>2, Front
      <4>2. added[Deleted + 1] \in Nat
        BY <2>0, <4>1
      <4>3. buf[tail][1] = 0 /\ buf[tail][2] = added[Deleted + 1]
        BY <4>1 DEF Length
      <4> QED
        BY <2>0, <4>1, <4>2, <4>3
    <3> QED
      BY <3>1, <3>2
  <2>2. cpc = "length" \/ (cpc = "again" /\ head > tail) => tail # head
    BY <2>0 DEF QueueInv, ConsumerInv
  <2>3. cpc \in {"read", "del"} => tail + n <= Size
    BY <2>0, Reading
  <2>4. ppc = "add" => head + hs + len <= Size
    BY <2>0 DEF QueueInv, ProducerInv, Room, hs
  <2>5. tail + 1 <= Size
    BY <2>0
  <2> QED
    BY <2>1, <2>2, <2>3, <2>4, <2>5 DEF AssertsHold
<1> QED
  BY <1>1, <1>2

\* For every size of the buffer and all lengths of messages, the unread
\* messages lie between tail and head as LayoutInv says, and each side's local
\* variables agree with what it is about to do.
THEOREM MgQueueInvariant == MgQueueAssumption => (Spec => []QueueInv)
<1> SUFFICES ASSUME MgQueueAssumption PROVE Spec => []QueueInv
  OBVIOUS
<1>1. Init => QueueInv
  BY QueueInit
<1>2. QueueInv /\ [Next]_vars => QueueInv'
  BY QueueNext
<1> QED
  BY <1>1, <1>2, PTL DEF Spec

\* The consumer receives what was added, in order, whole and unchanged.
THEOREM MessagesArriveIntact == MgQueueAssumption => (Spec => []MessagesIntact)
<1> SUFFICES ASSUME MgQueueAssumption PROVE Spec => []MessagesIntact
  OBVIOUS
<1>1. QueueInv => MessagesIntact
  BY QueueIsTrue
<1> QED
  BY <1>1, MgQueueInvariant, PTL

\* No assertion of queue.c fails.
THEOREM QueueAssertsHold == MgQueueAssumption => (Spec => []AssertsHold)
<1> SUFFICES ASSUME MgQueueAssumption PROVE Spec => []AssertsHold
  OBVIOUS
<1>1. QueueInv => AssertsHold
  BY QueueIsTrue
<1> QED
  BY <1>1, MgQueueInvariant, PTL

-----------------------------------------------------------------------------
(* TCP, for any number of bytes, segments, faults and connections          *)
(*                                                                         *)
(* Of a segment's data only the numbers matter: the peer's segments carry  *)
(* the bytes that their numbers say, and so do mongoose's, until one is    *)
(* sent after a second FIN.  A connection that takes a segment at the      *)
(* number it has got to has read without a gap, and goes beyond the peer's *)
(* last byte only by its FIN, after which no data is at that number.       *)

Flags == {"SYN", "ACK", "FIN", "RST", "PUSH"}

Segs == [flags : SUBSET Flags, seq : Int, ack : Int, data : Seq(Int)]

\* What the peer sends.
UpSegs(max) ==
  {g \in Segs :
     /\ g.data # <<>> => /\ g.seq >= 1 /\ g.seq + Len(g.data) <= max + 1
                         /\ g.data = T!Bytes(g.seq, Len(g.data))
     /\ "FIN" \in g.flags => g.data = <<>> /\ g.seq > max
     /\ g.flags = {"SYN", "ACK"} => g.seq = 0 /\ g.ack = 1}

\* What mongoose sends, as long as nothing is astray.
DownSegs == {g \in Segs : g.data = T!Bytes(g.seq, Len(g.data))}

TcpConns == [seq : Int, ack : Int, ttype : {"KEEPALIVE", "ARP", "SYN", "ACK", "FIN"}, tmiss : Nat,
          connecting : BOOLEAN, arplooking : BOOLEAN, draining : BOOLEAN,
          closing : BOOLEAN, recv : Seq(Int), send : Seq(Int)]

Peers == [st : {"closed", "syn", "open", "wait", "dead"}, una : Nat, nxt : Nat, rcv : Nat,
          got : Seq(Int), fin : BOOLEAN, saw : BOOLEAN]

TcpPasts == [role : {"server", "client"}, conns : Nat, faults : Nat, app : Nat,
          drained : BOOLEAN, from : Int, renumbered : BOOLEAN, astray : BOOLEAN]

Streams == /\ up \in Seq(UpSegs(T!Sent))
           /\ down \in Seq(Segs)
           /\ past.astray \/ down \in Seq(DownSegs)

\* A connection reads on where it has got to, or has read to the end.
Reads(s) ==
  /\ s.recv = T!Bytes(past.from, Len(s.recv))
  /\ IF s.connecting THEN past.role = "client" /\ s.recv = <<>> /\ s.ack = 0
     ELSE s.ack = past.from + Len(s.recv) \/ s.ack > T!Sent
  /\ past.role = "client" => past.from = 1

\* It numbers by what it has sent of what the application has said.
Writes(s) ==
  /\ s.send = T!Bytes(past.app + 1 - Len(s.send), Len(s.send))
  /\ s.connecting => Len(s.send) = past.app
  /\ ~s.connecting /\ ~past.renumbered => s.seq = past.app + 1 - Len(s.send)

ConnInv == c # NONE => c \in TcpConns /\ Reads(c) /\ Writes(c)

PeerInv ==
  /\ peer \in Peers
  /\ peer.st = "syn" => /\ peer.got = <<>> /\ ~peer.saw /\ peer.una = 0 /\ peer.nxt = 1
                        /\ peer.rcv = IF past.role = "client" THEN 1 ELSE 0
  /\ peer.st \in {"open", "wait"} => /\ peer.una >= 1
                                     /\ ~peer.saw => peer.rcv = 1 + Len(peer.got)
  /\ past.astray \/ peer.got = T!Bytes(1, Len(peer.got))

\* Before the first connection there is one segment at a time.
Beginning ==
  past.role = "server" /\ past.conns = 0 /\ past.faults = 0 =>
    /\ c = NONE
    /\ \/ peer.st = "closed" /\ up = <<>> /\ down = <<>>
       \/ /\ peer.st = "syn"
          /\ \/ up = <<T!Seg({"SYN"}, 0, 0, <<>>)>> /\ down = <<>>
             \/ up = <<>> /\ down = <<T!Seg({"SYN", "ACK"}, 0, 1, <<>>)>>
       \/ /\ peer.st = "open" /\ down = <<>>
          /\ up # <<>> /\ Head(up) = T!Seg({"ACK"}, 1, 1, <<>>)

TcpInv == /\ past \in TcpPasts
          /\ Streams /\ ConnInv /\ PeerInv /\ Beginning /\ T!NothingMissed

LEMMA BytesFacts ==
  ASSUME NEW f \in Int, NEW k \in Nat
  PROVE  /\ T!Bytes(f, k) \in Seq(Int) /\ Len(T!Bytes(f, k)) = k
         /\ \A i \in 1 .. k : T!Bytes(f, k)[i] = f + i - 1
  BY SMT DEF T!Bytes

LEMMA NoBytes ==
  ASSUME NEW f \in Int
  PROVE  T!Bytes(f, 0) = <<>>
  BY BytesFacts, EmptyFacts

\* Two runs of bytes one behind the other are one.
LEMMA BytesConcat ==
  ASSUME NEW f \in Int, NEW j \in Nat, NEW k \in Nat
  PROVE  T!Bytes(f, j) \o T!Bytes(f + j, k) = T!Bytes(f, j + k)
<1> DEFINE a == T!Bytes(f, j)
           b == T!Bytes(f + j, k)
           w == T!Bytes(f, j + k)
<1>1. /\ f + j \in Int /\ j + k \in Nat
  OBVIOUS
<1>2. /\ a \in Seq(Int) /\ Len(a) = j /\ \A i \in 1 .. j : a[i] = f + i - 1
      /\ b \in Seq(Int) /\ Len(b) = k /\ \A i \in 1 .. k : b[i] = f + j + i - 1
      /\ w \in Seq(Int) /\ Len(w) = j + k /\ \A i \in 1 .. j + k : w[i] = f + i - 1
  BY <1>1, BytesFacts
<1> HIDE DEF a, b, w
<1>3. /\ a \o b \in Seq(Int) /\ Len(a \o b) = j + k
      /\ \A i \in 1 .. j + k : (a \o b)[i] = IF i <= j THEN a[i] ELSE b[i - j]
  <2>1. a \in Seq(Int) /\ b \in Seq(Int)
    BY <1>2
  <2>2. /\ a \o b \in Seq(Int) /\ Len(a \o b) = Len(a) + Len(b)
        /\ \A i \in 1 .. Len(a) + Len(b) :
             (a \o b)[i] = IF i <= Len(a) THEN a[i] ELSE b[i - Len(a)]
    BY SMTT(30), <2>1, ConcatProperties
  <2>3. Len(a) = j /\ Len(b) = k
    BY <1>2
  <2> QED
    BY <2>2, <2>3
<1>4. \A i \in 1 .. j + k : (a \o b)[i] = w[i]
  <2> TAKE i \in 1 .. j + k
  <2>1. CASE i <= j
    BY <2>1, <1>2, <1>3
  <2>2. CASE ~(i <= j)
    <3>1. i - j \in 1 .. k
      BY <2>2
    <3> QED BY SMTT(30), <2>2, <3>1, <1>2, <1>3
  <2> QED BY <2>1, <2>2
<1>5. a \o b = w
  BY <1>2, <1>3, <1>4, SeqEqual
<1> QED BY <1>5 DEF a, b, w

LEMMA BytesAppend ==
  ASSUME NEW f \in Int, NEW k \in Nat
  PROVE  Append(T!Bytes(f, k), f + k) = T!Bytes(f, k + 1)
<1>1. /\ T!Bytes(f, k) \in Seq(Int) /\ Len(T!Bytes(f, k)) = k
      /\ \A i \in 1 .. k : T!Bytes(f, k)[i] = f + i - 1
      /\ T!Bytes(f, k + 1) \in Seq(Int) /\ Len(T!Bytes(f, k + 1)) = k + 1
      /\ \A i \in 1 .. k + 1 : T!Bytes(f, k + 1)[i] = f + i - 1
      /\ f + k \in Int
  BY BytesFacts
<1>2. /\ Append(T!Bytes(f, k), f + k) \in Seq(Int)
      /\ Len(Append(T!Bytes(f, k), f + k)) = k + 1
      /\ \A i \in 1 .. k + 1 : Append(T!Bytes(f, k), f + k)[i] = f + i - 1
  BY <1>1, AppendFacts
<1> QED BY SMTT(30), <1>1, <1>2, SeqEqual

LEMMA BytesSplit ==
  ASSUME NEW f \in Int, NEW k \in Nat, NEW j \in 0 .. k
  PROVE  /\ SubSeq(T!Bytes(f, k), 1, j) = T!Bytes(f, j)
         /\ SubSeq(T!Bytes(f, k), j + 1, k) = T!Bytes(f + j, k - j)
<1>1. /\ T!Bytes(f, k) \in Seq(Int) /\ Len(T!Bytes(f, k)) = k
      /\ \A i \in 1 .. k : T!Bytes(f, k)[i] = f + i - 1
  BY BytesFacts
<1>2. /\ T!Bytes(f, j) \in Seq(Int) /\ Len(T!Bytes(f, j)) = j
      /\ \A i \in 1 .. j : T!Bytes(f, j)[i] = f + i - 1
  BY BytesFacts
<1>3. f + j \in Int /\ k - j \in Nat
  OBVIOUS
<1>4. /\ T!Bytes(f + j, k - j) \in Seq(Int) /\ Len(T!Bytes(f + j, k - j)) = k - j
      /\ \A i \in 1 .. k - j : T!Bytes(f + j, k - j)[i] = f + j + i - 1
  BY <1>3, BytesFacts
<1>5. \A i \in 1 .. k : T!Bytes(f, k)[i] \in Int
  BY <1>1
<1>6. /\ SubSeq(T!Bytes(f, k), 1, j) \in Seq(Int) /\ Len(SubSeq(T!Bytes(f, k), 1, j)) = j
      /\ \A i \in 1 .. j : SubSeq(T!Bytes(f, k), 1, j)[i] = T!Bytes(f, k)[i]
  <2>1. \A i \in 1 .. j : T!Bytes(f, k)[i] \in Int
    BY <1>5
  <2> QED BY <2>1, SubSeqProperties
<1>7. /\ SubSeq(T!Bytes(f, k), j + 1, k) \in Seq(Int) /\ Len(SubSeq(T!Bytes(f, k), j + 1, k)) = k - j
      /\ \A i \in 1 .. k - j : SubSeq(T!Bytes(f, k), j + 1, k)[i] = T!Bytes(f, k)[j + i]
  <2>1. \A i \in j + 1 .. k : T!Bytes(f, k)[i] \in Int
    BY <1>5
  <2>2. j + 1 \in Int /\ k \in Int
    OBVIOUS
  <2> DEFINE r == SubSeq(T!Bytes(f, k), j + 1, k)
  <2>3. /\ r \in Seq(Int) /\ Len(r) = IF j + 1 <= k THEN k - (j + 1) + 1 ELSE 0
        /\ \A i \in 1 .. k - (j + 1) + 1 : r[i] = T!Bytes(f, k)[j + 1 + i - 1]
    BY <2>1, <2>2, SubSeqProperties
  <2> HIDE DEF r
  <2>4. Len(r) = k - j
    BY <2>3
  <2>5. \A i \in 1 .. k - j : i \in 1 .. k - (j + 1) + 1 /\ j + 1 + i - 1 = j + i
    OBVIOUS
  <2>6. \A i \in 1 .. k - j : r[i] = T!Bytes(f, k)[j + i]
    BY <2>3, <2>5
  <2> QED BY <2>3, <2>4, <2>6 DEF r
<1>8. SubSeq(T!Bytes(f, k), 1, j) = T!Bytes(f, j)
  <2>1. \A i \in 1 .. j : T!Bytes(f, k)[i] = T!Bytes(f, j)[i]
    BY <1>1, <1>2
  <2> QED BY <2>1, <1>2, <1>6, SeqEqual
<1>9. SubSeq(T!Bytes(f, k), j + 1, k) = T!Bytes(f + j, k - j)
  <2>1. \A i \in 1 .. k - j : T!Bytes(f, k)[j + i] = f + j + i - 1
    <3> TAKE i \in 1 .. k - j
    <3>1. j + i \in 1 .. k
      OBVIOUS
    <3>2. T!Bytes(f, k)[j + i] = f + (j + i) - 1
      BY <3>1, <1>1
    <3>3. f + (j + i) - 1 = f + j + i - 1
      OBVIOUS
    <3> QED BY <3>2, <3>3
  <2> DEFINE r == SubSeq(T!Bytes(f, k), j + 1, k)
             t == T!Bytes(f + j, k - j)
  <2>2. /\ r \in Seq(Int) /\ t \in Seq(Int) /\ Len(r) = k - j /\ Len(t) = k - j
        /\ \A i \in 1 .. k - j : r[i] = T!Bytes(f, k)[j + i] /\ t[i] = f + j + i - 1
    BY <1>4, <1>7
  <2> HIDE DEF r, t
  <2>3. \A i \in 1 .. Len(r) : r[i] = t[i]
    BY <2>1, <2>2
  <2>4. r = t
    BY <2>2, <2>3, SeqEqual
  <2> QED BY <2>4 DEF r, t
<1> QED BY <1>8, <1>9

-----------------------------------------------------------------------------
(* Segments and the peer *)

LEMMA SegIn ==
  ASSUME NEW flags \in SUBSET Flags, NEW x \in Int, NEW y \in Int,
         NEW b \in Seq(Int)
  PROVE  /\ T!Seg(flags, x, y, b) \in Segs
         /\ T!Seg(flags, x, y, b).flags = flags /\ T!Seg(flags, x, y, b).seq = x
         /\ T!Seg(flags, x, y, b).ack = y /\ T!Seg(flags, x, y, b).data = b
  BY DEF T!Seg, Segs

LEMMA EmptySeg ==
  ASSUME NEW flags \in SUBSET Flags, NEW x \in Int, NEW y \in Int
  PROVE  /\ T!Seg(flags, x, y, <<>>) \in DownSegs
         /\ T!Seg(flags, x, y, <<>>) \in Segs
<1> DEFINE s == T!Seg(flags, x, y, <<>>)
<1>1. <<>> \in Seq(Int) /\ Len(<<>>) = 0
  BY EmptySeq
<1>2. s \in Segs /\ s.data = <<>> /\ s.seq = x
  BY <1>1 DEF T!Seg, Segs
<1>3. T!Bytes(x, 0) = <<>>
  BY NoBytes
<1> HIDE DEF s
<1>4. s \in DownSegs
  BY <1>1, <1>2, <1>3 DEF DownSegs
<1> QED BY <1>2, <1>4 DEF s

\* Segments without data that the peer may send.
LEMMA EmptyUpSeg ==
  ASSUME NEW flags \in SUBSET Flags, NEW x \in Int, NEW y \in Int, NEW m,
         "FIN" \in flags => x > m,
         flags = {"SYN", "ACK"} => x = 0 /\ y = 1
  PROVE  T!Seg(flags, x, y, <<>>) \in UpSegs(m)
<1> DEFINE s == T!Seg(flags, x, y, <<>>)
<1>1. <<>> \in Seq(Int)
  BY EmptySeq
<1>2. s \in Segs /\ s.data = <<>> /\ s.seq = x /\ s.flags = flags /\ s.ack = y
  BY <1>1 DEF T!Seg, Segs
<1> HIDE DEF s
<1>3. s \in UpSegs(m)
  BY <1>2 DEF UpSegs
<1> QED BY <1>3 DEF s

\* What the peer sends.
LEMMA PeerSegIn ==
  ASSUME T!MgTcpipAssumption, past \in TcpPasts, NEW p \in Peers, NEW k \in Nat,
         k = 0 => p.rcv \in {0, 1}
  PROVE  T!PeerSeg(p, k) \in UpSegs(T!Sent) /\ Len(T!PeerSeg(p, k).data) \in Nat
<1>1. T!Sent \in Nat /\ Mss \in Nat \ {0} /\ p.rcv \in Nat
  BY DEF T!MgTcpipAssumption, TcpPasts, T!Sent, Peers
<1>2. CASE k = 0
  <2>1. T!PeerSeg(p, k) = T!Seg(IF p.rcv = 0 THEN {"SYN"} ELSE {"SYN", "ACK"}, 0, p.rcv, <<>>)
    BY <1>2 DEF T!PeerSeg
  <2>2. Len(T!PeerSeg(p, k).data) = 0
    BY <2>1, EmptySeq DEF T!Seg
  <2>3. CASE p.rcv = 0
    <3>1. {"SYN"} \in SUBSET Flags /\ "FIN" \notin {"SYN"} /\ {"SYN"} # {"SYN", "ACK"}
      BY DEF Flags
    <3>2. T!PeerSeg(p, k) = T!Seg({"SYN"}, 0, p.rcv, <<>>)
      BY <2>1, <2>3
    <3>3. T!Seg({"SYN"}, 0, p.rcv, <<>>) \in UpSegs(T!Sent)
      <4>1. 0 \in Int /\ p.rcv \in Int
        BY <1>1
      <4> QED BY <3>1, <4>1, EmptyUpSeg
    <3> QED BY <3>2, <3>3, <2>2
  <2>4. CASE p.rcv # 0
    <3>1. p.rcv = 1
      BY <2>4, <1>2
    <3>2. {"SYN", "ACK"} \in SUBSET Flags /\ "FIN" \notin {"SYN", "ACK"}
      BY DEF Flags
    <3>3. T!PeerSeg(p, k) = T!Seg({"SYN", "ACK"}, 0, 1, <<>>)
      BY <2>1, <2>4, <3>1
    <3>4. T!Seg({"SYN", "ACK"}, 0, 1, <<>>) \in UpSegs(T!Sent)
      <4>1. 0 \in Int /\ 1 \in Int
        OBVIOUS
      <4> QED BY <3>2, <4>1, EmptyUpSeg
    <3> QED BY <3>3, <3>4, <2>2
  <2> QED BY <2>3, <2>4
<1>3. CASE k \in 1 .. T!Sent
  <2> DEFINE w == T!Smaller(Mss, T!Sent + 1 - k)
             s == T!Seg({"ACK"}, k, p.rcv, T!Bytes(k, w))
  <2>1. w \in Nat /\ w <= T!Sent + 1 - k
    BY <1>1, <1>3 DEF T!Smaller
  <2>2. T!PeerSeg(p, k) = s
    BY <1>3 DEF T!PeerSeg
  <2> HIDE DEF w
  <2>3. T!Bytes(k, w) \in Seq(Int) /\ Len(T!Bytes(k, w)) = w
    BY <2>1, BytesFacts
  <2>4. {"ACK"} \in SUBSET Flags /\ "FIN" \notin {"ACK"} /\ {"ACK"} # {"SYN", "ACK"}
    BY DEF Flags
  <2>5. /\ s \in Segs /\ s.data = T!Bytes(k, w) /\ s.seq = k
        /\ s.flags = {"ACK"}
    BY <2>3, <2>4, <1>1, SegIn
  <2> HIDE DEF s
  <2>6. k + w <= T!Sent + 1 /\ k >= 1
    BY <2>1, <1>1, <1>3
  <2>7. s \in UpSegs(T!Sent)
    BY <2>3, <2>4, <2>5, <2>6 DEF UpSegs
  <2> QED BY <2>1, <2>2, <2>3, <2>5, <2>7
<1>4. CASE k \notin 0 .. T!Sent
  <2>1. {"FIN", "ACK"} \in SUBSET Flags /\ {"FIN", "ACK"} # {"SYN", "ACK"}
    BY DEF Flags
  <2>2. k > T!Sent /\ k # 0 /\ k \notin 1 .. T!Sent
    BY <1>4, <1>1
  <2>3. T!PeerSeg(p, k) = T!Seg({"FIN", "ACK"}, k, p.rcv, <<>>)
    BY <2>2 DEF T!PeerSeg
  <2>4. Len(T!PeerSeg(p, k).data) = 0
    BY <2>3, EmptySeq DEF T!Seg
  <2>5. T!Seg({"FIN", "ACK"}, k, p.rcv, <<>>) \in UpSegs(T!Sent)
    <3>1. k \in Int /\ p.rcv \in Int
      BY <1>1
    <3> QED BY <2>1, <2>2, <3>1, EmptyUpSeg
  <2> QED BY <2>3, <2>4, <2>5
<1> QED BY <1>1, <1>2, <1>3, <1>4

LEMMA PeerAckIn ==
  ASSUME NEW p \in Peers, NEW m
  PROVE  T!PeerAck(p) \in UpSegs(m)
<1>1. {"ACK"} \in SUBSET Flags /\ "FIN" \notin {"ACK"} /\ {"ACK"} # {"SYN", "ACK"}
  BY DEF Flags
<1>2. p.nxt \in Int /\ p.rcv \in Int
  BY DEF Peers
<1> QED BY <1>1, <1>2, EmptyUpSeg DEF T!PeerAck

\* What an open peer makes of a segment.
LEMMA TakeFacts ==
  ASSUME NEW p \in Peers, p.st \in {"open", "wait"}, NEW g \in Segs,
         ~p.saw => p.rcv = 1 + Len(p.got)
  PROVE  /\ T!Take(p, g) \in Peers
         /\ T!Take(p, g).st \in {"open", "wait"}
         /\ T!Take(p, g).una = IF g.ack \in p.una .. p.nxt THEN g.ack ELSE p.una
         /\ T!Take(p, g).una >= p.una
         /\ ~T!Take(p, g).saw => T!Take(p, g).rcv = 1 + Len(T!Take(p, g).got)
         /\ p.got = T!Bytes(1, Len(p.got)) /\ g.data = T!Bytes(g.seq, Len(g.data))
              => T!Take(p, g).got = T!Bytes(1, Len(T!Take(p, g).got))
<1> DEFINE inorder == g.seq = p.rcv /\ ~p.saw
           more == IF inorder THEN Len(g.data) ELSE 0
           fin == inorder /\ "FIN" \in g.flags
           una == IF g.ack \in p.una .. p.nxt THEN g.ack ELSE p.una
           bytes == IF inorder THEN g.data ELSE <<>>
           q == [p EXCEPT !.una = una, !.rcv = @ + more + (IF fin THEN 1 ELSE 0),
                          !.got = @ \o bytes, !.saw = @ \/ fin]
<1>1. /\ g.data \in Seq(Int) /\ g.seq \in Int /\ g.ack \in Int
      /\ p.got \in Seq(Int) /\ p.una \in Nat /\ p.nxt \in Nat /\ p.rcv \in Nat
      /\ p.saw \in BOOLEAN
  BY DEF Segs, Peers
<1>2. /\ Len(g.data) \in Nat /\ Len(p.got) \in Nat
      /\ <<>> \in Seq(Int) /\ Len(<<>>) = 0
  BY <1>1, LenProperties, EmptySeq
<1>3. /\ bytes \in Seq(Int) /\ Len(bytes) = more /\ more \in Nat
      /\ p.got \o bytes \in Seq(Int) /\ Len(p.got \o bytes) = Len(p.got) + more
  <2>1. bytes \in Seq(Int) /\ Len(bytes) = more /\ more \in Nat
    BY <1>1, <1>2
  <2> HIDE DEF bytes, more
  <2> QED BY <2>1, <1>1, ConcatProperties
<1>4. una \in Nat /\ una >= p.una
  BY <1>1
<1>5. /\ T!Take(p, g) = [q EXCEPT !.st = IF q.saw /\ q.fin /\ q.una = q.nxt THEN "wait" ELSE @]
  BY DEF T!Take
<1>6. p.got = T!Bytes(1, Len(p.got)) /\ g.data = T!Bytes(g.seq, Len(g.data))
        => p.got \o bytes = T!Bytes(1, Len(p.got \o bytes))
  <2> SUFFICES ASSUME p.got = T!Bytes(1, Len(p.got)), g.data = T!Bytes(g.seq, Len(g.data))
               PROVE  p.got \o bytes = T!Bytes(1, Len(p.got) + more)
    BY <1>3
  <2>1. CASE inorder
    <3>1. g.seq = 1 + Len(p.got) /\ bytes = T!Bytes(1 + Len(p.got), Len(g.data)) /\ more = Len(g.data)
      BY <2>1
    <3>2. T!Bytes(1, Len(p.got)) \o T!Bytes(1 + Len(p.got), Len(g.data))
            = T!Bytes(1, Len(p.got) + Len(g.data))
      <4>1. 1 \in Int
        OBVIOUS
      <4> QED BY <4>1, <1>2, BytesConcat
    <3> QED BY <3>1, <3>2
  <2>2. CASE ~inorder
    <3>1. bytes = <<>> /\ more = 0
      BY <2>2
    <3>2. p.got \o <<>> = p.got /\ Len(p.got) + 0 = Len(p.got)
      BY <1>1, <1>2, ConcatEmptySeq
    <3> QED BY <3>1, <3>2
  <2> QED BY <2>1, <2>2
<1> DEFINE rcv == p.rcv + more + (IF fin THEN 1 ELSE 0)
           saw == p.saw \/ fin
           all == p.got \o bytes
<1>7. /\ rcv \in Nat /\ saw \in BOOLEAN
      /\ ~saw => rcv = 1 + Len(p.got \o bytes)
  <2>1. rcv \in Nat
    BY <1>1, <1>3
  <2>2. saw \in BOOLEAN
    OBVIOUS
  <2>3. ASSUME ~saw  PROVE rcv = 1 + Len(p.got \o bytes)
    <3>1. ~p.saw /\ ~fin
      BY <2>3
    <3>2. p.rcv = 1 + Len(p.got) /\ rcv = p.rcv + more + 0
      BY <3>1
    <3> HIDE DEF rcv, more, bytes
    <3> QED BY <3>2, <1>2, <1>3
  <2> QED BY <2>1, <2>2, <2>3
<1>8. q = [p EXCEPT !.una = una, !.rcv = rcv, !.got = all, !.saw = saw]
  OBVIOUS
<1>9. all \in Seq(Int)
  BY <1>3
<1> HIDE DEF inorder, more, fin, una, bytes, rcv, saw, all
<1>10. /\ q \in Peers /\ q.st = p.st /\ q.una = una /\ q.rcv = rcv /\ q.got = all /\ q.saw = saw
  BY <1>4, <1>7, <1>8, <1>9 DEF Peers
<1> HIDE DEF q
<1>11. /\ T!Take(p, g) \in Peers
       /\ T!Take(p, g).st \in {"open", "wait"}
       /\ T!Take(p, g).una = una /\ T!Take(p, g).rcv = rcv /\ T!Take(p, g).got = all
       /\ T!Take(p, g).saw = saw
  BY <1>5, <1>10 DEF Peers
<1> QED BY <1>11, <1>4, <1>6, <1>7 DEF all, una

LEMMA TcpInit ==
  ASSUME T!Init
  PROVE  TcpInv
<1>1. past \in TcpPasts
  <2>1. PICK role \in {"server", "client"} : past = T!Past(role)
    BY DEF T!Init
  <2> QED BY <2>1 DEF T!Past, TcpPasts
<1>2. Streams
  BY EmptySeq DEF T!Init, Streams
<1>3. ConnInv
  BY DEF T!Init, ConnInv
<1>4. PeerInv
  <2>1. <<>> \in Seq(Int) /\ Len(<<>>) = 0
    BY EmptySeq
  <2>2. peer \in Peers /\ peer.st = "closed" /\ peer.got = <<>>
    BY <2>1 DEF T!Init, T!Peer, Peers
  <2>3. 1 \in Int
    OBVIOUS
  <2>4. T!Bytes(1, 0) = <<>>
    BY <2>3, NoBytes
  <2> QED BY <2>1, <2>2, <2>4 DEF PeerInv
<1>5. Beginning
  BY DEF T!Init, Beginning, T!Peer
<1>6. T!NothingMissed
  BY DEF T!Init, T!NothingMissed
<1> QED BY <1>1, <1>2, <1>3, <1>4, <1>5, <1>6 DEF TcpInv

-----------------------------------------------------------------------------
(* What a step leaves alone stays as it is *)

LEMMA ConnStays ==
  ASSUME ConnInv, c' = c, past'.role = past.role, past'.from = past.from, past'.app = past.app,
         past.renumbered => past'.renumbered
  PROVE  ConnInv'
  BY DEF ConnInv, Reads, Writes, T!Sent

LEMMA PeerStays ==
  ASSUME PeerInv, peer' = peer, past'.role = past.role, past.astray => past'.astray
  PROVE  PeerInv'
  BY DEF PeerInv

\* Once there is a connection, or was one, the beginning is over.
LEMMA BegunStays ==
  ASSUME past \in TcpPasts, c # NONE, Beginning, T!NothingMissed,
         past'.role = past.role, past'.conns = past.conns, past'.from = past.from,
         past'.faults \in Nat, past'.faults >= past.faults
  PROVE  Beginning' /\ T!NothingMissed'
<1>1. past.faults \in Nat
  BY DEF TcpPasts
<1>2. past'.faults = 0 => past.faults = 0
  BY <1>1
<1>3. Beginning'
  BY <1>2 DEF Beginning
<1>4. T!NothingMissed'
  BY <1>2 DEF T!NothingMissed
<1> QED BY <1>3, <1>4

-----------------------------------------------------------------------------
(* The peer *)

LEMMA PeerConnectStep ==
  ASSUME T!MgTcpipAssumption, TcpInv, T!PeerConnect
  PROVE  TcpInv'
<1> DEFINE s == T!PeerSeg(peer', 0)
<1>1. /\ past \in TcpPasts /\ Streams /\ ConnInv /\ PeerInv /\ Beginning /\ T!NothingMissed
      /\ past' = past /\ c' = c /\ down' = down /\ up' = Append(up, s)
      /\ past.role = "server" /\ peer.st = "closed"
      /\ peer' = [T!Peer("syn") EXCEPT !.nxt = 1]
  BY DEF TcpInv, T!PeerConnect
<1>2. <<>> \in Seq(Int) /\ Len(<<>>) = 0
  BY EmptySeq
<1>3. /\ peer' \in Peers /\ peer'.st = "syn" /\ peer'.got = <<>> /\ peer'.saw = FALSE
      /\ peer'.una = 0 /\ peer'.rcv = 0 /\ peer'.nxt = 1
  BY <1>1, <1>2 DEF T!Peer, Peers
<1>4. s \in UpSegs(T!Sent)
  BY <1>1, <1>3, PeerSegIn
<1>5. s = T!Seg({"SYN"}, 0, 0, <<>>)
  BY <1>3 DEF T!PeerSeg
<1> HIDE DEF s
<1>6. Streams'
  BY <1>1, <1>4, AppendFacts DEF Streams, T!Sent
<1>7. ConnInv'
  BY <1>1, ConnStays
<1>8. PeerInv'
  <2>1. T!Bytes(1, 0) = <<>>
    <3>1. 1 \in Int
      OBVIOUS
    <3> QED BY <3>1, NoBytes
  <2> QED BY <1>1, <1>2, <1>3, <2>1 DEF PeerInv
<1>9. Beginning'
  <2> SUFFICES ASSUME past.conns = 0, past.faults = 0
               PROVE  c' = NONE /\ peer'.st = "syn"
                      /\ up' = <<T!Seg({"SYN"}, 0, 0, <<>>)>> /\ down' = <<>>
    BY <1>1 DEF Beginning
  <2>1. c = NONE /\ up = <<>> /\ down = <<>>
    BY <1>1 DEF Beginning
  <2>2. Append(<<>>, s) = <<s>>
    OBVIOUS
  <2> QED BY <1>1, <1>3, <1>5, <2>1, <2>2
<1>10. T!NothingMissed'
  BY <1>1 DEF T!NothingMissed
<1> QED BY <1>1, <1>6, <1>7, <1>8, <1>9, <1>10 DEF TcpInv

\* A peer that sends a segment more.
LEMMA PeerSends ==
  ASSUME T!MgTcpipAssumption, TcpInv, NEW s \in UpSegs(T!Sent),
         past' = past, c' = c, down' = down, up' = Append(up, s),
         NEW k \in Nat, NEW b \in BOOLEAN, peer' = [peer EXCEPT !.nxt = k, !.fin = b],
         peer.st = "open" \/ (peer.st = "syn" /\ T!Quiet /\ k = peer.nxt)
  PROVE  TcpInv'
<1>1. /\ past \in TcpPasts /\ Streams /\ ConnInv /\ PeerInv /\ Beginning /\ T!NothingMissed
  BY DEF TcpInv
<1>2. /\ peer' \in Peers /\ peer'.st = peer.st /\ peer'.got = peer.got /\ peer'.saw = peer.saw
      /\ peer'.nxt = k /\ peer'.una = peer.una /\ peer'.rcv = peer.rcv
  BY <1>1 DEF PeerInv, Peers
<1>6. Streams'
  BY <1>1, AppendFacts DEF Streams, T!Sent
<1>7. ConnInv'
  BY <1>1, ConnStays
<1>8. PeerInv'
  BY <1>1, <1>2 DEF PeerInv
<1>9. Beginning'
  <2> SUFFICES ASSUME past.role = "server", past.conns = 0, past.faults = 0
               PROVE  c' = NONE /\ peer'.st = "open" /\ down' = <<>>
                      /\ up' # <<>> /\ Head(up') = T!Seg({"ACK"}, 1, 1, <<>>)
    BY DEF Beginning
  <2>1. /\ c = NONE /\ peer.st = "open" /\ down = <<>>
        /\ up # <<>> /\ Head(up) = T!Seg({"ACK"}, 1, 1, <<>>)
    BY <1>1 DEF Beginning, T!Quiet
  <2>2. up \in Seq(UpSegs(T!Sent))
    BY <1>1 DEF Streams
  <2>3. Append(up, s) # <<>> /\ Head(Append(up, s)) = Head(up)
    BY <2>1, <2>2, AppendFacts, HeadTailAppend
  <2> QED BY <1>2, <2>1, <2>3
<1>10. T!NothingMissed'
  BY <1>1 DEF T!NothingMissed
<1> QED BY <1>1, <1>6, <1>7, <1>8, <1>9, <1>10 DEF TcpInv

LEMMA PeerSendStep ==
  ASSUME T!MgTcpipAssumption, TcpInv, T!PeerSend \/ T!PeerClose \/ T!PeerRetransmit
  PROVE  TcpInv'
<1>1. past \in TcpPasts /\ peer \in Peers /\ PeerInv
  BY DEF TcpInv, PeerInv
<1>2. /\ peer.nxt \in Nat /\ peer.una \in Nat /\ peer.fin \in BOOLEAN /\ T!Sent \in Nat
      /\ peer = [peer EXCEPT !.nxt = peer.nxt, !.fin = peer.fin]
  BY <1>1 DEF Peers, TcpPasts, T!MgTcpipAssumption, T!Sent
<1>3. CASE T!PeerSend
  <2> DEFINE s == T!PeerSeg(peer, peer.nxt)
             k == peer.nxt + Len(s.data)
  <2>1. s \in UpSegs(T!Sent) /\ Len(s.data) \in Nat
    BY <1>1, <1>2, <1>3, PeerSegIn DEF T!PeerSend
  <2>2. k \in Nat
    BY <2>1, <1>2
  <2>3. /\ past' = past /\ c' = c /\ down' = down /\ up' = Append(up, s) /\ peer.st = "open"
        /\ peer' = [peer EXCEPT !.nxt = k]
    BY <1>3 DEF T!PeerSend
  <2> HIDE DEF k, s
  <2>4. peer' = [peer EXCEPT !.nxt = k, !.fin = peer.fin]
    BY <1>1, <2>2, <2>3 DEF Peers
  <2> QED BY <1>2, <2>1, <2>2, <2>3, <2>4, PeerSends
<1>4. CASE T!PeerClose
  <2> DEFINE s == T!PeerSeg(peer, peer.nxt)
  <2>1. s \in UpSegs(T!Sent)
    BY <1>1, <1>2, <1>4, PeerSegIn DEF T!PeerClose
  <2>2. peer.nxt + 1 \in Nat
    BY <1>2
  <2>3. /\ past' = past /\ c' = c /\ down' = down /\ up' = Append(up, s) /\ peer.st = "open"
        /\ peer' = [peer EXCEPT !.nxt = peer.nxt + 1, !.fin = TRUE]
    BY <1>4 DEF T!PeerClose
  <2> HIDE DEF s
  <2>4. TRUE \in BOOLEAN
    OBVIOUS
  <2> QED BY <2>1, <2>2, <2>3, <2>4, PeerSends
<1>5. CASE T!PeerRetransmit
  <2> DEFINE s == T!PeerSeg(peer, peer.una)
  <2>1. /\ past' = past /\ c' = c /\ down' = down /\ up' = Append(up, s) /\ T!Quiet
        /\ peer' = peer /\ peer.st \in {"syn", "open"}
    BY <1>5 DEF T!PeerRetransmit
  <2>2. peer.una = 0 => peer.rcv \in {0, 1}
    BY <1>1, <2>1 DEF PeerInv
  <2>3. s \in UpSegs(T!Sent)
    BY <1>1, <1>2, <2>2, PeerSegIn
  <2> HIDE DEF s
  <2> QED BY <1>2, <2>1, <2>3, PeerSends
<1> QED BY <1>3, <1>4, <1>5

LEMMA PeerDieStep ==
  ASSUME TcpInv, T!PeerDie
  PROVE  TcpInv'
<1>1. /\ past \in TcpPasts /\ Streams /\ ConnInv /\ PeerInv /\ Beginning /\ T!NothingMissed
      /\ past' = [past EXCEPT !.faults = @ + 1] /\ c' = c /\ down' = down /\ up' = up
      /\ peer' = [peer EXCEPT !.st = "dead"]
  BY DEF TcpInv, T!PeerDie
<1>2. /\ past' \in TcpPasts /\ past'.role = past.role /\ past'.from = past.from
      /\ past'.app = past.app /\ past'.renumbered = past.renumbered
      /\ past'.astray = past.astray /\ past'.faults # 0
  BY <1>1 DEF TcpPasts
<1>3. peer' \in Peers /\ peer'.st = "dead" /\ peer'.got = peer.got
  BY <1>1 DEF PeerInv, Peers
<1>4. Streams'
  BY <1>1, <1>2 DEF Streams, T!Sent
<1>5. ConnInv'
  BY <1>1, <1>2, ConnStays
<1>6. PeerInv'
  BY <1>1, <1>2, <1>3 DEF PeerInv
<1>7. Beginning' /\ T!NothingMissed'
  BY <1>2 DEF Beginning, T!NothingMissed
<1> QED BY <1>2, <1>4, <1>5, <1>6, <1>7 DEF TcpInv

\* The peer takes a segment, and answers with some.
LEMMA PeerReceives ==
  ASSUME TcpInv, past' = past, c' = c, down # <<>>, down' = Tail(down),
         NEW r \in Seq(UpSegs(T!Sent)), up' = up \o r, PeerInv', Beginning'
  PROVE  TcpInv'
<1>1. /\ past \in TcpPasts /\ Streams /\ ConnInv /\ T!NothingMissed
  BY DEF TcpInv
<1>2. Streams'
  <2>1. up' \in Seq(UpSegs(T!Sent))
    BY <1>1, ConcatProperties DEF Streams
  <2>2. down' \in Seq(Segs) /\ (past.astray \/ down' \in Seq(DownSegs))
    BY <1>1, HeadTailProperties DEF Streams
  <2> QED BY <2>1, <2>2 DEF Streams, T!Sent
<1>3. ConnInv'
  BY <1>1, ConnStays
<1>4. T!NothingMissed'
  BY <1>1 DEF T!NothingMissed
<1> QED BY <1>1, <1>2, <1>3, <1>4 DEF TcpInv

LEMMA PeerRecvStep ==
  ASSUME T!MgTcpipAssumption, TcpInv, T!PeerRecv
  PROVE  TcpInv'
<1> DEFINE g == Head(down)
<1>1. /\ past \in TcpPasts /\ Streams /\ PeerInv /\ Beginning
      /\ past' = past /\ c' = c /\ down # <<>> /\ down' = Tail(down)
  BY DEF TcpInv, T!PeerRecv
<1>2. /\ g \in Segs /\ (past.astray \/ g.data = T!Bytes(g.seq, Len(g.data)))
      /\ up \in Seq(UpSegs(T!Sent)) /\ up \o <<>> = up /\ <<>> \in Seq(UpSegs(T!Sent))
  <2>1. g \in Segs
    BY <1>1, HeadTailProperties DEF Streams
  <2>2. past.astray \/ g \in DownSegs
    BY <1>1, HeadTailProperties DEF Streams
  <2>3. up \in Seq(UpSegs(T!Sent)) /\ up \o <<>> = up /\ <<>> \in Seq(UpSegs(T!Sent))
    BY <1>1, ConcatEmptySeq, EmptySeq DEF Streams
  <2> QED BY <2>1, <2>2, <2>3 DEF DownSegs
<1>3. /\ g.ack \in Int /\ g.seq \in Int /\ g.data \in Seq(Int)
      /\ peer \in Peers /\ peer.got \in Seq(Int)
  BY <1>1, <1>2 DEF Segs, PeerInv, Peers
<1> HIDE DEF g
<1>4. CASE past.role = "server" /\ past.conns = 0 /\ past.faults = 0
  <2>1. /\ c = NONE /\ peer.st = "syn" /\ up = <<>>
        /\ down = <<T!Seg({"SYN", "ACK"}, 0, 1, <<>>)>>
    BY <1>1, <1>4 DEF Beginning
  <2>2. /\ g = T!Seg({"SYN", "ACK"}, 0, 1, <<>>) /\ Tail(down) = <<>>
    BY <2>1 DEF g
  <2>3. g.flags = {"SYN", "ACK"} /\ g.ack = 1 /\ "RST" \notin g.flags
    BY <2>2 DEF T!Seg
  <2>4. peer' = [peer EXCEPT !.st = "open", !.una = 1, !.rcv = 1]
        /\ up' = Append(up, T!PeerAck(peer'))
    BY <1>4, <2>1, <2>3 DEF T!PeerRecv, g
  <2>5. /\ peer' \in Peers /\ peer'.st = "open" /\ peer'.una = 1 /\ peer'.rcv = 1
        /\ peer'.nxt = 1 /\ peer'.got = <<>>
    BY <1>1, <1>3, <2>1, <2>4 DEF Peers, PeerInv
  <2>6. up' = <<T!PeerAck(peer')>> /\ T!PeerAck(peer') \in UpSegs(T!Sent)
    BY <2>1, <2>4, <2>5, PeerAckIn
  <2>7. T!PeerAck(peer') = T!Seg({"ACK"}, 1, 1, <<>>)
    BY <2>5 DEF T!PeerAck
  <2>8. PeerInv'
    <3>1. <<>> \in Seq(Int) /\ Len(<<>>) = 0
      BY EmptySeq
    <3>2. 1 \in Int
      OBVIOUS
    <3>3. T!Bytes(1, 0) = <<>>
      BY <3>2, NoBytes
    <3> QED BY <2>5, <3>1, <3>3 DEF PeerInv
  <2>9. Beginning'
    <3>1. <<T!PeerAck(peer')>> # <<>> /\ Head(<<T!PeerAck(peer')>>) = T!PeerAck(peer')
      OBVIOUS
    <3> QED BY <1>1, <2>1, <2>2, <2>5, <2>6, <2>7, <3>1 DEF Beginning
  <2>10. /\ <<T!PeerAck(peer')>> \in Seq(UpSegs(T!Sent))
         /\ up' = up \o <<T!PeerAck(peer')>>
    <3>1. <<T!PeerAck(peer')>> \in Seq(UpSegs(T!Sent))
      BY <2>6
    <3> QED BY <2>1, <2>6, <3>1, ConcatEmptySeq
  <2> QED BY <1>1, <2>8, <2>9, <2>10, PeerReceives
<1>5. CASE ~(past.role = "server" /\ past.conns = 0 /\ past.faults = 0)
  <2>1. Beginning'
    BY <1>1, <1>5 DEF Beginning
  <2> SUFFICES ASSUME TRUE
               PROVE  PeerInv' /\ \E r \in Seq(UpSegs(T!Sent)) : up' = up \o r
    BY <1>1, <2>1, PeerReceives
  <2>2. CASE peer' = peer /\ up' = up
    <3>1. PeerInv'
      BY <1>1, <2>2, PeerStays
    <3> QED BY <1>2, <2>2, <3>1
  <2>3. CASE "RST" \in g.flags /\ peer' = [peer EXCEPT !.st = "closed"] /\ up' = up
    <3>1. peer' \in Peers /\ peer'.st = "closed" /\ peer'.got = peer.got
      BY <1>3, <2>3 DEF Peers
    <3>2. PeerInv'
      BY <1>1, <3>1 DEF PeerInv
    <3> QED BY <1>2, <2>3, <3>2
  <2>4. CASE /\ past.role = "client"
             /\ peer' = [T!Peer("syn") EXCEPT !.nxt = 1, !.rcv = 1]
             /\ up' = Append(up, T!PeerSeg(peer', 0))
    <3>1. <<>> \in Seq(Int) /\ Len(<<>>) = 0
      BY EmptySeq
    <3>2. /\ peer' \in Peers /\ peer'.st = "syn" /\ peer'.got = <<>> /\ peer'.saw = FALSE
          /\ peer'.una = 0 /\ peer'.nxt = 1 /\ peer'.rcv = 1
      BY <2>4, <3>1 DEF T!Peer, Peers
    <3>3. T!PeerSeg(peer', 0) \in UpSegs(T!Sent)
      BY <1>1, <3>2, PeerSegIn
    <3>4. T!Bytes(1, 0) = <<>>
      <4>1. 1 \in Int
        OBVIOUS
      <4> QED BY <4>1, NoBytes
    <3>5. PeerInv'
      BY <1>1, <2>4, <3>1, <3>2, <3>4 DEF PeerInv
    <3>6. up' = up \o <<T!PeerSeg(peer', 0)>> /\ <<T!PeerSeg(peer', 0)>> \in Seq(UpSegs(T!Sent))
      BY <1>2, <2>4, <3>3, AppendIsConcat
    <3> QED BY <3>5, <3>6
  <2>5. CASE peer' = peer /\ up' = Append(up, T!Seg({"RST"}, g.ack, 0, <<>>))
    <3>1. PeerInv'
      BY <1>1, <2>5, PeerStays
    <3>2. {"RST"} \in SUBSET Flags /\ "FIN" \notin {"RST"} /\ {"RST"} # {"SYN", "ACK"} /\ 0 \in Int
      BY DEF Flags
    <3>3. T!Seg({"RST"}, g.ack, 0, <<>>) \in UpSegs(T!Sent)
      BY <1>3, <3>2, EmptyUpSeg
    <3>4. up' = up \o <<T!Seg({"RST"}, g.ack, 0, <<>>)>>
          /\ <<T!Seg({"RST"}, g.ack, 0, <<>>)>> \in Seq(UpSegs(T!Sent))
      BY <1>2, <2>5, <3>3, AppendIsConcat
    <3> QED BY <3>1, <3>4
  <2>6. CASE /\ peer.st = "syn"
             /\ peer' = [peer EXCEPT !.st = "open", !.una = 1, !.rcv = 1]
             /\ up' = Append(up, T!PeerAck(peer'))
    <3>1. /\ peer' \in Peers /\ peer'.st = "open" /\ peer'.una = 1 /\ peer'.rcv = 1
          /\ peer'.got = <<>>
      BY <1>1, <1>3, <2>6 DEF Peers, PeerInv
    <3>2. T!PeerAck(peer') \in UpSegs(T!Sent)
      BY <3>1, PeerAckIn
    <3>3. T!Bytes(1, 0) = <<>> /\ Len(<<>>) = 0
      <4>1. 1 \in Int
        OBVIOUS
      <4> QED BY <4>1, NoBytes, EmptySeq
    <3>5. PeerInv'
      BY <1>1, <3>1, <3>3 DEF PeerInv
    <3>6. up' = up \o <<T!PeerAck(peer')>> /\ <<T!PeerAck(peer')>> \in Seq(UpSegs(T!Sent))
      BY <1>2, <2>6, <3>2, AppendIsConcat
    <3> QED BY <3>5, <3>6
  <2>7. CASE /\ peer.st = "syn" /\ g.ack = 1 /\ past.role = "client"
             /\ peer' = T!Take([peer EXCEPT !.st = "open"], g)
             /\ up' = up \o (IF g.data # <<>> \/ "FIN" \in g.flags
                                  THEN <<T!PeerAck(peer')>> ELSE <<>>)
    <3> DEFINE p == [peer EXCEPT !.st = "open"]
    <3>1. /\ p \in Peers /\ p.st = "open" /\ p.una = 0 /\ p.nxt = 1 /\ p.rcv = 1
          /\ p.got = <<>> /\ ~p.saw
      BY <1>1, <1>3, <2>7 DEF Peers, PeerInv
    <3>2. Len(<<>>) = 0 /\ T!Bytes(1, 0) = <<>>
      <4>1. 1 \in Int
        OBVIOUS
      <4> QED BY <4>1, NoBytes, EmptySeq
    <3>3. peer' = T!Take(p, g)
      BY <2>7
    <3> HIDE DEF p
    <3>4. /\ peer' \in Peers
          /\ peer'.st \in {"open", "wait"}
          /\ peer'.una = 1
          /\ ~peer'.saw => peer'.rcv = 1 + Len(peer'.got)
          /\ g.data = T!Bytes(g.seq, Len(g.data)) => peer'.got = T!Bytes(1, Len(peer'.got))
      BY <1>2, <2>7, <3>1, <3>2, <3>3, TakeFacts
    <3>5. PeerInv'
      BY <1>1, <1>2, <3>4 DEF PeerInv
    <3>6. T!PeerAck(peer') \in UpSegs(T!Sent)
      BY <3>4, PeerAckIn
    <3>7. (IF g.data # <<>> \/ "FIN" \in g.flags THEN <<T!PeerAck(peer')>> ELSE <<>>)
            \in Seq(UpSegs(T!Sent))
      <4>1. <<T!PeerAck(peer')>> \in Seq(UpSegs(T!Sent))
        BY <3>6
      <4> QED BY <1>2, <4>1
    <3> QED BY <2>7, <3>5, <3>7
  <2>8. CASE /\ peer.st \in {"open", "wait"}
             /\ peer' = T!Take(peer, g)
             /\ up' = up \o T!Answer(peer', g)
    <3>1. /\ peer.una >= 1 /\ (~peer.saw => peer.rcv = 1 + Len(peer.got))
          /\ past.astray \/ peer.got = T!Bytes(1, Len(peer.got))
      BY <1>1, <2>8 DEF PeerInv
    <3>2. /\ peer' \in Peers
          /\ peer'.st \in {"open", "wait"}
          /\ peer'.una >= peer.una
          /\ ~peer'.saw => peer'.rcv = 1 + Len(peer'.got)
          /\ peer.got = T!Bytes(1, Len(peer.got)) /\ g.data = T!Bytes(g.seq, Len(g.data))
               => peer'.got = T!Bytes(1, Len(peer'.got))
      BY <1>2, <1>3, <2>8, <3>1, TakeFacts
    <3>3. peer'.una >= 1
      <4>1. peer'.una \in Nat /\ peer.una \in Nat
        BY <1>3, <3>2 DEF Peers
      <4> QED BY <4>1, <3>1, <3>2
    <3>4. PeerInv'
      BY <1>1, <1>2, <3>1, <3>2, <3>3 DEF PeerInv
    <3>5. T!PeerAck(peer') \in UpSegs(T!Sent)
      BY <3>2, PeerAckIn
    <3>6. T!Answer(peer', g) \in Seq(UpSegs(T!Sent))
      BY <1>2, <3>5 DEF T!Answer
    <3> QED BY <2>8, <3>4, <3>6
  <2> QED
    BY <2>2, <2>3, <2>4, <2>5, <2>6, <2>7, <2>8, Zenon DEF T!PeerRecv, g
<1> QED BY <1>4, <1>5

\* mongoose sends some segments.
LEMMA StackSends ==
  ASSUME past \in TcpPasts, Streams, past'.role = past.role, past.astray => past'.astray,
         up' \in Seq(UpSegs(T!Sent)), NEW r \in Seq(Segs), past'.astray \/ r \in Seq(DownSegs),
         down' = down \o r
  PROVE  Streams'
<1>1. down' \in Seq(Segs)
  BY ConcatProperties DEF Streams
<1>2. past'.astray \/ down' \in Seq(DownSegs)
  BY ConcatProperties DEF Streams
<1> QED BY <1>1, <1>2 DEF Streams, T!Sent

\* One segment without data.
LEMMA StackSendsOne ==
  ASSUME past \in TcpPasts, Streams, past'.role = past.role, past.astray => past'.astray,
         up' \in Seq(UpSegs(T!Sent)),
         NEW flags \in SUBSET Flags, NEW x \in Int, NEW y \in Int,
         down' = Append(down, T!Seg(flags, x, y, <<>>))
  PROVE  Streams'
<1> DEFINE s == T!Seg(flags, x, y, <<>>)
<1>1. s \in Segs /\ s \in DownSegs
  BY EmptySeg
<1>2. down' = Append(down, s)
  OBVIOUS
<1> HIDE DEF s
<1>3. <<s>> \in Seq(Segs) /\ <<s>> \in Seq(DownSegs) /\ down' = down \o <<s>>
  BY <1>1, <1>2, AppendIsConcat DEF Streams
<1> QED BY <1>3, StackSends

LEMMA UpTail ==
  ASSUME Streams, up # <<>>
  PROVE  Head(up) \in UpSegs(T!Sent) /\ Tail(up) \in Seq(UpSegs(T!Sent))
  BY HeadTailProperties DEF Streams

\* The connection changes nothing that its streams depend on.
LEMMA SameStreams ==
  ASSUME ConnInv, c # NONE, c' \in TcpConns, c'.seq = c.seq, c'.ack = c.ack,
         c'.connecting = c.connecting, c'.recv = c.recv, c'.send = c.send,
         past'.role = past.role, past'.from = past.from, past'.app = past.app,
         past.renumbered => past'.renumbered
  PROVE  ConnInv'
  BY DEF ConnInv, Reads, Writes, T!Sent

-----------------------------------------------------------------------------
(* mongoose *)

LEMMA NewConnFacts ==
  /\ T!NewConn \in TcpConns /\ T!NewConn.recv = <<>> /\ T!NewConn.send = <<>>
  /\ T!NewConn.seq = 0 /\ T!NewConn.ack = 0 /\ T!NewConn.connecting = FALSE
<1>1. <<>> \in Seq(Int)
  BY EmptySeq
<1> QED BY <1>1 DEF T!NewConn, TcpConns

LEMMA OpenedFacts ==
  ASSUME past \in TcpPasts, NEW f \in Int
  PROVE  /\ T!Opened(f) \in TcpPasts /\ T!Opened(f).role = past.role
         /\ T!Opened(f).conns = past.conns + 1 /\ T!Opened(f).app = 0 /\ T!Opened(f).from = f
         /\ T!Opened(f).faults = past.faults
         /\ T!Opened(f).renumbered = FALSE /\ T!Opened(f).astray = past.astray
<1>1. f \in Int /\ 0 \in Nat /\ FALSE \in BOOLEAN /\ past.conns + 1 \in Nat
  BY DEF TcpPasts
<1>2. T!Opened(f) \in TcpPasts
  BY <1>1 DEF T!Opened, TcpPasts
<1>3. /\ T!Opened(f).role = past.role /\ T!Opened(f).conns = past.conns + 1
      /\ T!Opened(f).faults = past.faults
  BY DEF T!Opened, TcpPasts
<1>4. T!Opened(f).app = 0 /\ T!Opened(f).from = f /\ T!Opened(f).astray = past.astray
  BY DEF T!Opened, TcpPasts
<1>5. T!Opened(f).renumbered = FALSE
  BY DEF T!Opened, TcpPasts
<1> QED BY <1>2, <1>3, <1>4, <1>5

LEMMA TcpConnectStep ==
  ASSUME TcpInv, T!MgConnectResolved
  PROVE  TcpInv'
<1>1. /\ past \in TcpPasts /\ Streams /\ PeerInv
      /\ past.role = "client" /\ past' = T!Opened(1)
      /\ c' = [T!NewConn EXCEPT !.connecting = TRUE, !.arplooking = TRUE, !.ttype = "ARP"]
      /\ peer' = peer /\ up' = up /\ down' = down
  BY DEF TcpInv, T!MgConnectResolved
<1>2. 1 \in Int
  OBVIOUS
<1>3. /\ past' \in TcpPasts /\ past'.role = "client" /\ past'.app = 0 /\ past'.from = 1
      /\ past'.astray = past.astray
  BY <1>1, <1>2, OpenedFacts
<1>4. /\ c' \in TcpConns /\ c'.recv = <<>> /\ c'.send = <<>> /\ c'.ack = 0
      /\ c'.connecting = TRUE
  BY <1>1, NewConnFacts DEF TcpConns
<1>5. Len(<<>>) = 0 /\ T!Bytes(1, 0) = <<>>
  BY <1>2, NoBytes, EmptySeq
<1>6. ConnInv'
  BY <1>3, <1>4, <1>5 DEF ConnInv, Reads, Writes
<1>7. Streams' /\ PeerInv'
  <2>1. Streams'
    BY <1>1, <1>3 DEF Streams, T!Sent
  <2> QED BY <1>1, <1>3, <2>1, PeerStays
<1>8. Beginning' /\ T!NothingMissed'
  BY <1>3 DEF Beginning, T!NothingMissed
<1> QED BY <1>3, <1>6, <1>7, <1>8 DEF TcpInv

LEMMA RxArpStep ==
  ASSUME TcpInv, T!RxArp
  PROVE  TcpInv'
<1>1. /\ past \in TcpPasts /\ Streams /\ PeerInv /\ ConnInv /\ Beginning /\ T!NothingMissed
      /\ c # NONE /\ past' = past /\ peer' = peer /\ up' = up
      /\ c' = [c EXCEPT !.arplooking = FALSE, !.ttype = "SYN"]
      /\ down' = Append(down, T!Seg({"SYN"}, 0, 0, <<>>))
  BY DEF TcpInv, T!RxArp
<1>2. {"SYN"} \in SUBSET Flags /\ 0 \in Int /\ up' \in Seq(UpSegs(T!Sent))
  BY <1>1 DEF Flags, Streams
<1>3. Streams'
  BY <1>1, <1>2, StackSendsOne
<1>4. /\ c' \in TcpConns /\ c'.seq = c.seq /\ c'.ack = c.ack
      /\ c'.connecting = c.connecting /\ c'.recv = c.recv /\ c'.send = c.send
  BY <1>1 DEF ConnInv, TcpConns
<1>5. ConnInv'
  BY <1>1, <1>4, SameStreams
<1>6. past'.faults \in Nat /\ past'.faults >= past.faults
  BY <1>1 DEF TcpPasts
<1>7. Beginning' /\ T!NothingMissed'
  BY <1>1, <1>6, BegunStays
<1>8. PeerInv'
  BY <1>1, PeerStays
<1> QED BY <1>1, <1>3, <1>5, <1>7, <1>8 DEF TcpInv

\* A segment that is of no connection.
LEMMA RxNewStep ==
  ASSUME TcpInv, T!Rx, c = NONE
  PROVE  TcpInv'
<1> DEFINE g == Head(up)
<1>1. /\ past \in TcpPasts /\ Streams /\ PeerInv /\ ConnInv /\ Beginning /\ T!NothingMissed
      /\ up # <<>> /\ up' = Tail(up) /\ T!RxNew(g) /\ peer' = peer
  BY DEF TcpInv, T!Rx
<1>2. g \in UpSegs(T!Sent) /\ up' \in Seq(UpSegs(T!Sent))
  BY <1>1, UpTail
<1>3. g \in Segs /\ g.seq \in Int /\ g.ack \in Int
  BY <1>2 DEF UpSegs, Segs
<1> HIDE DEF g
<1>4. ASSUME NEW flags \in SUBSET Flags, NEW x \in Int,
             c' = NONE, down' = Append(down, T!TxPkt(g, flags, x)), past' = past, Beginning'
      PROVE  TcpInv'
  <2> DEFINE y == g.seq + (IF g.flags \cap {"SYN", "FIN"} # {} THEN 1 ELSE 0)
  <2>1. y \in Int
    BY <1>3
  <2>2. down' = Append(down, T!Seg(flags, x, y, <<>>))
    BY <1>4 DEF T!TxPkt
  <2> HIDE DEF y
  <2>3. Streams'
    BY <1>1, <1>2, <1>4, <2>1, <2>2, StackSendsOne
  <2>4. ConnInv' /\ T!NothingMissed'
    BY <1>4 DEF ConnInv, T!NothingMissed
  <2>5. PeerInv'
    BY <1>1, <1>4, PeerStays
  <2> QED BY <1>1, <1>4, <2>3, <2>4, <2>5 DEF TcpInv
<1>5. ASSUME past.role = "server", past.conns = 0, past.faults = 0
      PROVE  \/ /\ g = T!Seg({"SYN"}, 0, 0, <<>>) /\ Tail(up) = <<>> /\ down = <<>>
                /\ peer.st = "syn"
             \/ g = T!Seg({"ACK"}, 1, 1, <<>>)
  <2>1. CASE up = <<T!Seg({"SYN"}, 0, 0, <<>>)>> /\ down = <<>> /\ peer.st = "syn"
    <3>1. g = T!Seg({"SYN"}, 0, 0, <<>>) /\ Tail(up) = <<>>
      BY <2>1 DEF g
    <3> QED BY <2>1, <3>1
  <2>2. CASE Head(up) = T!Seg({"ACK"}, 1, 1, <<>>)
    BY <2>2 DEF g
  <2> QED BY <1>1, <1>5, <2>1, <2>2 DEF Beginning
<1>6. CASE \/ past.role = "client"
           \/ past.role = "server" /\ g.flags \cap {"RST", "SYN", "FIN"} # {}
           \/ g.ack # 1
  <2>1. ASSUME past.role = "server", past.conns = 0, past.faults = 0
        PROVE  /\ g = T!Seg({"SYN"}, 0, 0, <<>>) /\ Tail(up) = <<>> /\ down = <<>>
               /\ peer.st = "syn"
    <3>1. g # T!Seg({"ACK"}, 1, 1, <<>>)
      BY <1>6, <2>1 DEF T!Seg
    <3> QED BY <1>5, <2>1, <3>1
  <2>2. CASE past.role = "server" /\ "RST" \in g.flags
    <3>1. c' = c /\ down' = down /\ past' = past
      BY <1>1, <2>2 DEF T!RxNew
    <3>2. ~(past.conns = 0 /\ past.faults = 0)
      BY <2>1, <2>2 DEF T!Seg
    <3>3. Beginning'
      BY <3>1, <3>2 DEF Beginning
    <3>4. Streams'
      BY <1>1, <1>2, <3>1 DEF Streams, T!Sent
    <3>5. ConnInv' /\ T!NothingMissed'
      BY <3>1 DEF ConnInv, T!NothingMissed
    <3>6. PeerInv'
      BY <1>1, <3>1, PeerStays
    <3> QED BY <1>1, <3>1, <3>3, <3>4, <3>5, <3>6 DEF TcpInv
  <2>3. CASE past.role = "server" /\ "RST" \notin g.flags /\ "SYN" \in g.flags
    <3>1. c' = NONE /\ down' = Append(down, T!TxPkt(g, {"SYN", "ACK"}, 0)) /\ past' = past
      BY <1>1, <2>3 DEF T!RxNew
    <3>2. {"SYN", "ACK"} \in SUBSET Flags /\ 0 \in Int
      BY DEF Flags
    <3>3. ASSUME past.conns = 0, past.faults = 0
          PROVE  c' = NONE /\ peer'.st = "syn" /\ up' = <<>>
                 /\ down' = <<T!Seg({"SYN", "ACK"}, 0, 1, <<>>)>>
      <4>1. g = T!Seg({"SYN"}, 0, 0, <<>>) /\ Tail(up) = <<>> /\ down = <<>> /\ peer.st = "syn"
        BY <2>1, <2>3, <3>3
      <4>2. g.flags = {"SYN"} /\ g.seq = 0
        BY <4>1 DEF T!Seg
      <4>3. T!TxPkt(g, {"SYN", "ACK"}, 0) = T!Seg({"SYN", "ACK"}, 0, 1, <<>>)
        BY <4>2 DEF T!TxPkt
      <4>4. Append(<<>>, T!TxPkt(g, {"SYN", "ACK"}, 0)) = <<T!TxPkt(g, {"SYN", "ACK"}, 0)>>
        OBVIOUS
      <4> QED BY <1>1, <3>1, <4>1, <4>3, <4>4
    <3>4. Beginning'
      BY <3>1, <3>3 DEF Beginning
    <3> QED BY <1>4, <3>1, <3>2, <3>4
  <2>4. CASE past.role = "client" \/ g.flags \cap {"RST", "SYN"} = {}
    <3>1. ~(past.role = "server" /\ past.conns = 0 /\ past.faults = 0)
      <4>1. T!Seg({"SYN"}, 0, 0, <<>>).flags \cap {"RST", "SYN"} # {}
        BY DEF T!Seg
      <4> QED BY <2>1, <2>4, <4>1
    <3>2. {"RST", "ACK"} \in SUBSET Flags /\ {"FIN", "ACK"} \in SUBSET Flags
      BY DEF Flags
    <3>3. \E flags \in {{"RST", "ACK"}, {"FIN", "ACK"}} :
            c' = NONE /\ down' = Append(down, T!TxPkt(g, flags, g.ack)) /\ past' = past
      BY <1>1, <1>6, <2>4 DEF T!RxNew, TcpPasts
    <3>4. Beginning'
      BY <3>1, <3>3 DEF Beginning
    <3> QED BY <1>3, <1>4, <3>2, <3>3, <3>4
  <2> QED BY <1>1, <2>2, <2>3, <2>4 DEF TcpPasts
<1>7. CASE past.role = "server" /\ g.flags \cap {"RST", "SYN", "FIN"} = {} /\ g.ack = 1
  <2>1. c' = [T!NewConn EXCEPT !.seq = g.ack, !.ack = g.seq]
        /\ past' = T!Opened(g.seq) /\ down' = down
    BY <1>1, <1>7 DEF T!RxNew
  <2>2. /\ past' \in TcpPasts /\ past'.role = past.role /\ past'.conns = past.conns + 1
        /\ past'.app = 0 /\ past'.from = g.seq /\ past'.faults = past.faults
        /\ past'.astray = past.astray
    BY <1>1, <1>3, <2>1, OpenedFacts
  <2>3. /\ c' \in TcpConns /\ c'.recv = <<>> /\ c'.send = <<>> /\ c'.connecting = FALSE
        /\ c'.seq = 1 /\ c'.ack = g.seq
    BY <1>3, <1>7, <2>1, NewConnFacts DEF TcpConns
  <2>4. /\ Len(<<>>) = 0 /\ T!Bytes(g.seq, 0) = <<>> /\ T!Bytes(1, 0) = <<>>
    <3>1. 1 \in Int
      OBVIOUS
    <3> QED BY <1>3, <3>1, NoBytes, EmptySeq
  <2>5. ConnInv'
    <3>1. Reads(c)'
      BY <1>3, <1>7, <2>2, <2>3, <2>4 DEF Reads
    <3>2. Writes(c)'
      BY <2>2, <2>3, <2>4 DEF Writes
    <3> QED BY <2>3, <3>1, <3>2 DEF ConnInv
  <2>6. Streams'
    BY <1>1, <1>2, <2>1, <2>2 DEF Streams, T!Sent
  <2>7. PeerInv'
    BY <1>1, <2>2, PeerStays
  <2>8. past.conns \in Nat
    BY <1>1 DEF TcpPasts
  <2>9. Beginning'
    BY <2>2, <2>8 DEF Beginning
  <2>10. T!NothingMissed'
    <3> SUFFICES ASSUME past.faults = 0, past.conns = 0  PROVE g.seq = 1
      BY <2>2, <2>8 DEF T!NothingMissed
    <3>1. g = T!Seg({"ACK"}, 1, 1, <<>>)
      BY <1>5, <1>7 DEF T!Seg
    <3> QED BY <3>1 DEF T!Seg
  <2> QED BY <2>2, <2>5, <2>6, <2>7, <2>9, <2>10 DEF TcpInv
<1> QED
  <2>1. past.role \in {"server", "client"}
    BY <1>1 DEF TcpPasts
  <2> QED BY <1>6, <1>7, <2>1

\* A connection reads a segment.
LEMMA ReadFinFacts ==
  ASSUME past \in TcpPasts, T!Sent \in Nat, NEW s \in TcpConns, ~s.connecting, Reads(s), Writes(s),
         NEW g \in UpSegs(T!Sent), "FIN" \in g.flags
  PROVE  /\ T!ReadFin(s, g).s \in TcpConns /\ Reads(T!ReadFin(s, g).s)
         /\ T!ReadFin(s, g).s.send = s.send
         /\ T!ReadFin(s, g).s.connecting = FALSE
         /\ ~T!Closes(s) => T!ReadFin(s, g).s.seq = s.seq
         /\ T!ReadFin(s, g).out \in Seq(Segs) /\ T!ReadFin(s, g).out \in Seq(DownSegs)
<1> DEFINE seq == IF ~T!Closes(s) THEN s.seq ELSE IF s.seq = g.ack THEN s.seq + 1 ELSE g.ack
           ack == g.seq + Len(g.data) + 1
           t == [s EXCEPT !.ack = ack, !.seq = seq, !.draining = TRUE, !.ttype = "FIN"]
           flags == IF T!Closes(s) THEN {"ACK"} ELSE {"ACK", "FIN"}
<1>1. /\ g \in Segs /\ g.seq \in Int /\ g.ack \in Int /\ g.data = <<>> /\ g.seq > T!Sent
      /\ s.seq \in Int /\ Len(<<>>) = 0
  BY EmptySeq DEF UpSegs, Segs, TcpConns
<1>2. ack \in Int /\ ack > T!Sent /\ seq \in Int /\ flags \in SUBSET Flags /\ (~T!Closes(s) => seq = s.seq)
  <2>1. ack = g.seq + 0 + 1
    BY <1>1
  <2>2. seq \in Int /\ (~T!Closes(s) => seq = s.seq)
    BY <1>1
  <2> QED BY <1>1, <2>1, <2>2 DEF Flags
<1>3. T!ReadFin(s, g) = [s |-> t, out |-> <<T!Tx(t, flags, <<>>)>>]
  BY DEF T!ReadFin
<1> HIDE DEF seq, ack, flags
<1>4. /\ t \in TcpConns /\ t.seq = seq /\ t.ack = ack /\ t.recv = s.recv /\ t.send = s.send
      /\ t.connecting = s.connecting
  BY <1>2 DEF TcpConns
<1> HIDE DEF t
<1>5. T!Tx(t, flags, <<>>) \in Segs /\ T!Tx(t, flags, <<>>) \in DownSegs
  BY <1>2, <1>4, EmptySeg DEF T!Tx
<1>6. Reads(t)
  BY <1>2, <1>4 DEF Reads
<1>7. t.connecting = FALSE
  BY <1>4 DEF TcpConns
<1> QED BY <1>2, <1>3, <1>4, <1>5, <1>6, <1>7

LEMMA ReadDataFacts ==
  ASSUME past \in TcpPasts, T!Sent \in Nat, NEW s \in TcpConns, Reads(s), NEW g \in UpSegs(T!Sent)
  PROVE  /\ T!ReadData(s, g).s \in TcpConns /\ Reads(T!ReadData(s, g).s)
         /\ T!ReadData(s, g).s.send = s.send /\ T!ReadData(s, g).s.seq = s.seq
         /\ T!ReadData(s, g).s.connecting = s.connecting
         /\ T!ReadData(s, g).out \in Seq(Segs) /\ T!ReadData(s, g).out \in Seq(DownSegs)
<1>1. <<>> \in Seq(Segs) /\ <<>> \in Seq(DownSegs)
  BY EmptySeq
<1>2. g \in Segs /\ g.seq \in Int /\ g.data \in Seq(Int) /\ Len(g.data) \in Nat
  BY LenProperties DEF UpSegs, Segs
<1>3. CASE g.data = <<>>
  BY <1>1, <1>3 DEF T!ReadData
<1>4. CASE g.data # <<>> /\ g.seq # s.ack
  <2>1. {"ACK"} \in SUBSET Flags /\ s.seq \in Int /\ s.ack \in Int
    BY DEF Flags, TcpConns
  <2>2. T!Tx(s, {"ACK"}, <<>>) \in Segs /\ T!Tx(s, {"ACK"}, <<>>) \in DownSegs
    BY <2>1, EmptySeg DEF T!Tx
  <2>3. T!ReadData(s, g) = [s |-> s, out |-> IF s.ack = g.seq + Len(g.data) THEN <<>>
                                            ELSE <<T!Tx(s, {"ACK"}, <<>>)>>]
    BY <1>4 DEF T!ReadData
  <2>4. <<T!Tx(s, {"ACK"}, <<>>)>> \in Seq(Segs) /\ <<T!Tx(s, {"ACK"}, <<>>)>> \in Seq(DownSegs)
    BY <2>2
  <2> QED BY <1>1, <2>3, <2>4
<1>5. CASE g.data # <<>> /\ g.seq = s.ack
  <2> DEFINE ack == g.seq + Len(g.data)
             recv == s.recv \o g.data
             t == [s EXCEPT !.recv = recv, !.ack = ack, !.ttype = "ACK"]
  <2>1. T!ReadData(s, g) = [s |-> t, out |-> <<>>]
    BY <1>5 DEF T!ReadData
  <2>2. /\ g.seq >= 1 /\ g.seq + Len(g.data) <= T!Sent + 1 /\ g.data = T!Bytes(g.seq, Len(g.data))
    BY <1>5 DEF UpSegs
  <2>3. /\ past.from \in Int /\ s.recv \in Seq(Int) /\ Len(s.recv) \in Nat /\ Len(g.data) >= 1
    BY <1>2, <1>5, LenProperties, EmptyFacts DEF TcpPasts, TcpConns
  <2>4. /\ ~s.connecting /\ s.ack = past.from + Len(s.recv)
    BY <1>2, <1>5, <2>2, <2>3 DEF Reads
  <2>5. ack \in Int /\ recv \in Seq(Int) /\ Len(recv) = Len(s.recv) + Len(g.data)
    BY <1>2, <2>3, ConcatProperties
  <2>6. recv = T!Bytes(past.from, Len(recv))
    <3>1. T!Bytes(past.from, Len(s.recv)) \o T!Bytes(past.from + Len(s.recv), Len(g.data))
            = T!Bytes(past.from, Len(s.recv) + Len(g.data))
      BY <1>2, <2>3, BytesConcat
    <3>2. s.recv = T!Bytes(past.from, Len(s.recv))
      BY DEF Reads
    <3> QED BY <1>5, <2>2, <2>4, <2>5, <3>1, <3>2
  <2>7. ack = past.from + Len(recv)
    <3> HIDE DEF recv
    <3>1. g.seq = past.from + Len(s.recv)
      BY <1>5, <2>4
    <3>2. past.from + Len(s.recv) + Len(g.data) = past.from + (Len(s.recv) + Len(g.data))
      <4>1. \A x, y, z \in Int : x + y + z = x + (y + z)
        OBVIOUS
      <4>2. past.from \in Int /\ Len(s.recv) \in Int /\ Len(g.data) \in Int
        BY <1>2, <2>3
      <4> QED BY <4>1, <4>2, Zenon
    <3> QED BY <2>5, <3>1, <3>2, Zenon
  <2> HIDE DEF ack, recv
  <2>8. /\ t \in TcpConns /\ t.seq = s.seq /\ t.ack = ack /\ t.recv = recv /\ t.send = s.send
        /\ t.connecting = s.connecting
    BY <2>5 DEF TcpConns
  <2> HIDE DEF t
  <2>9. Reads(t)
    BY <2>4, <2>6, <2>7, <2>8 DEF Reads
  <2> QED BY <1>1, <2>1, <2>8, <2>9
<1> QED BY <1>3, <1>4, <1>5

LEMMA RxConnStep ==
  ASSUME T!MgTcpipAssumption, TcpInv, T!Rx, c # NONE
  PROVE  TcpInv'
<1> DEFINE g == Head(up)
           twice == ~c.connecting /\ T!Closes(c) /\ "FIN" \in g.flags
<1>1. /\ past \in TcpPasts /\ Streams /\ PeerInv /\ ConnInv /\ Beginning /\ T!NothingMissed
      /\ up # <<>> /\ up' = Tail(up) /\ T!RxConn(g) /\ peer' = peer
      /\ past' = [past EXCEPT !.renumbered = @ \/ twice]
  BY DEF TcpInv, T!Rx
<1>2. g \in UpSegs(T!Sent) /\ up' \in Seq(UpSegs(T!Sent))
  BY <1>1, UpTail
<1>3. g \in Segs /\ g.seq \in Int /\ g.ack \in Int /\ T!Sent \in Nat
  BY <1>1, <1>2 DEF UpSegs, Segs, T!MgTcpipAssumption, TcpPasts, T!Sent
<1>4. c \in TcpConns /\ Reads(c) /\ Writes(c)
  BY <1>1 DEF ConnInv
<1> HIDE DEF g
<1>5. /\ past' \in TcpPasts /\ past'.role = past.role /\ past'.from = past.from
      /\ past'.app = past.app /\ past'.faults = past.faults /\ past'.conns = past.conns
      /\ past'.astray = past.astray
  <2>1. (past.renumbered \/ twice) \in BOOLEAN
    BY <1>1 DEF TcpPasts
  <2> HIDE DEF twice
  <2> QED BY <1>1, <2>1 DEF TcpPasts
<1>6. past'.renumbered = (past.renumbered \/ twice)
  BY <1>1 DEF TcpPasts
<1>7. PeerInv' /\ Beginning' /\ T!NothingMissed'
  <2>1. past.faults \in Nat /\ past.faults >= past.faults
    BY <1>1 DEF TcpPasts
  <2> QED BY <1>1, <1>5, <2>1, PeerStays, BegunStays
<1>8. ASSUME ConnInv', Streams'
      PROVE  TcpInv'
  BY <1>5, <1>7, <1>8 DEF TcpInv
<1>9. CASE c.connecting /\ g.flags = {"SYN", "ACK"}
  <2>1. /\ c' = [c EXCEPT !.seq = g.ack, !.ack = g.seq + 1, !.connecting = FALSE,
                           !.ttype = "KEEPALIVE"]
        /\ down' = Append(down, T!TxPkt(g, {"ACK"}, g.ack))
    BY <1>1, <1>9 DEF T!RxConn
  <2>2. g.seq = 0 /\ g.ack = 1
    BY <1>2, <1>9 DEF UpSegs
  <2>3. /\ c' \in TcpConns /\ c'.seq = 1 /\ c'.ack = 1 /\ c'.connecting = FALSE
        /\ c'.recv = c.recv /\ c'.send = c.send
    <3>1. g.ack = 1 /\ g.seq + 1 = 1 /\ 1 \in Int /\ FALSE \in BOOLEAN
      BY <2>2
    <3>2. c' = [c EXCEPT !.seq = 1, !.ack = 1, !.connecting = FALSE, !.ttype = "KEEPALIVE"]
      BY <2>1, <3>1, Zenon
    <3>3. c' \in TcpConns
      BY <1>4, <3>1, <3>2 DEF TcpConns
    <3>4. c'.seq = 1 /\ c'.ack = 1 /\ c'.recv = c.recv /\ c'.send = c.send
      BY <1>4, <3>2 DEF TcpConns
    <3>5. c'.connecting = FALSE
      BY <1>4, <3>2 DEF TcpConns
    <3> QED BY <3>3, <3>4, <3>5
  <2>4. /\ past.role = "client" /\ c.recv = <<>> /\ past.from = 1 /\ Len(<<>>) = 0
        /\ Len(c.send) = past.app /\ past.app \in Nat
    BY <1>1, <1>4, <1>9, EmptySeq DEF Reads, Writes, TcpPasts
  <2>5. Reads(c)'
    BY <1>4, <1>5, <2>3, <2>4 DEF Reads
  <2>6. Writes(c)'
    <3>1. past.app + 1 - past.app = 1
      BY <2>4
    <3> QED BY <1>4, <1>5, <2>3, <2>4, <3>1 DEF Writes
  <2>7. ConnInv'
    BY <2>3, <2>5, <2>6 DEF ConnInv
  <2>8. T!TxPkt(g, {"ACK"}, g.ack) = T!Seg({"ACK"}, 1, 1, <<>>)
    BY <1>9, <2>2 DEF T!TxPkt
  <2>9. {"ACK"} \in SUBSET Flags /\ 1 \in Int
    BY DEF Flags
  <2>10. Streams'
    BY <1>1, <1>2, <1>5, <2>1, <2>8, <2>9, StackSendsOne
  <2> QED BY <1>8, <2>7, <2>10
<1>10. CASE c.connecting /\ g.flags \notin {{"SYN", "ACK"}, {"ACK"}}
  <2>1. /\ c' = c
        /\ down' = Append(down, T!TxPkt(g, {"RST", "ACK"}, g.ack))
    BY <1>1, <1>10 DEF T!RxConn
  <2>2. ConnInv'
    BY <1>1, <1>5, <1>6, <2>1, ConnStays
  <2> DEFINE y == g.seq + (IF g.flags \cap {"SYN", "FIN"} # {} THEN 1 ELSE 0)
  <2>3. y \in Int /\ T!TxPkt(g, {"RST", "ACK"}, g.ack) = T!Seg({"RST", "ACK"}, g.ack, y, <<>>)
    BY <1>3 DEF T!TxPkt
  <2> HIDE DEF y
  <2>4. {"RST", "ACK"} \in SUBSET Flags
    BY DEF Flags
  <2>5. Streams'
    BY <1>1, <1>2, <1>3, <1>5, <2>1, <2>3, <2>4, StackSendsOne
  <2> QED BY <1>8, <2>2, <2>5
<1>11. CASE ~c.connecting /\ "RST" \in g.flags
  <2>1. c' = [c EXCEPT !.closing = TRUE] /\ down' = down
    BY <1>1, <1>11 DEF T!RxConn
  <2>2. /\ c' \in TcpConns /\ c'.seq = c.seq /\ c'.ack = c.ack
        /\ c'.connecting = c.connecting /\ c'.recv = c.recv /\ c'.send = c.send
    BY <1>4, <2>1 DEF TcpConns
  <2>3. ConnInv'
    BY <1>1, <1>5, <1>6, <2>2, SameStreams
  <2>4. Streams'
    BY <1>1, <1>2, <1>5, <2>1 DEF Streams, T!Sent
  <2> QED BY <1>8, <2>3, <2>4
<1>12. CASE \/ c.connecting /\ g.flags = {"ACK"}
            \/ ~c.connecting /\ "RST" \notin g.flags
  <2> DEFINE s == [c EXCEPT !.tmiss = 0]
  <2>1. c' = T!ReadConn(s, g).s /\ down' = down \o T!ReadConn(s, g).out
    <3>1. {"ACK"} # {"SYN", "ACK"}
      OBVIOUS
    <3> QED BY <1>1, <1>12, <3>1 DEF T!RxConn
  <2>2. /\ s \in TcpConns /\ s.seq = c.seq /\ s.ack = c.ack /\ s.draining = c.draining
        /\ s.ttype = c.ttype
        /\ s.connecting = c.connecting /\ s.recv = c.recv /\ s.send = c.send
    BY <1>4 DEF TcpConns
  <2> HIDE DEF s
  <2>3. Reads(s) /\ Writes(s)
    BY <1>4, <2>2 DEF Reads, Writes
  <2>4. ASSUME c' \in TcpConns, Reads(c'), c'.send = c.send,
               \/ c'.connecting = c.connecting /\ c'.seq = c.seq
               \/ ~c.connecting /\ ~c'.connecting /\ (c'.seq = c.seq \/ past'.renumbered)
        PROVE  ConnInv'
    <3>1. Reads(c)'
      BY <1>5, <2>4 DEF Reads, T!Sent
    <3>2. Writes(c)'
      BY <1>4, <1>5, <1>6, <2>4 DEF Writes
    <3> QED BY <2>4, <3>1, <3>2 DEF ConnInv
  <2>5. CASE "FIN" \in g.flags
    <3>1. ~c.connecting /\ ~s.connecting
      BY <1>12, <2>2, <2>5
    <3>2. c' = T!ReadFin(s, g).s /\ down' = down \o T!ReadFin(s, g).out
      BY <2>1, <2>5 DEF T!ReadConn
    <3>3. /\ c' \in TcpConns /\ Reads(c') /\ c'.send = c.send
          /\ c'.connecting = FALSE
          /\ ~T!Closes(s) => c'.seq = c.seq
          /\ T!ReadFin(s, g).out \in Seq(Segs) /\ T!ReadFin(s, g).out \in Seq(DownSegs)
      BY <1>1, <1>2, <1>3, <2>2, <2>3, <2>5, <3>1, <3>2, ReadFinFacts
    <3>4. T!Closes(s) => past'.renumbered
      BY <1>6, <2>2, <2>5, <3>1 DEF T!Closes
    <3>5. ConnInv'
      BY <2>4, <3>1, <3>3, <3>4
    <3>6. Streams'
      BY <1>1, <1>2, <1>5, <3>2, <3>3, StackSends
    <3> QED BY <1>8, <3>5, <3>6
  <2>6. CASE "FIN" \notin g.flags
    <3>1. c' = T!ReadData(s, g).s /\ down' = down \o T!ReadData(s, g).out
      BY <2>1, <2>6 DEF T!ReadConn
    <3>2. /\ c' \in TcpConns /\ Reads(c') /\ c'.send = c.send
          /\ c'.connecting = c.connecting /\ c'.seq = c.seq
          /\ T!ReadData(s, g).out \in Seq(Segs) /\ T!ReadData(s, g).out \in Seq(DownSegs)
      BY <1>1, <1>2, <1>3, <2>2, <2>3, <3>1, ReadDataFacts
    <3>3. ConnInv'
      BY <2>4, <3>2
    <3>4. Streams'
      BY <1>1, <1>2, <1>5, <3>1, <3>2, StackSends
    <3> QED BY <1>8, <3>3, <3>4
  <2> QED BY <2>5, <2>6
<1> QED BY <1>9, <1>10, <1>11, <1>12

LEMMA TimesOutStep ==
  ASSUME TcpInv, T!TimesOut
  PROVE  TcpInv'
<1>1. /\ past \in TcpPasts /\ Streams /\ PeerInv /\ ConnInv /\ Beginning /\ T!NothingMissed
      /\ c # NONE /\ peer' = peer /\ up' = up /\ past' = past
  BY DEF TcpInv, T!TimesOut
<1>2. c \in TcpConns
  BY <1>1 DEF ConnInv
<1>3. c.seq \in Int /\ c.ack \in Int /\ c.seq - 1 \in Int
  BY <1>2 DEF TcpConns
<1>4. up' \in Seq(UpSegs(T!Sent)) /\ {"ACK"} \in SUBSET Flags /\ past'.role = past.role
  BY <1>1 DEF Streams, Flags
<1>5. /\ \E tmiss \in Nat, ttype \in {"KEEPALIVE", "FIN"}, closing \in BOOLEAN :
           c' = [c EXCEPT !.ttype = ttype, !.tmiss = tmiss, !.closing = closing]
      /\ \/ down' = down
         \/ \E x \in Int : down' = Append(down, T!Seg({"ACK"}, x, c.ack, <<>>))
  <2> DEFINE f(ttype, tmiss, closing) ==
               [c EXCEPT !.ttype = ttype, !.tmiss = tmiss, !.closing = closing]
             d == [c EXCEPT !.ttype = "KEEPALIVE"]
  <2>1. /\ d = f("KEEPALIVE", c.tmiss, c.closing)
        /\ [d EXCEPT !.closing = TRUE] = f("KEEPALIVE", c.tmiss, TRUE)
        /\ T!Counted(d) = f("KEEPALIVE", c.tmiss + 1, c.closing)
        /\ [T!Counted(d) EXCEPT !.closing = TRUE] = f("KEEPALIVE", c.tmiss + 1, TRUE)
        /\ c.tmiss \in Nat /\ c.tmiss + 1 \in Nat /\ c.closing \in BOOLEAN
    <3>1. c.tmiss \in Nat /\ c.tmiss + 1 \in Nat /\ c.closing \in BOOLEAN
      BY <1>2 DEF TcpConns
    <3>2. d = f("KEEPALIVE", c.tmiss, c.closing)
      BY <1>2 DEF TcpConns
    <3>3. [d EXCEPT !.closing = TRUE] = f("KEEPALIVE", c.tmiss, TRUE)
      BY <1>2 DEF TcpConns
    <3>4. d.tmiss = c.tmiss
      BY <1>2 DEF TcpConns
    <3>5. T!Counted(d) = [d EXCEPT !.tmiss = c.tmiss + 1]
      BY <3>4 DEF T!Counted
    <3>6. T!Counted(d) = f("KEEPALIVE", c.tmiss + 1, c.closing)
      BY <1>2, <3>5 DEF TcpConns
    <3>7. [T!Counted(d) EXCEPT !.closing = TRUE] = f("KEEPALIVE", c.tmiss + 1, TRUE)
      BY <1>2, <3>5 DEF TcpConns
    <3> QED BY <3>1, <3>2, <3>3, <3>6, <3>7
  <2>2. c.ttype = "FIN" => [c EXCEPT !.closing = TRUE] = f("FIN", c.tmiss, TRUE)
    BY <1>2 DEF TcpConns
  <2>3. CASE c.ttype = "ACK"
    <3>1. c' = d /\ down' = Append(down, T!Tx(c, {"ACK"}, <<>>))
      BY <2>3 DEF T!TimesOut
    <3> QED BY <1>3, <2>1, <3>1 DEF T!Tx
  <2>4. CASE c.ttype \in {"ARP", "SYN"}
    <3>1. c' = [d EXCEPT !.closing = TRUE] /\ down' = down
      BY <2>4 DEF T!TimesOut
    <3> QED BY <2>1, <3>1
  <2>5. CASE c.ttype = "FIN"
    <3>1. c' = [c EXCEPT !.closing = TRUE] /\ down' = down
      BY <2>5 DEF T!TimesOut
    <3> QED BY <2>1, <2>2, <2>5, <3>1
  <2>6. CASE c.ttype = "KEEPALIVE" /\ c.tmiss > 2
    <3>1. c' = [T!Counted(d) EXCEPT !.closing = TRUE] /\ down' = down
      BY <2>6 DEF T!TimesOut
    <3> QED BY <2>1, <3>1
  <2>7. CASE c.ttype = "KEEPALIVE" /\ ~(c.tmiss > 2)
    <3>1. c' = T!Counted(d) /\ down' = Append(down, T!Seg({"ACK"}, c.seq - 1, c.ack, <<>>))
      BY <2>7 DEF T!TimesOut
    <3> QED BY <1>3, <2>1, <3>1
  <2> QED BY <1>2, <2>3, <2>4, <2>5, <2>6, <2>7 DEF TcpConns
<1>6. /\ c' \in TcpConns /\ c'.seq = c.seq /\ c'.ack = c.ack
      /\ c'.connecting = c.connecting /\ c'.recv = c.recv /\ c'.send = c.send
  BY <1>2, <1>5 DEF TcpConns
<1>7. ConnInv'
  BY <1>1, <1>6, SameStreams
<1>8. Streams'
  <2>1. CASE down' = down
    BY <1>1, <2>1 DEF Streams, T!Sent
  <2>2. CASE \E x \in Int : down' = Append(down, T!Seg({"ACK"}, x, c.ack, <<>>))
    BY <1>1, <1>3, <1>4, <2>2, StackSendsOne
  <2> QED BY <1>5, <2>1, <2>2
<1>9. past'.faults \in Nat /\ past'.faults >= past.faults
  BY <1>1 DEF TcpPasts
<1>10. Beginning' /\ T!NothingMissed' /\ PeerInv'
  BY <1>1, <1>9, BegunStays, PeerStays
<1> QED BY <1>1, <1>7, <1>8, <1>10 DEF TcpInv

\* What writing does to a connection.
LEMMA WriteFacts ==
  ASSUME T!MgTcpipAssumption, past \in TcpPasts, NEW s \in TcpConns, Writes(s), T!CanWrite(s)
  PROVE  /\ T!WriteConn(s) \in TcpConns /\ Writes(T!WriteConn(s))
         /\ T!WriteConn(s).recv = s.recv /\ T!WriteConn(s).ack = s.ack
         /\ T!WriteConn(s).connecting = s.connecting
         /\ T!Tx(s, {"PUSH", "ACK"}, SubSeq(s.send, 1, T!Written(s))) \in Segs
         /\ ~past.renumbered
              => T!Tx(s, {"PUSH", "ACK"}, SubSeq(s.send, 1, T!Written(s))) \in DownSegs
<1> DEFINE w == T!Written(s)
           k == Len(s.send)
           f == past.app + 1 - k
           rest == SubSeq(s.send, w + 1, k)
           data == SubSeq(s.send, 1, w)
           g == T!Tx(s, {"PUSH", "ACK"}, data)
           ttype == IF s.ttype = "ACK" THEN "KEEPALIVE" ELSE s.ttype
           t == [s EXCEPT !.seq = s.seq + w, !.send = rest, !.ttype = ttype]
<1>1. /\ s.send \in Seq(Int) /\ s.seq \in Int /\ s.ack \in Int /\ past.app \in Nat
      /\ ttype \in {"KEEPALIVE", "ARP", "SYN", "ACK", "FIN"}
      /\ s.send = T!Bytes(f, k) /\ ~s.connecting
      /\ ~past.renumbered => s.seq = f
  BY DEF TcpConns, TcpPasts, Writes, T!CanWrite
<1>2. k \in Nat /\ f \in Int
  BY <1>1, LenProperties
<1>3. w \in 0 .. k /\ w \in Nat /\ k - w \in Nat /\ f + w \in Int
  BY <1>2 DEF T!Written, T!Smaller, T!MgTcpipAssumption
<1>4. T!WriteConn(s) = t
  BY DEF T!WriteConn
<1> HIDE DEF f, k, w
<1>5. data = T!Bytes(f, w) /\ rest = T!Bytes(f + w, k - w)
  <2>1. SubSeq(T!Bytes(f, k), 1, w) = T!Bytes(f, w)
        /\ SubSeq(T!Bytes(f, k), w + 1, k) = T!Bytes(f + w, k - w)
    BY <1>2, <1>3, BytesSplit
  <2>2. data = SubSeq(T!Bytes(f, k), 1, w) /\ rest = SubSeq(T!Bytes(f, k), w + 1, k)
    <3>1. s.send = T!Bytes(f, k)
      BY <1>1
    <3> QED BY <3>1, Zenon
  <2> QED BY <2>1, <2>2
<1>6. /\ data \in Seq(Int) /\ Len(data) = w
      /\ rest \in Seq(Int) /\ Len(rest) = k - w
  BY <1>2, <1>3, <1>5, BytesFacts
<1>7. g \in Segs /\ g.data = data /\ g.seq = s.seq
  <2>1. {"PUSH", "ACK"} \in SUBSET Flags
    BY DEF Flags
  <2> HIDE DEF data
  <2> QED BY <1>1, <1>6, <2>1 DEF T!Tx, T!Seg, Segs
<1>8. ~past.renumbered => g \in DownSegs
  <2> HIDE DEF g, data
  <2> QED BY <1>1, <1>5, <1>6, <1>7 DEF DownSegs
<1> HIDE DEF data, rest, ttype
<1>9. s.seq + w \in Int
  BY <1>1, <1>3
<1>10. /\ t \in TcpConns /\ t.seq = s.seq + w /\ t.send = rest /\ t.recv = s.recv /\ t.ack = s.ack
       /\ t.connecting = s.connecting
  BY <1>1, <1>6, <1>9 DEF TcpConns
<1>11. past.app + 1 - Len(rest) = f + w
  BY SMTT(30), <1>1, <1>2, <1>3, <1>6 DEF f
<1> HIDE DEF t
<1>12. Writes(t)
  BY <1>1, <1>5, <1>6, <1>10, <1>11 DEF Writes
<1> QED BY <1>4, <1>7, <1>8, <1>10, <1>12 DEF g, data, w

LEMMA ServeStep ==
  ASSUME T!MgTcpipAssumption, TcpInv, T!Serve
  PROVE  TcpInv'
<1> DEFINE w == IF T!CanWrite(c) THEN T!WriteConn(c) ELSE c
           sent == IF T!CanWrite(c)
                     THEN <<T!Tx(c, {"PUSH", "ACK"}, SubSeq(c.send, 1, T!Written(c)))>> ELSE <<>>
           closes == T!Drains(w) /\ ~w.connecting
           fin == IF closes THEN <<T!Tx(w, {"FIN", "ACK"}, <<>>)>> ELSE <<>>
           lost == T!CanWrite(c) /\ past.renumbered
<1>1. /\ past \in TcpPasts /\ Streams /\ PeerInv /\ ConnInv /\ Beginning /\ T!NothingMissed
      /\ c # NONE /\ peer' = peer /\ up' = up
      /\ past' = [past EXCEPT !.astray = @ \/ lost]
      /\ down' = down \o sent \o fin
      /\ c' = IF w.closing THEN NONE ELSE IF closes THEN [w EXCEPT !.ttype = "FIN"] ELSE w
  BY DEF TcpInv, T!Serve
<1>2. c \in TcpConns /\ Reads(c) /\ Writes(c)
  BY <1>1 DEF ConnInv
<1>3. /\ past' \in TcpPasts /\ past'.role = past.role /\ past'.from = past.from
      /\ past'.app = past.app /\ past'.faults = past.faults /\ past'.conns = past.conns
  <2>1. (past.astray \/ lost) \in BOOLEAN
    BY <1>1 DEF TcpPasts
  <2> HIDE DEF lost
  <2> QED BY <1>1, <2>1 DEF TcpPasts
<1>4. /\ past'.renumbered = past.renumbered
      /\ past'.astray = (past.astray \/ lost)
  BY <1>1 DEF TcpPasts
<1>5. <<>> \in Seq(Segs) /\ <<>> \in Seq(DownSegs)
  BY EmptySeq
<1>6. /\ w \in TcpConns /\ Writes(w) /\ w.recv = c.recv /\ w.ack = c.ack
      /\ w.connecting = c.connecting
  BY <1>1, <1>2, WriteFacts
<1>7. sent \in Seq(Segs) /\ (past'.astray \/ sent \in Seq(DownSegs))
  <2>1. CASE T!CanWrite(c)
    <3> DEFINE g == T!Tx(c, {"PUSH", "ACK"}, SubSeq(c.send, 1, T!Written(c)))
    <3>1. g \in Segs /\ (past.renumbered \/ g \in DownSegs)
      BY <1>1, <1>2, <2>1, WriteFacts
    <3>2. sent = <<g>>
      BY <2>1
    <3> HIDE DEF g, sent
    <3>3. past.renumbered => past'.astray
      BY <1>4, <2>1
    <3> QED BY <3>1, <3>2, <3>3
  <2>2. CASE ~T!CanWrite(c)
    BY <1>5, <2>2
  <2> QED BY <2>1, <2>2
<1> HIDE DEF w, sent, lost
<1>8. fin \in Seq(Segs) /\ fin \in Seq(DownSegs)
  <2>1. {"FIN", "ACK"} \in SUBSET Flags /\ w.seq \in Int /\ w.ack \in Int
    BY <1>6 DEF Flags, TcpConns
  <2>2. T!Tx(w, {"FIN", "ACK"}, <<>>) \in Segs /\ T!Tx(w, {"FIN", "ACK"}, <<>>) \in DownSegs
    BY <2>1, EmptySeg DEF T!Tx
  <2>3. <<T!Tx(w, {"FIN", "ACK"}, <<>>)>> \in Seq(Segs)
        /\ <<T!Tx(w, {"FIN", "ACK"}, <<>>)>> \in Seq(DownSegs)
    BY <2>2
  <2> QED BY <1>5, <2>3
<1> HIDE DEF closes, fin
<1>9. Streams'
  <2>1. /\ sent \o fin \in Seq(Segs) /\ (past'.astray \/ sent \o fin \in Seq(DownSegs))
        /\ down \o sent \o fin = down \o (sent \o fin)
    BY SMTT(30), <1>1, <1>7, <1>8, ConcatProperties, ConcatAssociative DEF Streams
  <2>2. up' \in Seq(UpSegs(T!Sent)) /\ (past.astray => past'.astray)
    BY <1>1, <1>4 DEF Streams
  <2> QED BY <1>1, <1>3, <2>1, <2>2, StackSends
<1>10. ConnInv'
  <2> SUFFICES ASSUME ~w.closing  PROVE c' \in TcpConns /\ Reads(c)' /\ Writes(c)'
    BY <1>1 DEF ConnInv
  <2>1. /\ c' \in TcpConns /\ c'.seq = w.seq /\ c'.ack = w.ack /\ c'.recv = w.recv /\ c'.send = w.send
        /\ c'.connecting = w.connecting
    BY <1>1, <1>6 DEF TcpConns
  <2>2. Reads(c)'
    BY <1>2, <1>3, <1>6, <2>1 DEF Reads, T!Sent
  <2>3. Writes(c)'
    BY <1>3, <1>4, <1>6, <2>1 DEF Writes
  <2> QED BY <2>1, <2>2, <2>3
<1>11. PeerInv' /\ Beginning' /\ T!NothingMissed'
  <2>1. past.faults \in Nat /\ past.faults >= past.faults /\ (past.astray => past'.astray)
    BY <1>1, <1>4 DEF TcpPasts
  <2> QED BY <1>1, <1>3, <2>1, PeerStays, BegunStays
<1> QED BY <1>3, <1>9, <1>10, <1>11 DEF TcpInv

LEMMA AppStep ==
  ASSUME TcpInv, T!App
  PROVE  TcpInv'
<1>1. /\ past \in TcpPasts /\ Streams /\ PeerInv /\ ConnInv /\ Beginning /\ T!NothingMissed
      /\ c # NONE /\ peer' = peer /\ up' = up /\ down' = down
      /\ \/ /\ past' = [past EXCEPT !.app = @ + 1]
            /\ c' = [c EXCEPT !.send = Append(@, past.app + 1)]
         \/ /\ past' = [past EXCEPT !.drained = TRUE]
            /\ c' = [c EXCEPT !.draining = TRUE]
  BY DEF TcpInv, T!App, T!AppSend, T!AppDrain
<1>2. c \in TcpConns /\ Reads(c) /\ Writes(c)
  BY <1>1 DEF ConnInv
<1>3. /\ past' \in TcpPasts /\ past'.role = past.role /\ past'.from = past.from
      /\ past'.faults = past.faults /\ past'.conns = past.conns
  <2>1. CASE past' = [past EXCEPT !.app = @ + 1]
    BY <1>1, <2>1 DEF TcpPasts
  <2>2. CASE past' = [past EXCEPT !.drained = TRUE]
    BY <1>1, <2>2 DEF TcpPasts
  <2> QED BY <1>1, <2>1, <2>2
<1>4. /\ past'.renumbered = past.renumbered
      /\ past'.astray = past.astray
  BY <1>1 DEF TcpPasts
<1>5. Streams'
  BY <1>1, <1>3, <1>4 DEF Streams, T!Sent
<1>6. PeerInv' /\ Beginning' /\ T!NothingMissed'
  <2>1. past.faults \in Nat /\ past.faults >= past.faults
    BY <1>1 DEF TcpPasts
  <2> QED BY <1>1, <1>3, <1>4, <2>1, PeerStays, BegunStays
<1>7. ConnInv'
  <2>1. CASE /\ past' = [past EXCEPT !.app = @ + 1]
             /\ c' = [c EXCEPT !.send = Append(@, past.app + 1)]
    <3> DEFINE k == Len(c.send)
               f == past.app + 1 - k
               all == Append(c.send, past.app + 1)
    <3>1. c.send \in Seq(Int) /\ past.app \in Nat /\ past.app + 1 \in Int /\ c.send = T!Bytes(f, k)
      BY <1>1, <1>2 DEF TcpConns, TcpPasts, Writes
    <3>2. k \in Nat /\ f \in Int /\ f + k = past.app + 1
      BY <3>1, LenProperties
    <3>3. all \in Seq(Int) /\ Len(all) = k + 1
      BY <3>1, AppendFacts
    <3>4. Append(T!Bytes(f, k), f + k) = T!Bytes(f, k + 1)
      <4> HIDE DEF f, k
      <4> QED BY <3>2, BytesAppend
    <3>5. all = T!Bytes(f, k + 1)
      <4>1. Append(c.send, past.app + 1) = Append(T!Bytes(f, k), f + k)
        <5> HIDE DEF f, k
        <5> QED BY <3>1, <3>2
      <4> QED BY <3>4, <4>1
    <3>6. past'.app = past.app + 1
      BY <1>1, <2>1 DEF TcpPasts
    <3>7. /\ past'.app + 1 - Len(all) = f
      BY <3>1, <3>2, <3>3, <3>6
    <3>8. c' = [c EXCEPT !.send = all]
      BY <2>1
    <3> HIDE DEF all
    <3>9. /\ c' \in TcpConns /\ c'.seq = c.seq /\ c'.ack = c.ack /\ c'.recv = c.recv /\ c'.send = all
          /\ c'.connecting = c.connecting
      BY <1>2, <3>3, <3>8 DEF TcpConns
    <3>10. Reads(c)'
      BY <1>2, <1>3, <3>9 DEF Reads, T!Sent
    <3>11. Writes(c)'
      <4>1. (c'.send = T!Bytes(past'.app + 1 - Len(c'.send), Len(c'.send)))
        <5> HIDE DEF f, k
        <5> QED BY <3>3, <3>5, <3>7, <3>9
      <4>2. c'.connecting => Len(c'.send) = past'.app
        BY <1>2, <3>3, <3>6, <3>9 DEF Writes
      <4>3. ~c'.connecting /\ ~past'.renumbered => c'.seq = past'.app + 1 - Len(c'.send)
        BY <1>2, <1>4, <3>7, <3>9 DEF Writes
      <4> QED BY <4>1, <4>2, <4>3 DEF Writes
    <3> QED BY <3>9, <3>10, <3>11 DEF ConnInv
  <2>2. CASE /\ past' = [past EXCEPT !.drained = TRUE]
             /\ c' = [c EXCEPT !.draining = TRUE]
    <3>1. /\ c' \in TcpConns /\ c'.seq = c.seq /\ c'.ack = c.ack
          /\ c'.connecting = c.connecting /\ c'.recv = c.recv /\ c'.send = c.send
      BY <1>2, <2>2 DEF TcpConns
    <3>2. past'.app = past.app
      BY <1>1, <2>2 DEF TcpPasts
    <3> QED BY <1>1, <1>3, <1>4, <3>1, <3>2, SameStreams
  <2> QED BY <1>1, <2>1, <2>2
<1> QED BY <1>3, <1>5, <1>6, <1>7 DEF TcpInv

-----------------------------------------------------------------------------
(* The network *)

LEMMA SpoiltFacts ==
  ASSUME NEW S, NEW q \in Seq(S)
  PROVE  T!Spoilt(q) \subseteq Seq(S)
<1>1. q # <<>> => Tail(q) \in Seq(S) /\ <<Head(q)>> \o q \in Seq(S)
  <2> SUFFICES ASSUME q # <<>>  PROVE Tail(q) \in Seq(S) /\ <<Head(q)>> \o q \in Seq(S)
    OBVIOUS
  <2>1. Head(q) \in S /\ Tail(q) \in Seq(S)
    BY HeadTailProperties
  <2>2. <<Head(q)>> \in Seq(S)
    BY <2>1
  <2> QED BY <2>1, <2>2, ConcatProperties
<1>2. ~(Len(q) < 2) => <<q[2], q[1]>> \o SubSeq(q, 3, Len(q)) \in Seq(S)
  <2> SUFFICES ASSUME ~(Len(q) < 2)  PROVE <<q[2], q[1]>> \o SubSeq(q, 3, Len(q)) \in Seq(S)
    OBVIOUS
  <2>1. Len(q) \in Nat /\ \A i \in 1 .. Len(q) : q[i] \in S
    BY LenProperties, ElementOfSeq
  <2>2. q[1] \in S /\ q[2] \in S
    BY <2>1
  <2>3. <<q[2], q[1]>> \in Seq(S)
    BY <2>2
  <2>4. SubSeq(q, 3, Len(q)) \in Seq(S)
    <3>1. \A i \in 3 .. Len(q) : q[i] \in S
      BY <2>1
    <3>2. 3 \in Int /\ Len(q) \in Int
      BY <2>1
    <3> QED BY <3>1, <3>2, SubSeqProperties
  <2> QED BY <2>3, <2>4, ConcatProperties
<1> QED BY <1>1, <1>2 DEF T!Spoilt

LEMMA FaultStep ==
  ASSUME TcpInv, T!Fault
  PROVE  TcpInv'
<1>1. /\ past \in TcpPasts /\ Streams /\ PeerInv /\ ConnInv
      /\ c' = c /\ peer' = peer /\ past' = [past EXCEPT !.faults = @ + 1]
      /\ \/ up' \in T!Spoilt(up) /\ down' = down
         \/ down' \in T!Spoilt(down) /\ up' = up
  BY DEF TcpInv, T!Fault
<1>2. /\ past' \in TcpPasts /\ past'.role = past.role /\ past'.from = past.from
      /\ past'.app = past.app /\ past'.renumbered = past.renumbered
      /\ past'.astray = past.astray /\ past'.faults # 0
  BY <1>1 DEF TcpPasts
<1>3. Streams'
  <2>1. up' \in Seq(UpSegs(T!Sent))
    BY <1>1, SpoiltFacts DEF Streams
  <2>2. down' \in Seq(Segs) /\ (past.astray \/ down' \in Seq(DownSegs))
    BY <1>1, SpoiltFacts DEF Streams
  <2> QED BY <1>2, <2>1, <2>2 DEF Streams, T!Sent
<1>4. ConnInv' /\ PeerInv'
  BY <1>1, <1>2, ConnStays, PeerStays
<1>5. Beginning' /\ T!NothingMissed'
  BY <1>2 DEF Beginning, T!NothingMissed
<1> QED BY <1>2, <1>3, <1>4, <1>5 DEF TcpInv

LEMMA TcpNext ==
  ASSUME T!MgTcpipAssumption, TcpInv, [T!Next]_(T!vars)
  PROVE  TcpInv'
<1>1. CASE UNCHANGED T!vars
  <2>1. /\ past' = past /\ c' = c /\ peer' = peer /\ up' = up /\ down' = down
    BY <1>1 DEF T!vars
  <2>2. ConnInv' /\ PeerInv'
    BY <2>1, ConnStays, PeerStays DEF TcpInv
  <2>3. Streams' /\ Beginning' /\ T!NothingMissed'
    BY <2>1 DEF TcpInv, Streams, T!Sent, Beginning, T!NothingMissed
  <2> QED BY <2>1, <2>2, <2>3 DEF TcpInv
<1>2. CASE T!PeerStep
  BY <1>2, PeerConnectStep, PeerSendStep, PeerRecvStep DEF T!PeerStep
<1>3. CASE T!Stack
  <2>1. CASE T!Rx
    BY <2>1, RxNewStep, RxConnStep
  <2> QED BY <1>3, <2>1, TcpConnectStep, RxArpStep, TimesOutStep, ServeStep DEF T!Stack
<1> QED BY <1>1, <1>2, <1>3, AppStep, PeerDieStep, FaultStep DEF T!Next

LEMMA TcpIsTrue ==
  ASSUME TcpInv
  PROVE  T!StreamsAreTrue /\ T!NothingMissed
  BY DEF TcpInv, ConnInv, PeerInv, Reads, T!StreamsAreTrue

-----------------------------------------------------------------------------
(* DHCP, for any lease and any number of losses                            *)
(*                                                                         *)
(* What decides is what the servers say: an ordinary one names a router in *)
(* every OFFER and ACK, so that a client that has asked for its address    *)
(* takes the answer; mongoose's names none, so that no client of its gets  *)
(* beyond asking.                                                          *)

Interfaces == [state : {"DOWN", "UP", "REQ", "READY"}, ip : {0, 1}, lease : Nat]

DhcpMessages == [type : {"OFFER", "ACK", "NAK"}, router : BOOLEAN, lease : Nat]

\* An ordinary server names a router in all that is no NAK, and mongoose's in
\* nothing.
Answered(m) ==
  /\ m \in DhcpMessages
  /\ IF server = "ordinary" THEN m = D!Reply(m.type) ELSE ~m.router

DhcpInv ==
  /\ ifp \in Interfaces /\ server \in {"ordinary", "mongoose"}
  /\ \A m \in answered : Answered(m)
  /\ server = "mongoose" => ifp.state \in {"DOWN", "UP"}
  /\ D!AddressWhenReady
  /\ D!ReqOnlyIfLost

LEMMA DhcpInit ==
  ASSUME D!Init
  PROVE  DhcpInv
  BY DEF D!Init, D!Down, DhcpInv, Interfaces, D!AddressWhenReady, D!ReqOnlyIfLost

LEMMA ReplyFacts ==
  ASSUME D!MgDhcpAssumption, NEW type \in {"OFFER", "ACK", "NAK"}
  PROVE  /\ D!Reply(type) \in DhcpMessages /\ D!Reply(type).type = type
         /\ D!Address(D!Reply(type)) = IF type = "NAK" THEN 0 ELSE 1
         /\ type # "NAK" => D!Reply(type).lease # 0
  BY DEF D!Reply, D!Address, DhcpMessages, D!MgDhcpAssumption

\* The interface after its step, and what is on its way.
LEMMA DhcpStep ==
  ASSUME DhcpInv, server' = server, ifp' \in Interfaces,
         \A m \in answered' : Answered(m),
         ifp'.ip # 0 <=> ifp'.state = "READY",
         server = "mongoose" => ifp'.state \in {"DOWN", "UP"},
         D!ReqOnlyIfLost'
  PROVE  DhcpInv'
<1>1. \A m : Answered(m) = Answered(m)'
  BY DEF Answered
<1>2. D!AddressWhenReady'
  BY DEF D!AddressWhenReady, DhcpInv
<1> QED BY <1>1, <1>2 DEF DhcpInv

LEMMA DhcpPollStep ==
  ASSUME DhcpInv, D!Poll
  PROVE  DhcpInv'
<1>1. /\ server' = server /\ answered' = answered /\ ifp \in Interfaces
      /\ ifp' = IF D!Expires(D!Linked) THEN [D!Linked EXCEPT !.state = "UP", !.ip = 0] ELSE D!Linked
      /\ asked \subseteq asked'
      /\ dropped' = (dropped /\ D!Linked.state # "UP")
      /\ \A m \in answered : Answered(m)
      /\ server = "mongoose" => ifp.state \in {"DOWN", "UP"}
      /\ ifp.ip # 0 <=> ifp.state = "READY"
  BY DEF D!Poll, DhcpInv, D!AddressWhenReady
<1>2. /\ D!Linked \in Interfaces /\ (D!Linked.ip # 0 <=> D!Linked.state = "READY")
      /\ D!Linked.state \in {"DOWN", "UP", ifp.state}
      /\ D!Linked.state = "REQ" => D!Linked = ifp
  BY <1>1 DEF D!Linked, Interfaces
<1>3. /\ ifp' \in Interfaces /\ (ifp'.ip # 0 <=> ifp'.state = "READY")
      /\ ifp'.state \in {"DOWN", "UP", ifp.state}
      /\ ifp'.state = "REQ" => ifp.state = "REQ" /\ D!Linked.state = "REQ"
  BY <1>1, <1>2 DEF Interfaces
<1>4. D!ReqOnlyIfLost'
  <2> SUFFICES ASSUME ifp'.state = "REQ"
               PROVE  dropped' \/ "REQUEST" \in asked' \/ \E m \in answered' : m.type \in {"ACK", "NAK"}
    BY DEF D!ReqOnlyIfLost
  <2>1. dropped \/ "REQUEST" \in asked \/ \E m \in answered : m.type \in {"ACK", "NAK"}
    BY <1>3 DEF DhcpInv, D!ReqOnlyIfLost
  <2> QED BY <1>1, <1>3, <2>1
<1> QED BY <1>1, <1>3, <1>4, DhcpStep

LEMMA DhcpReceiveStep ==
  ASSUME D!MgDhcpAssumption, DhcpInv, D!Receive
  PROVE  DhcpInv'
<1>1. PICK m \in answered : D!Offer(m) \/ D!Ack(m) \/ D!Nak(m)
  BY DEF D!Receive
<1>2. /\ server' = server /\ dropped' = dropped /\ ifp \in Interfaces
      /\ answered' = answered \ {m}
      /\ server \in {"ordinary", "mongoose"}
  BY <1>1 DEF D!Offer, D!Ack, D!Nak, D!Take, DhcpInv
<1>3. /\ \A e \in answered : Answered(e)
      /\ server = "mongoose" => ifp.state \in {"DOWN", "UP"}
      /\ ifp.ip # 0 <=> ifp.state = "READY"
      /\ ifp.state = "REQ" =>
           dropped \/ "REQUEST" \in asked \/ \E e \in answered : e.type \in {"ACK", "NAK"}
  BY DEF DhcpInv, D!AddressWhenReady, D!ReqOnlyIfLost
<1>4. /\ m \in DhcpMessages /\ m.type \in {"OFFER", "ACK", "NAK"} /\ m.lease \in Nat
      /\ server = "ordinary" => m = D!Reply(m.type)
      /\ server = "mongoose" => D!Address(m) = 0
      /\ D!Address(m) \in {0, 1}
  <2>1. Answered(m)
    BY <1>3
  <2> QED BY <1>2, <2>1 DEF Answered, DhcpMessages, D!Address
<1>5. server = "ordinary" => /\ D!Address(m) = IF m.type = "NAK" THEN 0 ELSE 1
                             /\ m.type # "NAK" => m.lease # 0
  BY <1>4, ReplyFacts
<1>6. \A e \in answered' : Answered(e)
  BY <1>2, <1>3
<1>7. CASE D!Offer(m)
  <2>1. m.type = "OFFER"
    BY <1>7 DEF D!Offer
  <2>2. CASE ifp.state = "UP" /\ D!Address(m) # 0 /\ m.lease # 0
    <3>1. ifp' = [ifp EXCEPT !.state = "REQ"] /\ "REQUEST" \in asked'
      BY <1>7, <2>2 DEF D!Offer
    <3>2. /\ ifp' \in Interfaces /\ ifp'.state = "REQ" /\ ifp'.ip = ifp.ip
      BY <1>2, <3>1 DEF Interfaces
    <3>3. D!ReqOnlyIfLost'
      BY <3>1 DEF D!ReqOnlyIfLost
    <3>4. server # "mongoose" /\ ifp.ip = 0
      BY <1>3, <1>4, <2>2
    <3> QED BY <1>2, <1>6, <3>2, <3>3, <3>4, DhcpStep
  <2>3. CASE ~(ifp.state = "UP" /\ D!Address(m) # 0 /\ m.lease # 0)
    <3>1. ifp' = ifp /\ asked' = asked
      BY <1>7, <2>3 DEF D!Offer
    <3>2. D!ReqOnlyIfLost'
      BY <1>2, <1>3, <2>1, <3>1 DEF D!ReqOnlyIfLost
    <3> QED BY <1>2, <1>3, <1>6, <3>1, <3>2, DhcpStep
  <2> QED BY <2>2, <2>3
<1>8. CASE D!Ack(m)
  <2>1. /\ m.type = "ACK" /\ asked' = asked
        /\ ifp' = CASE ifp.state = "REQ" /\ D!Address(m) # 0 /\ m.lease # 0 ->
                   [state |-> "READY", ip |-> D!Address(m), lease |-> m.lease]
              [] ifp.state = "READY" /\ ifp.ip = D!Address(m) -> [ifp EXCEPT !.lease = m.lease]
              [] OTHER -> ifp
    BY <1>8 DEF D!Ack
  <2>2. CASE ifp.state = "REQ"
    <3>1. server = "ordinary" /\ D!Address(m) # 0 /\ m.lease # 0
      BY <1>2, <1>3, <1>5, <2>1, <2>2
    <3>2. ifp' = [state |-> "READY", ip |-> D!Address(m), lease |-> m.lease]
      BY <2>1, <2>2, <3>1
    <3>3. ifp' \in Interfaces /\ ifp'.state = "READY" /\ ifp'.ip # 0
      BY <1>4, <3>1, <3>2 DEF Interfaces
    <3>4. D!ReqOnlyIfLost'
      BY <3>3 DEF D!ReqOnlyIfLost
    <3> QED BY <1>2, <1>6, <3>1, <3>3, <3>4, DhcpStep
  <2>3. CASE ifp.state # "REQ"
    <3>1. ifp' \in {ifp, [ifp EXCEPT !.lease = m.lease]}
      BY <2>1, <2>3
    <3>2. ifp' \in Interfaces /\ ifp'.state = ifp.state /\ ifp'.ip = ifp.ip
      BY <1>2, <1>4, <3>1 DEF Interfaces
    <3>3. D!ReqOnlyIfLost'
      BY <2>3, <3>2 DEF D!ReqOnlyIfLost
    <3> QED BY <1>2, <1>3, <1>6, <3>2, <3>3, DhcpStep
  <2> QED BY <2>2, <2>3
<1>9. CASE D!Nak(m)
  <2>1. /\ m.type = "NAK" /\ asked' = asked
        /\ ifp' = IF ifp.ip = D!Address(m) THEN [ifp EXCEPT !.state = "UP", !.ip = 0] ELSE ifp
    BY <1>9 DEF D!Nak
  <2>2. D!Address(m) = 0
    BY <1>2, <1>4, <1>5, <2>1
  <2>3. CASE ifp.ip = 0
    <3>1. ifp' \in Interfaces /\ ifp'.state = "UP" /\ ifp'.ip = 0
      BY <1>2, <2>1, <2>2, <2>3 DEF Interfaces
    <3>2. D!ReqOnlyIfLost'
      BY <3>1 DEF D!ReqOnlyIfLost
    <3> QED BY <1>2, <1>6, <3>1, <3>2, DhcpStep
  <2>4. CASE ifp.ip # 0
    <3>1. ifp' = ifp
      BY <2>1, <2>2, <2>4
    <3>2. D!ReqOnlyIfLost'
      BY <1>3, <2>4, <3>1 DEF D!ReqOnlyIfLost
    <3> QED BY <1>2, <1>3, <1>6, <3>1, <3>2, DhcpStep
  <2> QED BY <2>3, <2>4
<1> QED BY <1>1, <1>7, <1>8, <1>9

LEMMA DhcpServerStep ==
  ASSUME D!MgDhcpAssumption, DhcpInv, NEW q \in D!Questions, D!Serve(q)
  PROVE  DhcpInv'
<1>1. /\ server' = server /\ dropped' = dropped /\ ifp' = ifp
      /\ asked' = asked \ {q}
      /\ server \in {"ordinary", "mongoose"} /\ ifp \in Interfaces
      /\ \A e \in answered : Answered(e)
      /\ server = "mongoose" => ifp.state \in {"DOWN", "UP"}
      /\ ifp.ip # 0 <=> ifp.state = "READY"
      /\ ifp.state = "REQ" =>
           dropped \/ "REQUEST" \in asked \/ \E e \in answered : e.type \in {"ACK", "NAK"}
  BY DEF D!Serve, DhcpInv, D!AddressWhenReady, D!ReqOnlyIfLost
<1>2. PICK m \in IF server = "ordinary" THEN D!Ordinary(q) ELSE D!rx_dhcp_server(q) :
        answered' = answered \cup {m}
  BY DEF D!Serve
<1>3. /\ Answered(m)
      /\ q = "REQUEST" => m.type \in {"ACK", "NAK"}
  <2>1. CASE server = "ordinary"
    <3>1. PICK type \in {"OFFER", "ACK", "NAK"} : m = D!Reply(type) /\ (q # "DISCOVER" => type # "OFFER")
      BY <1>2, <2>1 DEF D!Ordinary
    <3>2. m \in DhcpMessages /\ m.type = type
      BY <3>1, ReplyFacts
    <3> QED BY <2>1, <3>1, <3>2 DEF Answered
  <2>2. CASE server = "mongoose"
    <3> DEFINE type == IF q = "DISCOVER" THEN "OFFER" ELSE "ACK"
    <3>1. m = [type |-> type, router |-> FALSE, lease |-> MaxLease]
      BY <1>2, <2>2 DEF D!rx_dhcp_server
    <3>2. type \in {"OFFER", "ACK", "NAK"} /\ (q = "REQUEST" => type = "ACK")
      OBVIOUS
    <3> HIDE DEF type
    <3>3. m \in DhcpMessages /\ m.type = type
      BY <3>1, <3>2 DEF DhcpMessages, D!MgDhcpAssumption
    <3>4. m.router = FALSE
      BY <3>1
    <3> QED BY <2>2, <3>2, <3>3, <3>4 DEF Answered
  <2> QED BY <1>1, <2>1, <2>2
<1>4. D!ReqOnlyIfLost'
  BY <1>1, <1>2, <1>3 DEF D!ReqOnlyIfLost
<1>5. \A e \in answered' : Answered(e)
  BY <1>1, <1>2, <1>3
<1> QED BY <1>1, <1>4, <1>5, DhcpStep

LEMMA DhcpNext ==
  ASSUME D!MgDhcpAssumption, DhcpInv, [D!Next]_(D!vars)
  PROVE  DhcpInv'
<1>1. CASE UNCHANGED D!vars
  BY <1>1 DEF D!vars, DhcpInv, Answered, D!AddressWhenReady, D!ReqOnlyIfLost
<1>2. CASE D!Lose \/ D!Relink
  <2>1. /\ server' = server /\ ifp' = ifp /\ answered' \subseteq answered
        /\ dropped' \/ (dropped' = dropped /\ asked' = asked /\ answered' = answered)
    BY <1>2 DEF D!Lose, D!Relink
  <2>2. D!ReqOnlyIfLost'
    BY <2>1 DEF D!ReqOnlyIfLost, DhcpInv
  <2> QED BY <2>1, <2>2, DhcpStep DEF DhcpInv, D!AddressWhenReady
<1>3. CASE D!Pass
  <2>1. /\ server' = server /\ answered' = answered /\ asked' = asked /\ dropped' = dropped
        /\ ifp' = [ifp EXCEPT !.lease = @ - 1] /\ ifp \in Interfaces /\ ifp.lease > 0
    BY <1>3 DEF D!Pass, DhcpInv
  <2>2. ifp' \in Interfaces /\ ifp'.state = ifp.state /\ ifp'.ip = ifp.ip
    BY <2>1 DEF Interfaces
  <2>3. D!ReqOnlyIfLost'
    BY <2>1, <2>2 DEF D!ReqOnlyIfLost, DhcpInv
  <2> QED BY <2>1, <2>2, <2>3, DhcpStep DEF DhcpInv, D!AddressWhenReady
<1> QED BY <1>1, <1>2, <1>3, DhcpPollStep, DhcpReceiveStep, DhcpServerStep DEF D!Next

-----------------------------------------------------------------------------
(* DNS, for any number of connections, hosts and look-ups                  *)
(*                                                                         *)
(* As long as nothing is late, each message on its way has a request with  *)
(* its identifier, of a connection that asked for its host, and a new      *)
(* identifier is larger than those of all requests.                        *)

Connections == [live : BOOLEAN, host : Hosts \cup {NONE}, is_resolving : BOOLEAN,
                is_closing : BOOLEAN, rem : Hosts \cup {NONE}]

Requests == [c : Conns, txnid : Nat, left : Nat]

DnsPasts == [faults : Nat, connects : Nat, late : BOOLEAN]

\* The list has a head, whatever is taken out of it.
HaveHeads(rs) ==
  \A some \in SUBSET rs :
    some # {} => \E d \in some : \A e \in some : e.txnid <= d.txnid

\* Every message is about a request that is there, and no two are about the same.
MessagesHaveRequests(conns, rs, ms) ==
  /\ \A m \in ms : \E d \in rs : d.txnid = m.txnid /\ conns[d.c].host = m.host
  /\ \A m, k \in ms : m.txnid = k.txnid => m = k

DnsInv ==
  /\ conn \in [Conns -> Connections] /\ reqs \subseteq Requests /\ dns_past \in DnsPasts
  /\ \A m \in net : m.host \in Hosts
  /\ HaveHeads(reqs)
  /\ N!RequestsAreLive
  /\ N!OwnAddress
  /\ dns_past.late \/ MessagesHaveRequests(conn, reqs, net)

LEMMA DnsInit ==
  ASSUME N!Init
  PROVE  DnsInv
<1>1. conn \in [Conns -> Connections] /\ \A x \in Conns : conn[x].rem = NONE
  BY DEF N!Init, N!Conn, Connections
<1>2. reqs = {} /\ net = {} /\ dns_past \in DnsPasts
  BY DEF N!Init, DnsPasts
<1> QED BY <1>1, <1>2 DEF DnsInv, HaveHeads, N!RequestsAreLive, N!Owners, N!OwnAddress, MessagesHaveRequests

LEMMA FewerHaveHeads ==
  ASSUME NEW rs, HaveHeads(rs), NEW few \in SUBSET rs
  PROVE  HaveHeads(few)
  BY DEF HaveHeads

LEMMA FailedFacts ==
  ASSUME NEW f \in [Conns -> Connections], NEW cs
  PROVE  /\ N!Failed(f, cs) \in [Conns -> Connections]
         /\ \A x \in Conns : /\ N!Failed(f, cs)[x].live = f[x].live
                             /\ N!Failed(f, cs)[x].host = f[x].host
                             /\ N!Failed(f, cs)[x].is_resolving = f[x].is_resolving
                             /\ N!Failed(f, cs)[x].rem = f[x].rem
  BY DEF N!Failed, Connections

\* A request takes a new identifier.
LEMMA NewTxnidFacts ==
  ASSUME reqs \subseteq Requests, HaveHeads(reqs)
  PROVE  N!new_txnid(reqs) \in Nat /\ \A d \in reqs : d.txnid < N!new_txnid(reqs)
<1>1. CASE reqs = {}
  BY <1>1 DEF N!new_txnid
<1>2. CASE reqs # {}
  <2>1. \E d \in reqs : \A e \in reqs : e.txnid <= d.txnid
    BY <1>2 DEF HaveHeads
  <2>2. N!Youngest(reqs) \in reqs /\ \A e \in reqs : e.txnid <= N!Youngest(reqs).txnid
    BY <2>1, Zenon DEF N!Youngest
  <2>3. N!Youngest(reqs).txnid \in Nat /\ \A e \in reqs : e.txnid \in Nat
    BY <2>2 DEF Requests
  <2>4. N!new_txnid(reqs) = N!Youngest(reqs).txnid + 1
    BY <1>2 DEF N!new_txnid
  <2> QED BY <2>2, <2>3, <2>4
<1> QED BY <1>1, <1>2

LEMMA OneMoreHasHeads ==
  ASSUME reqs \subseteq Requests, HaveHeads(reqs), NEW d \in Requests,
         d.txnid = N!new_txnid(reqs)
  PROVE  HaveHeads(reqs \cup {d})
<1>1. \A e \in reqs \cup {d} : e.txnid <= d.txnid
  BY NewTxnidFacts DEF Requests
<1> SUFFICES ASSUME NEW some \in SUBSET (reqs \cup {d}), some # {}
             PROVE  \E f \in some : \A e \in some : e.txnid <= f.txnid
  BY DEF HaveHeads
<1>2. CASE d \in some
  BY <1>1, <1>2
<1>3. CASE d \notin some
  BY <1>3 DEF HaveHeads
<1> QED BY <1>2, <1>3

LEMMA DnsConnectStep ==
  ASSUME N!MgDnsAssumption, DnsInv, NEW h \in Hosts, N!Connect(h)
  PROVE  DnsInv'
<1> DEFINE x == CHOOSE x \in Conns : ~conn[x].live
           f == [conn EXCEPT ![x] = N!Conn(TRUE, h)]
           d == [c |-> x, txnid |-> N!new_txnid(reqs), left |-> Timeout]
<1>1. /\ conn \in [Conns -> Connections] /\ reqs \subseteq Requests /\ dns_past \in DnsPasts
      /\ \A m \in net : m.host \in Hosts
      /\ HaveHeads(reqs)
      /\ dns_past.late \/ MessagesHaveRequests(conn, reqs, net)
  BY DEF DnsInv
<1>2. x \in Conns /\ ~conn[x].live
  <2>1. \E y \in Conns : ~conn[y].live
    BY DEF N!Connect
  <2> QED BY <2>1, Zenon
<1>3. /\ dns_past' \in DnsPasts /\ dns_past'.late = dns_past.late
      /\ \/ conn' = N!Failed(f, {x}) /\ reqs' = reqs /\ net' = net
         \/ /\ conn' = [f EXCEPT ![x].is_resolving = TRUE]
            /\ reqs' = reqs \cup {d}
            /\ net' \in {net, net \cup {N!Query(d.txnid, h)}}
  <2>1. dns_past' \in {[dns_past EXCEPT !.connects = @ + 1], [dns_past EXCEPT !.connects = @ + 1, !.faults = @ + 1]}
    BY DEF N!Connect
  <2>2. dns_past' \in DnsPasts
    <3>1. CASE dns_past' = [dns_past EXCEPT !.connects = @ + 1]
      BY <1>1, <3>1 DEF DnsPasts
    <3>2. CASE dns_past' = [dns_past EXCEPT !.connects = @ + 1, !.faults = @ + 1]
      <4>1. dns_past.connects + 1 \in Nat /\ dns_past.faults + 1 \in Nat
        BY <1>1 DEF DnsPasts
      <4> QED BY <1>1, <3>2, <4>1 DEF DnsPasts
    <3> QED BY <2>1, <3>1, <3>2
  <2>3. dns_past'.late = dns_past.late
    BY <1>1, <2>1 DEF DnsPasts
  <2> QED BY <2>2, <2>3 DEF N!Connect
<1> HIDE DEF x
<1>4. /\ f \in [Conns -> Connections] /\ f[x] = N!Conn(TRUE, h)
      /\ \A y \in Conns : y # x => f[y] = conn[y]
  BY <1>1, <1>2 DEF Connections, N!Conn
<1> HIDE DEF f
<1>5. /\ \A e \in reqs : e.c \in Conns /\ e.c # x /\ conn[e.c].live /\ conn[e.c].is_resolving
      /\ \A e, g \in reqs : e.txnid = g.txnid \/ e.c = g.c => e = g
  BY <1>1, <1>2 DEF DnsInv, N!RequestsAreLive, N!Owners, Requests
<1>6. /\ conn' \in [Conns -> Connections]
      /\ conn'[x].live = TRUE /\ conn'[x].host = h /\ conn'[x].rem = NONE
      /\ \A y \in Conns : y # x => /\ conn'[y].live = conn[y].live /\ conn'[y].host = conn[y].host
                                   /\ conn'[y].is_resolving = conn[y].is_resolving
                                   /\ conn'[y].rem = conn[y].rem
  <2>1. CASE conn' = N!Failed(f, {x})
    BY <1>2, <1>4, <2>1, FailedFacts DEF N!Conn
  <2>2. CASE conn' = [f EXCEPT ![x].is_resolving = TRUE]
    <3> DEFINE r == [f[x] EXCEPT !.is_resolving = TRUE]
    <3>1. f[x] \in Connections
      BY <1>2, <1>4
    <3>2. f[x].live = TRUE /\ f[x].host = h /\ f[x].rem = NONE
      BY <1>4 DEF N!Conn
    <3>3. r \in Connections
      BY <3>1 DEF Connections
    <3>4. r.host = h /\ r.rem = NONE
      BY <3>1, <3>2 DEF Connections
    <3>5. r.live = TRUE
      BY <3>1, <3>2 DEF Connections
    <3>6. conn' = [f EXCEPT ![x] = r]
      BY <2>2
    <3> HIDE DEF r
    <3>7. conn' \in [Conns -> Connections] /\ conn'[x] = r
          /\ \A y \in Conns : y # x => conn'[y] = conn[y]
      BY <1>2, <1>4, <3>3, <3>6
    <3> QED BY <3>4, <3>5, <3>7
  <2> QED BY <1>3, <2>1, <2>2
<1>7. N!OwnAddress'
  BY <1>2, <1>3, <1>6 DEF N!OwnAddress, DnsInv
<1>8. ASSUME NEW m \in net, NEW e \in reqs, e.txnid = m.txnid /\ conn[e.c].host = m.host
      PROVE  e.txnid = m.txnid /\ conn'[e.c].host = m.host
  BY <1>5, <1>6, <1>8
<1>9. CASE reqs' = reqs /\ net' = net
  <2>1. N!RequestsAreLive'
    BY <1>5, <1>6, <1>9 DEF N!RequestsAreLive, N!Owners
  <2>2. dns_past'.late \/ MessagesHaveRequests(conn, reqs, net)'
    BY <1>1, <1>3, <1>8, <1>9 DEF MessagesHaveRequests
  <2> QED BY <1>1, <1>3, <1>6, <1>7, <1>9, <2>1, <2>2 DEF DnsInv
<1>10. CASE /\ conn' = [f EXCEPT ![x].is_resolving = TRUE]
            /\ reqs' = reqs \cup {d}
            /\ net' \in {net, net \cup {N!Query(d.txnid, h)}}
  <2>1. /\ d \in Requests /\ d.c = x /\ d.txnid = N!new_txnid(reqs)
        /\ \A e \in reqs : e.txnid # d.txnid
    BY <1>1, <1>2, NewTxnidFacts DEF Requests, N!MgDnsAssumption
  <2>2. conn'[x].is_resolving = TRUE
    BY <1>2, <1>4, <1>10 DEF Connections
  <2> HIDE DEF d
  <2>3. HaveHeads(reqs')
    BY <1>1, <1>10, <2>1, OneMoreHasHeads
  <2>4. N!RequestsAreLive'
    <3>1. \A e \in reqs' : conn'[e.c].live /\ conn'[e.c].is_resolving
      BY <1>5, <1>6, <1>10, <2>1, <2>2
    <3>2. \A e, g \in reqs' : e.txnid = g.txnid \/ e.c = g.c => e = g
      BY <1>5, <1>10, <2>1
    <3> QED BY <3>1, <3>2 DEF N!RequestsAreLive, N!Owners
  <2>5. ASSUME ~dns_past.late  PROVE MessagesHaveRequests(conn', reqs', net')
    <3> DEFINE q == N!Query(d.txnid, h)
    <3>1. q.txnid = d.txnid /\ q.host = h
      BY DEF N!Query
    <3> HIDE DEF q
    <3>2. /\ \A m \in net : \E e \in reqs : e.txnid = m.txnid /\ conn[e.c].host = m.host
          /\ \A m, k \in net : m.txnid = k.txnid => m = k
      BY <1>1, <2>5 DEF MessagesHaveRequests
    <3>3. \A m \in net : m.txnid # d.txnid
      BY <2>1, <3>2
    <3>4. \A m \in net' : m \in net \/ m = q
      BY <1>10 DEF q
    <3>5. ASSUME NEW m \in net'
          PROVE  \E e \in reqs' : e.txnid = m.txnid /\ conn'[e.c].host = m.host
      <4>1. CASE m \in net
        BY <1>8, <1>10, <3>2, <4>1
      <4>2. CASE m = q
        BY <1>6, <1>10, <2>1, <3>1, <4>2
      <4> QED BY <3>4, <4>1, <4>2
    <3>6. \A m, k \in net' : m.txnid = k.txnid => m = k
      BY <3>1, <3>2, <3>3, <3>4
    <3> QED BY <3>5, <3>6 DEF MessagesHaveRequests
  <2>6. \A m \in net' : m.host \in Hosts
    BY <1>1, <1>10 DEF N!Query
  <2>7. reqs' \subseteq Requests
    BY <1>1, <1>10, <2>1
  <2>8. dns_past'.late \/ MessagesHaveRequests(conn, reqs, net)'
    BY <1>3, <2>5
  <2> QED BY <1>3, <1>6, <1>7, <2>3, <2>4, <2>6, <2>7, <2>8 DEF DnsInv
<1> QED BY <1>3, <1>9, <1>10

\* Some requests are gone, messages only if they are about a request that is, and
\* connections are what they were, but for those that are no longer asked for.
LEMMA FewerRequests ==
  ASSUME DnsInv, conn' \in [Conns -> Connections], dns_past' \in DnsPasts,
         reqs' \subseteq reqs, net' \subseteq net,
         N!OwnAddress',
         \A d \in reqs' : /\ conn'[d.c].live = conn[d.c].live
                          /\ conn'[d.c].host = conn[d.c].host
                          /\ conn'[d.c].is_resolving = conn[d.c].is_resolving,
         dns_past.late => dns_past'.late,
         dns_past'.late \/ \A m \in net' : \A d \in reqs : d.txnid = m.txnid => d \in reqs'
  PROVE  DnsInv'
<1>1. /\ reqs \subseteq Requests /\ \A m \in net : m.host \in Hosts
      /\ HaveHeads(reqs)
      /\ dns_past.late \/ MessagesHaveRequests(conn, reqs, net)
      /\ \A d \in reqs : conn[d.c].live /\ conn[d.c].is_resolving
      /\ \A d, e \in reqs : d.txnid = e.txnid \/ d.c = e.c => d = e
  BY DEF DnsInv, N!RequestsAreLive, N!Owners
<1>2. HaveHeads(reqs')
  BY <1>1, FewerHaveHeads
<1>3. N!RequestsAreLive'
  <2>1. \A d \in reqs' : conn'[d.c].live /\ conn'[d.c].is_resolving
    BY <1>1
  <2>2. \A d, e \in reqs' : d.txnid = e.txnid \/ d.c = e.c => d = e
    BY <1>1
  <2> QED BY <2>1, <2>2 DEF N!RequestsAreLive, N!Owners
<1>4. ASSUME ~dns_past'.late  PROVE MessagesHaveRequests(conn', reqs', net')
  <2>1. /\ \A m \in net : \E e \in reqs : e.txnid = m.txnid /\ conn[e.c].host = m.host
        /\ \A m, k \in net : m.txnid = k.txnid => m = k
    BY <1>1, <1>4 DEF MessagesHaveRequests
  <2>2. \A m \in net' : \E e \in reqs' : e.txnid = m.txnid /\ conn'[e.c].host = m.host
    BY <1>4, <2>1
  <2> QED BY <2>1, <2>2 DEF MessagesHaveRequests
<1>5. (dns_past.late \/ MessagesHaveRequests(conn, reqs, net))'
  BY <1>4
<1> QED BY <1>1, <1>2, <1>3, <1>5 DEF DnsInv

\* Connections are given up.
LEMMA DnsFailStep ==
  ASSUME DnsInv, N!DnsPoll \/ N!DnsClose
  PROVE  DnsInv'
<1>1. /\ conn \in [Conns -> Connections] /\ reqs \subseteq Requests /\ dns_past \in DnsPasts
      /\ net' = net /\ N!OwnAddress
  BY DEF DnsInv, N!DnsPoll, N!DnsClose
<1>2. PICK cs : conn' = N!Failed(conn, cs)
  BY DEF N!DnsPoll, N!DnsClose
<1>3. /\ conn' \in [Conns -> Connections]
      /\ \A x \in Conns : /\ conn'[x].live = conn[x].live
                          /\ conn'[x].host = conn[x].host
                          /\ conn'[x].is_resolving = conn[x].is_resolving
                          /\ conn'[x].rem = conn[x].rem
  BY <1>1, <1>2, FailedFacts
<1>4. CASE N!DnsPoll
  <2>1. reqs' = reqs /\ dns_past' = dns_past
    BY <1>4 DEF N!DnsPoll
  <2>2. N!OwnAddress'
    BY <1>1, <1>3, <2>1 DEF N!OwnAddress
  <2> QED BY <1>1, <1>3, <2>1, <2>2, FewerRequests DEF Requests
<1>5. CASE N!DnsClose
  <2>1. reqs' = {} /\ dns_past' = [dns_past EXCEPT !.late = @ \/ N!Unanswered(reqs)]
    BY <1>5 DEF N!DnsClose
  <2>2. dns_past' \in DnsPasts
    <3>1. (dns_past.late \/ N!Unanswered(reqs)) \in BOOLEAN
      BY <1>1 DEF DnsPasts, N!Unanswered
    <3> QED BY <1>1, <2>1, <3>1 DEF DnsPasts
  <2>3. dns_past'.late = (dns_past.late \/ N!Unanswered(reqs))
    BY <1>1, <2>1 DEF DnsPasts
  <2>4. N!OwnAddress'
    BY <1>1, <1>3, <2>3 DEF N!OwnAddress
  <2>5. dns_past'.late \/ \A m \in net' : \A d \in reqs : d.txnid = m.txnid => d \in reqs'
    BY <1>1, <2>3 DEF N!Unanswered
  <2> QED BY <1>1, <1>3, <2>1, <2>2, <2>3, <2>4, <2>5, FewerRequests
<1> QED BY <1>4, <1>5

LEMMA DnsCloseStep ==
  ASSUME DnsInv, NEW x \in Conns, N!Close(x)
  PROVE  DnsInv'
<1>1. /\ conn \in [Conns -> Connections] /\ reqs \subseteq Requests /\ dns_past \in DnsPasts
      /\ net' = net /\ N!OwnAddress
      /\ conn' = [conn EXCEPT ![x] = N!Conn(FALSE, NONE)]
      /\ reqs' = {d \in reqs : d.c # x}
      /\ dns_past' = [dns_past EXCEPT !.late = @ \/ N!Unanswered({d \in reqs : d.c = x})]
  BY DEF DnsInv, N!Close, N!mg_resolve_cancel
<1>2. N!Conn(FALSE, NONE) \in Connections /\ N!Conn(FALSE, NONE).rem = NONE
  BY DEF Connections, N!Conn
<1>3. conn' \in [Conns -> Connections] /\ conn'[x].rem = NONE
      /\ \A y \in Conns : y # x => conn'[y] = conn[y]
  BY <1>1, <1>2
<1>4. dns_past' \in DnsPasts
  <2>1. (dns_past.late \/ N!Unanswered({d \in reqs : d.c = x})) \in BOOLEAN
    BY <1>1 DEF DnsPasts, N!Unanswered
  <2> QED BY <1>1, <2>1 DEF DnsPasts
<1>5. dns_past'.late = (dns_past.late \/ N!Unanswered({d \in reqs : d.c = x}))
  BY <1>1 DEF DnsPasts
<1>6. N!OwnAddress'
  BY <1>1, <1>3, <1>5 DEF N!OwnAddress
<1>7. dns_past'.late \/ \A m \in net' : \A d \in reqs : d.txnid = m.txnid => d \in reqs'
  BY <1>1, <1>5 DEF N!Unanswered
<1>8. \A d \in reqs' : conn'[d.c] = conn[d.c]
  BY <1>1, <1>3 DEF Requests
<1> QED BY <1>1, <1>3, <1>4, <1>5, <1>6, <1>7, <1>8, FewerRequests

\* An answer goes to whoever asked.
LEMMA DnsReadStep ==
  ASSUME N!MgDnsAssumption, DnsInv, NEW m \in net, N!DnsRead(m)
  PROVE  DnsInv'
<1> DEFINE mine == {d \in reqs : d.txnid = m.txnid}
           told == {x \in N!Owners(mine) : conn[x].is_resolving}
<1>1. /\ conn \in [Conns -> Connections] /\ reqs \subseteq Requests /\ dns_past \in DnsPasts
      /\ m.host \in Hosts /\ N!OwnAddress
      /\ dns_past.late \/ MessagesHaveRequests(conn, reqs, net)
      /\ \A d, e \in reqs : d.txnid = e.txnid \/ d.c = e.c => d = e
  BY DEF DnsInv, N!RequestsAreLive
<1>2. /\ dns_past' = dns_past /\ net' = net \ {m} /\ reqs' = reqs \ mine
      /\ conn' = IF m.found
                   THEN [x \in Conns |-> IF x \notin told THEN conn[x]
                           ELSE [conn[x] EXCEPT !.rem = m.host, !.is_resolving = FALSE]]
                   ELSE N!Failed(conn, told)
  BY DEF N!DnsRead
<1>3. told \subseteq Conns /\ told \subseteq N!Owners(mine)
  BY <1>1 DEF N!Owners, Requests
<1>4. \A x \in told : dns_past.late \/ conn[x].host = m.host
  <2> SUFFICES ASSUME NEW x \in told, ~dns_past.late  PROVE conn[x].host = m.host
    OBVIOUS
  <2>1. PICK d \in reqs : d.txnid = m.txnid /\ d.c = x
    BY DEF N!Owners
  <2>2. PICK e \in reqs : e.txnid = m.txnid /\ conn[e.c].host = m.host
    BY <1>1 DEF MessagesHaveRequests
  <2> QED BY <1>1, <2>1, <2>2
<1> HIDE DEF told
<1>5. /\ conn' \in [Conns -> Connections]
      /\ \A x \in Conns : /\ conn'[x].live = conn[x].live
                          /\ conn'[x].host = conn[x].host
                          /\ x \notin told => conn'[x].is_resolving = conn[x].is_resolving
                          /\ conn'[x].rem = conn[x].rem
                               \/ (x \in told /\ conn'[x].rem = m.host)
  <2>1. CASE ~m.found
    <3>1. conn' = N!Failed(conn, told)
      BY <1>2, <2>1
    <3>2. /\ N!Failed(conn, told) \in [Conns -> Connections]
          /\ \A x \in Conns : /\ N!Failed(conn, told)[x].live = conn[x].live
                              /\ N!Failed(conn, told)[x].host = conn[x].host
                              /\ N!Failed(conn, told)[x].is_resolving = conn[x].is_resolving
                              /\ N!Failed(conn, told)[x].rem = conn[x].rem
      BY <1>1, FailedFacts
    <3> HIDE DEF mine
    <3>3. conn' \in [Conns -> Connections]
      BY <3>1, <3>2, Zenon
    <3>4. ASSUME NEW x \in Conns
          PROVE  /\ conn'[x].live = conn[x].live /\ conn'[x].host = conn[x].host
                 /\ conn'[x].is_resolving = conn[x].is_resolving
                 /\ conn'[x].rem = conn[x].rem
      BY <3>1, <3>2, Zenon
    <3> QED BY <3>3, <3>4, Zenon
  <2>2. CASE m.found
    <3>1. conn' = [x \in Conns |-> IF x \notin told THEN conn[x]
                           ELSE [conn[x] EXCEPT !.rem = m.host, !.is_resolving = FALSE]]
      BY <1>2, <2>2
    <3>2. ASSUME NEW x \in Conns
          PROVE  /\ conn'[x] \in Connections
                 /\ conn'[x].live = conn[x].live
                 /\ conn'[x].host = conn[x].host
                 /\ x \notin told => conn'[x].is_resolving = conn[x].is_resolving
                 /\ conn'[x].rem = conn[x].rem
                       \/ (x \in told /\ conn'[x].rem = m.host)
      <4>1. CASE x \notin told
        <5>1. conn'[x] = conn[x] /\ conn[x] \in Connections
          BY <1>1, <3>1, <4>1
        <5> HIDE DEF mine
        <5> QED BY <4>1, <5>1, Zenon
      <4>2. CASE x \in told
        <5>1. conn'[x] = [conn[x] EXCEPT !.rem = m.host, !.is_resolving = FALSE]
          BY <3>1, <4>2
        <5>2. conn[x] \in Connections
          BY <1>1
        <5>3. conn'[x] \in Connections
          BY <1>1, <5>1, <5>2 DEF Connections
        <5>4. conn'[x].host = conn[x].host /\ conn'[x].rem = m.host
          BY <5>1, <5>2 DEF Connections
        <5>5. conn'[x].live = conn[x].live
          BY <5>1, <5>2 DEF Connections
        <5> QED BY <4>2, <5>3, <5>4, <5>5
      <4> QED BY <4>1, <4>2
    <3> QED BY <3>1, <3>2
  <2> QED BY <2>1, <2>2
<1>6. N!OwnAddress'
  <2> SUFFICES ASSUME NEW x \in Conns, ~dns_past.late
               PROVE  conn'[x].rem \in {NONE, conn'[x].host}
    BY <1>2 DEF N!OwnAddress
  <2>1. conn[x].rem \in {NONE, conn[x].host}
    BY <1>1 DEF N!OwnAddress
  <2> HIDE DEF mine
  <2>2. conn'[x].host = conn[x].host
    BY <1>5, Zenon
  <2>3. conn'[x].rem = conn[x].rem \/ (x \in told /\ conn'[x].rem = m.host)
    BY <1>5, Zenon
  <2>4. CASE conn'[x].rem = conn[x].rem
    BY <2>1, <2>2, <2>4, Zenon
  <2>5. CASE x \in told /\ conn'[x].rem = m.host
    <3>1. conn[x].host = m.host
      BY <1>4, <2>5, Zenon
    <3> QED BY <2>2, <2>5, <3>1, Zenon
  <2> QED BY <2>3, <2>4, <2>5
<1>7. dns_past'.late \/ \A k \in net' : \A d \in reqs : d.txnid = k.txnid => d \in reqs'
  BY <1>1, <1>2 DEF MessagesHaveRequests
<1>8. \A d \in reqs' : d.c \in Conns /\ d.c \notin told
  BY <1>1, <1>2, <1>3 DEF N!Owners, Requests
<1>9. \A d \in reqs' : /\ conn'[d.c].live = conn[d.c].live
                       /\ conn'[d.c].host = conn[d.c].host
                       /\ conn'[d.c].is_resolving = conn[d.c].is_resolving
  BY <1>5, <1>8, Zenon
<1> HIDE DEF mine
<1>10. reqs' \subseteq reqs /\ net' \subseteq net
  BY <1>2
<1> QED BY <1>1, <1>2, <1>5, <1>6, <1>7, <1>9, <1>10, FewerRequests

\* Messages come and go, and the requests stay.
LEMMA DnsMessageStep ==
  ASSUME DnsInv, conn' = conn, reqs' = reqs, dns_past' \in DnsPasts, dns_past.late => dns_past'.late,
         \A m \in net' : m.host \in Hosts,
         dns_past'.late \/ \E g \in [net' -> net] :
           /\ \A m \in net' : g[m].txnid = m.txnid /\ g[m].host = m.host
           /\ \A m, k \in net' : g[m] = g[k] => m = k
  PROVE  DnsInv'
<1>1. N!OwnAddress'
  BY DEF DnsInv, N!OwnAddress
<1>2. (dns_past.late \/ MessagesHaveRequests(conn, reqs, net))'
  <2> SUFFICES ASSUME ~dns_past'.late  PROVE MessagesHaveRequests(conn, reqs, net')
    OBVIOUS
  <2>1. PICK g \in [net' -> net] :
           /\ \A m \in net' : g[m].txnid = m.txnid /\ g[m].host = m.host
           /\ \A m, k \in net' : g[m] = g[k] => m = k
    OBVIOUS
  <2>2. /\ \A m \in net : \E e \in reqs : e.txnid = m.txnid /\ conn[e.c].host = m.host
        /\ \A m, k \in net : m.txnid = k.txnid => m = k
    BY DEF DnsInv, MessagesHaveRequests
  <2>3. \A m \in net' : g[m] \in net
    BY <2>1
  <2>4. \A m \in net' : \E e \in reqs : e.txnid = m.txnid /\ conn[e.c].host = m.host
    BY <2>1, <2>2, <2>3
  <2>5. \A m, k \in net' : m.txnid = k.txnid => m = k
    BY <2>1, <2>2, <2>3
  <2> QED BY <2>4, <2>5 DEF MessagesHaveRequests
<1>3. N!RequestsAreLive'
  BY DEF DnsInv, N!RequestsAreLive, N!Owners
<1> QED BY <1>1, <1>2, <1>3 DEF DnsInv, HaveHeads

LEMMA DnsNetworkStep ==
  ASSUME DnsInv, NEW m \in net, N!Serve(m) \/ N!Lose(m) \/ N!Repeat(m) \/ N!DnsStray(m)
  PROVE  DnsInv'
<1>1. /\ dns_past \in DnsPasts /\ conn' = conn /\ reqs' = reqs /\ \A k \in net : k.host \in Hosts
  BY DEF DnsInv, N!Serve, N!Lose, N!Repeat, N!DnsStray
<1>2. CASE N!Lose(m) \/ N!DnsStray(m)
  <2>1. net' = net \ {m}
    BY <1>2 DEF N!Lose, N!DnsStray
  <2>2. dns_past' \in DnsPasts /\ dns_past'.late = dns_past.late
    <3>1. dns_past' \in {dns_past, [dns_past EXCEPT !.faults = @ + 1]}
      BY <1>2 DEF N!Lose, N!DnsStray, N!Fault
    <3>2. dns_past' \in DnsPasts
      BY <1>1, <3>1 DEF DnsPasts
    <3>3. dns_past'.late = dns_past.late
      BY <1>1, <3>1 DEF DnsPasts
    <3> QED BY <3>2, <3>3
  <2> DEFINE g == [k \in net' |-> k]
  <2>3. /\ g \in [net' -> net]
        /\ \A k \in net' : g[k].txnid = k.txnid /\ g[k].host = k.host
        /\ \A k, j \in net' : g[k] = g[j] => k = j
    BY <2>1
  <2> HIDE DEF g
  <2> QED BY <1>1, <2>1, <2>2, <2>3, DnsMessageStep
<1>3. CASE N!Serve(m)
  <2>1. PICK found \in BOOLEAN : net' = (net \ {m}) \cup {N!Answer(m, found)}
    BY <1>3 DEF N!Serve
  <2>2. dns_past' = dns_past
    BY <1>3 DEF N!Serve
  <2> DEFINE a == N!Answer(m, found)
             g == [k \in net' |-> IF k = a THEN m ELSE k]
  <2>3. a.txnid = m.txnid /\ a.host = m.host
    BY DEF N!Answer
  <2>4. net' = (net \ {m}) \cup {a}
    BY <2>1
  <2> HIDE DEF a
  <2>5. /\ g \in [net' -> net]
        /\ \A k \in net' : g[k].txnid = k.txnid /\ g[k].host = k.host
        /\ \A k, j \in net' : g[k] = g[j] => k = j
    BY <2>3, <2>4
  <2>6. \A k \in net' : k.host \in Hosts
    BY <1>1, <2>3, <2>4
  <2> HIDE DEF g
  <2> QED BY <1>1, <2>2, <2>5, <2>6, DnsMessageStep
<1>4. CASE N!Repeat(m)
  <2>1. PICK found \in BOOLEAN : net' = net \cup {N!Answer(m, found)}
    BY <1>4 DEF N!Repeat
  <2>2. dns_past' = [dns_past EXCEPT !.faults = @ + 1, !.late = TRUE]
    BY <1>4 DEF N!Repeat
  <2>3. dns_past' \in DnsPasts
    <3>1. dns_past.faults + 1 \in Nat /\ TRUE \in BOOLEAN
      BY <1>1 DEF DnsPasts
    <3> QED BY <1>1, <2>2, <3>1 DEF DnsPasts
  <2>4. dns_past'.late = TRUE
    BY <1>1, <2>2 DEF DnsPasts
  <2>5. \A k \in net' : k.host \in Hosts
    BY <1>1, <2>1 DEF N!Answer
  <2> QED BY <1>1, <2>3, <2>4, <2>5, DnsMessageStep
<1> QED BY <1>2, <1>3, <1>4

LEMMA DnsTickStep ==
  ASSUME DnsInv, N!Tick
  PROVE  DnsInv'
<1> DEFINE older(d) == [d EXCEPT !.left = IF @ = 0 THEN 0 ELSE @ - 1]
<1>1. /\ conn' = conn /\ net' = net /\ dns_past' = dns_past /\ reqs' = {older(d) : d \in reqs}
  BY DEF N!Tick
<1>2. /\ conn \in [Conns -> Connections] /\ reqs \subseteq Requests /\ dns_past \in DnsPasts
      /\ \A m \in net : m.host \in Hosts
      /\ dns_past.late \/ MessagesHaveRequests(conn, reqs, net)
      /\ \A d \in reqs : conn[d.c].live /\ conn[d.c].is_resolving
      /\ \A d, e \in reqs : d.txnid = e.txnid \/ d.c = e.c => d = e
      /\ HaveHeads(reqs) /\ N!OwnAddress
  BY DEF DnsInv, N!RequestsAreLive, N!Owners
<1>3. \A d \in Requests : older(d) \in Requests /\ older(d).c = d.c /\ older(d).txnid = d.txnid
  BY DEF Requests
<1> HIDE DEF older
<1>4. \A d \in reqs : older(d) \in Requests /\ older(d).c = d.c /\ older(d).txnid = d.txnid
  BY <1>2, <1>3
<1>5. reqs' \subseteq Requests
  BY <1>1, <1>4
<1>6. HaveHeads(reqs')
  <2> SUFFICES ASSUME NEW some \in SUBSET reqs', some # {}
               PROVE  \E d \in some : \A e \in some : e.txnid <= d.txnid
    BY DEF HaveHeads
  <2> DEFINE before == {d \in reqs : older(d) \in some}
  <2>1. before # {} /\ before \in SUBSET reqs
    BY <1>1
  <2>2. PICK d \in before : \A e \in before : e.txnid <= d.txnid
    BY <1>2, <2>1 DEF HaveHeads
  <2>3. \A f \in some : \E e \in before : f = older(e)
    BY <1>1
  <2> QED BY <1>4, <2>2, <2>3
<1>7. N!RequestsAreLive'
  <2>1. \A d \in reqs' : conn'[d.c].live /\ conn'[d.c].is_resolving
    BY <1>1, <1>2, <1>4
  <2>2. \A d, e \in reqs' : d.txnid = e.txnid \/ d.c = e.c => d = e
    BY <1>1, <1>2, <1>4
  <2> QED BY <2>1, <2>2 DEF N!RequestsAreLive, N!Owners
<1>8. N!OwnAddress'
  BY <1>1, <1>2 DEF N!OwnAddress
<1>9. (dns_past.late \/ MessagesHaveRequests(conn, reqs, net))'
  <2> SUFFICES ASSUME ~dns_past.late  PROVE MessagesHaveRequests(conn, reqs', net)
    BY <1>1
  <2>1. /\ \A m \in net : \E e \in reqs : e.txnid = m.txnid /\ conn[e.c].host = m.host
        /\ \A m, k \in net : m.txnid = k.txnid => m = k
    BY <1>2 DEF MessagesHaveRequests
  <2>2. \A m \in net : \E e \in reqs' : e.txnid = m.txnid /\ conn[e.c].host = m.host
    BY <1>1, <1>4, <2>1
  <2> QED BY <2>1, <2>2 DEF MessagesHaveRequests
<1> QED BY <1>1, <1>2, <1>5, <1>6, <1>7, <1>8, <1>9 DEF DnsInv

LEMMA DnsNext ==
  ASSUME N!MgDnsAssumption, DnsInv, [N!Next]_(N!vars)
  PROVE  DnsInv'
<1>1. CASE UNCHANGED N!vars
  BY <1>1 DEF N!vars, DnsInv, HaveHeads, N!RequestsAreLive, N!Owners, N!OwnAddress, MessagesHaveRequests
<1>2. CASE N!DnsError
  <2>1. conn' = conn /\ reqs' = reqs /\ net' = net /\ dns_past' = [dns_past EXCEPT !.faults = @ + 1]
        /\ dns_past \in DnsPasts /\ \A m \in net : m.host \in Hosts
    BY <1>2 DEF N!DnsError, N!Fault, DnsInv
  <2>2. dns_past' \in DnsPasts
    BY <2>1 DEF DnsPasts
  <2>3. dns_past'.late = dns_past.late
    BY <2>1 DEF DnsPasts
  <2> DEFINE g == [k \in net' |-> k]
  <2>4. /\ g \in [net' -> net]
        /\ \A k \in net' : g[k].txnid = k.txnid /\ g[k].host = k.host
        /\ \A k, j \in net' : g[k] = g[j] => k = j
    BY <2>1
  <2> HIDE DEF g
  <2> QED BY <2>1, <2>2, <2>3, <2>4, DnsMessageStep
<1> QED
  BY <1>1, <1>2, DnsFailStep, DnsReadStep, DnsNetworkStep, DnsTickStep, DnsConnectStep, DnsCloseStep
  DEF N!Next, N!Receive

-----------------------------------------------------------------------------
(* The network                                                             *)

NetInv == QueueInv /\ TcpInv /\ DhcpInv /\ DnsInv

\* A step of one part is none of the others.
LEMMA OneAtATime ==
  ASSUME [NetNext]_nvars
  PROVE  /\ [Next]_vars /\ [T!Next]_(T!vars) /\ [D!Next]_(D!vars) /\ [N!Next]_(N!vars)
<1>1. /\ UNCHANGED messages => UNCHANGED vars
      /\ UNCHANGED tcpip => UNCHANGED T!vars
      /\ UNCHANGED dhcp => UNCHANGED D!vars
      /\ UNCHANGED resolver => UNCHANGED N!vars
  BY DEF messages, tcpip, dhcp, resolver, vars, T!vars, D!vars, N!vars
<1>2. CASE UNCHANGED nvars
  BY <1>1, <1>2 DEF nvars
<1>3. CASE NetNext
  BY <1>1, <1>3 DEF NetNext
<1> QED BY <1>2, <1>3

\* The queue between a driver and the stack, the streams of a connection, the
\* address of the interface and the answers of the resolver are what
\* mg_queue_next, read_conn, rx_dhcp_client and dns_cb promise, whatever the
\* sizes, and whatever the network does.
THEOREM NetworkIsAlwaysTrue == NetSpec => []NetworkIsTrue
<1>1. /\ MgQueueAssumption /\ T!MgTcpipAssumption
      /\ D!MgDhcpAssumption /\ N!MgDnsAssumption
  BY MgNetAssumption
<1>2. NetInit => NetInv
  BY <1>1, QueueInit, TcpInit, DhcpInit, DnsInit DEF NetInit, NetInv
<1>3. NetInv /\ [NetNext]_nvars => NetInv'
  BY <1>1, OneAtATime, QueueNext, TcpNext, DhcpNext, DnsNext DEF NetInv
<1>4. NetInv => NetworkIsTrue
  <2>1. QueueInv => MessagesIntact /\ AssertsHold
    BY <1>1, QueueIsTrue
  <2>2. TcpInv => T!StreamsAreTrue /\ T!NothingMissed
    BY TcpIsTrue
  <2>3. DhcpInv => D!AddressWhenReady /\ D!ReqOnlyIfLost
    BY DEF DhcpInv
  <2>4. DnsInv => N!OwnAddress /\ N!RequestsAreLive
    BY DEF DnsInv
  <2> QED BY <2>1, <2>2, <2>3, <2>4 DEF NetInv, NetworkIsTrue
<1> QED BY <1>2, <1>3, <1>4, PTL DEF NetSpec

=============================================================================
