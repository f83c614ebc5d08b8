------------------------------ MODULE QueueLemmas ------------------------------
(***************************************************************************)
(* Facts about sequences used as queues: tasks enter with Append and leave *)
(* with Head and Tail.                                                     *)
(***************************************************************************)
EXTENDS Integers, Functions, SequenceTheorems, TLAPS

\* What a queue is after one more entered.
LEMMA AppendFacts ==
  ASSUME NEW S, NEW s \in Seq(S), NEW x \in S
  PROVE  /\ Append(s, x) \in Seq(S)
         /\ Append(s, x) # <<>>
         /\ Len(Append(s, x)) = Len(s) + 1
         /\ \A i \in 1 .. Len(s) : Append(s, x)[i] = s[i]
         /\ Append(s, x)[Len(s) + 1] = x
  BY AppendProperties

\* The length and the members of a queue.
LEMMA EmptyFacts ==
  ASSUME NEW S, NEW s \in Seq(S)
  PROVE  /\ Len(s) \in Nat
         /\ s = <<>> <=> Len(s) = 0
         /\ \A i \in 1 .. Len(s) : s[i] \in S
  BY EmptySeq, LenProperties, ElementOfSeq

\* What a queue is after its first left.
LEMMA TailFacts ==
  ASSUME NEW S, NEW s \in Seq(S), s # <<>>
  PROVE  /\ Tail(s) \in Seq(S)
         /\ Len(Tail(s)) = Len(s) - 1
         /\ \A i \in 1 .. Len(Tail(s)) : Tail(s)[i] = s[i + 1]
         /\ Tail(s) = <<>> <=> Len(s) = 1
         /\ Head(s) = s[1]
         /\ s[1] \in S /\ Len(s) \in Nat /\ Len(s) >= 1
<1>1. Len(s) \in Nat /\ Len(s) >= 1
  BY EmptySeq, LenProperties
<1>2. s[1] \in S
  BY <1>1, ElementOfSeq
<1>3. /\ Tail(s) \in Seq(S)
      /\ Len(Tail(s)) = Len(s) - 1
      /\ \A i \in 1 .. Len(Tail(s)) : Tail(s)[i] = s[i + 1]
  BY HeadTailProperties
<1>4. Head(s) = s[1]
  OBVIOUS
<1>5. Tail(s) = <<>> <=> Len(s) = 1
  BY <1>1, <1>3, EmptyFacts
<1> QED
  BY <1>1, <1>2, <1>3, <1>4, <1>5

\* The members of a queue by their positions.
LEMMA RangeFacts ==
  ASSUME NEW S, NEW s \in Seq(S)
  PROVE  /\ DOMAIN s = 1 .. Len(s)
         /\ \A x : x \in Range(s) <=> \E k \in 1 .. Len(s) : s[k] = x
         /\ Range(s) \subseteq S
  BY LenProperties, ElementOfSeq DEF Range

\* One more enters: it is the only new member.
LEMMA RangeOfAppend ==
  ASSUME NEW S, NEW s \in Seq(S), NEW x \in S
  PROVE  Range(Append(s, x)) = Range(s) \cup {x}
<1>1. Append(s, x) \in Seq(S)
  BY AppendFacts
<1>2. Len(s) \in Nat
  BY EmptyFacts
<1>3. \A y : y \in Range(Append(s, x)) <=> \E k \in 1 .. Len(s) + 1 : Append(s, x)[k] = y
  <2>1. Len(Append(s, x)) = Len(s) + 1
    BY AppendFacts
  <2>2. \A y : y \in Range(Append(s, x))
                 <=> \E k \in 1 .. Len(Append(s, x)) : Append(s, x)[k] = y
    BY <1>1, RangeFacts
  <2> QED
    BY <2>1, <2>2
<1>4. \A k \in 1 .. Len(s) + 1 : k \in 1 .. Len(s) \/ k = Len(s) + 1
  BY <1>2
<1>5. \A y : y \in Range(Append(s, x)) <=> y \in Range(s) \/ y = x
  BY <1>2, <1>3, <1>4, AppendFacts, RangeFacts
<1> QED
  BY <1>5

\* The first leaves: every member of the rest was a member, and every
\* member but the first is still there.
LEMMA RangeOfTail ==
  ASSUME NEW S, NEW s \in Seq(S), s # <<>>
  PROVE  /\ Range(Tail(s)) \subseteq Range(s)
         /\ Range(s) = Range(Tail(s)) \cup {Head(s)}
<1>1. Tail(s) \in Seq(S) /\ Len(Tail(s)) = Len(s) - 1 /\ Len(s) \in Nat /\ Len(s) >= 1
  BY TailFacts
<1>2. \A y : y \in Range(Tail(s)) <=> \E k \in 1 .. Len(s) - 1 : s[k + 1] = y
  <2>1. \A y : y \in Range(Tail(s))
                 <=> \E k \in 1 .. Len(Tail(s)) : Tail(s)[k] = y
    BY <1>1, RangeFacts
  <2>2. \A k \in 1 .. Len(s) - 1 : Tail(s)[k] = s[k + 1]
    BY <1>1, TailFacts
  <2> QED
    BY <1>1, <2>1, <2>2
<1>3. \A k \in 1 .. Len(s) - 1 : k + 1 \in 1 .. Len(s)
  BY <1>1
<1>4. \A k \in 1 .. Len(s) : k = 1 \/ (k - 1 \in 1 .. Len(s) - 1 /\ (k - 1) + 1 = k)
  BY <1>1
<1>5. \A y \in Range(Tail(s)) : y \in Range(s)
  BY <1>2, <1>3, RangeFacts
<1>6. \A y \in Range(s) : y \in Range(Tail(s)) \/ y = Head(s)
  <2> SUFFICES ASSUME NEW y \in Range(s), y # Head(s) PROVE y \in Range(Tail(s))
    OBVIOUS
  <2>1. PICK k \in 1 .. Len(s) : s[k] = y
    BY RangeFacts
  <2>2. k # 1
    BY <2>1, TailFacts
  <2> QED
    BY <1>2, <1>4, <2>1, <2>2
<1>7. Head(s) \in Range(s)
  <2>1. 1 \in 1 .. Len(s)
    BY <1>1
  <2> QED
    BY <2>1, TailFacts, RangeFacts
<1> QED
  BY <1>5, <1>6, <1>7

\* What is read of a stream and what is left of it make up the stream.
LEMMA SplitFacts ==
  ASSUME NEW S, NEW s \in Seq(S), NEW n \in 0 .. Len(s)
  PROVE  /\ SubSeq(s, 1, n) \in Seq(S) /\ Len(SubSeq(s, 1, n)) = n
         /\ SubSeq(s, n + 1, Len(s)) \in Seq(S)
         /\ SubSeq(s, 1, n) \o SubSeq(s, n + 1, Len(s)) = s
<1>1. Len(s) \in Nat /\ \A i \in 1 .. Len(s) : s[i] \in S
  BY LenProperties, ElementOfSeq
<1>2. SubSeq(s, 1, n) \in Seq(S) /\ Len(SubSeq(s, 1, n)) = n
  <2>1. \A i \in 1 .. n : s[i] \in S
    BY <1>1
  <2> QED
    BY <1>1, <2>1, SubSeqProperties
<1>3. SubSeq(s, n + 1, Len(s)) \in Seq(S)
  <2>1. \A i \in n + 1 .. Len(s) : s[i] \in S
    BY <1>1
  <2>2. n + 1 \in Int /\ Len(s) \in Int
    BY <1>1
  <2> QED
    BY <2>1, <2>2, SubSeqProperties
<1>4. SubSeq(s, 1, n) \o SubSeq(s, n + 1, Len(s)) = SubSeq(s, 1, Len(s))
  <2>1. 1 \in 1 .. Len(s) + 1 /\ n \in 1 - 1 .. Len(s) /\ Len(s) \in n .. Len(s)
    BY <1>1
  <2> QED
    BY <2>1, ConcatAdjacentSubSeq
<1>5. SubSeq(s, 1, Len(s)) = s
  BY SubSeqFull
<1> QED
  BY <1>2, <1>3, <1>4, <1>5

\* What was said last is at the end.
LEMMA LastFacts ==
  ASSUME NEW S, NEW s \in Seq(S), NEW t \in Seq(S)
  PROVE  /\ s \o t \in Seq(S)
         /\ Len(s \o t) >= Len(t)
         /\ SubSeq(s \o t, Len(s \o t) - Len(t) + 1, Len(s \o t)) = t
<1>1. Len(s) \in Nat /\ Len(t) \in Nat
  BY LenProperties
<1>2. /\ s \o t \in Seq(S) /\ Len(s \o t) = Len(s) + Len(t)
      /\ \A i \in 1 .. Len(s) + Len(t) :
           (s \o t)[i] = IF i <= Len(s) THEN s[i] ELSE t[i - Len(s)]
  BY ConcatProperties
<1>3. \A i \in 1 .. Len(t) : (s \o t)[Len(s) + i] = t[i]
  BY <1>1, <1>2
<1>4. \A i \in Len(s) + 1 .. Len(s) + Len(t) : (s \o t)[i] \in S
  BY <1>1, <1>2, ElementOfSeq
<1>0. Len(s) + 1 \in Int /\ Len(s) + Len(t) \in Int
  BY <1>1
<1> DEFINE u == SubSeq(s \o t, Len(s) + 1, Len(s) + Len(t))
<1>5. /\ u \in Seq(S)
      /\ Len(u) = IF Len(s) + 1 <= Len(s) + Len(t) THEN Len(s) + Len(t) - (Len(s) + 1) + 1 ELSE 0
      /\ \A i \in 1 .. Len(s) + Len(t) - (Len(s) + 1) + 1 : u[i] = (s \o t)[Len(s) + 1 + i - 1]
  BY <1>0, <1>4, SubSeqProperties
<1> HIDE DEF u
<1>6. Len(u) = Len(t)
  BY <1>1, <1>5
<1>7. \A i \in 1 .. Len(u) : u[i] = t[i]
  <2> TAKE i \in 1 .. Len(u)
  <2>1. /\ i \in 1 .. Len(s) + Len(t) - (Len(s) + 1) + 1
        /\ Len(s) + 1 + i - 1 = Len(s) + i /\ i \in 1 .. Len(t)
    BY <1>1, <1>6
  <2> QED
    BY <1>3, <1>5, <2>1
<1>8. u = t
  BY <1>5, <1>6, <1>7, SeqEqual
<1>9. Len(s \o t) - Len(t) + 1 = Len(s) + 1
  BY <1>1, <1>2
<1> QED
  BY <1>1, <1>2, <1>8, <1>9 DEF u

\* One more is said behind two parts: it ends the whole.
LEMMA AppendBehind ==
  ASSUME NEW S, NEW s \in Seq(S), NEW t \in Seq(S), NEW x \in S
  PROVE  s \o Append(t, x) = Append(s \o t, x)
<1>1. <<x>> \in Seq(S)
  OBVIOUS
<1>2. Append(t, x) = t \o <<x>>
  BY AppendIsConcat
<1>3. s \o t \in Seq(S)
  BY ConcatProperties
<1>4. Append(s \o t, x) = (s \o t) \o <<x>>
  BY <1>3, AppendIsConcat
<1>5. (s \o t) \o <<x>> = s \o (t \o <<x>>)
  BY <1>1, ConcatAssociative
<1> QED
  BY <1>2, <1>4, <1>5

\* The queue t is the queue s with x at place i.
Inserted(S, t, s, i, x) ==
  /\ t \in Seq(S)
  /\ DOMAIN t = 1 .. Len(s) + 1 /\ DOMAIN s = 1 .. Len(s)
  /\ \A j \in DOMAIN t : \/ j = i /\ t[j] = x
                         \/ j < i /\ j \in DOMAIN s /\ t[j] = s[j]
                         \/ j > i /\ j - 1 \in DOMAIN s /\ t[j] = s[j - 1]

\* A queue into whose midst something was put.
LEMMA InsertedFacts ==
  ASSUME NEW S, NEW s \in Seq(S), NEW i \in 1 .. Len(s) + 1, NEW x \in S
  PROVE  Inserted(S, SubSeq(s, 1, i - 1) \o <<x>> \o SubSeq(s, i, Len(s)), s, i, x)
<1>1. Len(s) \in Nat /\ \A j \in 1 .. Len(s) : s[j] \in S
  BY LenProperties, ElementOfSeq
<1> DEFINE a == SubSeq(s, 1, i - 1)
           b == SubSeq(s, i, Len(s))
<1>2. /\ a \in Seq(S) /\ Len(a) = i - 1
      /\ \A j \in 1 .. i - 1 : a[j] = s[j]
  <2>1. /\ 1 \in Int /\ i - 1 \in Int /\ \A j \in 1 .. i - 1 : s[j] \in S
        /\ i - 1 - 1 + 1 = i - 1
    BY <1>1
  <2>2. /\ a \in Seq(S)
        /\ Len(a) = IF 1 <= i - 1 THEN i - 1 - 1 + 1 ELSE 0
        /\ \A j \in 1 .. i - 1 - 1 + 1 : a[j] = s[1 + j - 1]
    BY <2>1, SubSeqProperties
  <2> HIDE DEF a
  <2>3. Len(a) = i - 1
    BY <1>1, <2>2
  <2>4. \A j \in 1 .. i - 1 : a[j] = s[j]
    <3> TAKE j \in 1 .. i - 1
    <3>1. j \in 1 .. i - 1 - 1 + 1 /\ 1 + j - 1 = j
      BY <1>1
    <3> QED
      BY <2>2, <3>1
  <2> QED
    BY <2>2, <2>3, <2>4
<1>3. /\ b \in Seq(S) /\ Len(b) = Len(s) - i + 1
      /\ \A j \in 1 .. Len(s) - i + 1 : b[j] = s[i + j - 1]
  <2>1. i \in Int /\ Len(s) \in Int /\ \A j \in i .. Len(s) : s[j] \in S
    BY <1>1
  <2>2. /\ b \in Seq(S)
        /\ Len(b) = IF i <= Len(s) THEN Len(s) - i + 1 ELSE 0
        /\ \A j \in 1 .. Len(s) - i + 1 : b[j] = s[i + j - 1]
    BY <2>1, SubSeqProperties
  <2> HIDE DEF b
  <2> QED
    BY <1>1, <2>2
<1> HIDE DEF a, b
<1>4. <<x>> \in Seq(S) /\ Len(<<x>>) = 1 /\ <<x>>[1] = x
  OBVIOUS
<1>5. /\ a \o <<x>> \in Seq(S) /\ Len(a \o <<x>>) = i
      /\ \A j \in 1 .. i : (a \o <<x>>)[j] = IF j < i THEN s[j] ELSE x
  <2> DEFINE y == <<x>>
  <2> HIDE DEF y
  <2>1. /\ a \o y \in Seq(S) /\ Len(a \o y) = Len(a) + Len(y)
        /\ \A j \in 1 .. Len(a) + Len(y) :
             (a \o y)[j] = IF j <= Len(a) THEN a[j] ELSE y[j - Len(a)]
    BY <1>2, <1>4, ConcatProperties DEF y
  <2>2. Len(y) = 1 /\ y[1] = x
    BY <1>4 DEF y
  <2>3. \A j \in 1 .. i : (a \o y)[j] = IF j < i THEN s[j] ELSE x
    <3> TAKE j \in 1 .. i
    <3>1. j \in 1 .. Len(a) + Len(y)
      BY <1>1, <1>2, <2>2
    <3>2. CASE j < i
      BY <1>1, <1>2, <2>1, <3>1, <3>2
    <3>3. CASE j = i
      <4>1. j - Len(a) = 1 /\ ~(j <= Len(a))
        BY <1>1, <1>2, <3>3
      <4>2. (a \o y)[j] = y[j - Len(a)]
        BY <2>1, <3>1, <4>1
      <4>3. (a \o y)[j] = x
        BY <2>2, <4>1, <4>2, Zenon
      <4>4. ~(j < i)
        BY <3>3
      <4> QED
        BY <4>3, <4>4, Zenon
    <3>4. j < i \/ j = i
      BY <1>1
    <3> QED
      BY <3>2, <3>3, <3>4
  <2> QED
    BY <1>1, <1>2, <2>1, <2>2, <2>3 DEF y
<1> DEFINE c == a \o <<x>>
<1> HIDE DEF c
<1>6. /\ c \in Seq(S) /\ Len(c) = i
      /\ \A j \in 1 .. i : c[j] = IF j < i THEN s[j] ELSE x
  BY <1>5 DEF c
<1>7. /\ c \o b \in Seq(S) /\ Len(c \o b) = Len(c) + Len(b)
      /\ \A j \in 1 .. Len(c) + Len(b) :
           (c \o b)[j] = IF j <= Len(c) THEN c[j] ELSE b[j - Len(c)]
  BY <1>3, <1>6, ConcatProperties
<1>8. Len(c) + Len(b) = Len(s) + 1
  BY <1>1, <1>3, <1>6
<1>9. \A j \in 1 .. Len(s) + 1 :
        (c \o b)[j] = IF j < i THEN s[j] ELSE IF j = i THEN x ELSE s[j - 1]
  <2> TAKE j \in 1 .. Len(s) + 1
  <2>1. CASE j <= i
    <3>1. j \in 1 .. i /\ j \in 1 .. Len(c) + Len(b) /\ j <= Len(c)
      BY <1>1, <1>6, <1>8, <2>1
    <3>2. (c \o b)[j] = c[j]
      BY <1>7, <3>1
    <3>3. c[j] = IF j < i THEN s[j] ELSE x
      BY <1>6, <3>1
    <3>4. ~(j < i) => j = i
      BY <1>1, <3>1
    <3> QED
      BY <3>2, <3>3, <3>4
  <2>2. CASE j > i
    <3>1. j - i \in 1 .. Len(s) - i + 1 /\ i + (j - i) - 1 = j - 1
      BY <1>1, <2>2
    <3>2. (c \o b)[j] = b[j - i]
      BY <1>1, <1>6, <1>7, <1>8, <2>2
    <3> QED
      BY <1>1, <1>3, <2>2, <3>1, <3>2
  <2>3. j <= i \/ j > i
    BY <1>1
  <2> QED
    BY <2>1, <2>2, <2>3
<1> DEFINE t == c \o b
<1>10. /\ t \in Seq(S) /\ Len(t) = Len(s) + 1
       /\ \A j \in 1 .. Len(s) + 1 :
            t[j] = IF j < i THEN s[j] ELSE IF j = i THEN x ELSE s[j - 1]
  BY <1>7, <1>8, <1>9
<1> HIDE DEF t
<1>11. DOMAIN t = 1 .. Len(s) + 1 /\ DOMAIN s = 1 .. Len(s) /\ Len(s) \in Nat
  <2>1. DOMAIN t = 1 .. Len(t) /\ DOMAIN s = 1 .. Len(s) /\ Len(s) \in Nat
    BY <1>10, LenProperties
  <2> QED
    BY <1>10, <2>1
<1>12. \A j \in 1 .. Len(s) + 1 : \/ j = i /\ t[j] = x
                                  \/ j < i /\ j \in 1 .. Len(s) /\ t[j] = s[j]
                                  \/ j > i /\ j - 1 \in 1 .. Len(s) /\ t[j] = s[j - 1]
  <2> TAKE j \in 1 .. Len(s) + 1
  <2>1. CASE j < i
    BY <1>10, <1>11, <2>1
  <2>2. CASE j = i
    BY <1>10, <1>11, <2>2
  <2>3. CASE j > i
    BY <1>10, <1>11, <2>3
  <2> QED
    BY <1>11, <2>1, <2>2, <2>3
<1>13. Inserted(S, t, s, i, x)
  BY <1>10, <1>11, <1>12 DEF Inserted
<1> QED
  BY <1>13 DEF a, b, c, t

=============================================================================
