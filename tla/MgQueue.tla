------------------------------ MODULE MgQueue ------------------------------
(***************************************************************************)
(* mg_queue of mongoose 7.12 (src/queue.c): a ring of messages between one *)
(* producer, in the driver mg_tcpip_qwrite, and one consumer, the loop in  *)
(* mg_tcpip_poll, without a lock.  Every access to a field that the other  *)
(* side writes is a step.  Lengths are in units of the 32-bit header.      *)
(***************************************************************************)
EXTENDS Integers, Sequences

CONSTANTS
  Size,    \* of the buffer
  Lens,    \* the lengths of the messages
  MaxMsgs  \* bound: the messages that are added

MgQueueAssumption == /\ Size \in Nat \ {0} /\ Lens \subseteq Nat \ {0}
                     /\ MaxMsgs \in Nat

VARIABLES
  buf,   \* buf[i]: <<0, k>> for the length k, <<m, k>> for part k of message m
  head, tail,
  ppc, len, space,  \* the producer: its place in mg_queue_book or mg_queue_add
  cpc, n,           \* the consumer, and the length that it has read
  added, got        \* the lengths of the messages added, and those received

producer == <<ppc, len, space>>
consumer == <<cpc, n>>
vars == <<buf, head, tail, producer, consumer, added, got>>

hs == 2  \* the header and the 0 marker

Length(k) == <<0, k>>

Init == /\ buf = [i \in 0 .. Size - 1 |-> Length(0)]
        /\ head = 0 /\ tail = 0
        /\ ppc = "idle" /\ len = 0 /\ space = 0
        /\ cpc = "next" /\ n = 0
        /\ added = <<>> /\ got = <<>>

Write(i, what) == buf' = [buf EXCEPT ![i] = what]

-----------------------------------------------------------------------------
(* mg_queue_book, which reads q->tail up to five times, and mg_queue_add *)

Book == /\ ppc = "idle" /\ Len(added) < MaxMsgs
        /\ len' \in Lens
        /\ space' = 0 /\ ppc' = "ahead"
        /\ UNCHANGED <<buf, head, tail, consumer, added, got>>

Ahead == /\ ppc = "ahead"
         /\ IF head >= tail /\ head + len + hs <= Size
              THEN space' = Size - head - hs /\ ppc' = "before"
              ELSE UNCHANGED space /\ ppc' = "wrap?"
         /\ UNCHANGED <<buf, head, tail, len, consumer, added, got>>

WrapTest == /\ ppc = "wrap?"
            /\ ppc' = IF head >= tail THEN "mark?" ELSE "before"
            /\ UNCHANGED <<buf, head, tail, len, space, consumer, added, got>>

\* Faulty form: it wraps although there is no room before the tail.
MarkAlways == /\ ppc = "mark?"
              /\ Write(head, Length(0))
              /\ ppc' = "wrap"
              /\ UNCHANGED <<head, tail, len, space, consumer, added, got>>

Mark == /\ ppc = "mark?"
        /\ IF tail > hs
             THEN Write(head, Length(0)) /\ ppc' = "wrap"
             ELSE UNCHANGED buf /\ ppc' = "before"
        /\ UNCHANGED <<head, tail, len, space, consumer, added, got>>

Wrap == /\ ppc = "wrap"
        /\ head' = 0 /\ ppc' = "before"
        /\ UNCHANGED <<buf, tail, len, space, consumer, added, got>>

Before == /\ ppc = "before"
          /\ ppc' = IF head + hs + len < tail THEN "space" ELSE "booked"
          /\ UNCHANGED <<buf, head, tail, len, space, consumer, added, got>>

\* By now the tail may be back at 0, and the difference, a size_t, wrap
\* around to something huge.
Space == /\ ppc = "space"
         /\ space' = IF tail - head - hs >= 0 THEN tail - head - hs ELSE Size + 1
         /\ ppc' = "booked"
         /\ UNCHANGED <<buf, head, tail, len, consumer, added, got>>

\* The caller adds the message when there is space for it.
Fill == /\ ppc = "booked"
        /\ IF space >= len
             THEN /\ buf' = [i \in DOMAIN buf |->
                               IF i \in head + 1 .. head + len
                                 THEN <<Len(added) + 1, i - head>> ELSE buf[i]]
                  /\ ppc' = "length"
             ELSE ppc' = "idle" /\ UNCHANGED buf
        /\ UNCHANGED <<head, tail, len, space, consumer, added, got>>

AddLength == /\ ppc = "length"
             /\ Write(head, Length(len))
             /\ ppc' = "add"
             /\ UNCHANGED <<head, tail, len, space, consumer, added, got>>

Add == /\ ppc = "add"
       /\ head' = head + len + 1
       /\ added' = Append(added, len)
       /\ ppc' = "idle"
       /\ UNCHANGED <<buf, tail, len, space, consumer, got>>

Produce == Book \/ Ahead \/ WrapTest \/ Mark \/ Wrap \/ Before \/ Space
           \/ Fill \/ AddLength \/ Add

-----------------------------------------------------------------------------
(* mg_queue_next and mg_queue_del *)

\* Nothing is in the queue; the consumer comes back.
Next0 == /\ cpc = "next" /\ tail # head
         /\ cpc' = "length"
         /\ UNCHANGED <<buf, head, tail, producer, n, added, got>>

ReadLength == /\ cpc = "length"
              /\ n' = buf[tail][2]
              /\ cpc' = IF n' = 0 THEN "reset" ELSE "read"
              /\ UNCHANGED <<buf, head, tail, producer, added, got>>

\* Faulty form: the tail stays behind the marker.
ResetLate == /\ cpc = "reset"
             /\ cpc' = "again"
             /\ UNCHANGED <<buf, head, tail, producer, n, added, got>>

Reset == /\ cpc = "reset"
         /\ tail' = 0 /\ cpc' = "again"
         /\ UNCHANGED <<buf, head, producer, n, added, got>>

ReadAgain == /\ cpc = "again"
             /\ n' = IF head > tail THEN buf[tail][2] ELSE 0
             /\ cpc' = IF n' = 0 THEN "next" ELSE "read"
             /\ UNCHANGED <<buf, head, tail, producer, added, got>>

\* The consumer reads the message where it is.
Receive == /\ cpc = "read"
           /\ got' = Append(got, [k \in 1 .. n |-> buf[tail + k]])
           /\ cpc' = "del"
           /\ UNCHANGED <<buf, head, tail, producer, n, added>>

Del == /\ cpc = "del"
       /\ tail' = tail + n + 1
       /\ cpc' = "next"
       /\ UNCHANGED <<buf, head, producer, n, added, got>>

Consume == Next0 \/ ReadLength \/ Reset \/ ReadAgain \/ Receive \/ Del

Next == Produce \/ Consume

Spec == Init /\ [][Next]_vars

\* Frames keep coming, and the loop that consumes them runs on.
FairSpec == Spec /\ WF_vars(Produce) /\ WF_vars(Consume)

-----------------------------------------------------------------------------
(* Properties *)

\* The consumer receives the messages that were added, in their order, each
\* whole and as it was written, though neither side ever waits.
MessagesIntact ==
  /\ Len(got) <= Len(added)
  /\ \A m \in DOMAIN got : got[m] = [k \in 1 .. added[m] |-> <<m, k>>]

\* The assertions of queue.c.
AssertsHold ==
  /\ cpc = "length" \/ (cpc = "again" /\ head > tail) =>
       buf[tail][1] = 0 /\ tail + buf[tail][2] + 1 <= Size
  /\ cpc \in {"read", "del"} => tail + n <= Size
  /\ ppc = "add" => head + hs + len <= Size
  /\ tail + 1 <= Size

\* A message that leaves room for a second header and marker is accepted
\* sooner or later.  With a tail of hs or less, mg_queue_book does not wrap:
\* a message that would fill the buffer may then be refused for ever.
Booking ==
  ppc \notin {"length", "add"} /\ Len(added) < MaxMsgs /\ len + 2 * hs <= Size

RoomComesBack == Booking ~> ~Booking

=============================================================================
