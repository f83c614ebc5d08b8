------------------------------- MODULE Reactor -------------------------------
(***************************************************************************)
(* The echo server of reactor/reactor.c.  Like MultiIo it runs one         *)
(* callback per ready descriptor, but a connection's readBuffer is filled  *)
(* from its first byte to its last and never emptied ("rLen -= 0"), and    *)
(* send_cb sends wLen bytes of the readBuffer.                             *)
(***************************************************************************)
EXTENDS Naturals, Sequences

CONSTANTS
  Clients, Fds, NULL,
  MaxSent,         \* bound: the bytes a client sends
  MAX_BUFFER_SIZE

ReactorAssumption == /\ MAX_BUFFER_SIZE \in Nat \ {0}
                     /\ MaxSent \in Nat
                     /\ NULL \notin Fds

VARIABLES
  peer, backlog, fd, sent, inbox, got, broken,  \* see EchoNet
  readBuffer,  \* the first rLen bytes of the read buffer of each item
  wLen,
  event,       \* what epoll watches each descriptor for: "none", "in" or "out"
  down         \* the process has died

Net == INSTANCE EchoNet
net == <<peer, backlog, fd, sent, inbox, got, broken>>
items == <<readBuffer, wLen, event>>
vars == <<net, items, down>>

Init == /\ Net!Init
        /\ readBuffer = [f \in Fds |-> <<>>]
        /\ wLen = [f \in Fds |-> 0]
        /\ event = [f \in Fds |-> "none"]
        /\ down = FALSE

Ready(c, what) == ~down /\ fd[c] # NULL /\ event[fd[c]] = what
RoomLeft(c) == MAX_BUFFER_SIZE - Len(readBuffer[fd[c]])

-----------------------------------------------------------------------------
\* Faulty form: the buffer of the item's last connection is kept.
accept_keeps(c) ==
  /\ ~down
  /\ \E f \in Fds :
       /\ Net!Accept(c, f)
       /\ event' = [event EXCEPT ![f] = "in"]
  /\ UNCHANGED <<readBuffer, wLen, down>>

accept_cb(c) ==
  /\ ~down
  /\ \E f \in Fds :
       /\ Net!Accept(c, f)
       /\ event' = [event EXCEPT ![f] = "in"]
       /\ readBuffer' = [readBuffer EXCEPT ![f] = <<>>]
       /\ wLen' = [wLen EXCEPT ![f] = 0]
  /\ UNCHANGED down

\* accept returns -1, which passes for a descriptor: connLists[-1] is
\* written.  The process dies, or nobody notices, which is no step.
accept_fails(c) ==
  /\ ~down
  /\ c \in backlog /\ Net!Free = {}
  /\ down' = TRUE
  /\ UNCHANGED <<net, items>>

recv_cb(c) ==
  /\ Ready(c, "in")
  /\ LET f == fd[c]
     IN  /\ Net!Recv(c, RoomLeft(c))
         /\ readBuffer' = [readBuffer EXCEPT ![f] = @ \o Net!Received(c, RoomLeft(c))]
         /\ wLen' = [wLen EXCEPT ![f] = Len(readBuffer'[f])]
         /\ event' = [event EXCEPT ![f] = "out"]
  /\ UNCHANGED down

\* recv returns 0 when the client has closed; and when it was given no room.
recv_end(c) ==
  /\ Ready(c, "in")
  /\ Net!AtEnd(c) \/ (inbox[c] # <<>> /\ RoomLeft(c) = 0)
  /\ Net!Close(c)
  /\ event' = [event EXCEPT ![fd[c]] = "none"]
  /\ UNCHANGED <<readBuffer, wLen, down>>

\* recv returns -1, which is added to rLen: with nothing in the buffer,
\* memcpy is given -1 bytes to copy, and otherwise the last byte is dropped.
recv_error(c) ==
  /\ Ready(c, "in")
  /\ Net!AtError(c)
  /\ Net!TakeError(c)
  /\ LET f == fd[c]
         rLen == Len(readBuffer[f])
     IN  IF rLen = 0
           THEN down' = TRUE /\ UNCHANGED items
           ELSE /\ readBuffer' = [readBuffer EXCEPT ![f] = SubSeq(@, 1, rLen - 1)]
                /\ wLen' = [wLen EXCEPT ![f] = rLen - 1]
                /\ event' = [event EXCEPT ![f] = "out"]
                /\ UNCHANGED down

send_cb(c) ==
  /\ Ready(c, "out")
  /\ down' = Net!SendKills(c)
  /\ Net!Send(c, SubSeq(readBuffer[fd[c]], 1, wLen[fd[c]]))
  /\ event' = [event EXCEPT ![fd[c]] = "in"]
  /\ UNCHANGED <<readBuffer, wLen>>

Serve(c) == recv_cb(c) \/ recv_end(c) \/ recv_error(c) \/ send_cb(c)

Client(c) == /\ Net!Connect(c) \/ Net!Say(c) \/ Net!Leave(c)
             /\ UNCHANGED <<items, down>>

Next == \E c \in Clients : Client(c) \/ accept_cb(c) \/ accept_fails(c) \/ Serve(c)

Spec == Init /\ [][Next]_vars

\* epoll reports what is ready in turn, so nobody who is ready waits for
\* ever; the backlog is served while there are descriptors.
FairSpec == Spec /\ \A c \in Clients : WF_vars(Serve(c)) /\ WF_vars(accept_cb(c))

-----------------------------------------------------------------------------
(* Properties *)

Said(c) == [i \in 1 .. sent[c] |-> <<c, i>>]

\* The buffer of a connection holds everything its client has sent since it
\* was accepted, and nothing of the client that had the item before.
BufferHolds(c) ==
  fd[c] # NULL /\ peer[c] = "up" => readBuffer[fd[c]] \o inbox[c] = Said(c)
BufferIsTheConnection == \A c \in Clients : BufferHolds(c)

\* A reply is everything from the first byte on: the last byte that came
\* back, and the last reply, are about the last byte received.
ReplyIsWhole(c) ==
  fd[c] # NULL /\ peer[c] = "up" /\ event[fd[c]] = "in" /\ readBuffer[fd[c]] # <<>> =>
    LET n == Len(readBuffer[fd[c]])
    IN  Len(got[c]) >= n
        /\ SubSeq(got[c], Len(got[c]) - n + 1, Len(got[c])) = readBuffer[fd[c]]
RepliesAreWhole == \A c \in Clients : ReplyIsWhole(c)

\* What the proof needs besides: types, what has arrived of a client that
\* waits to be accepted; and send_cb sends the whole buffer.
Waits(c) == c \in backlog /\ peer[c] = "up" => inbox[c] = Said(c)
Served(c) == Waits(c) /\ BufferHolds(c) /\ ReplyIsWhole(c)
IInv ==
  /\ Net!TypeOK /\ Net!FdsAreOwn
  /\ down \in BOOLEAN
  /\ readBuffer \in [Fds -> Seq(Net!Bytes)]
  /\ wLen = [f \in Fds |-> Len(readBuffer[f])]
  /\ event \in [Fds -> {"none", "in", "out"}]
  /\ \A c \in Clients : Served(c)

\* The last byte of a connected client comes back, and with it all before,
\* unless the client leaves or the process dies.  Nothing is promised to a
\* client that sends more than the buffer holds: recv is then given no room
\* and its 0 closes the connection.  Any other client is not cut off.
Owed(c) == /\ fd[c] # NULL /\ peer[c] = "up" /\ ~down
           /\ sent[c] \in 1 .. MAX_BUFFER_SIZE
           /\ <<c, sent[c]>> \notin {got[c][i] : i \in DOMAIN got[c]}

EveryByteComesBack == \A c \in Clients : Owed(c) ~> ~Owed(c)

=============================================================================
