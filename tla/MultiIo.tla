------------------------------- MODULE MultiIo -------------------------------
(***************************************************************************)
(* The echo server of reactor/multi-io.c: one thread that waits in         *)
(* epoll_wait and runs a callback for each descriptor that is ready.  One  *)
(* action is one callback.  The items of connlist are not cleared when a   *)
(* connection ends; its descriptor, and its item, are used again.          *)
(*                                                                         *)
(* Ready descriptors are reported once per epoll_wait, and a callback      *)
(* closes only its own, so a list of events is never out of date.          *)
(***************************************************************************)
EXTENDS Naturals, Sequences

CONSTANTS
  Clients,
  Fds,            \* a model value, or a number, for each descriptor
  NULL,
  MaxSent,        \* bound: the bytes a client sends
  BUFFER_LENGTH

MultiIoAssumption == /\ BUFFER_LENGTH \in Nat \ {0}
                     /\ MaxSent \in Nat
                     /\ NULL \notin Fds

VARIABLES
  peer, backlog, fd, sent, inbox, got, broken,  \* see EchoNet
  rbuffer,  \* the first rlen bytes of the read buffer of each item
  wbuffer,  \* the first wlen bytes of the write buffer of each item
  event,    \* what epoll watches each descriptor for: "none", "in" or "out"
  down      \* the process has died

Net == INSTANCE EchoNet
net == <<peer, backlog, fd, sent, inbox, got, broken>>
items == <<rbuffer, wbuffer, event>>
vars == <<net, items, down>>

Init == /\ Net!Init
        /\ rbuffer = [f \in Fds |-> <<>>]
        /\ wbuffer = [f \in Fds |-> <<>>]
        /\ event = [f \in Fds |-> "none"]
        /\ down = FALSE

Ready(c, what) == ~down /\ fd[c] # NULL /\ event[fd[c]] = what

-----------------------------------------------------------------------------
\* A failed accept changes nothing.
accept_cb(c) ==
  /\ ~down
  /\ \E f \in Fds :
       /\ Net!Accept(c, f)
       /\ event' = [event EXCEPT ![f] = "in"]
       /\ rbuffer' = [rbuffer EXCEPT ![f] = <<>>]
       /\ wbuffer' = [wbuffer EXCEPT ![f] = <<>>]
  /\ UNCHANGED down

\* What was received is copied to the write buffer, and rlen goes back to 0.
recv_cb(c) ==
  /\ Ready(c, "in")
  /\ LET f == fd[c]
         room == BUFFER_LENGTH - Len(rbuffer[f])
     IN  /\ Net!Recv(c, room)
         /\ wbuffer' = [wbuffer EXCEPT ![f] = rbuffer[f] \o Net!Received(c, room)]
         /\ rbuffer' = [rbuffer EXCEPT ![f] = <<>>]
         /\ event' = [event EXCEPT ![f] = "out"]
  /\ UNCHANGED down

\* Faulty form: the descriptor is taken out of epoll and not closed.
recv_end_open(c) ==
  /\ Ready(c, "in")
  /\ Net!AtEnd(c)
  /\ event' = [event EXCEPT ![fd[c]] = "none"]
  /\ UNCHANGED <<net, rbuffer, wbuffer, down>>

\* recv returns 0.
recv_end(c) ==
  /\ Ready(c, "in")
  /\ Net!AtEnd(c)
  /\ Net!Close(c)
  /\ event' = [event EXCEPT ![fd[c]] = "none"]
  /\ UNCHANGED <<rbuffer, wbuffer, down>>

\* recv returns -1: rlen is -1, and memcpy is asked for as many bytes as a
\* size_t can say.
recv_error(c) ==
  /\ Ready(c, "in")
  /\ Net!AtError(c)
  /\ Net!TakeError(c)
  /\ down' = TRUE
  /\ UNCHANGED items

send_cb(c) ==
  /\ Ready(c, "out")
  /\ down' = Net!SendKills(c)
  /\ Net!Send(c, wbuffer[fd[c]])
  /\ event' = [event EXCEPT ![fd[c]] = "in"]
  /\ UNCHANGED <<rbuffer, wbuffer>>

Serve(c) == recv_cb(c) \/ recv_end(c) \/ recv_error(c) \/ send_cb(c)

Client(c) == /\ Net!Connect(c) \/ Net!Say(c) \/ Net!Leave(c)
             /\ UNCHANGED <<items, down>>

Next == \E c \in Clients : Client(c) \/ accept_cb(c) \/ Serve(c)

Spec == Init /\ [][Next]_vars

\* epoll reports what is ready in turn, so nobody who is ready waits for
\* ever; the backlog is served while there are descriptors.
FairSpec == Spec /\ \A c \in Clients : WF_vars(Serve(c)) /\ WF_vars(accept_cb(c))

-----------------------------------------------------------------------------
(* Properties *)

\* "echo: need to send": what came back, what is to be sent back and what
\* was not received yet are, in this order, exactly what the client sent,
\* whoever used the item before.
Said(c) == [i \in 1 .. sent[c] |-> <<c, i>>]
Pending(c) == IF fd[c] # NULL /\ event[fd[c]] = "out" THEN wbuffer[fd[c]] ELSE <<>>
Conserves(c) == got[c] \o Pending(c) \o inbox[c] = Said(c)
EchoConserves == \A c \in Clients : peer[c] = "up" => Conserves(c)

\* What the proof needs besides: types, and nothing stays in a read buffer.
IInv ==
  /\ Net!TypeOK /\ Net!FdsAreOwn
  /\ down \in BOOLEAN
  /\ rbuffer = [f \in Fds |-> <<>>]
  /\ wbuffer \in [Fds -> Seq(Net!Bytes)]
  /\ event \in [Fds -> {"none", "in", "out"}]
  /\ EchoConserves

\* Something that an accepted client has sent is not back yet, or the client
\* has left and still has its descriptor.
Owed(c) == /\ fd[c] # NULL /\ ~down
           /\ (peer[c] = "up" /\ got[c] # Said(c)) \/ peer[c] = "fin"

\* Whatever an accepted client has sent comes back, unless it leaves or the
\* process dies; and the descriptor of one that leaves can be used again.
EverythingEchoed == \A c \in Clients : Owed(c) ~> ~Owed(c)

=============================================================================
