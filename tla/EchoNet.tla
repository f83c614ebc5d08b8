------------------------------- MODULE EchoNet -------------------------------
(***************************************************************************)
(* What the two echo servers of reactor/ see of the kernel and of their    *)
(* clients: a backlog of connections, the bytes that have arrived on each, *)
(* and what becomes of a recv or a send when the client has left.  Each    *)
(* client connects once.  Clients read what they are sent, so a send, on a *)
(* blocking socket, sends everything.                                      *)
(***************************************************************************)
EXTENDS Naturals, Sequences

CONSTANTS
  Clients,
  Fds,      \* the descriptors that accept may return
  NULL,
  MaxSent   \* bound: the bytes a client sends

VARIABLES
  peer,     \* peer[c]: "out", "up", "fin" once it has closed, or "reset"
  backlog,  \* the clients waiting to be accepted
  fd,       \* fd[c]: the server's descriptor of the connection, or NULL
  sent,     \* sent[c]: how many bytes c has sent; byte i of c is <<c, i>>
  inbox,    \* inbox[c]: the bytes that the server has not received
  got,      \* got[c]: the bytes that came back
  broken    \* the clients whose host has answered a send with a reset

vars == <<peer, backlog, fd, sent, inbox, got, broken>>

Init == /\ peer = [c \in Clients |-> "out"]
        /\ backlog = {}
        /\ fd = [c \in Clients |-> NULL]
        /\ sent = [c \in Clients |-> 0]
        /\ inbox = [c \in Clients |-> <<>>]
        /\ got = [c \in Clients |-> <<>>]
        /\ broken = {}

Free == Fds \ {fd[c] : c \in Clients}

\* Types, and what the proofs need: the descriptors are of different
\* connections, and a connection has none before it is accepted.
Bytes == Clients \X Nat
TypeOK == /\ peer \in [Clients -> {"out", "up", "fin", "reset"}]
          /\ backlog \subseteq Clients /\ broken \subseteq Clients
          /\ fd \in [Clients -> Fds \cup {NULL}]
          /\ sent \in [Clients -> Nat]
          /\ inbox \in [Clients -> Seq(Bytes)] /\ got \in [Clients -> Seq(Bytes)]

FdsAreOwn ==
  /\ \A c, d \in Clients : fd[c] = fd[d] /\ fd[c] # NULL => c = d
  /\ \A c \in Clients : c \in backlog \/ peer[c] = "out" => fd[c] = NULL
  /\ \A c \in Clients : peer[c] = "out" => c \notin backlog
  /\ \A c \in Clients : peer[c] = "out" => sent[c] = 0 /\ inbox[c] = <<>> /\ got[c] = <<>>

(* The clients *)

Connect(c) == /\ peer[c] = "out"
              /\ peer' = [peer EXCEPT ![c] = "up"]
              /\ backlog' = backlog \cup {c}
              /\ UNCHANGED <<fd, sent, inbox, got, broken>>

Say(c) == /\ peer[c] = "up"
          /\ sent[c] < MaxSent
          /\ sent' = [sent EXCEPT ![c] = @ + 1]
          /\ inbox' = [inbox EXCEPT ![c] = Append(@, <<c, sent[c] + 1>>)]
          /\ UNCHANGED <<peer, backlog, fd, got, broken>>

Leave(c) == /\ peer[c] = "up"
            /\ \E how \in {"fin", "reset"} : peer' = [peer EXCEPT ![c] = how]
            /\ UNCHANGED <<backlog, fd, sent, inbox, got, broken>>

(* The server's calls *)

Accept(c, f) == /\ c \in backlog /\ f \in Free
                /\ backlog' = backlog \ {c}
                /\ fd' = [fd EXCEPT ![c] = f]
                /\ UNCHANGED <<peer, sent, inbox, got, broken>>

\* recv with room for n bytes returns what is there.
Received(c, n) == SubSeq(inbox[c], 1, IF Len(inbox[c]) < n THEN Len(inbox[c]) ELSE n)
Recv(c, n) == /\ n > 0 /\ inbox[c] # <<>>
              /\ inbox' = [inbox EXCEPT ![c] = SubSeq(@, Len(Received(c, n)) + 1, Len(@))]
              /\ UNCHANGED <<peer, backlog, fd, sent, got, broken>>

\* It returns 0 when the client has closed ...
AtEnd(c) == inbox[c] = <<>> /\ peer[c] = "fin"

\* ... and -1, once, when the client has reset the connection.
AtError(c) == inbox[c] = <<>> /\ peer[c] = "reset"
TakeError(c) == /\ peer' = [peer EXCEPT ![c] = "fin"]
                /\ broken' = broken \cup {c}
                /\ UNCHANGED <<backlog, fd, sent, inbox, got>>

\* A send to a client that has closed is answered with a reset, and a send
\* after that raises SIGPIPE.
SendKills(c) == c \in broken
Send(c, bytes) ==
  CASE peer[c] = "up"    -> /\ got' = [got EXCEPT ![c] = @ \o bytes]
                            /\ UNCHANGED <<peer, backlog, fd, sent, inbox, broken>>
    [] peer[c] = "reset" -> TakeError(c)
    [] OTHER             -> /\ broken' = broken \cup {c}
                            /\ UNCHANGED <<peer, backlog, fd, sent, inbox, got>>

Close(c) == /\ fd' = [fd EXCEPT ![c] = NULL]
            /\ inbox' = [inbox EXCEPT ![c] = <<>>]
            /\ UNCHANGED <<peer, backlog, sent, got, broken>>

=============================================================================
