------------------------------ MODULE MCServers ------------------------------
(***************************************************************************)
(* Small instances of four components that do not know of each other: the  *)
(* task queue of thread pool 2.0, the two echo servers and the UDP group.  *)
(* A behaviour is one of one of them, and the others stay where they       *)
(* begin.  The names that TaskList defines are its own.                    *)
(***************************************************************************)
EXTENDS TaskList

CONSTANTS
  Clients, MaxSent,
  Fds, BUFFER_LENGTH,           \* of multi-io
  ReactorFds, MAX_BUFFER_SIZE,  \* of the reactor
  Service, MaxRounds, MayFree, Room

VARIABLES
  which,
  peer, backlog, fd, sent, inbox, got, broken, down,
  rbuffer, wbuffer, event, readBuffer, wLen, ready,
  udp_pc, fds, joined, queue, cliAddr, request, round, reply, late, freed

M == INSTANCE MultiIo
R == INSTANCE Reactor WITH Fds <- ReactorFds, event <- ready
U == INSTANCE UdpGroup WITH pc <- udp_pc

\* One of the clients of the UDP group asks once, and may call Free; the
\* others ask twice.
MCMayFree == {CHOOSE c \in Clients : TRUE}
MCMaxRounds == [c \in Clients |-> IF c \in MCMayFree THEN 1 ELSE 2]

ASSUME ServersAssumption ==
  M!MultiIoAssumption /\ R!ReactorAssumption /\ U!UdpGroupAssumption

echo == <<peer, backlog, fd, sent, inbox, got, broken, down>>
multi_io == <<rbuffer, wbuffer, event>>
reactor == <<readBuffer, wLen, ready>>
udp == <<udp_pc, fds, joined, queue, cliAddr, request, round, reply, late, freed>>
mvars == <<echo, multi_io>>
rvars == <<echo, reactor>>

\* The task queue begins in one way only when a behaviour is not about it.
ServersInit ==
  /\ which \in {"tasks", "multi_io", "reactor", "udp"}
  /\ Init /\ M!Init /\ R!Init /\ U!Init
  /\ which # "tasks" => next = [x \in Tasks |-> NULL]

ServersNext ==
  /\ UNCHANGED which
  /\ \/ which = "tasks" /\ Next /\ UNCHANGED <<echo, multi_io, reactor, udp>>
     \/ which = "multi_io" /\ M!Next /\ UNCHANGED <<vars, reactor, udp>>
     \/ which = "reactor" /\ R!Next /\ UNCHANGED <<vars, multi_io, udp>>
     \/ which = "udp" /\ U!Next /\ UNCHANGED <<vars, echo, multi_io, reactor>>

ServersSpec == ServersInit /\ [][ServersNext]_<<which, vars, echo, multi_io, reactor, udp>>

\* The fairness of each component; the task queue has none.
FairServers ==
  /\ ServersSpec
  /\ \A c \in Clients :
       /\ WF_mvars(which = "multi_io" /\ M!Serve(c))
       /\ WF_mvars(which = "multi_io" /\ M!accept_cb(c))
       /\ WF_rvars(which = "reactor" /\ R!Serve(c))
       /\ WF_rvars(which = "reactor" /\ R!accept_cb(c))
       /\ WF_udp(which = "udp" /\ U!Client(c))
       /\ SF_udp(which = "udp" /\ U!AskArrives(c))
  /\ WF_udp(which = "udp" /\ U!Serve)
  /\ SF_udp(which = "udp" /\ U!AnswerArrives)
  /\ \A o \in U!Objects : WF_udp(which = "udp" /\ U!SetUp(o))

-----------------------------------------------------------------------------
(* Properties, besides those of TaskList *)

\* Of the echo servers: what came back and what is still on its way are what
\* the client sent, and a reply of the reactor is everything from the first
\* byte on.  Of the UDP group: what a client receives answers something that it
\* has asked, and the last thing unless it had to wait in vain.
RepliesAreTrue ==
  /\ which = "multi_io" => M!EchoConserves
  /\ which = "reactor" => R!BufferIsTheConnection /\ R!RepliesAreWhole
  /\ which = "udp" => U!AnswersGoToTheAsker /\ U!FreshUntilLate

\* A client waits for what it is owed.
Waiting == \E c \in Clients : \/ which = "multi_io" /\ M!Owed(c)
                              \/ which = "reactor" /\ R!Owed(c)
                              \/ which = "udp" /\ U!Asking(c)

\* EverythingEchoed of multi-io, EveryByteComesBack of the reactor and
\* EveryRoundEnds of the UDP group: what was sent to the echo servers comes
\* back, multi-io's descriptors are free again, and a round of the UDP group
\* ends unless the sockets were never there.  A client asks for so much and no
\* more, so that at some time nobody waits.
EverythingComesBack == Waiting ~> ~Waiting

=============================================================================
