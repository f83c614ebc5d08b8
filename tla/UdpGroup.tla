------------------------------ MODULE UdpGroup ------------------------------
(***************************************************************************)
(* UdpGroup/: a service that answers the datagrams of a multicast group,   *)
(* one at a time, and clients that ask, wait for at most a second and ask  *)
(* again (src/test.cpp, all in one process).  A datagram may be lost, and  *)
(* may overtake others on its way into the queue of a socket.              *)
(***************************************************************************)
EXTENDS Naturals, Sequences, SequencesExt, FiniteSets

CONSTANTS
  Clients, Service,
  NULL,
  MaxRounds,  \* bound: MaxRounds[c] is how often client c asks
  Room,       \* bound: the datagrams that the queue of a socket holds
  MayFree     \* bound: the clients that may call Free

UdpGroupAssumption == /\ Service \notin Clients /\ NULL \notin Clients
                      /\ MayFree \subseteq Clients
                      /\ MaxRounds \in [Clients -> Nat] /\ Room \in Nat \ {0}

VARIABLES
  pc,       \* pc[o]: what the thread of the object o does next
  fds,      \* the open sockets: <<o, field>>
  joined,   \* those whose Join went through, to the membership and the address
  queue,    \* queue[o]: the datagrams in o's socket, each [from, round]
  cliAddr,  \* the service's one peer address, NULL when cleared
  request,  \* the datagram that the service is answering
  round,    \* round[c]: how often c has begun to ask
  reply,    \* reply[c]: the round of what c received last, 0 for nothing
  late,     \* the clients that have waited in vain at some time
  freed     \* somebody has called Free

thread == <<pc, round, reply, late>>
sockets == <<fds, joined, freed>>
vars == <<thread, sockets, queue, cliAddr, request>>

Objects == Clients \cup {Service}

\* The sockets of an object, in the order in which Init opens them; the first
\* is the one that it receives from.
Fields(o) == IF o = Service THEN <<"recvFd", "reSendFd">> ELSE <<"sendFd">>
Fd(o, i) == <<o, Fields(o)[i]>>

Init == /\ pc = [o \in Objects |-> "init"]
        /\ fds = {} /\ joined = {} /\ freed = FALSE
        /\ queue = [o \in Objects |-> <<>>]
        /\ cliAddr = NULL /\ request = NULL
        /\ round = [c \in Clients |-> 0]
        /\ reply = [c \in Clients |-> 0]
        /\ late = {}

Goto(o, where) == pc' = [pc EXCEPT ![o] = where]

\* A datagram is lost, or takes a place in the queue of o's socket.
Arrives(o, d) ==
  /\ Fd(o, 1) \in fds /\ Len(queue[o]) < Room
  /\ \E i \in 1 .. Len(queue[o]) + 1 : queue' = [queue EXCEPT ![o] = InsertAt(@, i, d)]

-----------------------------------------------------------------------------
(* Setting up.  Nobody looks at what Init and Join return. *)

\* A call that fails leaves open what was opened before it.
InitCall(o) ==
  /\ pc[o] = "init"
  /\ \E n \in 0 .. Len(Fields(o)) : fds' = fds \cup {Fd(o, i) : i \in 1 .. n}
  /\ Goto(o, "join")
  /\ UNCHANGED <<round, reply, late, joined, freed, queue, cliAddr, request>>

\* Join returns false in any case.
Join(o) ==
  /\ pc[o] = "join"
  /\ \/ Fd(o, 1) \in fds /\ joined' = joined \cup {o}
     \/ UNCHANGED joined
  /\ Goto(o, IF o = Service THEN "get" ELSE "send")
  /\ UNCHANGED <<round, reply, late, fds, freed, queue, cliAddr, request>>

-----------------------------------------------------------------------------
(* The clients *)

\* sendData, at the beginning of a round and again after each getData in the
\* loop that waits for the answer, the successful one included.
Ask(c) ==
  /\ pc[c] \in {"send", "resend"}
  /\ round' = IF pc[c] = "send" THEN [round EXCEPT ![c] = @ + 1] ELSE round
  /\ Goto(c, IF pc[c] = "send" THEN "get" ELSE IF reply[c] = 0 THEN "reget" ELSE "done")
  /\ UNCHANGED <<reply, late, sockets, cliAddr, request>>

AskArrives(c) == /\ Ask(c)
                 /\ {c, Service} \subseteq joined /\ Fd(c, 1) \in fds
                 /\ Arrives(Service, [from |-> c, round |-> round'[c]])

AskLost(c) == Ask(c) /\ UNCHANGED queue

\* getData; it waits for no longer than a second.
Receive(c) ==
  /\ pc[c] \in {"get", "reget"}
  /\ IF Fd(c, 1) \in fds /\ queue[c] # <<>>
       THEN /\ reply' = [reply EXCEPT ![c] = Head(queue[c]).round]
            /\ queue' = [queue EXCEPT ![c] = Tail(@)]
            /\ Goto(c, IF pc[c] = "get" THEN "done" ELSE "resend")
            /\ UNCHANGED late
       ELSE /\ reply' = [reply EXCEPT ![c] = 0]
            /\ Goto(c, IF pc[c] = "get" THEN "reget" ELSE "resend")
            /\ late' = late \cup {c}
            /\ UNCHANGED queue
  /\ UNCHANGED <<round, sockets, cliAddr, request>>

Again(c) == /\ pc[c] = "done" /\ round[c] < MaxRounds[c]
            /\ Goto(c, "send")
            /\ UNCHANGED <<round, reply, late, sockets, queue, cliAddr, request>>

\* Free, which test.cpp never comes to, closes all three descriptors: two of
\* them were never set, and may be anybody's.
Free(c) == /\ c \in MayFree /\ pc[c] = "done"
           /\ \E others \in SUBSET (fds \ {Fd(c, 1)}) :
                /\ Cardinality(others) <= 2
                /\ fds' = fds \ (others \cup {Fd(c, 1)})
           /\ freed' = TRUE
           /\ Goto(c, "freed")
           /\ UNCHANGED <<round, reply, late, joined, queue, cliAddr, request>>

-----------------------------------------------------------------------------
(* The service *)

\* Faulty form: the peer is the first that has ever asked.
GetOnce ==
  /\ pc[Service] = "get"
  /\ Fd(Service, 1) \in fds /\ queue[Service] # <<>>
  /\ request' = Head(queue[Service])
  /\ cliAddr' = IF cliAddr = NULL THEN request'.from ELSE cliAddr
  /\ queue' = [queue EXCEPT ![Service] = Tail(@)]
  /\ Goto(Service, "send")
  /\ UNCHANGED <<round, reply, late, sockets>>

\* getData, which clears the peer address before it waits; the service calls
\* it until it brings something.
Get ==
  /\ pc[Service] = "get"
  /\ IF Fd(Service, 1) \in fds /\ queue[Service] # <<>>
       THEN /\ request' = Head(queue[Service])
            /\ cliAddr' = request'.from
            /\ queue' = [queue EXCEPT ![Service] = Tail(@)]
            /\ Goto(Service, "send")
       ELSE /\ cliAddr' = NULL
            /\ UNCHANGED <<pc, request, queue>>
  /\ UNCHANGED <<round, reply, late, sockets>>

\* sendData to the peer address, called until it returns true.
Answer == /\ pc[Service] = "send"
          /\ Fd(Service, 2) \in fds
          /\ Goto(Service, "get")
          /\ UNCHANGED <<round, reply, late, sockets, cliAddr, request>>

AnswerArrives == Answer /\ cliAddr # NULL /\ Arrives(cliAddr, request)

AnswerLost == Answer /\ UNCHANGED queue

Serve == Get \/ AnswerLost \/ AnswerArrives

Client(c) == AskArrives(c) \/ AskLost(c) \/ Receive(c) \/ Again(c)

SetUp(o) == InitCall(o) \/ Join(o)

Next == \/ Serve
        \/ \E o \in Objects : SetUp(o)
        \/ \E c \in Clients : Client(c) \/ Free(c)

Spec == Init /\ [][Next]_vars

\* The threads run on, and neither what a client asks nor what the service
\* answers is lost every time.
FairSpec == /\ Spec
            /\ WF_vars(Serve) /\ SF_vars(AnswerArrives)
            /\ \A o \in Objects : WF_vars(SetUp(o))
            /\ \A c \in Clients : WF_vars(Client(c)) /\ SF_vars(AskArrives(c))

-----------------------------------------------------------------------------
(* Properties *)

\* The service keeps one peer address and reuses it for everybody, yet
\* whatever arrives at a client answers something that this client has asked,
\* and not before it asked.
AnswersGoToTheAsker ==
  \A c \in Clients : \A i \in DOMAIN queue[c] :
    queue[c][i].from = c /\ queue[c][i].round <= round[c]

\* A client that has never had to wait in vain is answered what it has just
\* asked, and nothing is left over.  After a timeout this is lost for good:
\* the loop sends once more than it receives.
FreshUntilLate ==
  \A c \in Clients :
    pc[c] = "done" /\ c \notin late => reply[c] = round[c] /\ queue[c] = <<>>

\* What the proof needs besides: types, what the service has in hand, and that
\* of a client that was never late there is at most one datagram, its newest
\* question or the answer to it, and only while the client waits.
Datagrams == [from : Clients, round : Nat]
TypeOK ==
  /\ pc \in [Objects -> {"init", "join", "send", "get", "reget", "resend", "done", "freed"}]
  /\ round \in [Clients -> Nat] /\ reply \in [Clients -> Nat]
  /\ late \subseteq Clients
  /\ queue \in [Objects -> Seq(Datagrams)]
  /\ pc[Service] = "send" => request \in Datagrams /\ cliAddr = request.from

QuestionsWereAsked ==
  /\ \A i \in DOMAIN queue[Service] :
       queue[Service][i].round <= round[queue[Service][i].from]
  /\ pc[Service] = "send" => request.round <= round[request.from]

InService(c) == pc[Service] = "send" /\ request.from = c
OneInFlight(c) ==
  /\ pc[c] \notin {"reget", "resend"}
  /\ \A i \in DOMAIN queue[Service] : queue[Service][i].from = c =>
       /\ pc[c] = "get" /\ queue[Service][i].round = round[c]
       /\ \A j \in DOMAIN queue[Service] : queue[Service][j].from = c => j = i
       /\ ~InService(c) /\ queue[c] = <<>>
  /\ InService(c) => pc[c] = "get" /\ request.round = round[c] /\ queue[c] = <<>>
  /\ queue[c] # <<>> => /\ pc[c] = "get" /\ Len(queue[c]) = 1
                        /\ queue[c][1].round = round[c]
  /\ pc[c] = "done" => reply[c] = round[c]

IInv == /\ TypeOK /\ QuestionsWereAsked /\ AnswersGoToTheAsker
        /\ \A c \in Clients \ late : OneInFlight(c)

\* Somebody's Init or Join has failed, or Free may have closed anything.
Broken == \/ freed
          \/ \E o \in Objects : pc[o] \notin {"init", "join"} /\ o \notin joined
          \/ pc[Service] # "init" /\ Fd(Service, 2) \notin fds

Asking(c) == pc[c] \in {"get", "reget", "resend"} /\ ~Broken

\* Asking again makes up for what is lost, in both directions: every round
\* ends, unless the sockets were never there.
EveryRoundEnds == \A c \in Clients : Asking(c) ~> ~Asking(c)

=============================================================================
