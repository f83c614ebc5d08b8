----------------------------- MODULE HttpServer -----------------------------
(***************************************************************************)
(* A server on the event loop of mongoose 7.12 (mg_mgr_poll with epoll)    *)
(* and its clients.  The program is the service of httpTool/httpService.c, *)
(* or mongoose's own mg_hello, which ends when it is asked for "quit".     *)
(* Each client opens one connection, sends the tokens of its script at its *)
(* own pace, and may leave.  The kernel takes, in one piece or in several, *)
(* what the server sends.                                                  *)
(*                                                                         *)
(* The buffer of a connection is a sequence of tokens [t, r], where r is   *)
(* the request that the token belongs to:                                  *)
(*   "start", "head"          a request's header: its beginning, its end   *)
(*   "byte"                   a piece of a body that is not chunked        *)
(*   "size", "crlf", "data"   a chunk: the digits of its size (three or    *)
(*                            more), the end of that line, the rest of it  *)
(*   "zero", "end"            the two halves of the last chunk             *)
(*   "junk"                   a byte that no header may hold               *)
(* and a request is [q, uri, post, framing, body], framing being "length"  *)
(* (a Content-Length), "chunked" or "none".                                *)
(***************************************************************************)
EXTENDS Integers, Sequences, SequencesExt, FiniteSets

CONSTANTS
  Clients, Listener,
  Scripts,     \* Scripts[c]: the sequences of tokens that client c may send
  Uris,        \* the three that httpService.c answers
  MaxRecvSize, \* MG_MAX_RECV_SIZE
  IoSize,      \* MG_IO_SIZE
  MayLeave     \* bound: the clients that may leave

ASSUME HttpServerAssumption == /\ Listener \notin Clients /\ MayLeave \subseteq Clients
                               /\ MaxRecvSize \in Nat /\ IoSize \in Nat \ {0}

VARIABLES
  app,      \* the program: "service" or "hello"
  pc,       \* "poll" or "pass"
  conns,    \* mgr->conns
  todo,     \* the connections left in this pass for which something was reported
  conn,     \* conn[c]: the mg_connection, and in log the messages delivered
  done,     \* mg_hello's flag
  peer,     \* peer[c]: "out", "up", "fin" once it has closed, or "reset"
  backlog,  \* the clients waiting to be accepted
  script,   \* script[c]: all the tokens that c has to send
  said,     \* said[c]: how many of them it has sent
  wire,     \* wire[c]: the tokens that the server has yet to receive
  got       \* got[c]: the replies sent to c, by the numbers of their messages

server == <<app, pc, conns, todo, conn, done>>
clients == <<peer, backlog, script, said, wire, got>>
vars == <<server, clients>>

-----------------------------------------------------------------------------
(* The handlers *)

\* The handlers of MG_EV_HTTP_MSG, where post is whether "POST" is found from
\* the message on: they answer with "none", "reply", or "quit" for a reply and
\* draining the connection.  httpService.c leaves alone whatever is not a POST
\* to one of its URIs.
ServiceFn(uri, post) == IF uri \in Uris /\ post THEN "reply" ELSE "none"

\* mg_hello answers everything.
MgHfn(uri) == IF uri = "quit" THEN "quit" ELSE "reply"

Hander(uri, post) == IF app = "service" THEN ServiceFn(uri, post) ELSE MgHfn(uri)

-----------------------------------------------------------------------------
(* http_cb, which finds the messages in the buffer of a connection and     *)
(* hands them to the handler                                               *)

From(s, ofs) == SubSeq(s, ofs + 1, Len(s))

\* Faulty form: a header that is not complete is an error.
MgHttpParseAll(s) ==
  LET i == SelectInSeq(s, LAMBDA x : x.t \in {"head", "junk"})
  IN  IF i = 0 \/ s[i].t = "junk" \/ s[1].t # "start" THEN -1 ELSE i

\* The length of the header, 0 when it is not complete, or -1.
MgHttpParse(s) ==
  LET i == SelectInSeq(s, LAMBDA x : x.t \in {"head", "junk"})
  IN  IF i = 0 THEN 0
      ELSE IF s[i].t = "junk" \/ s[1].t # "start" THEN -1 ELSE i

\* The length and the data of the chunk that tokens of these kinds begin with;
\* a length of 0 when it is not complete.  A line with the size that is not
\* complete counts as an error once three bytes of it are there.
SkipChunk(kinds) ==
  CASE kinds = <<>> \/ kinds = <<"zero">> -> [cl |-> 0, dl |-> 0]
    [] IsPrefix(<<"zero", "end">>, kinds) -> [cl |-> 2, dl |-> 0]
    [] kinds = <<"size", "crlf">> -> [cl |-> 0, dl |-> 0]
    [] IsPrefix(<<"size", "crlf", "data">>, kinds) -> [cl |-> 3, dl |-> 1]
    [] OTHER -> [cl |-> -1, dl |-> 0]

\* Where the chunks of s behind its first n tokens end and how much data they
\* hold; cl as above, for the first chunk that is not complete or has no data.
Chunks(s, n) ==
  LET kinds == [i \in DOMAIN s |-> s[i].t]
      skip[o \in n .. Len(s)] ==
        LET Add(k) == IF k.cl > 0 /\ k.dl > 0
                        THEN [skip[o + k.cl] EXCEPT !.body = @ + k.dl]
                        ELSE [cl |-> k.cl, size |-> o + k.cl, body |-> 0]
        IN  Add(SkipChunk(From(kinds, o)))
  IN  skip[n]

\* What is at the beginning of the buffer: "more" when a message is not
\* complete yet, "unparsed", "unchunked", or a "message" with its size and the
\* size of its body.
Nothing(is) == [is |-> is, size |-> 0, body |-> 0]
Message(size, body) == [is |-> "message", size |-> size, body |-> body]

\* A message in chunks, as Chunks finds them.
Chunked(chunks) ==
  CASE chunks.cl = 0 -> Nothing("more")
    [] chunks.cl < 0 -> Nothing("unchunked")
    [] OTHER -> Message(chunks.size, chunks.body)

\* How long the body of r is when rest tokens follow its header.
BodyLen(r, rest, ev) ==
  IF ev = "close" THEN rest
  ELSE IF r.framing = "length" THEN r.body
  ELSE IF r.post THEN rest + 1  \* no Content-Length: infinite
  ELSE 0

Whole(n, body, rest) == IF body > rest THEN Nothing("more") ELSE Message(n + body, body)

\* What http_cb sees at the beginning of s, whose header has n tokens.
Found(s, n, ev) ==
  CASE n < 0 -> Nothing("unparsed")
    [] n = 0 -> Nothing("more")
    [] n > 0 /\ s[1].r.framing = "chunked" -> Chunked(Chunks(s, n))
    [] OTHER -> Whole(n, BodyLen(s[1].r, Len(s) - n, ev), Len(s) - n)

\* The loop of http_cb, over the buffer s of a connection whose is_resp is
\* not set: what it delivers, how much it has processed, and whether there was
\* an error.  It stops at a message that the handler does not answer.  After a
\* header that cannot be parsed it returns at once: nothing is deleted.
HttpLoop(recv, ev) ==
  LET end(ofs, error) == [msgs |-> <<>>, ofs |-> ofs, error |-> error]
      turn[ofs \in 0 .. Len(recv)] ==
        LET With(message, later) == [later EXCEPT !.msgs = <<message>> \o @]
            After(message, next) ==
              With(message, IF message.answer = "none" THEN end(next, FALSE) ELSE turn[next])
            Deliver(s, m) ==
              After([r |-> s[1].r, body |-> m.body, ev |-> ev,
                     answer |-> Hander(s[1].r.uri,
                                       \E i \in DOMAIN s : s[i].t = "start" /\ s[i].r.post)],
                    ofs + m.size)
            Turn(s, m) ==
              IF s = <<>> \/ m.is = "more" THEN end(ofs, FALSE)
              ELSE IF m.is = "unparsed" THEN end(0, TRUE)
              ELSE IF m.is = "unchunked" THEN end(ofs, TRUE)
              ELSE Deliver(s, m)
            Look(s) == Turn(s, Found(s, MgHttpParse(s), ev))
        IN  Look(From(recv, ofs))
  IN  turn[0]

\* Faulty form: is_resp is not set.
DeliveredUnmarked(cn, msgs) ==
  LET answered == {i \in DOMAIN msgs : msgs[i].answer # "none"}
  IN  [cn EXCEPT !.log = @ \o msgs,
                 !.send = @ \o [i \in 1 .. Cardinality(answered) |-> Len(cn.log) + i]]

\* What the connection is after http_cb and the handler have dealt with msgs.
Delivered(cn, msgs) ==
  LET answered == {i \in DOMAIN msgs : msgs[i].answer # "none"}
      quit == \E i \in answered : msgs[i].answer = "quit"
  IN  [cn EXCEPT !.log = @ \o msgs,
                 !.send = @ \o [i \in 1 .. Cardinality(answered) |-> Len(cn.log) + i],
                 !.resp = Cardinality(answered) < Len(msgs),
                 !.draining = @ \/ quit,
                 !.quit = @ \/ quit]

\* Faulty form: what has been processed stays in the buffer.
ProcessedKeeps(cn, run) ==
  [Delivered(cn, run.msgs) EXCEPT !.closing = @ \/ run.error]

\* What the connection is after a run of the loop.
Processed(cn, run) ==
  [Delivered(cn, run.msgs) EXCEPT !.closing = @ \/ run.error,
                                  !.recv = From(@, run.ofs)]

\* http_cb, for MG_EV_READ ("read") and MG_EV_CLOSE ("close").
HttpCb(cn, ev) == IF cn.resp THEN cn ELSE Processed(cn, HttpLoop(cn.recv, ev))

-----------------------------------------------------------------------------
(* The clients *)

NewConn == [recv |-> <<>>, send |-> <<>>, log |-> <<>>,
            resp |-> FALSE, draining |-> FALSE, closing |-> FALSE, quit |-> FALSE,
            readable |-> FALSE, writable |-> FALSE]

\* mg_mgr_init and mg_http_listen.
Init == /\ app \in {"service", "hello"}
        /\ pc = "poll" /\ conns = <<Listener>> /\ todo = <<>>
        /\ conn = [c \in Clients \cup {Listener} |-> NewConn]
        /\ done = FALSE
        /\ peer = [c \in Clients |-> "out"]
        /\ backlog = <<>>
        /\ script \in [Clients -> UNION {Scripts[c] : c \in Clients}]
        /\ \A c \in Clients : script[c] \in Scripts[c]
        /\ said = [c \in Clients |-> 0]
        /\ wire = [c \in Clients |-> <<>>]
        /\ got = [c \in Clients |-> <<>>]

Open(c) == c \in Range(conns)

Connect(c) == /\ peer[c] = "out" /\ Open(Listener)
              /\ peer' = [peer EXCEPT ![c] = "up"]
              /\ backlog' = Append(backlog, c)
              /\ UNCHANGED <<server, script, said, wire, got>>

Say(c) == /\ peer[c] = "up" /\ said[c] < Len(script[c])
          /\ said' = [said EXCEPT ![c] = @ + 1]
          /\ wire' = [wire EXCEPT ![c] = Append(@, script[c][said[c] + 1])]
          /\ UNCHANGED <<server, peer, backlog, script, got>>

\* A reset also discards what the server has not received.
Leave(c) == /\ c \in MayLeave /\ peer[c] = "up"
            /\ \/ peer' = [peer EXCEPT ![c] = "fin"] /\ UNCHANGED wire
               \/ /\ peer' = [peer EXCEPT ![c] = "reset"]
                  /\ wire' = [wire EXCEPT ![c] = <<>>]
            /\ UNCHANGED <<server, backlog, script, said, got>>

-----------------------------------------------------------------------------
(* The event loop *)

\* What epoll_wait reports; EPOLLERR is an mg_error.
Reported(c) ==
  IF c = Listener THEN [conn[c] EXCEPT !.readable = backlog # <<>>]
  ELSE [conn[c] EXCEPT !.readable = wire[c] # <<>> \/ peer[c] = "fin",
                       !.writable = conn[c].send # <<>>,
                       !.closing = @ \/ peer[c] = "reset"]

Pending(cn) == cn.readable \/ cn.writable \/ cn.closing

\* A poll in which epoll_wait reports nothing changes nothing.
Idle == pc = "poll" /\ \A c \in Range(conns) : ~Pending(Reported(c))

\* mg_iotest.  The pass over conns has nothing to do for a connection on
\* which nothing was reported.
MgIotest == /\ pc = "poll" /\ ~Idle
            /\ conn' = [c \in DOMAIN conn |-> IF Open(c) THEN Reported(c) ELSE conn[c]]
            /\ pc' = "pass"
            /\ todo' = SelectSeq(conns, LAMBDA c : Pending(Reported(c)))
            /\ UNCHANGED <<app, conns, done, clients>>

Turn(c) == pc = "pass" /\ todo # <<>> /\ Head(todo) = c

AcceptConn == /\ Turn(Listener) /\ ~conn[Listener].closing
              /\ conns' = Cons(Head(backlog), conns)
              /\ backlog' = Tail(backlog)
              /\ todo' = Tail(todo)
              /\ UNCHANGED <<app, pc, conn, done, peer, script, said, wire, got>>

CloseListener == /\ Turn(Listener) /\ conn[Listener].closing
                 /\ conns' = Remove(conns, Listener)
                 /\ todo' = Tail(todo)
                 /\ UNCHANGED <<app, pc, conn, done, clients>>

\* How much read_conn receives.
Reads(c) == IF conn[c].closing \/ ~conn[c].readable \/ Len(conn[c].recv) >= MaxRecvSize
              THEN 0
              ELSE Min({IoSize, Len(wire[c])})

\* read_conn, and the http_cb that it calls.
ReadConn(c, cn) ==
  IF cn.closing \/ ~cn.readable THEN cn
  ELSE IF Len(cn.recv) >= MaxRecvSize THEN [cn EXCEPT !.closing = TRUE]
  ELSE IF wire[c] = <<>> THEN [cn EXCEPT !.closing = peer[c] # "up"]
  ELSE HttpCb([cn EXCEPT !.recv = @ \o SubSeq(wire[c], 1, Reads(c))], "read")

\* How much write_conn may send: 0 is a failure, once the client has gone.
Writes(c, cn) == IF conn[c].closing \/ ~conn[c].writable THEN {0}
                 ELSE 1 .. Len(cn.send) \cup {0 : x \in {peer[c]} \ {"up"}}

WriteConn(c, cn, m) ==
  [cn EXCEPT !.send = From(@, m),
             !.closing = @ \/ (conn[c].writable /\ m = 0)]

\* Faulty form: mg_hello is never through with the connection.
DrainedStays(cn) == cn

\* A draining connection is closed once it has sent everything.
Drained(cn) == [cn EXCEPT !.closing = @ \/ (cn.draining /\ cn.send = <<>>)]

\* close_conn.  The user's handler sees MG_EV_CLOSE before http_cb does.
CloseConn(c, cn) ==
  /\ conns' = Remove(conns, c)
  /\ done' = (done \/ cn.quit)
  /\ conn' = [conn EXCEPT ![c] = [NewConn EXCEPT !.log = HttpCb(cn, "close").log]]
  /\ peer' = [peer EXCEPT ![c] = "closed"]

\* One turn of the loop of mg_mgr_poll.  No handler here does anything for
\* MG_EV_POLL, so is_resp cannot have changed before the read.
ServeConn(c) ==
  /\ Turn(c)
  /\ \E cn \in {ReadConn(c, conn[c])} :
       \E m \in Writes(c, cn) : \E end \in {Drained(WriteConn(c, cn, m))} :
         /\ wire' = [wire EXCEPT ![c] = From(@, Reads(c))]
         /\ got' = [got EXCEPT ![c] = @ \o SubSeq(cn.send, 1, m)]
         /\ IF end.closing THEN CloseConn(c, end)
            ELSE /\ conn' = [conn EXCEPT ![c] = end]
                 /\ UNCHANGED <<conns, done, peer>>
  /\ todo' = Tail(todo)
  /\ UNCHANGED <<app, pc, backlog, script, said>>

EndPass == /\ pc = "pass" /\ todo = <<>> /\ conns # <<>>
           /\ ~done
           /\ pc' = "poll"
           /\ UNCHANGED <<app, conns, todo, conn, done, clients>>

\* mg_mgr_free, once the loop of mg_hello has ended: it marks every
\* connection and polls once more.
MgMgrFree == /\ pc = "pass" /\ todo = <<>> /\ conns # <<>>
             /\ done
             /\ conn' = [c \in DOMAIN conn |->
                           IF Open(c) THEN [Reported(c) EXCEPT !.closing = TRUE] ELSE conn[c]]
             /\ todo' = conns
             /\ UNCHANGED <<app, pc, conns, done, clients>>

Loop == \/ MgIotest \/ AcceptConn \/ CloseListener \/ EndPass \/ MgMgrFree
        \/ \E c \in Clients : ServeConn(c)

Client(c) == Connect(c) \/ Say(c) \/ Leave(c)

Next == Loop \/ \E c \in Clients : Client(c)

Spec == Init /\ [][Next]_vars

\* The loop runs on, and a client that stays says all that it has to say.
\* The second conjunct is WF_vars(Loop), for Loop can take a step unless it is
\* idle or everything is closed.
FairSpec == /\ Spec
            /\ []<><<Loop>>_vars \/ []<>(Idle \/ conns = <<>>)
            /\ \A c \in Clients : WF_vars(Say(c))

-----------------------------------------------------------------------------
(* Properties *)

\* While a connection is open, the requests of its client are delivered in
\* their order, none twice and none in part.
DeliveredInOrder ==
  \A c \in Clients : \A i \in DOMAIN conn[c].log :
    LET m == conn[c].log[i]
    IN  m.ev = "read" => m.r.q = i /\ m.body = m.r.body

\* Replies leave in the order of the messages, one for each but the last,
\* which is unanswered exactly while is_resp is set: a request that the
\* handler leaves alone keeps every later one from being delivered.
AnsweredInOrder ==
  \A c \in Clients :
    LET cn == conn[c]
        unanswered == IF cn.resp THEN 1 ELSE 0
    IN  /\ Open(c) => got[c] \o cn.send = [i \in 1 .. Len(cn.log) - unanswered |-> i]
        /\ got[c] = [i \in 1 .. Len(got[c]) |-> i]

\* A client that stays is cut off only when it has asked mg_hello to quit,
\* or sent more than the buffer takes, or a byte that no header may hold, or
\* chunks: those also when nothing is wrong with them.
DroppedForCause ==
  [][\A c \in Clients :
       Open(c) /\ peer[c] = "up" /\ ~done /\ ~Open(c)' =>
         LET s == conn[c].recv \o wire[c]
         IN  \/ done'
             \/ Len(s) >= MaxRecvSize
             \/ \E i \in DOMAIN s : s[i].t \in {"junk", "size"}]_vars

\* The client's script asks nothing that the program leaves alone, and for
\* which it might cut the client off.
Answerable(s) ==
  \A i \in DOMAIN s :
    /\ s[i].t \notin {"junk", "size"}
    /\ s[i].r.framing # "none" \/ ~s[i].r.post
    /\ s[i].r.body < MaxRecvSize - 2
    /\ app = "service" => s[i].r.uri \in Uris /\ s[i].r.post
    /\ app = "hello" => s[i].r.uri # "quit"

\* Such a client gets a reply to everything that it has asked, unless it
\* leaves or mg_hello ends.
EverythingAnswered ==
  \A c \in Clients :
    Open(c) /\ Answerable(script[c])
      ~> Len(got[c]) = Last(script[c]).r.q \/ peer[c] # "up" \/ done

\* After "quit" has been answered mg_hello ends, with every connection
\* closed, whatever its other clients do.
QuitEnds ==
  \A c \in Clients : conn[c].quit ~> pc = "pass" /\ conns = <<>>

\* Of both programs: what was asked is answered, or ends them.
RequestsEnd == EverythingAnswered /\ QuitEnds

=============================================================================
