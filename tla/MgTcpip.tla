------------------------------ MODULE MgTcpip ------------------------------
(***************************************************************************)
(* One TCP connection of the built-in stack of mongoose 7.12               *)
(* (src/net_builtin.c), accepted from a peer or made to it, over a network *)
(* that may lose, repeat and reorder segments.  The stack sends no segment *)
(* twice.  The peer is an ordinary TCP, which does, and acknowledges at    *)
(* once.  Numbers are counted from each side's initial one: its SYN is 0,  *)
(* its bytes are 1, 2, ..., and its FIN follows them.                      *)
(***************************************************************************)
EXTENDS Integers, Sequences

CONSTANTS
  PeerData,           \* bound: PeerData[role] is how many bytes the peer sends
  AppData,            \* bound: the bytes that the application sends
  Mss,                \* the bytes that fit into a segment
  MaxFaults,          \* bound: segments lost, repeated or overtaken, and a dead peer
  MaxConns,           \* bound: the connections made or accepted
  NONE

MgTcpipAssumption == /\ PeerData \in [{"server", "client"} -> Nat] /\ AppData \in Nat
                     /\ Mss \in Nat \ {0} /\ MaxFaults \in Nat

VARIABLES
  c,     \* the mg_connection and its connstate, or NONE
  peer,  \* see Peer
  up, down,  \* the segments on their way to mongoose, and from it
  past   \* see Past

vars == <<c, peer, up, down, past>>

-----------------------------------------------------------------------------
(* Segments *)

Seg(flags, seq, ack, data) == [flags |-> flags, seq |-> seq, ack |-> ack, data |-> data]

\* tx_tcp, of a connection.
Tx(s, flags, data) == Seg(flags, s.seq, s.ack, data)

\* tx_tcp_pkt, in answer to a segment.
TxPkt(pkt, flags, seq) ==
  Seg(flags, seq, pkt.seq + (IF pkt.flags \cap {"SYN", "FIN"} # {} THEN 1 ELSE 0), <<>>)

Smaller(a, b) == IF a <= b THEN a ELSE b

Quiet == up = <<>> /\ down = <<>>

-----------------------------------------------------------------------------
(* The peer *)

\* st: "closed", "syn" after its SYN, "open", "wait" once both have closed,
\* "dead" when it is gone without a word.  una, nxt: the first number that is
\* not acknowledged, and the next to be sent; rcv: the next that it expects;
\* got: the bytes received; fin: it has sent its FIN; saw: it has received one.
Peer(st) == [st |-> st, una |-> 0, nxt |-> 0, rcv |-> 0, got |-> <<>>,
             fin |-> FALSE, saw |-> FALSE]

\* How many bytes the peer has to send.
Sent == PeerData[past.role]

Bytes(from, n) == [i \in 1 .. n |-> from + i - 1]

\* The segment at the peer's number n: its SYN, data, or its FIN.
PeerSeg(p, n) ==
  CASE n = 0 -> Seg(IF p.rcv = 0 THEN {"SYN"} ELSE {"SYN", "ACK"}, 0, p.rcv, <<>>)
    [] n \in 1 .. Sent ->
         Seg({"ACK"}, n, p.rcv, Bytes(n, Smaller(Mss, Sent + 1 - n)))
    [] OTHER -> Seg({"FIN", "ACK"}, n, p.rcv, <<>>)

PeerAck(p) == Seg({"ACK"}, p.nxt, p.rcv, <<>>)

\* The peer calls, as a client.
PeerConnect ==
  /\ past.role = "server" /\ peer.st = "closed" /\ past.conns = 0
  /\ peer' = [Peer("syn") EXCEPT !.nxt = 1]
  /\ up' = Append(up, PeerSeg(peer', 0))
  /\ UNCHANGED <<c, down, past>>

PeerSend ==
  /\ peer.st = "open" /\ peer.nxt \in 1 .. Sent
  /\ up' = Append(up, PeerSeg(peer, peer.nxt))
  /\ peer' = [peer EXCEPT !.nxt = @ + Len(PeerSeg(peer, peer.nxt).data)]
  /\ UNCHANGED <<c, down, past>>

PeerClose ==
  /\ peer.st = "open" /\ peer.nxt = Sent + 1
  /\ up' = Append(up, PeerSeg(peer, peer.nxt))
  /\ peer' = [peer EXCEPT !.nxt = @ + 1, !.fin = TRUE]
  /\ UNCHANGED <<c, down, past>>

\* Its timer runs out when nothing has come for long.
PeerRetransmit ==
  /\ Quiet /\ peer.st \in {"syn", "open"} /\ peer.una < peer.nxt
  /\ up' = Append(up, PeerSeg(peer, peer.una))
  /\ UNCHANGED <<c, peer, down, past>>

PeerDie ==
  /\ peer.st \in {"syn", "open"}
  /\ past.faults < MaxFaults
  /\ past' = [past EXCEPT !.faults = @ + 1]
  /\ peer' = [peer EXCEPT !.st = "dead"]
  /\ UNCHANGED <<c, up, down>>

\* An open peer takes what comes in order, and acknowledges what takes up
\* numbers or asks for it by being old.
Take(p, g) ==
  LET inorder == g.seq = p.rcv /\ ~p.saw
      new == IF inorder THEN Len(g.data) ELSE 0
      fin == inorder /\ "FIN" \in g.flags
      una == IF g.ack \in p.una .. p.nxt THEN g.ack ELSE p.una
      q == [p EXCEPT !.una = una,
                     !.rcv = @ + new + (IF fin THEN 1 ELSE 0),
                     !.got = @ \o (IF inorder THEN g.data ELSE <<>>),
                     !.saw = @ \/ fin]
  IN  [q EXCEPT !.st = IF q.saw /\ q.fin /\ q.una = q.nxt THEN "wait" ELSE @]

Answer(p, g) ==
  IF g.data # <<>> \/ g.flags \cap {"SYN", "FIN"} # {} \/ g.seq < p.rcv
    THEN <<PeerAck(p)>> ELSE <<>>

PeerRecv ==
  /\ down # <<>> /\ down' = Tail(down)
  /\ LET g == Head(down)
         is(set) == g.flags = set
     IN  IF peer.st = "dead" THEN UNCHANGED <<peer, up>>
         ELSE IF "RST" \in g.flags THEN
                /\ peer' = [peer EXCEPT !.st = "closed"]
                /\ UNCHANGED up
         ELSE
           CASE peer.st = "closed" /\ is({"SYN"}) /\ past.role = "client" ->
                /\ peer' = [Peer("syn") EXCEPT !.nxt = 1, !.rcv = 1]
                /\ up' = Append(up, PeerSeg(peer', 0))
             [] peer.st = "closed" /\ ~(is({"SYN"}) /\ past.role = "client") ->
                /\ UNCHANGED peer
                /\ up' = Append(up, Seg({"RST"}, g.ack, 0, <<>>))
             [] peer.st = "syn" /\ past.role = "server" /\ is({"SYN", "ACK"}) /\ g.ack = 1 ->
                /\ peer' = [peer EXCEPT !.st = "open", !.una = 1, !.rcv = 1]
                /\ up' = Append(up, PeerAck(peer'))
             [] peer.st = "syn" /\ past.role = "client" /\ "ACK" \in g.flags /\ g.ack = 1 ->
                /\ peer' = Take([peer EXCEPT !.st = "open"], g)
                /\ up' = up \o (IF g.data # <<>> \/ "FIN" \in g.flags
                                  THEN <<PeerAck(peer')>> ELSE <<>>)
             [] peer.st \in {"open", "wait"} ->
                /\ peer' = Take(peer, g)
                /\ up' = up \o Answer(peer', g)
             [] OTHER -> UNCHANGED <<peer, up>>
  /\ UNCHANGED <<c, past>>

-----------------------------------------------------------------------------
(* mongoose *)

\* role: who calls whom; conns: the connections so far; faults; app: the
\* bytes that the application has sent on this connection, and drained: it
\* has closed it; from: the number of the first byte that c has accepted;
\* renumbered: c has set its number to what a second FIN said, or past its own
\* FIN, and astray: after that, a connection has sent data.
Past(role) == [role |-> role, conns |-> 0, faults |-> 0, app |-> 0, drained |-> FALSE,
               from |-> 0, renumbered |-> FALSE, astray |-> FALSE]

NewConn == [seq |-> 0, ack |-> 0, ttype |-> "KEEPALIVE", tmiss |-> 0,
            connecting |-> FALSE, arplooking |-> FALSE, draining |-> FALSE,
            closing |-> FALSE, recv |-> <<>>, send |-> <<>>]

Init == /\ c = NONE
        /\ peer = Peer("closed")
        /\ up = <<>> /\ down = <<>>
        /\ past \in {Past(role) : role \in {"server", "client"}}

Opened(from) == [past EXCEPT !.conns = @ + 1, !.app = 0, !.drained = FALSE, !.from = from,
                             !.renumbered = FALSE]

\* mg_connect_resolved, to a peer on the same network: it asks for its
\* address first.
MgConnectResolved ==
  /\ past.role = "client" /\ c = NONE /\ past.conns = 0
  /\ c' = [NewConn EXCEPT !.connecting = TRUE, !.arplooking = TRUE, !.ttype = "ARP"]
  /\ past' = Opened(1)
  /\ UNCHANGED <<peer, up, down>>

\* rx_arp: the answer, if one comes.
RxArp ==
  /\ c # NONE /\ c.arplooking /\ peer.st # "dead"
  /\ c' = [c EXCEPT !.arplooking = FALSE, !.ttype = "SYN"]
  /\ down' = Append(down, Seg({"SYN"}, 0, 0, <<>>))
  /\ UNCHANGED <<peer, up, past>>

\* read_conn: the connection after a segment, and what is sent.
Closes(s) == s.draining /\ s.ttype = "FIN"

ReadFin(s, pkt) ==
  LET both == Closes(s)
      t == [s EXCEPT !.ack = pkt.seq + Len(pkt.data) + 1,
                     !.seq = IF ~both THEN @ ELSE IF @ = pkt.ack THEN @ + 1 ELSE pkt.ack,
                     !.draining = TRUE,
                     !.ttype = "FIN"]
  IN  [s |-> t, out |-> <<Tx(t, IF both THEN {"ACK"} ELSE {"ACK", "FIN"}, <<>>)>>]

\* Faulty form: a segment that is late or early is taken like any other.
ReadAnything(s, pkt) ==
  IF pkt.data = <<>> THEN [s |-> s, out |-> <<>>]
  ELSE [s |-> [s EXCEPT !.recv = @ \o pkt.data, !.ack = pkt.seq + Len(pkt.data),
                        !.ttype = "ACK"],
        out |-> <<>>]

ReadData(s, pkt) ==
  CASE pkt.data = <<>> -> [s |-> s, out |-> <<>>]
    [] pkt.data # <<>> /\ pkt.seq # s.ack ->
         [s |-> s, out |-> IF s.ack = pkt.seq + Len(pkt.data) THEN <<>>
                           ELSE <<Tx(s, {"ACK"}, <<>>)>>]
    [] OTHER ->
         [s |-> [s EXCEPT !.recv = @ \o pkt.data, !.ack = pkt.seq + Len(pkt.data),
                          !.ttype = "ACK"],
          out |-> <<>>]

ReadConn(s, pkt) == IF "FIN" \in pkt.flags THEN ReadFin(s, pkt) ELSE ReadData(s, pkt)

\* rx_tcp for a segment of the connection.
RxConn(pkt) ==
  CASE c.connecting /\ pkt.flags = {"SYN", "ACK"} ->
         /\ c' = [c EXCEPT !.seq = pkt.ack, !.ack = pkt.seq + 1, !.connecting = FALSE,
                           !.ttype = "KEEPALIVE"]
         /\ down' = Append(down, TxPkt(pkt, {"ACK"}, pkt.ack))
    [] c.connecting /\ pkt.flags \notin {{"SYN", "ACK"}, {"ACK"}} ->
         /\ UNCHANGED c
         /\ down' = Append(down, TxPkt(pkt, {"RST", "ACK"}, pkt.ack))
    [] ~c.connecting /\ "RST" \in pkt.flags ->
         /\ c' = [c EXCEPT !.closing = TRUE]
         /\ UNCHANGED down
    [] OTHER ->
         LET r == ReadConn([c EXCEPT !.tmiss = 0], pkt)
         IN  c' = r.s /\ down' = down \o r.out

\* rx_tcp for a segment of no connection, with a listener or without one: a
\* connection is made from the first segment that acknowledges the SYN, and
\* the data that this segment carries is not read.
RxNew(pkt) ==
  LET reply(flags, seq) == c' = NONE /\ down' = Append(down, TxPkt(pkt, flags, seq))
                             /\ UNCHANGED past
      ignore == UNCHANGED <<c, down, past>>
  IN  IF past.role = "client" THEN reply({"RST", "ACK"}, pkt.ack)
      ELSE IF "RST" \in pkt.flags THEN ignore
      ELSE IF "SYN" \in pkt.flags THEN reply({"SYN", "ACK"}, 0)
      ELSE IF "FIN" \in pkt.flags THEN reply({"FIN", "ACK"}, pkt.ack)
      ELSE IF pkt.ack # 1 THEN reply({"RST", "ACK"}, pkt.ack)
      ELSE /\ past.conns < MaxConns
           /\ c' = [NewConn EXCEPT !.seq = pkt.ack, !.ack = pkt.seq]
           /\ past' = Opened(pkt.seq)
           /\ UNCHANGED down

Rx == /\ up # <<>> /\ up' = Tail(up)
      /\ IF c = NONE THEN RxNew(Head(up))
         ELSE /\ RxConn(Head(up))
              /\ past' = [past EXCEPT !.renumbered =
                           @ \/ (~c.connecting /\ Closes(c) /\ "FIN" \in Head(up).flags)]
      /\ UNCHANGED peer

\* One more probe that nobody has answered yet.
Counted(s) == [s EXCEPT !.tmiss = @ + 1]

\* The timeouts of mg_tcpip_poll.  Those that are longer than anything that
\* is on its way run out only when nothing is.
TimesOut ==
  /\ c # NONE /\ ~c.closing
  /\ c.ttype \in {"ACK", "FIN"} \/ Quiet
  /\ LET d == [c EXCEPT !.ttype = "KEEPALIVE"]
     IN  CASE c.ttype = "ACK" ->
                c' = d /\ down' = Append(down, Tx(c, {"ACK"}, <<>>))
           [] c.ttype \in {"ARP", "SYN"} ->
                c' = [d EXCEPT !.closing = TRUE] /\ UNCHANGED down
           [] c.ttype = "FIN" ->
                c' = [c EXCEPT !.closing = TRUE] /\ UNCHANGED down
           [] OTHER ->
                IF c.tmiss > 2
                  THEN c' = [Counted(d) EXCEPT !.closing = TRUE] /\ UNCHANGED down
                  ELSE /\ c' = Counted(d)
                       /\ down' = Append(down, Seg({"ACK"}, c.seq - 1, c.ack, <<>>))
  /\ UNCHANGED <<peer, up, past>>

\* write_conn and mg_io_send: a segment's worth, which is then forgotten.
CanWrite(s) == ~s.connecting /\ ~s.arplooking /\ s.send # <<>>

Written(s) == Smaller(Mss, Len(s.send))

WriteConn(s) ==
  [s EXCEPT !.seq = @ + Written(s), !.send = SubSeq(@, Written(s) + 1, Len(@)),
            !.ttype = IF @ = "ACK" THEN "KEEPALIVE" ELSE @]

\* init_closure is due.
Drains(s) == s.draining /\ s.send = <<>> /\ s.ttype # "FIN"

\* The turn of the connection in mg_mgr_poll.
Serve ==
  /\ c # NONE
  /\ CanWrite(c) \/ Drains(c) \/ c.closing
  /\ LET w == IF CanWrite(c) THEN WriteConn(c) ELSE c
         sent == IF CanWrite(c)
                   THEN <<Tx(c, {"PUSH", "ACK"}, SubSeq(c.send, 1, Written(c)))>> ELSE <<>>
         closes == Drains(w) /\ ~w.connecting
         fin == IF closes THEN <<Tx(w, {"FIN", "ACK"}, <<>>)>> ELSE <<>>
     IN  /\ down' = down \o sent \o fin
         /\ c' = IF w.closing THEN NONE
                 ELSE IF closes THEN [w EXCEPT !.ttype = "FIN"] ELSE w
  /\ past' = [past EXCEPT !.astray = @ \/ (CanWrite(c) /\ past.renumbered)]
  /\ UNCHANGED <<peer, up>>

\* mg_send by the application, and the end of what it has to say.
AppSend ==
  /\ c # NONE /\ ~past.drained /\ past.app < AppData
  /\ past' = [past EXCEPT !.app = @ + 1]
  /\ c' = [c EXCEPT !.send = Append(@, past.app + 1)]
  /\ UNCHANGED <<peer, up, down>>

AppDrain ==
  /\ c # NONE /\ ~past.drained /\ ~c.draining
  /\ past' = [past EXCEPT !.drained = TRUE]
  /\ c' = [c EXCEPT !.draining = TRUE]
  /\ UNCHANGED <<peer, up, down>>

-----------------------------------------------------------------------------
(* The network *)

Spoilt(q) ==
  (IF q = <<>> THEN {} ELSE {Tail(q), <<Head(q)>> \o q})
    \cup (IF Len(q) < 2 THEN {} ELSE {<<q[2], q[1]>> \o SubSeq(q, 3, Len(q))})

Fault == /\ past.faults < MaxFaults
         /\ past' = [past EXCEPT !.faults = @ + 1]
         /\ \/ up' \in Spoilt(up) /\ UNCHANGED down
            \/ down' \in Spoilt(down) /\ UNCHANGED up
         /\ UNCHANGED <<c, peer>>

-----------------------------------------------------------------------------

Stack == MgConnectResolved \/ RxArp \/ Rx \/ TimesOut \/ Serve
PeerStep == PeerConnect \/ PeerSend \/ PeerClose \/ PeerRetransmit \/ PeerRecv
App == AppSend \/ AppDrain

Next == Stack \/ PeerStep \/ App \/ PeerDie \/ Fault

Spec == Init /\ [][Next]_vars

\* The event loop runs on, frames that are not lost arrive, and the peer's
\* timer runs.
FairSpec == /\ Spec
            /\ WF_vars(Rx) /\ WF_vars(TimesOut) /\ WF_vars(Serve)
            /\ WF_vars(PeerRecv) /\ WF_vars(PeerRetransmit)

-----------------------------------------------------------------------------
(* Properties *)

\* What a connection has received are the peer's bytes from the first that it
\* accepted on, without a gap, a repetition or an exchange, whatever the network
\* does; and so are what the peer has received those of the application, unless
\* some were sent after a second FIN.
StreamsAreTrue ==
  /\ c # NONE => c.recv = Bytes(past.from, Len(c.recv))
  /\ past.astray \/ peer.got = Bytes(1, Len(peer.got))

\* On a network without faults, the first connection is made from the peer's first
\* segment, so that nothing of what it has sent is missing.
NothingMissed == c # NONE /\ past.faults = 0 /\ past.conns = 1 => past.from = 1

\* A connection that either side closes, or whose peer has died, ends; one
\* that is being made is made, or ends.
Ending == c # NONE /\ (c.draining \/ c.closing \/ c.connecting \/ peer.st = "dead")

ConnectionsEnd == Ending ~> ~Ending

=============================================================================
