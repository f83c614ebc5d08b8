-------------------------------- MODULE MgWs --------------------------------
(***************************************************************************)
(* WebSocket of mongoose 7.12 (src/ws.c), as a client or as a server: what *)
(* mg_ws_cb makes of the frames of a peer that keeps to the protocol,      *)
(* however the stream is cut, and what it sends itself.  A byte is a       *)
(* record of what it is part of, and of the bytes of masks that are folded *)
(* into it, so that to fold in one again takes it out.                     *)
(***************************************************************************)
EXTENDS Naturals, Sequences, SequencesExt

CONSTANTS
  Short, Long,  \* the first lengths with 2 and with 8 bytes: 126 and 65536
  Lens,         \* the lengths of the peer's frames
  MaxFrames     \* bound: the frames that the peer sends

MgWsAssumption ==
  /\ Short \in Nat /\ Long \in Nat /\ Short <= Long
  /\ Lens \subseteq Nat /\ MaxFrames \in Nat

VARIABLES
  c,     \* the mg_connection; see Conn
  peer,  \* what the peer has sent: the messages, the payloads of its pings,
         \* how many frames, and the message that it is in the middle of
  wire   \* the bytes on their way to mongoose

vars == <<c, peer, wire>>

-----------------------------------------------------------------------------
(* Frames *)

Byte(kind, v) == [kind |-> kind, v |-> v, x |-> {}]

Bit(b) == IF b THEN 1 ELSE 0

Fold(b, m) == [b EXCEPT !.x = (@ \ {m}) \cup ({m} \ @)]

Times(b, n) == [i \in 1 .. n |-> b]

CONTINUE == 0
TEXT == 1
CLOSE == 8
PING == 9
PONG == 10
Ops == {CONTINUE, TEXT, CLOSE, PING, PONG}

\* mkhdr, but for the bit FIN, which mongoose always sets and a peer may not.
Header(final, len, op, masked) ==
  <<Byte("first", <<Bit(final), op>>),
    Byte("second", <<IF len < Short THEN len ELSE IF len < Long THEN 126 ELSE 127,
                     Bit(masked)>>)>>
    \o Times(Byte("len", <<len>>), IF len < Short THEN 0 ELSE IF len < Long THEN 2 ELSE 8)
    \o (IF masked THEN [i \in 1 .. 4 |-> Byte("mask", <<i>>)] ELSE <<>>)

mkhdr(len, op, is_client) == Header(TRUE, len, op, is_client)

\* The payload from byte from on, with the mask of four bytes before it.
Masked(b, from) ==
  [i \in DOMAIN b |->
     IF i < from THEN b[i] ELSE Fold(b[i], b[from - 4 + ((i - from) % 4)].v)]

\* mg_ws_mask
mg_ws_mask(b, len, is_client) == IF is_client THEN Masked(b, Len(b) + 1 - len) ELSE b

\* mg_ws_send
mg_ws_send(out, data, op, is_client) ==
  mg_ws_mask(out \o mkhdr(Len(data), op, is_client) \o data, Len(data), is_client)

\* mg_ws_wrap: a header in front of the last len bytes.
mg_ws_wrap(out, len, op, is_client) ==
  LET at == Len(out) - len
  IN  mg_ws_mask(SubSeq(out, 1, at) \o mkhdr(len, op, is_client)
                   \o SubSeq(out, at + 1, Len(out)),
                 len, is_client)

Nothing == [header_len |-> 0, data_len |-> 0, final |-> FALSE, op |-> CONTINUE, buf |-> <<>>]

\* ws_process: the frame at the beginning of b, or Nothing while it is not
\* complete; and b, in which the payload is without its mask.
ws_process(b) ==
  IF Len(b) < 2 THEN Nothing
  ELSE
    LET second == b[2].v
        mask_len == 4 * second[2]
        ext == IF second[1] < 126 THEN 0 ELSE IF second[1] = 126 THEN 2 ELSE 8
        header_len == 2 + ext + mask_len
    IN  IF Len(b) < header_len THEN Nothing
        ELSE LET data_len == IF ext = 0 THEN second[1] ELSE b[2 + ext].v[1]
                 end == header_len + data_len
                 plain == IF second[2] = 1
                            THEN Masked(SubSeq(b, 1, end), header_len + 1)
                            ELSE SubSeq(b, 1, end)
             IN  IF Len(b) < end THEN Nothing
                 ELSE [header_len |-> header_len, data_len |-> data_len,
                       final |-> b[1].v[1] = 1, op |-> b[1].v[2],
                       buf |-> plain \o SubSeq(b, end + 1, Len(b))]

Delete(b, ofs, n) == SubSeq(b, 1, ofs) \o SubSeq(b, ofs + n + 1, Len(b))

-----------------------------------------------------------------------------
(* mg_ws_cb *)

\* recv: its bytes; ofs: pfn_data, the bytes of recv that are a message that
\* is not complete yet; msgs: the messages given to the application; out: the
\* bytes sent, and said: what the application has sent.
Conn(is_client) ==
  [is_client |-> is_client, is_websocket |-> ~is_client, recv |-> <<>>, ofs |-> 0,
   msgs |-> <<>>, out |-> <<>>, said |-> <<>>, draining |-> FALSE, closing |-> FALSE]

\* Faulty form: the first byte of the first frame goes with its header.
KeepNothing(op) == 0

\* Of the header of a first frame, one byte is kept: for the message's flags.
Keep(op) == IF op = CONTINUE THEN 0 ELSE 1

\* What is done with a frame.
Event(s, m, data) ==
  CASE m.op = PING -> [s EXCEPT !.out = mg_ws_send(@, data, PONG, s.is_client)]
    [] m.op = TEXT /\ m.final ->
         [s EXCEPT !.msgs = Append(@, [op |-> TEXT, data |-> data])]
    [] m.op = CLOSE ->
         [s EXCEPT !.out = mg_ws_send(@, data, CLOSE, s.is_client), !.draining = TRUE]
    [] m.op \notin Ops -> [s EXCEPT !.closing = TRUE]
    [] OTHER -> s

Flags(b) == IF b.kind = "first" THEN b.v[2] ELSE TEXT

\* And with its bytes: a fragment is put to those before it, and the last
\* one makes a message of them.
Strip(s, m) ==
  LET ofs == s.ofs + Keep(m.op)
      joined == Delete(s.recv, ofs, m.header_len - Keep(m.op))
      end == ofs + m.data_len
  IN  CASE m.final /\ m.op # CONTINUE ->
             [s EXCEPT !.recv = Delete(@, s.ofs, m.header_len + m.data_len)]
        [] ~m.final -> [s EXCEPT !.recv = joined, !.ofs = end]
        [] OTHER ->
             [s EXCEPT !.recv = Delete(joined, 0, end), !.ofs = 0,
                       !.msgs = Append(@, [op |-> Flags(joined[1]),
                                           data |-> SubSeq(joined, 2, end)])]

RECURSIVE Frames(_)
Frames(s) ==
  LET m == ws_process(SubSeq(s.recv, s.ofs + 1, Len(s.recv)))
      recv == SubSeq(s.recv, 1, s.ofs) \o m.buf
      data == SubSeq(m.buf, m.header_len + 1, m.header_len + m.data_len)
  IN  IF m.header_len = 0 THEN s
      ELSE Frames(Strip(Event([s EXCEPT !.recv = recv], m, data), m))

\* The answer to the handshake, of two bytes here: the second says how it
\* has gone.
Response(ok) == <<Byte("http", <<101>>), Byte("http", <<Bit(ok)>>)>>

\* mg_ws_client_handshake: TRUE while the answer has not come.
Waits(s) == s.is_client /\ ~s.is_websocket /\ Len(s.recv) < 2

mg_ws_client_handshake(s) ==
  LET ok == s.recv[2].v = <<1>>
  IN  [s EXCEPT !.recv = Delete(@, 0, 2), !.is_websocket = ok, !.closing = @ \/ ~ok]

mg_ws_cb(s) ==
  CASE Waits(s) -> s
    [] s.is_client /\ ~s.is_websocket /\ ~Waits(s) -> Frames(mg_ws_client_handshake(s))
    [] OTHER -> Frames(s)

-----------------------------------------------------------------------------

Closed == c.closing \/ c.draining

\* Some bytes come.
Read ==
  /\ wire # <<>> /\ ~Closed
  /\ \E n \in 1 .. Len(wire) :
       /\ c' = mg_ws_cb([c EXCEPT !.recv = @ \o SubSeq(wire, 1, n)])
       /\ wire' = SubSeq(wire, n + 1, Len(wire))
  /\ UNCHANGED peer

\* The application sends a text, with mg_ws_send or with mg_ws_printf, which
\* puts a header in front of what it has printed.  (One text, before
\* anything else, stands for any.)
Text(n) == [i \in 1 .. n |-> Byte("data", <<MaxFrames, i>>)]

Say(n) ==
  /\ c.is_websocket /\ ~Closed /\ c.said = <<>> /\ peer.frames = 0
  /\ LET sent == [c EXCEPT !.said = Append(@, Text(n))]
     IN  c' \in {[sent EXCEPT !.out = mg_ws_send(@, Text(n), TEXT, c.is_client)],
                 [sent EXCEPT !.out = mg_ws_wrap(@ \o Text(n), n, TEXT, c.is_client)]}
  /\ UNCHANGED <<peer, wire>>

\* The peer's frames: a text, of one frame or of several, between which it
\* may ping; a close is the last.  Pings and closes are short.
Legal(final, op, len) ==
  CASE op = TEXT -> ~peer.open
    [] op = CONTINUE -> peer.open
    [] OTHER -> final /\ len < Short

Told(final, op, data) ==
  LET p == [peer EXCEPT !.frames = @ + 1]
  IN  CASE op = TEXT /\ final -> [p EXCEPT !.msgs = Append(@, data)]
        [] op = TEXT /\ ~final -> [p EXCEPT !.open = TRUE, !.part = data]
        [] op = CONTINUE /\ ~final -> [p EXCEPT !.part = @ \o data]
        [] op = CONTINUE /\ final ->
             [p EXCEPT !.open = FALSE, !.part = <<>>, !.msgs = Append(@, peer.part \o data)]
        [] op = PING -> [p EXCEPT !.pings = Append(@, [op |-> PONG, data |-> data])]
        [] OTHER -> [p EXCEPT !.pings = Append(@, [op |-> CLOSE, data |-> data]),
                              !.frames = MaxFrames]

PeerSend(final, op, len) ==
  /\ peer.frames < MaxFrames /\ Legal(final, op, len)
  /\ LET data == [i \in 1 .. len |-> Byte("data", <<peer.frames, i>>)]
         folded == [i \in 1 .. len |-> Fold(data[i], <<((i - 1) % 4) + 1>>)]
     IN  /\ wire' = wire \o Header(final, len, op, ~c.is_client)
                         \o (IF c.is_client THEN data ELSE folded)
         /\ peer' = Told(final, op, data)
  /\ UNCHANGED c

Init == /\ peer = [frames |-> 0, msgs |-> <<>>, pings |-> <<>>, open |-> FALSE, part |-> <<>>]
        /\ \/ c = Conn(FALSE) /\ wire = <<>>
           \/ c = Conn(TRUE) /\ \E ok \in BOOLEAN : wire = Response(ok)

Next ==
  \/ Read
  \/ \E n \in Lens : Say(n)
  \/ \E final \in BOOLEAN, op \in Ops \ {PONG}, len \in Lens : PeerSend(final, op, len)

Spec == Init /\ [][Next]_vars

-----------------------------------------------------------------------------
(* Properties *)

\* The frames in what mongoose has sent, as a peer reads them.
RECURSIVE Parsed(_)
Parsed(b) ==
  LET m == ws_process(b)
      end == m.header_len + m.data_len
  IN  IF m.header_len = 0 THEN <<>>
      ELSE <<[op |-> m.op, data |-> SubSeq(m.buf, m.header_len + 1, end)]>>
             \o Parsed(SubSeq(m.buf, end + 1, Len(m.buf)))

Payloads(msgs) == [i \in DOMAIN msgs |-> msgs[i].data]

\* The application is given the peer's messages whole, in their order, and all
\* of them once everything has come, into however many frames they were put
\* and wherever the stream was cut; no mask is left on them.
WholeMessages ==
  ~c.closing =>
    /\ IsPrefix(Payloads(c.msgs), peer.msgs)
    /\ wire = <<>> => Payloads(c.msgs) = peer.msgs /\ Len(c.recv) = c.ofs
    /\ \A i \in DOMAIN c.msgs : c.msgs[i].op = TEXT

\* What the peer reads are the texts of the application and the answers to its
\* pings and to its close, with the payloads that it sent, each in their order.
AnswersAreTrue ==
  LET frames == Parsed(c.out)
      texts == SelectSeq(frames, LAMBDA f : f.op = TEXT)
      answers == SelectSeq(frames, LAMBDA f : f.op # TEXT)
  IN  /\ Payloads(texts) = c.said
      /\ ~c.closing => IsPrefix(answers, peer.pings)
      /\ ~c.closing /\ wire = <<>> => answers = peer.pings

=============================================================================
