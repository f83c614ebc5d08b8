------------------------------- MODULE MgMqtt -------------------------------
(***************************************************************************)
(* MQTT of mongoose 7.12 (src/mqtt.c), versions 3.1.1 and 5: a client and  *)
(* a server, both of them mongoose's, over a stream that is cut anywhere.  *)
(* A byte is a record of its kind, its value and a second value; a number  *)
(* of two bytes is in both of them.  What the server's application does on *)
(* a command is that of an ordinary one: it knows the version from CONNECT *)
(* and answers it, and answers SUBSCRIBE and PINGREQ.                      *)
(***************************************************************************)
EXTENDS Naturals, Sequences, SequencesExt

CONSTANTS
  Base,    \* of the numbers of variable length: 128
  MaxId,   \* the last identifier: 65535
  MaxOps,  \* bound: the calls of the client's application
  MaxCuts  \* bound: the reads that do not get everything

MgMqttAssumption ==
  Base \in Nat \ {0, 1} /\ MaxId \in Nat \ {0} /\ MaxOps \in Nat /\ MaxCuts \in Nat

VARIABLES
  end,   \* the two connections; see End
  wire,  \* the bytes on their way to each of them
  app    \* the client's application: what it has sent, and its last identifier;
         \* and the reads that did not get everything

vars == <<end, wire, app>>

CONNECT == 1
CONNACK == 2
PUBLISH == 3
PUBACK == 4
PUBREC == 5
PUBREL == 6
PUBCOMP == 7
SUBSCRIBE == 8
SUBACK == 9
PINGREQ == 12
PINGRESP == 13
DISCONNECT == 14

-----------------------------------------------------------------------------
(* What is sent *)

B(kind, v, w) == [kind |-> kind, v |-> v, w |-> w]

u16(n) == <<B("u16", n, 1), B("u16", n, 2)>>

Str(s) == u16(Len(s)) \o s

varint_size(n) == CHOOSE k \in 1 .. 9 : n < Base ^ k /\ \A j \in 1 .. k - 1 : n >= Base ^ j

\* Each byte says in w whether another one follows.
encode_varint(n) ==
  LET k == varint_size(n)
  IN  [i \in 1 .. k |-> B("varint", (n \div (Base ^ (i - 1))) % Base, IF i < k THEN 1 ELSE 0)]

mg_mqtt_send_header(cmd, flags, len) == <<B("first", cmd, flags)>> \o encode_varint(len)

\* A property is its type and its bytes, or those of the two strings of a
\* pair.  In place of its identifier is the number of its type.
NOTYPE == 0
TYPE_BYTE == 1
TYPE_INT == 2
TYPE_STRING == 3
TYPE_PAIR == 4
TYPE_SHORT == 5
TYPE_BINARY_DATA == 6
TYPE_VARIABLE_INT == 7

\* Those whose length the type tells, and those that carry it.
Fixed == {TYPE_BYTE, TYPE_SHORT, TYPE_INT}
Sized == {TYPE_STRING, TYPE_BINARY_DATA}

FixedLen(type) == CASE type = TYPE_BYTE -> 1 [] type = TYPE_SHORT -> 2 [] type = TYPE_INT -> 4

mqtt_prop_type_by_id(b) == IF b.kind = "id" THEN b.v ELSE NOTYPE

PropLen(p) == 1 + (CASE p.type \in Fixed -> FixedLen(p.type)
                     [] p.type \in Sized -> 2 + Len(p.val)
                     [] p.type = TYPE_VARIABLE_INT -> Len(p.val)
                     [] p.type = TYPE_PAIR -> 4 + Len(p.key) + Len(p.val))

get_properties_length(ps) == FoldLeft(LAMBDA n, p : n + PropLen(p), 0, ps)

get_props_size(ps) ==
  get_properties_length(ps) + varint_size(get_properties_length(ps))

PropBytes(p) ==
  <<B("id", p.type, 0)>> \o (CASE p.type \in Fixed \cup {TYPE_VARIABLE_INT} -> p.val
                               [] p.type \in Sized -> Str(p.val)
                               [] p.type = TYPE_PAIR -> Str(p.key) \o Str(p.val))

mg_send_mqtt_properties(ps) ==
  encode_varint(get_properties_length(ps)) \o FlattenSeq([i \in DOMAIN ps |-> PropBytes(ps[i])])

If5(v5, bytes) == IF v5 THEN bytes ELSE <<>>

\* A field that is only sent when there is something in it.
Opt(s) == IF s = <<>> THEN <<>> ELSE Str(s)

mg_mqtt_login(v5, o) ==
  LET will == o.topic # <<>> /\ o.message # <<>>
      hdr == <<B("hdr", 0, 0), B("hdr", 4, 0), B("hdr", 0, 0), B("hdr", 0, 0), B("hdr", 0, 0),
               B("hdr", 0, 0), B("version", IF v5 THEN 5 ELSE 4, 0), B("hdr", 0, 0)>>
      len(s) == IF s = <<>> THEN 0 ELSE 2 + Len(s)
      total_len ==
        7 + 1 + 2 + 2 + len(o.user) + len(o.pass)
          + (IF will THEN 4 + Len(o.topic) + Len(o.message) ELSE 0) + Len(o.client_id)
          + (IF v5 THEN get_props_size(o.props) ELSE 0)
          + (IF v5 /\ will THEN get_props_size(o.will_props) ELSE 0)
  IN  mg_mqtt_send_header(CONNECT, 0, total_len) \o hdr \o u16(0)
        \o If5(v5, mg_send_mqtt_properties(o.props)) \o Str(o.client_id)
        \o (IF will THEN If5(v5, mg_send_mqtt_properties(o.will_props))
                           \o Str(o.topic) \o Str(o.message) ELSE <<>>)
        \o Opt(o.user) \o Opt(o.pass)

pub_len(v5, o) ==
  2 + Len(o.topic) + Len(o.message) + (IF o.qos > 0 THEN 2 ELSE 0)
    + (IF v5 THEN get_props_size(o.props) ELSE 0)

mg_mqtt_pub(v5, o, id) ==
  mg_mqtt_send_header(PUBLISH, o.qos, pub_len(v5, o))
    \o Str(o.topic) \o (IF o.qos > 0 THEN u16(id) ELSE <<>>)
    \o If5(v5, mg_send_mqtt_properties(o.props)) \o o.message

mg_mqtt_sub(v5, o, id) ==
  mg_mqtt_send_header(SUBSCRIBE, 2, 2 + Len(o.topic) + 2 + 1
                                      + (IF v5 THEN get_props_size(o.props) ELSE 0))
    \o u16(id) \o If5(v5, mg_send_mqtt_properties(o.props)) \o Str(o.topic)
    \o <<B("qos", o.qos, 0)>>

mg_mqtt_ping == mg_mqtt_send_header(PINGREQ, 0, 0)
mg_mqtt_pong == mg_mqtt_send_header(PINGRESP, 0, 0)

mg_mqtt_disconnect(v5, o) ==
  mg_mqtt_send_header(DISCONNECT, 0, IF v5 THEN 1 + get_props_size(o.props) ELSE 0)
    \o If5(v5, <<B("reason", 0, 0)>> \o mg_send_mqtt_properties(o.props))

-----------------------------------------------------------------------------
(* What is made of it *)

\* decode_varint: the bytes that the number takes, 0 when there are too many
\* or too few, and the number.
decode_varint(b) ==
  LET last == {j \in 1 .. Len(b) : j <= 4 /\ b[j].w = 0}
      k == CHOOSE j \in last : \A i \in last : j <= i
  IN  IF last = {} THEN [size |-> 0, n |-> 0]
      ELSE [size |-> k,
            n |-> FoldLeft(LAMBDA n, i : n + (b[i].v * (Base ^ (i - 1))), 0, [i \in 1 .. k |-> i])]

From(b, p) == SubSeq(b, p + 1, Len(b))

Parsed(rc) == [rc |-> rc, cmd |-> 0, qos |-> 0, id |-> 0, ack |-> 0, dgram |-> 0,
               topic |-> <<>>, data |-> <<>>, props_start |-> 0, props_size |-> 0]

WithId == {PUBACK, PUBREC, PUBREL, PUBCOMP, SUBSCRIBE, SUBACK}

\* The rest of a PUBLISH, whose bytes after the first p are before stop.
ParsePublish(b, m, p, stop, v5) ==
  LET t == p + 2 + b[p + 1].v
      q == t + (IF m.qos > 0 THEN 2 ELSE 0)
      size == decode_varint(SubSeq(b, q + 1, stop))
      has_props == v5 /\ q + 2 < stop
      d == IF has_props THEN q + size.size + size.n ELSE q
  IN  IF p + 2 > stop \/ t > stop \/ q > stop \/ (has_props /\ size.size = 0) \/ d > stop
        THEN Parsed("malformed")
      ELSE [m EXCEPT !.topic = SubSeq(b, p + 3, t),
                     !.id = IF m.qos > 0 THEN b[t + 1].v ELSE 0,
                     !.props_start = IF has_props THEN q + size.size ELSE 0,
                     !.props_size = IF has_props THEN size.n ELSE 0,
                     !.data = SubSeq(b, d + 1, stop)]

mg_mqtt_parse(b, v5) ==
  IF Len(b) < 2 THEN Parsed("incomplete")
  ELSE
    LET size == decode_varint(From(b, 1))
        p == 1 + size.size
        stop == p + size.n
        m == [Parsed("ok") EXCEPT !.cmd = b[1].v, !.qos = IF b[1].v = PUBLISH THEN b[1].w ELSE 0,
                                  !.dgram = stop]
    IN  IF size.size = 0 THEN Parsed(IF Len(b) > 4 THEN "malformed" ELSE "incomplete")
        ELSE IF stop > Len(b) THEN Parsed("incomplete")
        ELSE CASE m.cmd \in WithId \cup {CONNACK} /\ size.n < 2 -> Parsed("malformed")
               [] m.cmd = CONNACK /\ size.n >= 2 -> [m EXCEPT !.ack = b[p + 2].v]
               [] m.cmd \in WithId /\ size.n >= 2 -> [m EXCEPT !.id = b[p + 1].v]
               [] m.cmd = PUBLISH -> ParsePublish(b, m, p, stop, v5)
               [] OTHER -> m

\* mg_mqtt_next_prop, from ofs on, until it returns 0.  The property at an
\* offset is read from the whole buffer, and ofs, which is counted from the
\* properties on, is compared with offsets in the buffer: the properties do
\* not end where they should.
RECURSIVE Props(_, _, _)
Props(b, m, ofs) ==
  LET at == m.props_start + ofs + 1
      i == From(b, at)
      rest(n) == Props(b, m, ofs + 1 + n)
      type == mqtt_prop_type_by_id(b[at])
      number == decode_varint(SubSeq(b, at + 1, m.dgram))
      one(val) == <<[type |-> type, key |-> <<>>, val |-> val]>>
  IN  IF ofs >= m.dgram \/ ofs >= m.props_start + m.props_size \/ at > Len(b) THEN <<>>
      ELSE CASE type \in Fixed /\ Len(i) >= FixedLen(type) ->
                  one(SubSeq(i, 1, FixedLen(type))) \o rest(FixedLen(type))
             [] type \in Sized /\ Len(i) >= 2 ->
                  one(SubSeq(i, 3, 2 + i[1].v)) \o rest(2 + i[1].v)
             [] type = TYPE_VARIABLE_INT /\ number.size > 0 ->
                  one(SubSeq(i, 1, number.size)) \o rest(number.size)
             [] type = TYPE_PAIR /\ Len(i) >= 4 ->
                  LET k == i[1].v  v == i[k + 3].v
                  IN  <<[type |-> type, key |-> SubSeq(i, 3, 2 + k),
                         val |-> SubSeq(i, k + 5, k + 4 + v)]>> \o rest(4 + k + v)
             [] OTHER -> <<>>

-----------------------------------------------------------------------------
(* mqtt_cb *)

\* A connection: seen are the commands that it has got; msgs the messages,
\* with their properties, that its application was told of; verdict is what
\* the server's application says of a login.
End == [v5 |-> FALSE, recv |-> <<>>, out |-> <<>>, seen |-> <<>>, msgs |-> <<>>,
        closing |-> FALSE, verdict |-> 0]

Ack(v5, m) ==
  mg_mqtt_send_header(IF m.qos = 2 THEN PUBREC ELSE PUBACK, 0, IF v5 THEN 4 ELSE 2)
    \o u16(m.id) \o If5(v5, u16(0))

\* Faulty form: the second half of a handshake is not answered.
RepliesWithoutRelease(e, m) == IF m.cmd = PUBLISH /\ m.qos > 0 THEN Ack(e.v5, m) ELSE <<>>

\* What mongoose answers by itself.
Replies(e, m) ==
  CASE m.cmd = PUBLISH /\ m.qos > 0 -> Ack(e.v5, m)
    [] m.cmd = PUBREC -> mg_mqtt_send_header(PUBREL, 2, 2) \o u16(m.id)
    [] m.cmd = PUBREL -> mg_mqtt_send_header(PUBCOMP, 0, 2) \o u16(m.id)
    [] OTHER -> <<>>

\* What the server's application does on MG_EV_MQTT_CMD.
Served(e, m) ==
  CASE m.cmd = CONNECT ->
         [e EXCEPT !.v5 = \E i \in 1 .. m.dgram : e.recv[i] = B("version", 5, 0),
                   !.out = @ \o mg_mqtt_send_header(CONNACK, 0, 2)
                             \o <<B("flags", 0, 0), B("code", e.verdict, 0)>>]
    [] m.cmd = SUBSCRIBE -> [e EXCEPT !.out = @ \o mg_mqtt_send_header(SUBACK, 0, 2) \o u16(m.id)]
    [] m.cmd = PINGREQ -> [e EXCEPT !.out = @ \o mg_mqtt_pong]
    [] OTHER -> e

Told(e, m) ==
  [e EXCEPT !.out = @ \o Replies(e, m),
            !.seen = Append(@, [cmd |-> m.cmd, id |-> m.id]),
            !.msgs = IF m.cmd # PUBLISH THEN @
                     ELSE Append(@, [topic |-> m.topic, message |-> m.data,
                                     props |-> IF m.props_size = 0 THEN <<>>
                                               ELSE Props(e.recv, m, 0)]),
            !.closing = @ \/ (m.cmd = CONNACK /\ m.ack # 0)]

RECURSIVE mqtt_cb(_)

\* What is done with m, which e.recv begins with.
Handled(e, m) ==
  CASE m.rc = "malformed" -> [e EXCEPT !.closing = TRUE]
    [] m.rc = "incomplete" -> e
    [] OTHER -> mqtt_cb([Served(Told(e, m), m) EXCEPT !.recv = From(@, m.dgram)])

mqtt_cb(e) == Handled(e, mg_mqtt_parse(e.recv, e.v5))

-----------------------------------------------------------------------------

Ends == {"client", "server"}
Peer(x) == IF x = "client" THEN "server" ELSE "client"

\* Some bytes come, and what is answered goes out.
Read(x) ==
  /\ wire[x] # <<>> /\ ~end[x].closing
  /\ \E n \in IF app.cuts < MaxCuts THEN 1 .. Len(wire[x]) ELSE {Len(wire[x])} :
       \E e \in {mqtt_cb([end[x] EXCEPT !.recv = @ \o SubSeq(wire[x], 1, n)])} :
         /\ end' = [end EXCEPT ![x] = [e EXCEPT !.out = <<>>]]
         /\ wire' = [wire EXCEPT ![x] = From(@, n), ![Peer(x)] = @ \o e.out]
         /\ app' = [app EXCEPT !.cuts = IF n < Len(wire[x]) THEN @ + 1 ELSE @]

Data(n) == [i \in 1 .. n |-> B("data", i, 0)]

PropLists ==
  {<<>>,
   <<[type |-> TYPE_BYTE, key |-> <<>>, val |-> Data(1)],
     [type |-> TYPE_PAIR, key |-> Data(1), val |-> Data(2)],
     [type |-> TYPE_STRING, key |-> <<>>, val |-> Data(1)],
     [type |-> TYPE_INT, key |-> <<>>, val |-> Data(4)]>>,
   <<[type |-> TYPE_VARIABLE_INT, key |-> <<>>, val |-> encode_varint(Base + 1)],
     [type |-> TYPE_SHORT, key |-> <<>>, val |-> Data(2)],
     [type |-> TYPE_BINARY_DATA, key |-> <<>>, val |-> Data(2)]>>}

\* A message may begin with a byte that is the identifier of a property.
Messages == {Data(1), <<B("id", TYPE_BYTE, 0)>> \o Data(2)}

Calls(bytes, op) ==
  /\ Len(app.ops) < MaxOps /\ ~end["client"].closing
  /\ \A i \in DOMAIN app.ops : app.ops[i].cmd # DISCONNECT
  /\ wire' = [wire EXCEPT !["server"] = @ \o bytes]
  /\ app' = [app EXCEPT !.ops = Append(@, op), !.mqtt_id = IF op.id = 0 THEN @ ELSE op.id]
  /\ UNCHANGED end

\* ++mgr->mqtt_id, but for 0.
next_id == IF app.mqtt_id = MaxId THEN 1 ELSE app.mqtt_id + 1

Op(cmd, id, o) == [cmd |-> cmd, id |-> id, o |-> o]

Opts(qos, message, props) ==
  [topic |-> Data(1), qos |-> qos, message |-> message, props |-> props]

Pub(qos, message, props) ==
  LET o == Opts(qos, message, props)
      id == IF qos > 0 THEN next_id ELSE 0
      v5 == end["client"].v5
  IN  /\ v5 \/ props = <<>>
      /\ Calls(mg_mqtt_pub(v5, o, id), Op(PUBLISH, id, o))

Sub(props) ==
  /\ end["client"].v5 \/ props = <<>>
  /\ LET o == Opts(1, <<>>, props)
     IN  Calls(mg_mqtt_sub(end["client"].v5, o, next_id), Op(SUBSCRIBE, next_id, o))

Ping == Calls(mg_mqtt_ping, Op(PINGREQ, 0, <<>>))

Disconnect ==
  Calls(mg_mqtt_disconnect(end["client"].v5, Opts(0, <<>>, <<>>)), Op(DISCONNECT, 0, <<>>))

\* A login with all that there can be in it, or without.
Login(n) ==
  [topic |-> Data(1), message |-> Data(n), client_id |-> Data(1), user |-> Data(n),
   pass |-> Data(n), props |-> <<>>, will_props |-> <<>>]

\* mg_mqtt_connect, and a server that accepts the login or does not.
Init == \E v5 \in BOOLEAN, extra, verdict \in {0, 1} :
          /\ end = [x \in Ends |->
                      IF x = "client" THEN [End EXCEPT !.v5 = v5] ELSE [End EXCEPT !.verdict = verdict]]
          /\ wire = [x \in Ends |->
                       IF x = "server" THEN mg_mqtt_login(v5, Login(extra)) ELSE <<>>]
          /\ app = [ops |-> <<>>, mqtt_id |-> 0, cuts |-> 0]

Next ==
  \/ \E x \in Ends : Read(x)
  \/ \E qos \in 0 .. 2, message \in Messages, props \in PropLists : Pub(qos, message, props)
  \/ \E props \in PropLists : Sub(props)
  \/ Ping \/ Disconnect

Spec == Init /\ [][Next]_vars

-----------------------------------------------------------------------------
(* Properties *)

Commands(ops) == <<CONNECT>> \o [i \in DOMAIN ops |-> ops[i].cmd]

Quiet == \A x \in Ends : wire[x] = <<>> /\ ~end[x].closing

\* The server sees the commands that the client has sent, one for one, and
\* takes none for a malformed one.  (It also sees the PUBREL that mongoose
\* sends.)
CommandsAgree ==
  LET got == SelectSeq(end["server"].seen, LAMBDA s : s.cmd # PUBREL)
      cmds == [i \in DOMAIN got |-> got[i].cmd]
  IN  /\ ~end["server"].closing
      /\ IsPrefix(cmds, Commands(app.ops))
      /\ Quiet => cmds = Commands(app.ops) /\ end["server"].recv = <<>>

\* A message of one byte or none, without properties, gets the length of the
\* properties as its first byte.
Prefixed(o) == end["client"].v5 /\ o.props = <<>> /\ Len(o.message) < 2

\* The properties of a message that begins like one may go on into it.
Lookalike(o) == o.message # <<>> /\ o.message[1].kind = "id"

\* A message arrives as it was published, with its properties; but for those
\* that version 5 prefixes, and the properties of those that look like one.
MessagesAreTrue ==
  LET pubs == SelectSeq(app.ops, LAMBDA op : op.cmd = PUBLISH)
      got == end["server"].msgs
  IN  /\ Len(got) <= Len(pubs)
      /\ \A i \in DOMAIN got :
           LET o == pubs[i].o IN
           /\ got[i].topic = o.topic
           /\ got[i].message = (IF Prefixed(o) THEN encode_varint(0) ELSE <<>>) \o o.message
           /\ ~Lookalike(o) => got[i].props = o.props

\* When everything has arrived, every message of quality 1 has its PUBACK and
\* every one of quality 2 its PUBREC and its PUBCOMP, under its identifier.
HandshakesEnd ==
  LET got == {end["client"].seen[i] : i \in DOMAIN end["client"].seen}
      due(op) == IF op.o.qos = 1 THEN {PUBACK} ELSE {PUBREC, PUBCOMP}
  IN  Quiet =>
        \A i \in DOMAIN app.ops :
          app.ops[i].cmd = PUBLISH /\ app.ops[i].o.qos > 0 =>
            \A cmd \in due(app.ops[i]) : [cmd |-> cmd, id |-> app.ops[i].id] \in got

=============================================================================
