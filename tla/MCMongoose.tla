----------------------------- MODULE MCMongoose -----------------------------
(***************************************************************************)
(* Small instances of the parts of mongoose 7.12 above its connections,    *)
(* which do not know of each other: WebSocket, MQTT, its files, its texts, *)
(* printf and JSON; and of the two JSON libraries: the reader and writer,  *)
(* the numbers and strings, the mutable containers and the pool of yyjson, *)
(* and the texts and the values of jsonxx.  A behaviour is one of one of   *)
(* them, and keeps the variables of the others at Idle.                    *)
(***************************************************************************)
EXTENDS Integers, Sequences, SequencesExt

CONSTANTS
  Short, Long, Lens, MaxFrames,
  Base, MaxId, MaxOps, MaxCuts,
  Chars, Lengths, Beginnings, SizeMax, Block, LengthWords, Mod,
  MaxDepth, Strings, Paths, JsonChars, MaxText,
  Sizes, MaxWrites, MaxInodes, Requests, MaxRequests, SendSize, HasPage404, MaxUpload, MaxPieces,
  IntMod, LongMod, Values, Texts, Reals, RealPrecisions, DtoaBuf, Widths, RealWidths, Precisions, BufSizes,
  JxxChars, Begins, MaxMore, JxxStrings, MaxMembers,
  Roots, MaxCells, Keys, MaxItems, MaxCalls, NoKey,
  MaxDocument, MaxDigits, Tokens, MaxTokens, Documents, ReadFlags, Estimates,
  SafeDigits, Max64, Half64, MaxExp, LowExp, Numbers, Literals, WriteFlags,
  SigBits, ExpBits, LowDot, HighDot, Chunk, Half, Significands,
  Elements, Namesakes, MaxRemovals,
  PoolSize, Pieces, TextSizes, Reads

VARIABLES
  which,
  ws, peer, ws_wire,
  end, wire, app,
  disk, writer, reader, c, cl, up,
  kind, text, more,
  d, left, n, buf, heap,
  doc, blank, json,
  jtext, jmore, value, origin,
  cells, jcall, misused, leaked, calls,
  ytext, ended, flags, bytes, r, copy, w,
  phase, item, st, first,
  ctn, it, call,
  pool, held, yreader

-----------------------------------------------------------------------------
(* What the texts, the files, printf and JSON are given *)

\* The bytes that each kind of text tells apart, how many are tried, and what
\* some texts begin with.
MCChars ==
  [bytes |-> {0, 1, 58, 97, 255}, number |-> {32, 45, 48, 50, 53, 54, 97},
   address |-> {46, 54, 58, 97, 37}, form |-> {37, 97, 43, 38, 61, 49},
   header |-> {97, 98, 61, 59, 34, 32}, parts |-> {13, 10, 45, 122},
   url |-> {47, 58, 64, 97, 49, 93}, path |-> {46, 47, 92, 97},
   match |-> {97, 98, 47, 42, 35, 63}, digest |-> 0 .. 17]

MCLengths ==
  [bytes |-> 5, number |-> 5, address |-> 5, form |-> 4, header |-> 5, parts |-> 6,
   url |-> 5, path |-> 6, match |-> 5, digest |-> 3]

MCBeginnings ==
  {<<>>, <<50, 53, 46, 49, 46>>, <<58, 58, 102, 102, 102, 70, 58, 49, 46, 49, 46>>,
   <<49, 58, 49, 58, 49, 58, 49, 58, 50, 58, 49, 58>>}

\* A file, whole or in part, new or known, packed or not; a directory with its
\* index packed or not.
File(uri, method) ==
  [uri |-> uri, method |-> method, gzip |-> FALSE, match |-> <<-1, -1>>, range |-> <<-1, -1>>]

MCRequests ==
  {File("f", "GET"), [File("f", "GET") EXCEPT !.gzip = TRUE, !.match = <<1, 0>>],
   File("f", "HEAD"), [File("f", "GET") EXCEPT !.range = <<1, -1>>],
   [File("d/", "GET") EXCEPT !.gzip = TRUE, !.range = <<0, 1>>]}

MCValues == {-8, -3, 0, 5, 12, 21}
MCTexts == {<<>>, <<"a">>, <<"a", "b", "c">>}
MCPrecisions == {-1, 0, 2, 5}

MCRealPrecisions == {-1, 0, 1, 2, 7}

\* On either side of the exponents, of a carry and of the end of mg_dtoa's
\* buffer.
MCReals ==
  LET real(k, neg, m, x) == [kind |-> k, neg |-> neg, m |-> m, x |-> x]
      numbers ==
        {<<1, 0>>, <<5, -1>>, <<3, -2>>, <<1, -6>>, <<15, -8>>, <<1234, -1>>, <<12345678, -4>>,
         <<99999995, -1>>, <<999996, 2>>, <<1, 105>>, <<12345679, -120>>}
  IN  {real("number", neg, v[1], v[2]) : neg \in BOOLEAN, v \in numbers}
        \cup {real("inf", neg, 0, 0) : neg \in BOOLEAN}
        \cup {real("number", FALSE, 0, 0), real("nan", FALSE, 0, 0)}

MCJsonChars == {"[", "]", "{", "}", ",", ":", "\"", "1", "-", "\\"}

MCStrings == {<<"a">>, <<"a", "b">>, <<"\"", "]">>}
MCPaths ==
  {<<"$">>, <<"$", ".", "a">>, <<"$", ".", "a", "b">>, <<"$", "[", "0", "]">>,
   <<"$", "[", "1", "]">>, <<"$", ".", "a", ".", "a">>,
   <<"$", "[", "1", "]", "[", "0", "]">>, <<"$", "[", "1", "]", ".", "a">>,
   <<"$", ".", "a", "b", "[", "1", "]">>, <<"$", "[", "0", "]", "[", "0", "]">>,
   <<"$", "[", "0", "]", ".", "a">>}

\* What jsonxx is given to read, and the strings and keys that it writes.
MCJxxChars == {"[", "]", "{", "}", ",", ":", "\"", "1", "/", "\n", "t"}

MCBegins ==
  {<<>>, <<"[", "1", ",">>, <<"{", "\"", "a", "\"", ":">>,
   <<"{", "\"", "a", "\"", ":", "1", ",", "\"">>, <<"[", "t", "r", "u", "e">>,
   <<"[", "n", "u", "l">>, <<"[", "\"", "\\">>, <<"[", "/", "/">>}

MCJxxStrings == {<<>>, <<"a">>, <<"\"", "0x80", "\n">>, <<"0x01", "/">>}

-----------------------------------------------------------------------------
(* What yyjson is given to read: every document of at most MaxDocument     *)
(* tokens, some with a blank somewhere in it or a trailing comma, and a    *)
(* few that make the buffers grow; the numbers of MaxDigits characters;    *)
(* strings.                                                                *)

\* The values, elements and members of exactly len tokens.
YyTexts ==
  LET join(a, b) == {x \o y : x \in a, y \in b}
      gen[k \in {"value", "elems", "members"}, len \in 0 .. MaxDocument] ==
        LET unit == IF k = "elems" THEN [m \in 0 .. len |-> gen["value", m]]
                    ELSE [m \in 0 .. len |-> IF m < 3 THEN {}
                                             ELSE join({<<"str", ":">>}, gen["value", m - 2])]
        IN  CASE len = 0 -> {}
              [] k = "value" ->
                   IF len = 1 THEN {<<"str">>, <<"num">>}
                   ELSE LET body(part) == IF len = 2 THEN {<<>>} ELSE gen[part, len - 2]
                        IN  join({<<"[">>}, join(body("elems"), {<<"]">>}))
                              \cup join({<<"{">>}, join(body("members"), {<<"}">>}))
              [] OTHER -> unit[len] \cup UNION {join(unit[m], join({<<",">>}, gen[k, len - m - 1]))
                                                : m \in 1 .. len - 2}
  IN  UNION {gen["value", len] : len \in 1 .. MaxDocument}

Brackets(len) == [i \in 1 .. len |-> "["] \o <<"STR">> \o [i \in 1 .. len |-> "]"]

LongTexts ==
  LET elems(len) == [i \in 1 .. 2 * len |-> IF i % 2 = 1 THEN "num" ELSE ","]
  IN  {Brackets(len) : len \in 4 .. 9}
        \cup {<<"{", "str", ":">> \o Brackets(len) \o <<"}">> : len \in {2, 4}}
        \cup {<<"[", "{", "str", ":", "[">> \o elems(len)
                \o <<"STR", "]", ",", "STR", ":", "lit", "}", ",", "{", "}", "]">> : len \in {1, 6}}

Inserted(s, t) == {InsertAt(s, i, t) : i \in 1 .. Len(s) + 1}

MCDocuments ==
  YyTexts \cup LongTexts
    \cup UNION {Inserted(s, t) : s \in LongTexts \cup {x \in YyTexts : Len(x) <= MaxDocument - 2},
                                 t \in {" ", "nl", "com", ","}}

MCFlags == {[stop |-> FALSE, trailing |-> FALSE, comments |-> FALSE],
            [stop |-> FALSE, trailing |-> TRUE, comments |-> TRUE],
            [stop |-> TRUE, trailing |-> TRUE, comments |-> TRUE]}

MCNumbers ==
  LET chars == {"0", "1", "2", "5", "-", ".", "e"}
  IN  UNION {[1 .. len -> chars] : len \in 1 .. MaxDigits}
        \cup UNION {[1 .. len -> chars \cup {"+"}] : len \in 1 .. MaxDigits - 1}

Item(t, v) == [t |-> t, v |-> v]

\* Bytes on either side of every limit, escapes, and surrogates.
Lone == {Item("byte", b) : b \in {31, 47, 65, 128, 143, 144, 159, 160, 191,
                              193, 194, 224, 237, 240, 244}}
          \cup {Item("esc", 10), Item("esc", 34), Item("bad", 0)}
          \cup {Item("u", v) : v \in {1, 127, 128, 2047, 2048, 55295, 55296, 56319, 56320, 57343, 65535}}

Four == {<<Item("byte", b1), Item("byte", b2), Item("byte", b3), Item("byte", b4)>> :
           b1 \in {224, 239, 240, 241, 243, 244, 245, 248}, b2 \in {127, 128, 143, 144, 191, 192},
           b3 \in {128, 191, 194}, b4 \in {65, 128, 191, 192}}

MCLiterals == UNION {[1 .. len -> Lone] : len \in 0 .. 3} \cup Four

MCWriteFlags == [slashes : BOOLEAN, unicode : BOOLEAN]

-----------------------------------------------------------------------------
Ws == INSTANCE MgWs WITH wire <- ws_wire, c <- ws
Mqtt == INSTANCE MgMqtt

Text == INSTANCE MgText WITH Words <- LengthWords
Files == INSTANCE MgFiles
Printf == INSTANCE MgPrint
Json == INSTANCE MgJson WITH text <- json
Jxx == INSTANCE JxxText WITH Chars <- JxxChars, Strings <- JxxStrings, MaxItems <- MaxMembers,
                             text <- jtext, more <- jmore
Own == INSTANCE JxxValues WITH heap <- cells, call <- jcall
Yy == INSTANCE YyJson WITH text <- ytext, MaxText <- MaxTokens, Flags <- ReadFlags
Scalar == INSTANCE YyScalar WITH Values <- Significands
Mut == INSTANCE YyMut WITH c <- ctn
Pool == INSTANCE YyPool WITH reader <- yreader, Requests <- Pieces

ASSUME MongooseAssumption ==
  /\ Ws!MgWsAssumption /\ Mqtt!MgMqttAssumption
  /\ Text!MgTextAssumption /\ Printf!MgPrintAssumption /\ Own!JxxValuesAssumption
  /\ Scalar!YyScalarAssumption /\ Mut!YyMutAssumption /\ Pool!YyPoolAssumption

websocket == <<ws, peer, ws_wire>>
mqtt == <<end, wire, app>>
files == <<disk, writer, reader, c, cl, up>>
texts == <<kind, text, more>>
printf == <<d, left, n, buf, heap>>
jsons == <<doc, blank, json>>
jtexts == <<jtext, jmore, value, origin>>
owned == <<cells, jcall, misused, leaked, calls>>
documents == <<ytext, ended, flags, bytes, r, copy, w>>
scalars == <<phase, item, st, first>>
containers == <<ctn, it, call>>
chunks == <<pool, held, yreader>>

Idle == "idle"
WebsocketIdle == ws = Idle /\ peer = Idle /\ ws_wire = Idle
MqttIdle == end = Idle /\ wire = Idle /\ app = Idle
FilesIdle == disk = Idle /\ writer = Idle /\ reader = Idle /\ c = Idle /\ cl = Idle /\ up = Idle
TextsIdle == kind = Idle /\ text = Idle /\ more = Idle
PrintfIdle == d = Idle /\ left = Idle /\ n = Idle /\ buf = Idle /\ heap = Idle
JsonsIdle == doc = Idle /\ blank = Idle /\ json = Idle
JtextsIdle == jtext = Idle /\ jmore = Idle /\ value = Idle /\ origin = Idle
OwnedIdle == cells = Idle /\ jcall = Idle /\ misused = Idle /\ leaked = Idle /\ calls = Idle
DocumentsIdle == ytext = Idle /\ ended = Idle /\ flags = Idle /\ bytes = Idle /\ r = Idle
                   /\ copy = Idle /\ w = Idle
ScalarsIdle == phase = Idle /\ item = Idle /\ st = Idle /\ first = Idle
ContainersIdle == ctn = Idle /\ it = Idle /\ call = Idle
ChunksIdle == pool = Idle /\ held = Idle /\ yreader = Idle

\* Of the files: those that tasks share, those a server sends, which one task
\* replaces meanwhile, and those that it takes in.
FileParts == {"files", "static", "upload"}

FilesInit ==
  LET one == {Files!Make(Files!NoDisk, Files!F, k) : k \in Sizes}
      two == {Files!Make(dsk, p, 2) : dsk \in one,
                p \in Files!Index \cup {Files!Gz(Files!F), Files!Page404}}
  IN  \E dsk \in CASE which = "files" -> one
                   [] which = "static" -> two
                   [] which = "upload" -> {Files!NoDisk} : Files!InitAt(dsk)

\* The server rejects the login with everything in it, and accepts the other.
Verdict ==
  wire["server"] = Mqtt!mg_mqtt_login(end["client"].v5, Mqtt!Login(end["server"].verdict))

Init ==
  /\ which \in {"ws", "mqtt", "text", "print", "json", "jsonxx", "owned",
                "yyjson", "scalar", "mut", "pool"} \cup FileParts
  /\ IF which = "ws" THEN Ws!Init ELSE WebsocketIdle
  /\ IF which = "mqtt" THEN Mqtt!Init /\ Verdict ELSE MqttIdle
  /\ IF which \in FileParts THEN FilesInit ELSE FilesIdle
  /\ IF which = "text" THEN Text!Init ELSE TextsIdle
  /\ IF which = "print" THEN Printf!Init ELSE PrintfIdle
  /\ IF which = "json" THEN Json!Init ELSE JsonsIdle
  /\ IF which = "jsonxx" THEN Jxx!Init ELSE JtextsIdle
  /\ IF which = "owned" THEN Own!Init ELSE OwnedIdle
  /\ IF which = "yyjson" THEN Yy!Init ELSE DocumentsIdle
  /\ IF which = "scalar" THEN Scalar!Init ELSE ScalarsIdle
  /\ IF which = "mut" THEN Mut!Init ELSE ContainersIdle
  /\ IF which = "pool" THEN Pool!Init ELSE ChunksIdle

Next ==
  /\ UNCHANGED which
  /\ \/ /\ which = "ws" /\ Ws!Next
        /\ UNCHANGED <<mqtt, files, texts, printf, jsons, jtexts, owned,
                       documents, scalars, containers, chunks>>
     \/ /\ which = "mqtt" /\ Mqtt!Next
        /\ UNCHANGED <<websocket, files, texts, printf, jsons, jtexts, owned,
                       documents, scalars, containers, chunks>>
     \/ /\ which = "files" /\ Files!Files
        /\ UNCHANGED <<websocket, mqtt, texts, printf, jsons, jtexts, owned,
                       documents, scalars, containers, chunks>>
     \/ /\ which = "static" /\ (Files!Write \/ Files!Serve \/ Files!Send)
        /\ UNCHANGED <<websocket, mqtt, texts, printf, jsons, jtexts, owned,
                       documents, scalars, containers, chunks>>
     \/ /\ which = "upload" /\ Files!Upload
        /\ UNCHANGED <<websocket, mqtt, texts, printf, jsons, jtexts, owned,
                       documents, scalars, containers, chunks>>
     \/ /\ which = "text" /\ Text!Grow
        /\ UNCHANGED <<websocket, mqtt, files, printf, jsons, jtexts, owned,
                       documents, scalars, containers, chunks>>
     \/ /\ which = "print" /\ Printf!Next
        /\ UNCHANGED <<websocket, mqtt, files, texts, jsons, jtexts, owned,
                       documents, scalars, containers, chunks>>
     \/ /\ which = "json" /\ Json!Next
        /\ UNCHANGED <<websocket, mqtt, files, texts, printf, jtexts, owned,
                       documents, scalars, containers, chunks>>
     \/ /\ which = "jsonxx" /\ Jxx!TNext
        /\ UNCHANGED <<websocket, mqtt, files, texts, printf, jsons, owned,
                       documents, scalars, containers, chunks>>
     \/ /\ which = "owned" /\ Own!Next
        /\ UNCHANGED <<websocket, mqtt, files, texts, printf, jsons, jtexts,
                       documents, scalars, containers, chunks>>
     \/ /\ which = "yyjson" /\ Yy!Next
        /\ UNCHANGED <<websocket, mqtt, files, texts, printf, jsons, jtexts,
                       owned, scalars, containers, chunks>>
     \/ /\ which = "scalar" /\ Scalar!Next
        /\ UNCHANGED <<websocket, mqtt, files, texts, printf, jsons, jtexts,
                       owned, documents, containers, chunks>>
     \/ /\ which = "mut" /\ Mut!Next
        /\ UNCHANGED <<websocket, mqtt, files, texts, printf, jsons, jtexts,
                       owned, documents, scalars, chunks>>
     \/ /\ which = "pool" /\ Pool!Next
        /\ UNCHANGED <<websocket, mqtt, files, texts, printf, jsons, jtexts,
                       owned, documents, scalars, containers>>

vars == <<which, websocket, mqtt, files, texts, printf, jsons, jtexts,
          owned, documents, scalars, containers, chunks>>

Spec == Init /\ [][Next]_vars

-----------------------------------------------------------------------------
(* Properties: what the modules say of their parts *)

\* Of WebSocket, messages arrive whole, and answers are those to what came; of
\* MQTT, the server sees the client's commands and messages, and every
\* handshake is gone through.
MessagesAndCommandsArrive ==
  /\ which = "ws" => Ws!WholeMessages /\ Ws!AnswersAreTrue
  /\ which = "mqtt" => Mqtt!CommandsAgree /\ Mqtt!MessagesAreTrue /\ Mqtt!HandshakesEnd

\* A file that is replaced is the old or the new one at any moment, and is
\* read as one of them; what is served is the part of it that was announced;
\* a client that waits for each answer gets it; and what is uploaded is a
\* beginning of what was sent.
FilesAreTrue ==
  /\ which = "files" => Files!OldOrNew /\ Files!ReadsAreWhole
  /\ which = "static" => Files!BodiesAreRanges /\ Files!OneByOneIsAnswered
  /\ which = "upload" => Files!UploadIsPrefix

\* What is written as text is read as it was, what is read is what the text
\* says, and a digest does not depend on how its input is cut.  printf prints
\* integers and strings as C's would, reals as numbers near to them, with the
\* exceptions that RealsAreRounded names, and ends its buffer with a zero inside
\* it.  A path in JSON leads to the element that it names, the elements are visited in turn, and
\* what is found lies in the text, whatever that is.
TextsAreTrue ==
  /\ which = "text" =>
       /\ Text!BytesComeBack /\ Text!CredentialsComeBack /\ Text!NumbersAreRead
       /\ Text!AddressesAreRead /\ Text!FormsComeBack /\ Text!ParametersAreFound
       /\ Text!PartsComeOut /\ Text!UrlsComeApart /\ Text!PathsStayInside
       /\ Text!PatternsMatch /\ Text!DigestsAreStandard
  /\ which = "print" => Printf!PrintsLikeC /\ Printf!RealsAreRounded /\ Printf!BuffersAreTerminated
  /\ which = "json" => Json!PathsAreFound /\ Json!NextVisitsAll /\ Json!TokensLieInside

\* What jsonxx writes is read as what it was, what it reads is what the text
\* stands for, and its XML is nested as the values are.
TextsAreValues ==
  which = "jsonxx" => Jxx!WrittenIsRead /\ Jxx!TagsAreNested /\ Jxx!JsonIsRead

\* Every Value of jsonxx has one owner, and none is lost or used when freed; and
\* a call gives its target what it means, and changes nothing else.
ValuesAreOwned ==
  /\ [](which = "owned" => Own!OwnedOnce)
  /\ [][which = "owned" =>
          /\ jcall'.i \in Own!Reached(cells)
          /\ ~misused' =>
               /\ Own!Tree(cells', jcall'.i)
                    = Own!Meant(jcall', Own!Tree(cells, jcall'.i), Own!Tree(cells, jcall'.j))
               /\ \A root \in Roots : ~Own!Inside(root, jcall'.i)
                    => Own!Tree(cells', root) = Own!Tree(cells, root)]_owned

\* The values, the text and the contexts stay in their buffers.  The chunks of
\* the pool are its buffer, and a buffer of the size that yyjson says is large
\* enough.
BuffersHold ==
  /\ which = "yyjson" => Yy!StaysInBuffers
  /\ which = "pool" => Pool!ChunksTileTheBuffer /\ Pool!MaxUsageSuffices

\* The reader takes a text exactly when it is JSON, and what is written is what
\* was read.  A text is read as a number when it is one, and as the right one; a
\* string is read when it is UTF-8, and survives being written.  What is written
\* of a number is the shortest text that is read as it, but for the digit that is
\* missing in some with an exponent.
WrittenIsRead ==
  /\ which = "yyjson" => Yy!ReadsTheGrammar /\ Yy!WritesWhatItRead
  /\ which = "scalar" => /\ Scalar!ReadsNumbers /\ Scalar!StringsSurvive
                         /\ Scalar!IntegersComeBack /\ Scalar!RealsComeBack

\* A mutable container is the sequence that its calls make.
List == INSTANCE JsonList WITH elems <- IF which = "mut" THEN Mut!Elems ELSE <<>>,
                               call <- IF which = "mut" THEN call ELSE Mut!NoCall,
                               NameOf <- Mut!NameOf
ImplementsList == List!Spec

=============================================================================
