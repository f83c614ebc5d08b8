------------------------------- MODULE MgJson -------------------------------
(***************************************************************************)
(* JSON in mongoose 7.12 (src/json.c, and the escapes of src/printf.c):    *)
(* mg_json_get, which finds what a path like $.a[1] leads to in one scan   *)
(* of the text; mg_json_next, which goes through an array or an object;    *)
(* and the accessors.                                                      *)
(*                                                                         *)
(* Texts and paths are sequences of characters.  Offsets count from 0.     *)
(***************************************************************************)
EXTENDS Integers, Sequences, SequencesExt, FiniteSetsExt

CONSTANTS
  MaxDepth,   \* MG_JSON_MAX_DEPTH
  Strings,    \* the strings and the keys of the documents
  Paths,      \* the paths that are looked up in them
  JsonChars,  \* the alphabet of the texts that need not be JSON
  MaxText     \* bound: how long such a text grows

VARIABLES
  doc,    \* the document that is looked into, or NoDoc
  blank,  \* what stands between its tokens
  text    \* the text that is looked into, when there is no document

vars == <<doc, blank, text>>

TooDeep == -1
Invalid == -2
NotFound == -3

NUL == "NUL"
Digits == {"0", "1", "2", "3", "4", "5", "6", "7", "8", "9"}
DigitValue == [d \in Digits |-> CASE d = "0" -> 0 [] d = "1" -> 1 [] d = "2" -> 2 [] d = "3" -> 3 [] d = "4" -> 4
                 [] d = "5" -> 5 [] d = "6" -> 6 [] d = "7" -> 7 [] d = "8" -> 8 [] d = "9" -> 9]
Blanks == {" ", "\t", "\n", "\r"}
Keywords == {<<"t", "r", "u", "e">>, <<"n", "u", "l", "l">>, <<"f", "a", "l", "s", "e">>}

At(s, i) == IF i < Len(s) THEN s[i + 1] ELSE NUL
Sub(s, i, n) == SubSeq(s, i + 1, IF i + n <= Len(s) THEN i + n ELSE Len(s))
Run(s, i, S) == CHOOSE j \in i .. Len(s) : (\A k \in i + 1 .. j : s[k] \in S) /\ (j = Len(s) \/ s[j + 1] \notin S)

-----------------------------------------------------------------------------
(* Strings *)

\* The characters that are escaped, and the letters that stand for them.
Escape == [c \in {"\f", "\n", "\r", "\t", "\\", "\""} |->
  CASE c = "\f" -> "f" [] c = "\n" -> "n" [] c = "\r" -> "r" [] c = "\t" -> "t" [] OTHER -> c]
Unescape == [e \in {Escape[c] : c \in DOMAIN Escape} |-> CHOOSE c \in DOMAIN Escape : Escape[c] = e]

qcpy(s) == FlattenSeq([i \in DOMAIN s |-> IF s[i] \in DOMAIN Escape THEN <<"\\", Escape[s[i]]>> ELSE <<s[i]>>])

\* The length of the string that begins at i, up to its quote.
RECURSIVE Passed(_, _)
Passed(s, i) ==
  IF i >= Len(s) THEN Invalid
  ELSE IF s[i + 1] = "\\" /\ At(s, i + 1) \in DOMAIN Escape THEN Passed(s, i + 2)
  ELSE IF s[i + 1] = "\"" THEN i
  ELSE Passed(s, i + 1)
mg_pass_string(s, i) == IF Passed(s, i) = Invalid THEN Invalid ELSE Passed(s, i) - i

\* Codes \u00xx are read by mg_unhexn; no other is.
Bad == <<NUL>>
RECURSIVE mg_json_unescape(_)
mg_json_unescape(s) ==
  LET Then(c, n) == LET rest == mg_json_unescape(SubSeq(s, n + 1, Len(s)))
                    IN  IF rest = Bad THEN Bad ELSE <<c>> \o rest
  IN  IF s = <<>> THEN <<>>
      ELSE IF s[1] # "\\" \/ Len(s) = 1 THEN Then(s[1], 1)
      ELSE IF s[2] = "u" /\ Len(s) > 5 THEN (IF Sub(s, 2, 2) = <<"0", "0">> THEN Then("code", 6) ELSE Bad)
      ELSE IF s[2] \in DOMAIN Unescape THEN Then(Unescape[s[2]], 2)
      ELSE Bad

\* mg_atod: how long the number is, and its value if it has no fraction and no
\* exponent.
Over(s, i, S) == IF At(s, i) \in S THEN i + 1 ELSE i
FractionEnd(s, i) == IF At(s, i) = "." THEN Run(s, i + 1, Digits) ELSE i
ExponentEnd(s, i) ==
  IF At(s, i) \in {"e", "E"} THEN Run(s, Over(s, Over(s, i + 1, {"-"}), {"+"}), Digits) ELSE i
NumLen(s, i) == ExponentEnd(s, FractionEnd(s, Run(s, Over(s, i, {"-", "+"}), Digits))) - i

mg_atod(s) ==
  LET digits == SelectSeq(s, LAMBDA c : c \in Digits)
      d == FoldLeft(LAMBDA v, c : (10 * v) + DigitValue[c], 0, digits)
  IN  IF s[1] = "-" THEN -d ELSE d

-----------------------------------------------------------------------------
(* mg_json_get *)

\* The scan: the offset i, the offset j of the value that may be the one, what
\* is expected, the open brackets, the depth the path leads to, the position
\* in the path, and the current and the wanted index.
Scanner == [i |-> 0, j |-> 0, expecting |-> "value", nesting |-> <<>>, ed |-> 0, pos |-> 1, ci |-> -1, ei |-> -1,
            off |-> NotFound, len |-> 0, done |-> FALSE]

Returns(q, off, len) == [q EXCEPT !.off = off, !.len = len, !.done = TRUE]
Here(q) == Len(q.nesting) = q.ed

\* Faulty form: the wanted index is not looked at.
CheckRetAny(q, path) == IF Here(q) /\ At(path, q.pos) = NUL THEN Returns(q, q.j, q.i - q.j + 1) ELSE q

\* MG_CHECKRET and MG_EOO
CheckRet(q, path) ==
  IF Here(q) /\ At(path, q.pos) = NUL /\ q.ci = q.ei THEN Returns(q, q.j, q.i - q.j + 1) ELSE q

Eoo(q, path, c) ==
  IF Here(q) /\ q.ci # q.ei THEN Returns(q, NotFound, 0)
  ELSE IF <<q.nesting[Len(q.nesting)], c>> \notin {<<"{", "}">>, <<"[", "]">>} THEN Returns(q, Invalid, 0)
  ELSE CheckRet([q EXCEPT !.nesting = Front(@)], path)

\* A value has ended at i.
Counted(q) ==
  IF q.done THEN q
  ELSE [q EXCEPT !.expecting = "comma", !.ci = IF Here(q) /\ q.ei >= 0 THEN @ + 1 ELSE @, !.i = @ + 1]

Index(path, pos) ==
  LET end == Min({k \in pos .. Len(path) : At(path, k) \in {"]", NUL}})
  IN  [ei |-> FoldLeft(LAMBDA v, c : (10 * v) + DigitValue[c], 0, Sub(path, pos, end - pos)),
       pos |-> IF At(path, end) = NUL THEN end ELSE end + 1]

Open(q, path, c) ==
  LET enter == Here(q) /\ q.ci = q.ei
      at == Index(path, q.pos + 1)
      in == IF enter /\ c = "{" /\ At(path, q.pos) = "."
            THEN [q EXCEPT !.ed = @ + 1, !.pos = @ + 1, !.ci = -1, !.ei = -1]
            ELSE IF enter /\ c = "[" /\ At(path, q.pos) = "["
            THEN [q EXCEPT !.ed = @ + 1, !.pos = at.pos, !.ci = 0, !.ei = at.ei]
            ELSE q
  IN  IF Len(q.nesting) >= MaxDepth THEN Returns(q, TooDeep, 0)
      ELSE [in EXCEPT !.nesting = Append(@, c), !.expecting = IF c = "{" THEN "key" ELSE @, !.i = @ + 1]

Value(q0, path, s) ==
  LET c == s[q0.i + 1]
      q == [q0 EXCEPT !.j = IF Here(q0) THEN q0.i ELSE @]
      words == {w \in Keywords : Sub(s, q.i, Len(w)) = w}
      n == mg_pass_string(s, q.i + 1)
      Ended(len) == Counted(CheckRet([q EXCEPT !.i = @ + len - 1], path))
  IN  IF c \in {"{", "["} THEN Open(q, path, c)
      ELSE IF c = "]" /\ q.nesting # <<>> THEN
        LET e == Eoo(q, path, c) IN IF e.done THEN e ELSE Counted(CheckRet(e, path))
      ELSE IF words # {} THEN Ended(Len(CHOOSE w \in words : TRUE))
      ELSE IF c = "-" \/ c \in Digits THEN Ended(NumLen(s, q.i))
      ELSE IF c = "\"" THEN (IF n = Invalid THEN Returns(q, Invalid, 0) ELSE Ended(n + 2))
      ELSE Returns(q, Invalid, 0)

Key(q, path, s) ==
  LET c == s[q.i + 1]
      n == mg_pass_string(s, q.i + 1)
      found == Here(q) /\ Sub(s, q.i + 1, n) = Sub(path, q.pos, n) /\ At(path, q.pos + n) \in {NUL, ".", "["}
  IN  IF c = "\"" THEN
        IF n = Invalid THEN Returns(q, Invalid, 0)
        ELSE IF Len(q.nesting) < q.ed \/ (Here(q) /\ At(path, q.pos - 1) # ".") THEN Returns(q, NotFound, 0)
        ELSE [q EXCEPT !.pos = IF found THEN @ + n ELSE @, !.i = @ + n + 2, !.expecting = "colon"]
      ELSE IF c = "}" THEN Counted(Eoo(q, path, c))
      ELSE Returns(q, Invalid, 0)

Colon(q, path, s) ==
  IF s[q.i + 1] = ":" THEN [q EXCEPT !.expecting = "value", !.i = @ + 1] ELSE Returns(q, Invalid, 0)

Comma(q, path, s) ==
  LET c == s[q.i + 1] IN
  IF q.nesting = <<>> THEN Returns(q, Invalid, 0)
  ELSE IF c = "," THEN
    [q EXCEPT !.expecting = IF q.nesting[Len(q.nesting)] = "{" THEN "key" ELSE "value", !.i = @ + 1]
  ELSE IF c \in {"]", "}"} THEN
    IF Here(q) /\ <<c, At(path, q.pos - 1)>> \in {<<"}", ".">>, <<"]", ",">>} THEN Returns(q, NotFound, 0)
    ELSE Counted(Eoo(q, path, c))
  ELSE Returns(q, Invalid, 0)

RECURSIVE Scan(_, _, _)
Scan(q, path, s) ==
  IF q.done \/ q.i >= Len(s) THEN q
  ELSE IF s[q.i + 1] \in Blanks THEN Scan([q EXCEPT !.i = @ + 1], path, s)
  ELSE Scan(CASE q.expecting = "value" -> Value(q, path, s) [] q.expecting = "key" -> Key(q, path, s)
              [] q.expecting = "colon" -> Colon(q, path, s) [] q.expecting = "comma" -> Comma(q, path, s), path, s)

mg_json_get(s, path) == IF At(path, 0) # "$" THEN Returns(Scanner, Invalid, 0) ELSE Scan(Scanner, path, s)

-----------------------------------------------------------------------------
(* The accessors *)

mg_json_get_str(s, path) ==
  LET Str(q) == IF q.off >= 0 /\ q.len > 1 /\ At(s, q.off) = "\"" THEN mg_json_unescape(Sub(s, q.off + 1, q.len - 2)) ELSE Bad
  IN  Str(mg_json_get(s, path))

mg_json_get_num(s, path) ==
  LET Num(q) == IF q.off >= 0 /\ (At(s, q.off) = "-" \/ At(s, q.off) \in Digits) THEN <<mg_atod(Sub(s, q.off, q.len))>> ELSE <<>>
  IN  Num(mg_json_get(s, path))

mg_json_get_bool(s, path) ==
  LET Bool(q) == IF q.off >= 0 /\ At(s, q.off) \in {"t", "f"} THEN <<At(s, q.off) = "t">> ELSE <<>>
  IN  Bool(mg_json_get(s, path))

\* Behind the blanks and the comma that follow an element.
Behind(obj, ofs) ==
  LET b == Run(obj, ofs, Blanks) IN IF At(obj, b) = "," THEN b + 1 ELSE b

\* The next offset, 0 at the end, and the key and the value before it.
NoNext == [ofs |-> 0, key |-> <<>>, val |-> <<>>]

\* From ofs on a is the first token; in an object, b the first from at on.
NextMember(obj, ofs, a, at, b) ==
  IF b.off < 0 THEN [NoNext EXCEPT !.key = Sub(obj, ofs + a.off, a.len)]
  ELSE [ofs |-> Behind(obj, at + b.off + b.len), key |-> Sub(obj, ofs + a.off, a.len),
        val |-> Sub(obj, at + b.off, b.len)]

NextElement(obj, ofs, a) ==
  LET Token(at) == mg_json_get(SubSeq(obj, at + 1, Len(obj)), <<"$">>)
      FromColon(at) == NextMember(obj, ofs, a, at, Token(at))
      colons == {k \in ofs + a.off + a.len .. Len(obj) - 1 : obj[k + 1] = ":"}
  IN  IF a.off < 0 THEN NoNext
      ELSE IF obj[1] = "[" THEN [ofs |-> Behind(obj, ofs + a.off + a.len), key |-> <<>>, val |-> Sub(obj, ofs + a.off, a.len)]
      ELSE FromColon(IF colons = {} THEN Len(obj) ELSE Min(colons) + 1)

mg_json_next(obj, ofs0) ==
  LET From(ofs) == NextElement(obj, ofs, mg_json_get(SubSeq(obj, ofs + 1, Len(obj)), <<"$">>))
  IN  IF ofs0 >= Len(obj) \/ Len(obj) < 2 \/ obj[1] \notin {"{", "["} THEN NoNext
      ELSE From(IF ofs0 = 0 THEN 1 ELSE ofs0)

-----------------------------------------------------------------------------
(* Documents, and their texts *)

Scalar(t, s) == [t |-> t, s |-> s, items |-> <<>>, keys |-> <<>>]
Array(items) == [t |-> "array", s |-> <<>>, items |-> items, keys |-> <<>>]
Object(keys, items) == [t |-> "object", s |-> <<>>, items |-> items, keys |-> keys]
NoDoc == Scalar("none", <<>>)

Quoted(s) == <<"\"">> \o qcpy(s) \o <<"\"">>

RECURSIVE Written(_, _)
Written(v, b) ==
  LET Member(i) == (IF v.t = "object" THEN Quoted(v.keys[i]) \o b \o <<":">> \o b ELSE <<>>) \o Written(v.items[i], b)
      all == FlattenSeq([i \in DOMAIN v.items |-> (IF i = 1 THEN b ELSE b \o <<",">> \o b) \o Member(i)]) \o b
  IN  CASE v.t = "array" -> <<"[">> \o all \o <<"]">>
        [] v.t = "object" -> <<"{">> \o all \o <<"}">>
        [] v.t = "string" -> Quoted(v.s)
        [] OTHER -> v.s

Scalars == {Scalar("word", <<"t", "r", "u", "e">>), Scalar("number", <<"-", "1", "2">>)} \cup {Scalar("string", s) : s \in Strings}
Below(S) ==
  {Array(items) : items \in BoundedSeq(S, 2)}
  \cup {Object(<<>>, <<>>)} \cup {Object(<<k>>, <<v>>) : k \in Strings, v \in S}
  \cup {Object(<<p[1], p[2]>>, <<p[3], p[4]>>) : p \in {p \in Strings \X Strings \X S \X S : p[1] # p[2]}}
Few ==
  {Scalar("number", <<"0">>), Array(<<>>), Object(<<>>, <<>>),
   Array(<<Scalar("number", <<"0">>)>>), Object(<<<<"a">>>>, <<Array(<<>>)>>)}

Init ==
  \/ doc = NoDoc /\ text = <<>> /\ blank = <<>>
  \/ /\ doc \in Scalars \cup Below(Scalars) \cup Below(Few)
     /\ blank \in {<<>>, <<" ">>} /\ text = <<>>

Next ==
  /\ doc = NoDoc /\ Len(text) < MaxText
  /\ \E c \in JsonChars : text' = Append(text, c)
  /\ UNCHANGED <<doc, blank>>

-----------------------------------------------------------------------------
(* Properties *)

None == Scalar("none", <<NUL>>)

\* What the path leads to; "empty" if it leads into an empty array or object.
RECURSIVE Find(_, _)
Find(v, p) ==
  LET end == Min({k \in 2 .. Len(p) + 1 : k = Len(p) + 1 \/ p[k] \in {".", "["}})
      name == SubSeq(p, 2, end - 1)
      rest == SubSeq(p, end, Len(p))
      wanted == Index(p, 1).ei + 1
      found == {i \in DOMAIN v.keys : v.keys[i] = name}
  IN  IF p = <<>> THEN v
      ELSE IF v.t \in {"array", "object"} /\ v.items = <<>> THEN [None EXCEPT !.t = "empty"]
      ELSE IF p[1] = "[" /\ v.t = "array" /\ wanted <= Len(v.items)
        THEN Find(v.items[wanted], rest)
      ELSE IF p[1] = "." /\ found # {} THEN Find(v.items[Min(found)], rest)
      ELSE None

\* mg_json_get finds the value that the path leads to, all of it, and none if
\* it leads nowhere; but it may find another if it leads into an empty array or
\* object.
IsFound(s, path, v) ==
  LET Right(q) == q.off >= 0 /\ Sub(s, q.off, q.len) = Written(v, blank)
  IN  IF v.t = "none" THEN mg_json_get(s, path).off < 0
      ELSE v.t # "empty" =>
        /\ Right(mg_json_get(s, path))
        /\ v.t = "string" => mg_json_get_str(s, path) = v.s
        /\ v.t = "number" => mg_json_get_num(s, path) = <<mg_atod(v.s)>>
        /\ v.t = "word" => mg_json_get_bool(s, path) = <<v.s[1] = "t">>

PathsAreFound ==
  doc # NoDoc =>
    \A path \in Paths : IsFound(Written(doc, blank), path, Find(doc, Tail(path)))

\* mg_json_next goes through all elements or members, in their order.
RECURSIVE Visited(_, _)
Visited(obj, ofs) ==
  LET From(n) == IF n.ofs = 0 THEN <<>> ELSE <<<<n.key, n.val>>>> \o Visited(obj, n.ofs)
  IN  From(mg_json_next(obj, ofs))

NextVisitsAll ==
  doc.t \in {"array", "object"} =>
    Visited(Written(doc, blank), 0) =
      [i \in DOMAIN doc.items |-> <<IF doc.t = "object" THEN Quoted(doc.keys[i]) ELSE <<>>, Written(doc.items[i], blank)>>]

\* In any text, what is found and what is visited lies in the text, and the
\* visits end.
TokensLieInside ==
  doc = NoDoc =>
    /\ \A path \in Paths :
         LET Inside(q) == q.off >= 0 => q.len > 0 /\ q.off + q.len <= Len(text)
         IN  Inside(mg_json_get(text, path))
    /\ \A ofs \in 0 .. Len(text) :
         LET Beyond(n) == n.ofs = 0 \/ (n.ofs > ofs /\ n.ofs <= Len(text))
         IN  Beyond(mg_json_next(text, ofs))

=============================================================================
