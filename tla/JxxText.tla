------------------------------- MODULE JxxText ------------------------------
(***************************************************************************)
(* Reading and writing of JSON in jsonxx (src/json/jsonxx.cc), with the    *)
(* parser as its Settings make it: permissive, keys in quotes.             *)
(*                                                                         *)
(* A text is a sequence of characters.  A stream that reads it has a       *)
(* position, at, and a state: "good", "eof" (the end has been seen) or     *)
(* "fail" (something was read behind it).  Numbers have no fraction and no *)
(* exponent.                                                               *)
(***************************************************************************)
EXTENDS Integers, Sequences, SequencesExt, FiniteSetsExt

CONSTANTS
  Chars,     \* the alphabet of the texts that are read
  Begins,    \* what the texts begin with
  MaxMore,   \* bound: how many characters follow
  Strings,   \* the strings and keys of the values that are written
  MaxItems   \* bound: members of an array or an object that is written

VARIABLES
  text,   \* the text that is read or was written
  more,   \* how many characters it may still get
  value,  \* what the text was read as, or is to be written; or Unread
  origin  \* where the text comes from: typed, or written by "stream" or "json" for a value

vars == <<text, more, value, origin>>

Blanks == {" ", "\n", "\r", "\t", "\f"}
Digits == {"0", "1", "2", "3", "4", "5", "6", "7", "8", "9"}
HexDigits == <<"0", "1", "2", "3", "4", "5", "6", "7", "8", "9", "a", "b", "c", "d", "e", "f">>

\* A control character, and two bytes of a text that is not ASCII.
Ctrl == "0x01"
High == "0x80"
High2 == "0xff"
Back == "0x08"
Codes == [c \in {Ctrl, High, High2} |-> CASE c = Ctrl -> 1 [] c = High -> 128 [] c = High2 -> 255]
Character(code) == IF \E c \in DOMAIN Codes : Codes[c] = code THEN CHOOSE c \in DOMAIN Codes : Codes[c] = code
                   ELSE "other"

Drop(s, i) == SubSeq(s, i + 1, Len(s))

-----------------------------------------------------------------------------
(* Values *)

NoMembers == [k \in {} |-> 0]
Val(t, s, items, members) == [t |-> t, s |-> s, items |-> items, members |-> members]
Scalar(t, s) == Val(t, s, <<>>, NoMembers)
Null == Scalar("null", <<>>)
Bool(b) == Scalar("bool", IF b THEN <<"t", "r", "u", "e">> ELSE <<"f", "a", "l", "s", "e">>)
Array(items) == Val("array", <<>>, items, NoMembers)
Object(members) == Val("object", <<>>, <<>>, members)
Invalid == Scalar("invalid", <<>>)
Unread == Scalar("unread", <<>>)

With(members, key, v) == [k \in DOMAIN members \cup {key} |-> IF k = key THEN v ELSE members[k]]

-----------------------------------------------------------------------------
(* The stream *)

Stream(at, st) == [at |-> at, st |-> st]
Got(r, ok, v) == [r |-> r, ok |-> ok, v |-> v]
Failed(r) == Stream(r.at, "fail")

Next(t, r) == IF r.st = "good" /\ r.at < Len(t) THEN t[r.at + 1] ELSE "end"

\* get, and what peek and >> leave behind.
Get(t, r) == IF Next(t, r) = "end" THEN Failed(r) ELSE Stream(r.at + 1, "good")
Peeked(t, r) == IF r.st # "good" THEN Failed(r) ELSE IF r.at = Len(t) THEN Stream(r.at, "eof") ELSE r
Run(t, at, S) == CHOOSE j \in at .. Len(t) :
  (\A i \in at + 1 .. j : t[i] \in S) /\ (j = Len(t) \/ t[j + 1] \notin S)
Ws(t, r) == IF r.st # "good" THEN Failed(r) ELSE Peeked(t, Stream(Run(t, r.at, Blanks), "good"))

\* A comment ends at the end of its line, and a slash that begins none stays.
parse_comment(t, r) ==
  IF ~(Next(t, r) = "/" /\ r.at + 1 < Len(t) /\ t[r.at + 2] = "/") THEN Got(Peeked(t, r), FALSE, <<>>)
  ELSE LET nl == {j \in r.at + 2 .. Len(t) - 1 : t[j + 1] \in {"\r", "\n"}}
       IN  IF nl = {} THEN Got(Stream(Len(t), "fail"), TRUE, <<>>)
           ELSE Got(Ws(t, Stream(Min(nl), "good")), TRUE, <<>>)

\* What was read of the pattern is put back, as long as it stands there.
PutBack(t, r, read) ==
  IF r.st = "good" /\ r.at >= Len(read) /\ SubSeq(t, r.at - Len(read) + 1, r.at) = read
  THEN Stream(r.at - Len(read), "good") ELSE Failed(r)

\* Comments are skipped between any two characters of the pattern; behind the
\* end of the text, the last character is seen again.
RECURSIVE Matching(_, _, _, _)
Matching(pattern, k, t, r) ==
  IF k = Len(pattern) \/ r.st # "good" THEN Got(r, k = Len(pattern), <<>>)
  ELSE IF r.at = Len(t) THEN
    Got(Failed(r), k > 0 /\ k + 1 = Len(pattern) /\ pattern[k] = pattern[k + 1], <<>>)
  ELSE IF t[r.at + 1] = pattern[k + 1] THEN Matching(pattern, k + 1, t, Get(t, r))
  ELSE LET comment == parse_comment(t, r)
       IN  IF comment.ok THEN Matching(pattern, k, t, comment.r)
           ELSE Got(PutBack(t, comment.r, SubSeq(pattern, 1, k)), FALSE, <<>>)

\* Faulty form: blanks are not skipped.
match_here(pattern, t, r) == Matching(pattern, 0, t, r)

match(pattern, t, r) == Matching(pattern, 0, t, Ws(t, r))

-----------------------------------------------------------------------------
(* Strings, numbers and words *)

HexValue(h) == (CHOOSE i \in DOMAIN HexDigits : HexDigits[i] = h) - 1

\* The hexadecimal digits that follow \u; no sign, blank or 0x is among them.
Unicode(four) ==
  LET digits == SubSeq(four, 1, Run(four, 0, ToSet(HexDigits)))
      code == FoldLeft(LAMBDA c, h : (16 * c) + HexValue(h), 0, digits)
  IN  IF digits = <<>> THEN <<>> ELSE <<Character(code % 256)>>

Escapes == [c \in {"b", "f", "n", "r", "t"} |->
  CASE c = "b" -> Back [] c = "f" -> "\f" [] c = "n" -> "\n" [] c = "r" -> "\r" [] c = "t" -> "\t"]

\* What stands for the escape at position i, and the position behind it.
Unescaped(t, i, delimiter) ==
  LET ch == t[i + 2] IN
  IF ch \in {"\\", "/"} THEN [s |-> <<ch>>, at |-> i + 2]
  ELSE IF ch \in DOMAIN Escapes THEN [s |-> <<Escapes[ch]>>, at |-> i + 2]
  ELSE IF ch = "u" THEN
    [s |-> IF i + 6 <= Len(t) THEN Unicode(SubSeq(t, i + 3, i + 6)) ELSE <<>>, at |-> i + 6]
  ELSE [s |-> IF ch = delimiter THEN <<ch>> ELSE <<"\\", ch>>, at |-> i + 2]

\* The string up to its delimiter; without one the stream fails.
RECURSIVE Characters(_, _, _, _)
Characters(t, i, delimiter, s) ==
  IF i >= Len(t) THEN Got(Stream(Len(t), "fail"), FALSE, s)
  ELSE IF t[i + 1] = delimiter THEN Got(Stream(i + 1, "good"), TRUE, s)
  ELSE IF t[i + 1] # "\\" THEN Characters(t, i + 1, delimiter, Append(s, t[i + 1]))
  ELSE IF i + 1 = Len(t) THEN Got(Stream(Len(t), "fail"), FALSE, s)
  ELSE LET e == Unescaped(t, i, delimiter) IN Characters(t, e.at, delimiter, s \o e.s)

parse_string(t, r) ==
  LET Read(quote) ==
        IF quote.ok THEN Characters(t, quote.r.at, "\"", <<>>)
        ELSE IF Next(t, quote.r) = "'" THEN Characters(t, quote.r.at + 1, "'", <<>>)
        ELSE Got(Peeked(t, quote.r), FALSE, <<>>)
  IN  Read(match(<<"\"">>, t, r))

\* A number as it is written: no plus, no zeros before it.
Canonical(sign, digits) ==
  (IF sign = <<"-">> THEN sign ELSE <<>>)
  \o SubSeq(digits, Min({Len(digits)} \cup {i \in DOMAIN digits : digits[i] # "0"}), Len(digits))

\* What is no number is read again.
parse_number(t, r) ==
  LET Read(b, from, end) ==
        IF end = from THEN Got(b, FALSE, <<>>)
        ELSE Got(Peeked(t, Stream(end, "good")), TRUE,
                 Canonical(SubSeq(t, b.at + 1, from), SubSeq(t, from + 1, end)))
      Signed(b, from) == Read(b, from, Run(t, from, Digits))
      Begun(b) == IF b.st # "good" THEN Got(Failed(b), FALSE, <<>>)
                  ELSE Signed(b, b.at + IF Next(t, b) \in {"+", "-"} THEN 1 ELSE 0)
  IN  Begun(Ws(t, r))

\* A comma stands for a null in front of it.
parse_null(t, r) ==
  LET Read(null) == IF null.ok THEN null ELSE Got(Peeked(t, null.r), Next(t, null.r) = ",", <<>>)
  IN  Read(match(<<"n", "u", "l", "l">>, t, r))

-----------------------------------------------------------------------------
(* Values, arrays and objects *)

RECURSIVE parse_value(_, _), Items(_, _, _), Members(_, _, _)

Closed(end, v) == Got(end.r, end.ok, v)

parse_array(t, r) ==
  LET Rest(items) == Closed(match(<<"]">>, t, items.r), items.v)
      First(close) == IF close.ok THEN Got(close.r, TRUE, <<>>) ELSE Rest(Items(t, close.r, <<>>))
      Begun(open) == IF open.ok THEN First(match(<<"]">>, t, open.r)) ELSE open
  IN  Begun(match(<<"[">>, t, r))

Items(t, r, items) ==
  LET More(comma, all) == IF comma.ok THEN Items(t, comma.r, all) ELSE Got(comma.r, TRUE, all)
      Item(v) == IF v.ok THEN More(match(<<",">>, t, v.r), Append(items, v.v)) ELSE Got(v.r, TRUE, items)
  IN  Item(parse_value(t, r))

parse_object(t, r) ==
  LET Rest(members) == IF members.ok THEN Closed(match(<<"}">>, t, members.r), members.v) ELSE members
      First(close) == IF close.ok THEN Got(close.r, TRUE, NoMembers)
                      ELSE Rest(Members(t, close.r, NoMembers))
      Begun(open) == IF open.ok THEN First(match(<<"}">>, t, open.r)) ELSE Got(open.r, FALSE, NoMembers)
  IN  Begun(match(<<"{">>, t, r))

\* The last of two members with one key stays; a value that cannot be read, or
\* a bracket in the place of a key, ends the members.
Members(t, r, members) ==
  LET More(comma, all) == IF comma.ok THEN Members(t, comma.r, all) ELSE Got(comma.r, TRUE, all)
      Value(key, v) == IF v.ok THEN More(match(<<",">>, t, v.r), With(members, key, v.v))
                       ELSE Got(v.r, TRUE, members)
      Colon(key, colon) == IF colon.ok THEN Value(key, parse_value(t, colon.r))
                           ELSE Got(colon.r, FALSE, members)
      Key(key) == IF key.ok THEN Colon(key.v, match(<<":">>, t, key.r))
                  ELSE Got(Peeked(t, key.r), Next(t, key.r) = "}", members)
  IN  Key(parse_string(t, r))

\* One kind after the other is tried, where the last one left the stream; an
\* array that fails has moved it to where an object is then looked for.
As(got, v) == Got(got.r, TRUE, v)

OrNothing(object) == IF object.ok THEN As(object, Object(object.v)) ELSE Got(object.r, FALSE, Invalid)

OrObject(t, array) ==
  IF array.ok THEN As(array, Array(array.v)) ELSE OrNothing(parse_object(t, array.r))

OrArray(t, null) ==
  IF null.ok THEN As(null, Null)
  ELSE OrObject(t, IF Next(t, null.r) = "[" THEN parse_array(t, Peeked(t, null.r))
                   ELSE Got(Peeked(t, null.r), FALSE, <<>>))

OrNull(t, false) == IF false.ok THEN As(false, Bool(FALSE)) ELSE OrArray(t, parse_null(t, false.r))

OrFalse(t, true) ==
  IF true.ok THEN As(true, Bool(TRUE)) ELSE OrNull(t, match(Bool(FALSE).s, t, true.r))

OrTrue(t, number) ==
  IF number.ok THEN As(number, Scalar("number", number.v))
  ELSE OrFalse(t, match(Bool(TRUE).s, t, number.r))

OrNumber(t, string) ==
  IF string.ok THEN As(string, Scalar("string", string.v)) ELSE OrTrue(t, parse_number(t, string.r))

parse_value(t, r) == OrNumber(t, parse_string(t, r))

\* validate, reformat and xml begin alike.
WholeObject(got) == IF got.ok THEN Object(got.v) ELSE Invalid
WholeArray(got) == IF got.ok THEN Array(got.v) ELSE Invalid
Beginning(t, r, ch) == CASE ch = "{" -> WholeObject(parse_object(t, r))
                         [] ch = "[" -> WholeArray(parse_array(t, r))
                         [] OTHER -> Invalid
WholeFrom(t, r) == Beginning(t, r, Next(t, r))
Whole(t) == WholeFrom(t, Peeked(t, Stream(Run(t, 0, Blanks \cup {Ctrl}), "good")))

-----------------------------------------------------------------------------
(* Writing: operator<<, and json() with a value on each line *)

ShortEscapes == [c \in {"\"", "\\", "/", Back, "\f", "\n", "\r", "\t"} |->
  CASE c = "\"" -> <<"\\", "\"">> [] c = "\\" -> <<"\\", "\\">> [] c = "/" -> <<"\\", "/">>
    [] c = Back -> <<"\\", "b">> [] c = "\f" -> <<"\\", "f">> [] c = "\n" -> <<"\\", "n">>
    [] c = "\r" -> <<"\\", "r">> [] c = "\t" -> <<"\\", "t">>]
U0001 == <<"\\", "u", "0", "0", "0", "1">>

Mapped(s, Of(_)) == FlattenSeq([i \in DOMAIN s |-> Of(s[i])])
Quoted(s) == <<"\"">> \o s \o <<"\"">>

escape_string(s) ==
  Mapped(s, LAMBDA c : IF c \in DOMAIN ShortEscapes THEN ShortEscapes[c] ELSE IF c = Ctrl THEN U0001 ELSE <<c>>)

\* A char is signed: bytes of a text that is not ASCII are below 32 and are
\* printed as the int that they become.
stream_string(s) ==
  Quoted(Mapped(s, LAMBDA c :
    CASE c \in DOMAIN ShortEscapes -> ShortEscapes[c]
      [] c = Ctrl -> U0001
      [] c = High -> <<"\\", "u", "f", "f", "f", "f", "f", "f", "8", "0">>
      [] c = High2 -> <<"\\", "u", "f", "f", "f", "f", "f", "f", "f", "f">>
      [] OTHER -> <<c>>))

Joined(parts) == FlattenSeq([i \in DOMAIN parts |-> IF i = 1 THEN parts[i] ELSE <<",", " ">> \o parts[i]])
KeysOf(v) == SetToSeq(DOMAIN v.members)

RECURSIVE Streamed(_)
Streamed(v) ==
  CASE v.t = "string" -> stream_string(v.s)
    [] v.t = "array" -> <<"[">> \o Joined([i \in DOMAIN v.items |-> Streamed(v.items[i])]) \o <<"]">>
    [] v.t = "object" ->
         <<"{">> \o Joined([i \in DOMAIN KeysOf(v) |->
                     stream_string(KeysOf(v)[i]) \o <<":", " ">> \o Streamed(v.members[KeysOf(v)[i]])]) \o <<"}">>
    [] v.t = "null" -> <<"n", "u", "l", "l">>
    [] OTHER -> v.s

remove_last_comma(s) ==
  IF Len(s) > 2 /\ s[Len(s) - 1] = "," THEN [s EXCEPT ![Len(s) - 1] = " "] ELSE s

RECURSIVE tag(_, _, _)
tag(depth, name, v) ==
  LET tab == [i \in 1 .. depth |-> "\t"]
      begin == tab \o (IF name = <<>> THEN <<>> ELSE Quoted(escape_string(name)) \o <<":", " ">>)
      items == IF v.t = "array" THEN [i \in DOMAIN v.items |-> tag(depth + 1, <<>>, v.items[i])]
               ELSE [i \in DOMAIN KeysOf(v) |-> tag(depth + 1, KeysOf(v)[i], v.members[KeysOf(v)[i]])]
      Inside(open, close) ==
        remove_last_comma(begin \o <<open, "\n">> \o FlattenSeq(items)) \o tab \o <<close>>
  IN  (CASE v.t = "array" -> Inside("[", "]")
         [] v.t = "object" -> Inside("{", "}")
         [] v.t = "string" -> begin \o Quoted(escape_string(v.s))
         [] v.t \in {"bool", "number"} -> begin \o v.s
         [] OTHER -> begin \o <<"n", "u", "l", "l">>) \o <<",", "\n">>

json(v) == remove_last_comma(tag(0, <<>>, v))

-----------------------------------------------------------------------------
(* Writing: XML, as tags and text *)

\* An opening tag tells the type and the name of the value, in the ways of the
\* formats; tagname is what its closing tag must repeat.
escape_attrib(s) ==
  [i \in DOMAIN s |-> IF s[i] \in Digits \cup {"a", "b", "n", "A"} THEN s[i] ELSE "_"]
escape_tag(s) ==
  Mapped(s, LAMBDA c : CASE c = "<" -> <<"&", "l", "t", ";">> [] c = ">" -> <<"&", "g", "t", ";">>
                         [] c = "&" -> <<"&", "a", "m", "p", ";">> [] OTHER -> <<c>>)

Tagname(format, type, name) ==
  CASE format \in {"JXML", "JXMLex"} -> <<"j">>
    [] format = "JSONx" -> <<"json", type>>
    [] OTHER -> IF name = <<>> THEN <<"JsonItem">> ELSE escape_attrib(name)

Tag(kind, tagname, type, name) == [kind |-> kind, tagname |-> tagname, type |-> type, name |-> name]
open_tag(format, type, name) == Tag("open", Tagname(format, type, name), type, escape_string(name))
close_tag(format, type, name) == Tag("close", Tagname(format, type, name), "", <<>>)
Text(s) == Tag("text", <<>>, "", s)

RECURSIVE xml(_, _, _)
xml(format, name, v) ==
  LET items == IF v.t = "array" THEN [i \in DOMAIN v.items |-> xml(format, <<>>, v.items[i])]
               ELSE [i \in DOMAIN KeysOf(v) |-> xml(format, KeysOf(v)[i], v.members[KeysOf(v)[i]])]
      Inside(s) == <<open_tag(format, v.t, name)>> \o s \o <<close_tag(format, v.t, name)>>
  IN  CASE v.t \in {"array", "object"} -> Inside(FlattenSeq(items))
        [] v.t = "string" -> Inside(<<Text(escape_tag(v.s))>>)
        [] v.t \in {"bool", "number"} -> Inside(<<Text(v.s)>>)
        [] OTHER -> <<Tag("empty", Tagname(format, v.t, name), "null", escape_string(name))>>

Formats == {"JSONx", "JXML", "JXMLex", "TaggedXML"}

-----------------------------------------------------------------------------

Scalars == {Null, Bool(TRUE), Bool(FALSE), Scalar("number", <<"0">>), Scalar("number", <<"-", "1", "0">>)}
           \cup {Scalar("string", s) : s \in Strings}
Composed(S) ==
  {Array(items) : items \in BoundedSeq(S, MaxItems)}
  \cup {Object(members) : members \in UNION {[K -> S] : K \in {K \in SUBSET Strings : Cardinality(K) <= MaxItems}}}

Typed == [by |-> "typed", for |-> Invalid]
IsWhole(v) == v.t \in {"array", "object"}

Init ==
  /\ origin = Typed
  /\ \/ text \in Begins /\ more = MaxMore /\ value = Unread
     \/ text = <<>> /\ more = 0 /\ value \in Composed(Scalars)
     \/ text = <<>> /\ more = 0 /\ value \in Composed(Composed({Bool(TRUE)}))

\* The text gets another character.
Grow ==
  /\ more > 0 /\ origin = Typed
  /\ \E ch \in Chars : text' = Append(text, ch)
  /\ more' = more - 1 /\ value' = Unread
  /\ UNCHANGED origin

Parse ==
  /\ value = Unread
  /\ value' = Whole(text)
  /\ UNCHANGED <<text, more, origin>>

\* A value that no text was written for yet is written, over the text.
Write(by, Of(_)) ==
  /\ IsWhole(value) /\ origin = Typed
  /\ text' = Of(value) /\ origin' = [by |-> by, for |-> value]
  /\ value' = Unread /\ UNCHANGED more

Stream_out == Write("stream", Streamed)

Json_out == Write("json", json)

TNext == Grow \/ Parse \/ Stream_out \/ Json_out

-----------------------------------------------------------------------------
(* Properties *)

Ascii(s) == ToSet(s) \cap {High, High2} = {}
RECURSIVE AllAscii(_)
AllAscii(v) ==
  /\ Ascii(v.s)
  /\ \A i \in DOMAIN v.items : AllAscii(v.items[i])
  /\ \A k \in DOMAIN v.members : Ascii(k) /\ AllAscii(v.members[k])

RECURSIVE Named(_)
Named(v) ==
  /\ \A i \in DOMAIN v.items : Named(v.items[i])
  /\ \A k \in DOMAIN v.members : k # <<>> /\ Named(v.members[k])

\* What is written is read as what it was: by operator<<, if all of it is
\* ASCII, and by json(), if no key is empty.  A text that was accepted is
\* therefore the same after reformat.
WrittenIsRead ==
  /\ value # Unread /\ origin.by = "stream" /\ AllAscii(origin.for) => value = origin.for
  /\ value # Unread /\ origin.by = "json" /\ Named(origin.for) => value = origin.for

\* Elements and members, up to a closing tag or the end: what FromXml reads.
RECURSIVE FromXml(_, _)
FromXml(x, i) ==
  IF i > Len(x) \/ x[i].kind = "close" THEN [at |-> i, all |-> <<>>]
  ELSE IF x[i].kind \in {"empty", "text"} THEN
    LET rest == FromXml(x, i + 1)
    IN  [at |-> rest.at, all |-> <<[tag |-> x[i], in |-> <<>>]>> \o rest.all]
  ELSE
    LET in == FromXml(x, i + 1)
        closed == in.at <= Len(x) /\ x[in.at].tagname = x[i].tagname
        rest == FromXml(x, in.at + 1)
    IN  IF closed THEN [at |-> rest.at, all |-> <<[tag |-> x[i], in |-> in.all]>> \o rest.all]
        ELSE [at |-> 0, all |-> <<>>]

RECURSIVE Tree(_, _, _)
Tree(format, name, v) ==
  LET In(items) == [tag |-> open_tag(format, v.t, name), in |-> items] IN
  CASE v.t = "array" -> In([i \in DOMAIN v.items |-> Tree(format, <<>>, v.items[i])])
    [] v.t = "object" -> In([i \in DOMAIN KeysOf(v) |-> Tree(format, KeysOf(v)[i], v.members[KeysOf(v)[i]])])
    [] v.t = "null" -> [tag |-> xml(format, name, v)[1], in |-> <<>>]
    [] OTHER -> In(<<[tag |-> Text(IF v.t = "string" THEN escape_tag(v.s) ELSE v.s), in |-> <<>>]>>)

\* The tags of all four formats are nested as the values are.
TagsAreNested ==
  IsWhole(value) =>
    \A format \in Formats :
      LET x == xml(format, <<>>, value) IN FromXml(x, 1) = [at |-> Len(x) + 1, all |-> <<Tree(format, <<>>, value)>>]

\* What JSON says a text without escapes and comments stands for: brackets
\* around parts between commas, of which each stands for a value.
Trimmed(t) == LET b == Run(t, 0, Blanks)
                  in == {j \in b + 1 .. Len(t) : t[j] \notin Blanks}
              IN  SubSeq(t, b + 1, IF in = {} THEN b ELSE Max(in))
Inner(t) == SubSeq(t, 2, Len(t) - 1)
Between(t, open, close) == Len(t) > 1 /\ t[1] = open /\ t[Len(t)] = close
Plain(t) == Between(t, "\"", "\"") /\ ToSet(Inner(t)) \cap {"\"", "\\"} = {}
Parts(t, S(_)) ==
  LET of[i \in 0 .. Len(t)] ==
        S(Drop(t, i)) \cup UNION {{a \o b : a \in S(SubSeq(t, i + 1, k - 1)), b \in of[k]} :
                                    k \in {k \in i + 1 .. Len(t) : t[k] = ","}}
  IN  of[0]

RECURSIVE Denoted(_)
Denoted(text0) ==
  LET t == Trimmed(text0)
      item(u) == {<<v>> : v \in Denoted(u)}
      member(u) == UNION {{<<[k |-> Inner(Trimmed(SubSeq(u, 1, i - 1))), v |-> v]>> : v \in Denoted(Drop(u, i))} :
                            i \in {i \in DOMAIN u : u[i] = ":" /\ Plain(Trimmed(SubSeq(u, 1, i - 1)))}}
      number == Len(t) > 0 /\ ToSet(t) \subseteq Digits /\ (t[1] = "0" => Len(t) = 1)
  IN  {Scalar("number", t) : x \in {x \in {0} : number}}
      \cup {v \in {Bool(TRUE), Bool(FALSE)} : t = v.s} \cup {v \in {Null} : t = <<"n", "u", "l", "l">>}
      \cup {Scalar("string", Inner(t)) : x \in {x \in {0} : Plain(t)}}
      \cup (IF Between(t, "[", "]")
            THEN IF Trimmed(Inner(t)) = <<>> THEN {Array(<<>>)} ELSE {Array(a) : a \in Parts(Inner(t), item)}
            ELSE {})
      \cup (IF Between(t, "{", "}")
            THEN IF Trimmed(Inner(t)) = <<>> THEN {Object(NoMembers)}
                 ELSE {Object(FoldLeft(LAMBDA all, m : With(all, m.k, m.v), NoMembers, ms)) : ms \in Parts(Inner(t), member)}
            ELSE {})

\* A text that is JSON is read as what it stands for.
JsonIsRead ==
  origin = Typed /\ value # Unread => \A v \in Denoted(text) : IsWhole(v) => value = v

=============================================================================
