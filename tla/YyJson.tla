------------------------------- MODULE YyJson -------------------------------
(***************************************************************************)
(* A text goes through yyjson 0.3.0: it is read, perhaps copied into a     *)
(* mutable document, and written again.  The text is given, or is chosen   *)
(* token by token as the reader looks at it.                               *)
(*                                                                         *)
(* The reader is a finite state machine that turns a text into one array   *)
(* of values.  A text is a sequence of tokens:                             *)
(*   "[" "]" "{" "}" "," ":"                                               *)
(*   "str", "STR"             a short string, a string of 12 characters    *)
(*   "num", "lit"             a number; true, false or null                *)
(*   " ", "nl"                a space, a newline                           *)
(*   "com", "line", "open"    a closed comment, a comment to the end of    *)
(*                            its line, the beginning of an unclosed one   *)
(*   "bad"                    a byte that begins nothing                   *)
(* and is followed by "end", the padding that yyjson_read_opts appends.    *)
(* A value is [type, len, ofs]: ofs leads from a container to its parent   *)
(* while it is read, and then to the value after it.                       *)
(*                                                                         *)
(* The writers, minify and pretty, take the array of values of a document  *)
(* that was read, or the circles of a mutable one, whose values have ptr   *)
(* and next.  The text grows from the beginning of a buffer, the contexts  *)
(* of the containers that are being written from its end, and incr_len     *)
(* moves them apart when they might meet: out is a sequence of tokens,     *)
(* with "indent" for four spaces, and cur the number of its bytes.         *)
(***************************************************************************)
EXTENDS Integers, Sequences, SequencesExt

\* sizeof(yyjson_doc) in values, and the padding at the end of the array.
HdrLen == 4
Padding == 2

StringTokens == {"str", "STR"}
Scalars == StringTokens \cup {"num", "lit"}

Tok(text, i) == IF i \in DOMAIN text THEN text[i] ELSE "end"

\* char_is_space, and with the flag what skip_spaces_and_comments skips.
Blanks(flags) == {" ", "nl"} \cup {c \in {"com", "line"} : flags.comments}

-----------------------------------------------------------------------------
(* The reader's state *)

\* hdr counts the places where the array has been; of is the one that the
\* pointer ctn was made for.
NoReader == [lab |-> "read_opts", cur |-> 1, vals |-> <<>>, ctn |-> 1, of |-> 0, len |-> 0,
             alc |-> 0, hdr |-> 0, err |-> "none", style |-> "none"]

\* return_err: whatever is wrong past the end is an unexpected end.
Fail(r, text, err) ==
  [r EXCEPT !.lab = "failed", !.err = IF Tok(text, r.cur) = "end" THEN "end" ELSE err]

\* Where the n-th value lies in the array.
At(n) == HdrLen + n - 1

\* val_incr, but for the new value itself.
Grow(r) ==
  IF At(Len(r.vals) + 1) >= r.alc - Padding
    THEN [r EXCEPT !.alc = @ + @ \div 2, !.hdr = @ + 1, !.of = r.hdr + 1]
    ELSE r

\* Reads a scalar and goes to a label.  A key makes room for its value.
Scalar(r, t, lab) ==
  [(IF r.lab = "obj_val_begin" THEN r ELSE Grow(r)) EXCEPT
     !.vals = Append(@, [type |-> t, len |-> 0, ofs |-> 0]),
     !.len = @ + 1, !.cur = @ + 1, !.lab = lab]

\* arr_begin and obj_begin: the new container becomes the current one.
Begin(r, type) ==
  LET val == Len(r.vals) + 1
      up == [type |-> type, len |-> 0, ofs |-> val - r.ctn]
      g == Grow(r)
  IN  [g EXCEPT !.vals = Append([@ EXCEPT ![r.ctn].len = r.len + 1], up),
                !.ctn = val, !.of = g.hdr, !.len = 0, !.cur = @ + 1,
                !.lab = IF type = "arr" THEN "arr_val_begin" ELSE "obj_key_begin"]

\* arr_end and obj_end: the parent becomes the current container.
End(r) ==
  LET c == r.vals[r.ctn]
      parent == r.ctn - c.ofs
      vals == [r.vals EXCEPT ![r.ctn].ofs = Len(r.vals) - r.ctn + 1,
                             ![r.ctn].len = IF c.type = "obj" THEN r.len \div 2 ELSE r.len]
  IN  [r EXCEPT !.vals = vals, !.ctn = parent, !.len = vals[parent].len, !.cur = @ + 1,
                !.lab = IF parent = r.ctn THEN "doc_end"
                        ELSE IF vals[parent].type = "obj" THEN "obj_val_end"
                        ELSE "arr_val_end"]

\* A closing bracket after a comma; the check comes after the cursor has moved.
EndAfterComma(r, text, flags) ==
  IF r.len = 0 \/ flags.trailing THEN End(r)
  ELSE Fail([r EXCEPT !.cur = @ + 1], text, "structure")

\* What every label does with a token that it has no use for.
Otherwise(r, text, flags) ==
  LET t == Tok(text, r.cur)
  IN  CASE t \in Blanks(flags) -> [r EXCEPT !.cur = @ + 1]
        [] t = "open" /\ flags.comments -> Fail(r, text, "comment")
        [] OTHER -> Fail(r, text, "character")

Goto(r, lab) == [r EXCEPT !.cur = @ + 1, !.lab = lab]

-----------------------------------------------------------------------------
(* The labels of read_root_minify *)

WithValue(r, text, flags, lab) ==
  LET t == Tok(text, r.cur)
  IN  CASE t = "{" -> Begin(r, "obj")
        [] t = "[" -> Begin(r, "arr")
        [] t \in Scalars -> Scalar(r, t, lab)
        [] t = "]" /\ lab = "arr_val_end" -> EndAfterComma(r, text, flags)
        [] OTHER -> Otherwise(r, text, flags)

\* Faulty form: a closing bracket is always welcome.
ArrTurnLenient(r, text, flags) ==
  LET t == Tok(text, r.cur)
  IN  IF t = "]" THEN End(r)
      ELSE IF r.lab = "arr_val_begin" THEN WithValue(r, text, flags, "arr_val_end")
      ELSE IF t = "," THEN Goto(r, "arr_val_begin")
      ELSE Otherwise(r, text, flags)

ArrTurn(r, text, flags) ==
  LET t == Tok(text, r.cur)
  IN  IF r.lab = "arr_val_begin" THEN WithValue(r, text, flags, "arr_val_end")
      ELSE IF t = "," THEN Goto(r, "arr_val_begin")
      ELSE IF t = "]" THEN End(r)
      ELSE Otherwise(r, text, flags)

ObjTurn(r, text, flags) ==
  LET t == Tok(text, r.cur)
  IN  CASE r.lab = "obj_key_begin" /\ t \in StringTokens -> Scalar(r, t, "obj_key_end")
        [] r.lab = "obj_key_begin" /\ t = "}" -> EndAfterComma(r, text, flags)
        [] r.lab = "obj_key_end" /\ t = ":" -> Goto(r, "obj_val_begin")
        [] r.lab = "obj_val_begin" -> WithValue(r, text, flags, "obj_val_end")
        [] r.lab = "obj_val_end" /\ t = "," -> Goto(r, "obj_key_begin")
        [] r.lab = "obj_val_end" /\ t = "}" -> End(r)
        [] OTHER -> Otherwise(r, text, flags)

\* doc_end.  Only the reader of a single value names an unclosed comment.
DocEnd(r, text, flags) ==
  LET t == Tok(text, r.cur)
      err == IF r.style = "single" /\ flags.comments /\ t = "open" THEN "comment" ELSE "content"
  IN  CASE flags.stop \/ t = "end" -> [r EXCEPT !.lab = "read"]
        [] ~flags.stop /\ t \in Blanks(flags) -> [r EXCEPT !.cur = @ + 1]
        [] OTHER -> Fail(r, text, err)

\* What read_root_pretty takes at once: the usual line breaks and indents.
Layout(r, text) ==
  LET two == <<Tok(text, r.cur), Tok(text, r.cur + 1)>>
      to(lab) == [r EXCEPT !.cur = @ + 2, !.lab = lab]
  IN  CASE r.lab \in {"arr_val_begin", "obj_key_begin"} /\ two = <<" ", " ">> -> to(r.lab)
        [] r.lab = "arr_val_end" /\ two = <<",", "nl">> -> to("arr_val_begin")
        [] r.lab = "obj_val_end" /\ two = <<",", "nl">> -> to("obj_key_begin")
        [] r.lab = "obj_key_end" /\ two = <<":", " ">> -> to("obj_val_begin")
        [] OTHER -> r

ArrTurnPretty(r, text, flags) ==
  IF Layout(r, text) # r THEN Layout(r, text) ELSE ArrTurn(r, text, flags)

ObjTurnPretty(r, text, flags) ==
  IF Layout(r, text) # r THEN Layout(r, text) ELSE ObjTurn(r, text, flags)

-----------------------------------------------------------------------------
(* The entrance *)

\* The arrays that the readers begin with; bytes is the length of the rest of
\* the text.
FirstAlc(flags, ratio, bytes) == HdrLen + (IF flags.stop THEN 256 ELSE bytes) \div ratio + 4

Root(r, text, flags, style, ratio, bytes) ==
  LET type == IF Tok(text, r.cur) = "{" THEN "obj" ELSE "arr"
  IN  [r EXCEPT !.style = style, !.alc = FirstAlc(flags, ratio, bytes), !.cur = @ + 1,
                !.vals = <<[type |-> type, len |-> 0, ofs |-> 0]>>,
                !.lab = IF type = "obj" THEN "obj_key_begin" ELSE "arr_val_begin"]

\* read_root_single.
Single(r, text) ==
  LET t == Tok(text, r.cur)
      s == [r EXCEPT !.style = "single", !.alc = HdrLen + 1]
  IN  IF t \in Scalars
        THEN [s EXCEPT !.vals = <<[type |-> t, len |-> 0, ofs |-> 0]>>, !.cur = @ + 1,
                       !.lab = "doc_end"]
        ELSE Fail(s, text, "character")

\* yyjson_read_opts, which skips blanks before the document.
ReadOpts(r, text, flags, bytes) ==
  LET t == Tok(text, r.cur)
      after == {Tok(text, r.cur + 1), Tok(text, r.cur + 2)}
  IN  CASE t \in Blanks(flags) -> [r EXCEPT !.cur = @ + 1]
        [] t = "open" /\ flags.comments -> Fail(r, text, "comment")
        [] t = "end" -> [r EXCEPT !.lab = "failed", !.err = "empty"]
        [] t \in {"[", "{"} -> IF after \subseteq {" ", "nl"}
                                THEN Root(r, text, flags, "pretty", 16, bytes)
                                ELSE Root(r, text, flags, "minify", 6, bytes)
        [] OTHER -> Single(r, text)

\* One turn of the reader.
ReadTurn(r, text, flags, bytes) ==
  IF r.lab = "read_opts" THEN ReadOpts(r, text, flags, bytes)
  ELSE IF r.lab = "doc_end" THEN DocEnd(r, text, flags)
  ELSE IF r.lab \in {"arr_val_begin", "arr_val_end"} /\ r.style = "minify" THEN
         ArrTurn(r, text, flags)
  ELSE IF r.lab \in {"arr_val_begin", "arr_val_end"} /\ r.style = "pretty" THEN
         ArrTurnPretty(r, text, flags)
  ELSE IF r.style = "minify" THEN ObjTurn(r, text, flags)
  ELSE ObjTurnPretty(r, text, flags)

-----------------------------------------------------------------------------
(* The accessors of a document that has been read *)

\* unsafe_yyjson_get_next
GetNext(vals, v) == v + IF vals[v].type \in {"arr", "obj"} THEN vals[v].ofs ELSE 1

\* unsafe_yyjson_get_first and then unsafe_yyjson_get_next again and again.
Children(vals, ctn) ==
  LET count == vals[ctn].len * IF vals[ctn].type = "obj" THEN 2 ELSE 1
      child[k \in 1 .. count] == IF k = 1 THEN ctn + 1 ELSE GetNext(vals, child[k - 1])
  IN  [k \in 1 .. count |-> child[k]]

\* yyjson_val_mut_copy: the same values, linked in circles.  A container
\* points at its last value, or at its last key.
MutCopy(vals) ==
  LET ctns == {c \in DOMAIN vals : vals[c].type \in {"arr", "obj"} /\ vals[c].len > 0}
      kids == [c \in ctns |-> Children(vals, c)]
      links == UNION {{<<kids[c][k], kids[c][(k % Len(kids[c])) + 1]>> : k \in DOMAIN kids[c]}
                      : c \in ctns}
      last(c) == kids[c][Len(kids[c]) - IF vals[c].type = "obj" THEN 1 ELSE 0]
  IN  [v \in DOMAIN vals |->
         [type |-> vals[v].type, len |-> vals[v].len,
          ptr |-> IF v \in ctns THEN last(v) ELSE 0,
          next |-> IF \E l \in links : l[1] = v
                     THEN (CHOOSE l \in links : l[1] = v)[2] ELSE 0]]

-----------------------------------------------------------------------------
(* What is written *)

IsCtn(v) == v.type \in {"arr", "obj"}
Turns(v) == v.len * IF v.type = "obj" THEN 2 ELSE 1

\* str_len * 6, for a string with nothing but control characters; a number
\* of 20 digits; the longest literal; a bracket.
Width(t) == CASE t = "STR" -> 72 [] t = "num" -> 20 [] t = "lit" -> 5 [] OTHER -> 0

\* What incr_len is asked for: up to 32 bytes or 16, with the string's.
Need(v) == CASE v.type \in {"str", "STR"} -> Width(v.type) + 16
             [] v.type = "num" -> 32
             [] OTHER -> 16

CtxSize(w) == IF w.mut THEN 16 ELSE 8
Ctx(w) == w.alc - CtxSize(w) * Len(w.ctxs)
AlignUp(n, a) == ((n + a - 1) \div a) * a

\* Faulty form: the contexts do not count.
IncrLenToEnd(w, ext) ==
  IF w.cur + ext >= w.alc
    THEN [w EXCEPT !.alc = @ + AlignUp(Max({@ \div 2, ext}), CtxSize(w))]
    ELSE w

\* incr_len
IncrLen(w, ext) ==
  IF w.cur + ext >= Ctx(w)
    THEN [w EXCEPT !.alc = @ + AlignUp(Max({@ \div 2, ext}), CtxSize(w))]
    ELSE w

Bytes(t) == CASE t \in {"str", "STR"} -> Width(t) + 2 [] t \in {"num", "lit"} -> Width(t)
              [] t = "indent" -> 4 [] OTHER -> 1

Emit(w, tokens) ==
  [w EXCEPT !.out = @ \o tokens, !.cur = @ + FoldLeft(LAMBDA n, t : n + Bytes(t), 0, tokens)]

Drop(w, n) == [w EXCEPT !.out = SubSeq(@, 1, Len(@) - n), !.cur = @ - n]

Opening(obj) == IF obj THEN "{" ELSE "["
Closing(obj) == IF obj THEN "}" ELSE "]"

\* In an object an even number of keys and values is left before a key.
IsKey(w) == w.obj /\ w.len % 2 = 0
NoIndent(w) == w.obj /\ w.len % 2 = 1
Indent(w) == IF NoIndent(w) THEN <<>> ELSE [i \in 1 .. w.level |-> "indent"]

-----------------------------------------------------------------------------
(* How the two kinds of document are walked *)

\* Faulty form: an object is entered at its last pair.
FirstChildTail(vals, c, mut) ==
  IF ~mut THEN c + 1 ELSE vals[vals[c].ptr].next

FirstChild(vals, c, mut) ==
  IF ~mut THEN c + 1
  ELSE IF vals[c].type = "obj" THEN vals[vals[vals[c].ptr].next].next
  ELSE vals[vals[c].ptr].next

\* val++, or val = val->next unless the container ends here.
Following(vals, w) == IF w.mut /\ w.len > 1 THEN vals[w.val].next ELSE w.val + 1

\* The value after the container that ends here.
AfterCtn(vals, w) == IF w.mut THEN vals[w.ctn].next ELSE w.val

\* One value less to write.
Written(vals, w) ==
  [w EXCEPT !.val = Following(vals, w), !.len = @ - 1,
            !.lab = IF w.len = 1 THEN "ctn_end" ELSE "val_begin"]

\* yyjson_write_ctx_set and yyjson_mut_write_ctx_set, and what follows.
Push(vals, w) ==
  [w EXCEPT !.ctxs = Append(@, [len |-> w.len, obj |-> w.obj, ctn |-> w.ctn]),
            !.ctn = w.val, !.len = Turns(vals[w.val]), !.obj = vals[w.val].type = "obj",
            !.val = FirstChild(vals, w.val, w.mut), !.level = @ + 1]

\* yyjson_write_ctx_get and yyjson_mut_write_ctx_get, and what follows.
Pop(vals, w) ==
  LET ctx == Last(w.ctxs)
  IN  [w EXCEPT !.ctxs = Front(@), !.ctn = ctx.ctn, !.len = ctx.len - 1, !.obj = ctx.obj,
                !.val = AfterCtn(vals, w),
                !.lab = IF ctx.len = 1 THEN "ctn_end" ELSE "val_begin"]

-----------------------------------------------------------------------------
(* The writers *)

\* doc_begin.  The root is a container that is not empty.
Begun(vals, style, mut, alc) ==
  LET obj == vals[1].type = "obj"
      open == IF style = "pretty" THEN <<Opening(obj), "nl">> ELSE <<Opening(obj)>>
  IN  Emit([lab |-> "val_begin", style |-> style, mut |-> mut, val |-> FirstChild(vals, 1, mut),
            ctn |-> 1, len |-> Turns(vals[1]), obj |-> obj, ctxs |-> <<>>, level |-> 1,
            alc |-> AlignUp(alc, IF mut THEN 16 ELSE 8), out |-> <<>>, cur |-> 0], open)

\* val_begin of yyjson_write_minify.
WriteMinify(vals, w) ==
  LET v == vals[w.val]
      g == IncrLen(w, Need(v))
      obj == v.type = "obj"
  IN  CASE ~IsCtn(v) -> Written(vals, Emit(g, <<v.type, IF IsKey(w) THEN ":" ELSE ",">>))
        [] IsCtn(v) /\ v.len = 0 -> Written(vals, Emit(g, <<Opening(obj), Closing(obj), ",">>))
        [] OTHER -> Emit(Push(vals, g), <<Opening(obj)>>)

\* ctn_end of yyjson_write_minify.
EndMinify(vals, w) ==
  LET e == Emit(Drop(w, 1), <<Closing(w.obj), ",">>)
  IN  IF w.ctxs = <<>> THEN [Drop(e, 1) EXCEPT !.lab = "written"] ELSE Pop(vals, e)

\* val_begin of yyjson_write_pretty.
WritePretty(vals, w) ==
  LET v == vals[w.val]
      obj == v.type = "obj"
      extra == IF IsCtn(v) /\ v.len > 0 THEN 32 ELSE Need(v)
      g == IncrLen(w, extra + 4 * Len(Indent(w)))
      after == IF IsKey(w) THEN <<":", " ">> ELSE <<",", "nl">>
  IN  CASE ~IsCtn(v) -> Written(vals, Emit(g, Indent(w) \o <<v.type>> \o after))
        [] IsCtn(v) /\ v.len = 0 ->
             Written(vals, Emit(g, Indent(w) \o <<Opening(obj), Closing(obj), ",", "nl">>))
        [] OTHER -> Emit(Push(vals, g), Indent(w) \o <<Opening(obj), "nl">>)

\* ctn_end of yyjson_write_pretty.
EndPretty(vals, w) ==
  LET g == IncrLen(Emit(Drop(w, 2), <<"nl">>), w.level * 4)
      e == Emit([g EXCEPT !.level = @ - 1],
                [i \in 1 .. w.level - 1 |-> "indent"] \o <<Closing(w.obj)>>)
  IN  IF w.ctxs = <<>> THEN [e EXCEPT !.lab = "written"]
      ELSE Emit(Pop(vals, e), <<",", "nl">>)

\* yyjson_mut_write_minify and yyjson_mut_write_pretty walk otherwise, and
\* have larger contexts.
MutWriteMinify(vals, w) ==
  IF w.lab = "val_begin" THEN WriteMinify(vals, w) ELSE EndMinify(vals, w)
MutWritePretty(vals, w) ==
  IF w.lab = "val_begin" THEN WritePretty(vals, w) ELSE EndPretty(vals, w)

\* yyjson_write_single, for a value that has none inside.
WriteSingle(v) ==
  [lab |-> "written", style |-> "single", mut |-> FALSE, val |-> 1, ctn |-> 1, len |-> 0,
   obj |-> FALSE, ctxs |-> <<>>, level |-> 0, cur |-> 0,
   alc |-> CASE IsCtn(v) -> 4 [] v.type = "num" -> 32 [] v.type = "lit" -> 8
             [] OTHER -> Width(v.type) + 4,
   out |-> IF IsCtn(v) THEN <<Opening(v.type = "obj"), Closing(v.type = "obj")>> ELSE <<v.type>>]

\* yyjson_write_opts
WriteOpts(vals, style) ==
  IF Len(vals) = 1 THEN WriteSingle(vals[1])
  ELSE Begun(vals, style, FALSE, Len(vals) * (IF style = "pretty" THEN 32 ELSE 18) + 64)

\* yyjson_mut_write_opts
MutWriteOpts(vals, style) ==
  IF ~IsCtn(vals[1]) \/ vals[1].len = 0 THEN WriteSingle(vals[1])
  ELSE Begun(vals, style, TRUE, 64)

\* One turn of a writer.
WriteTurn(vals, w) ==
  IF w.mut /\ w.style = "minify" THEN MutWriteMinify(vals, w)
  ELSE IF w.mut /\ w.style = "pretty" THEN MutWritePretty(vals, w)
  ELSE IF w.style = "minify" /\ w.lab = "val_begin" THEN WriteMinify(vals, w)
  ELSE IF w.style = "minify" THEN EndMinify(vals, w)
  ELSE IF w.lab = "val_begin" THEN WritePretty(vals, w)
  ELSE EndPretty(vals, w)

-----------------------------------------------------------------------------
(* A text and its document *)

CONSTANTS
  Tokens,    \* the tokens that are chosen
  MaxText,   \* bound: how many
  Documents, \* the texts that are given
  Flags,     \* the sets of flags, as records [stop, trailing, comments]
  Estimates  \* the numbers of bytes that a text may have

VARIABLES
  text, ended,  \* the text, and whether this is all of it
  flags, bytes, \* what yyjson_read_opts is called with
  r,            \* the reader
  copy,         \* the mutable document
  w             \* the writer

vars == <<text, ended, flags, bytes, r, copy, w>>

NoWriter == [lab |-> "none"]

Init == /\ \/ text = <<>> /\ ended = FALSE
           \/ text \in Documents /\ ended = TRUE
        /\ flags \in Flags /\ bytes \in Estimates
        /\ r = NoReader /\ copy = <<>> /\ w = NoWriter

\* The reader sees two tokens beyond its cursor.
Seen == ended \/ Len(text) >= r.cur + 2

Choose == /\ ~Seen /\ r.lab \notin {"read", "failed"}
          /\ \/ /\ Len(text) < MaxText
                /\ \E t \in Tokens : text' = Append(text, t)
                /\ UNCHANGED ended
             \/ ended' = TRUE /\ UNCHANGED text
          /\ UNCHANGED <<flags, bytes, r, copy, w>>

\* An allocation may fail where the array grows.
Read == /\ Seen /\ r.lab \notin {"read", "failed"}
        /\ \E n \in {ReadTurn(r, text, flags, bytes)} :
             \/ r' = n
             \/ n.alc # r.alc /\ r' = [r EXCEPT !.lab = "failed", !.err = "memory"]
        /\ UNCHANGED <<text, ended, flags, bytes, copy, w>>

Copy == /\ r.lab = "read" /\ copy = <<>> /\ w = NoWriter
        /\ copy' = MutCopy(r.vals)
        /\ UNCHANGED <<text, ended, flags, bytes, r, w>>

Write == /\ r.lab = "read" /\ w = NoWriter
         /\ \E style \in {"minify", "pretty"} :
              w' = IF copy = <<>> THEN WriteOpts(r.vals, style) ELSE MutWriteOpts(copy, style)
         /\ UNCHANGED <<text, ended, flags, bytes, r, copy>>

\* An allocation may fail where the buffer grows.
WriteOn == /\ w.lab \in {"val_begin", "ctn_end"}
           /\ \E n \in {WriteTurn(IF copy = <<>> THEN r.vals ELSE copy, w)} :
                w' = n \/ (n.alc # w.alc /\ w' = [lab |-> "failed"])
           /\ UNCHANGED <<text, ended, flags, bytes, r, copy>>

Next == Choose \/ Read \/ Copy \/ Write \/ WriteOn

Spec == Init /\ [][Next]_vars

-----------------------------------------------------------------------------
(* What a JSON text is *)

\* Whether s is a value, elements or members of containers, by its spans.
Grammar(s, trailing) ==
  LET n == Len(s)
      is[k \in {"value", "elems", "members"}, i \in 1 .. n, j \in 0 .. n] ==
        LET inside(kind, open, close) ==
              /\ i < j /\ s[i] = open /\ s[j] = close
              /\ i + 1 = j \/ is[kind, i + 1, j - 1]
            split(p, from) ==
              \/ is["value", from, j]
              \/ /\ trailing /\ from < j /\ s[j] = ","
                 /\ is["value", from, j - 1]
              \/ \E m \in from + 1 .. j - 1 : /\ s[m] = ","
                                              /\ is["value", from, m - 1] /\ is[p, m + 1, j]
        IN  CASE k = "value" -> \/ i = j /\ s[i] \in Scalars
                                \/ inside("elems", "[", "]") \/ inside("members", "{", "}")
              [] k = "elems" -> i <= j /\ split("elems", i)
              [] OTHER -> i + 2 <= j /\ s[i] \in StringTokens /\ s[i + 1] = ":"
                            /\ split("members", i + 2)
  IN  n > 0 /\ is["value", 1, n]

Bare(s) == SelectSeq(s, LAMBDA t : t \notin Blanks(flags))

\* The text without blanks and trailing commas.
Canonical(s) ==
  LET b == Bare(s)
      kept == {i \in DOMAIN b : ~(b[i] = "," /\ b[i + 1] \in {"]", "}"})}
  IN  [i \in DOMAIN b |-> IF i \in kept THEN b[i] ELSE "none"]

-----------------------------------------------------------------------------
(* Properties *)

\* The reader takes a text exactly when it is JSON: as a whole, or in a
\* prefix when it stops when it is done.
ReadsTheGrammar ==
  /\ r.lab = "read" =>
       Grammar(Bare(SubSeq(text, 1, r.cur - 1)), flags.trailing)
  /\ r.lab = "read" /\ ~flags.stop => ended /\ r.cur = Len(text) + 1
  /\ r.lab = "failed" /\ ended /\ r.err # "memory" =>
       \A n \in {Len(text)} \cup {k \in DOMAIN text : flags.stop} :
         ~Grammar(Bare(SubSeq(text, 1, n)), flags.trailing)

\* Every value lies in the array, and the pointer to the current container
\* points into it, wherever it has moved; the text and the contexts of a
\* writer do not meet in its buffer, which has room for the byte that ends it.
StaysInBuffers ==
  /\ r.lab \notin {"read_opts", "failed"} => At(Len(r.vals)) < r.alc /\ r.of = r.hdr
  /\ w.lab \notin {"none", "failed"} => w.cur <= Ctx(w) /\ w.cur < w.alc

\* How deep token i of s is, a closing bracket as deep as the opening one.
Depth(s, i) ==
  LET open == {k \in 1 .. i - 1 : s[k] \in {"[", "{"}}
      close == {k \in 1 .. i : s[k] \in {"]", "}"}}
  IN  Cardinality(open) - Cardinality(close)

\* What is written is what was read, through the mutable copy as well, and
\* every line of a pretty text is indented by its depth.
WritesWhatItRead ==
  w.lab = "written" =>
    /\ SelectSeq(w.out, LAMBDA t : t \notin {" ", "nl", "indent"})
         = SelectSeq(Canonical(SubSeq(text, 1, r.cur - 1)), LAMBDA t : t # "none")
    /\ \A i \in DOMAIN w.out : w.out[i] = "nl" =>
         LET line == CHOOSE j \in i + 1 .. Len(w.out) :
                       /\ w.out[j] # "indent"
                       /\ \A k \in i + 1 .. j - 1 : w.out[k] = "indent"
         IN  line - i - 1 = Depth(w.out, line)

=============================================================================
