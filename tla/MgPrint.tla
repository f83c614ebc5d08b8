------------------------------ MODULE MgPrint ------------------------------
(***************************************************************************)
(* mg_vxprintf of mongoose 7.12 (src/fmt.c) for one directive, printing    *)
(* into a buffer of a fixed size (mg_vsnprintf) and into one that grows    *)
(* (mg_vmprintf).  A character is put out in each step.                    *)
(*                                                                         *)
(* A real is a decimal number, m * 10^x with its sign, or none: it is      *)
(* calculated with as it is, where the code rounds to a double each time.  *)
(***************************************************************************)
EXTENDS Integers, Sequences, SequencesExt

CONSTANTS
  IntMod,    \* 2^32, and the values of an int and a long long are between
  LongMod,   \* -1/2 and 1/2 of it and of 2^64
  Values,    \* the numbers, negative ones included, that are printed
  Texts,     \* the strings
  Reals, RealPrecisions,
  DtoaBuf,   \* sizeof(buf) of mg_dtoa and sizeof(tmp) of mg_vxprintf: 40
  Widths, RealWidths, Precisions, BufSizes

NoPrec == -1

MgPrintAssumption ==
  /\ IntMod \in Nat /\ IntMod % 2 = 0 /\ LongMod \in Nat /\ LongMod % IntMod = 0
  /\ \A v \in Values : v > -(LongMod \div 2) /\ v < LongMod \div 2
  /\ DtoaBuf \in Nat \ {0}
  /\ \A v \in Reals : /\ v.kind \in {"number", "inf", "nan"} /\ v.neg \in BOOLEAN
                      /\ v.m \in Nat /\ (v.m # 0 => v.m % 10 # 0)
  /\ Precisions \cup RealPrecisions \subseteq Nat \cup {NoPrec} /\ Widths \cup RealWidths \cup BufSizes \subseteq Nat

VARIABLES
  d,      \* the directive, with its argument
  left,   \* what mg_vxprintf has still to put out
  n,      \* what it will return
  buf,    \* the buffer of a fixed size: its size, len and bytes
  heap    \* the one that grows

vars == <<d, left, n, buf, heap>>

NUL == "NUL"
Blank == " "

-----------------------------------------------------------------------------
(* mg_lld *)

DigitChars == <<"0", "1", "2", "3", "4", "5", "6", "7", "8", "9", "a", "b", "c", "d", "e", "f">>

Numeral(v, base) ==
  LET of[x \in 0 .. v] == IF x = 0 THEN <<>> ELSE Append(of[x \div base], DigitChars[(x % base) + 1])
  IN  IF v = 0 THEN <<"0">> ELSE of[v]

mg_lld(v, is_signed, is_hex) ==
  LET u == IF is_signed /\ v < 0 THEN -v ELSE v % LongMod
  IN  (IF is_signed /\ v < 0 THEN <<"-">> ELSE <<>>) \o Numeral(u, IF is_hex THEN 16 ELSE 10)

\* va_arg takes an int, sign included, or all of it.
AsInt(v) == LET u == v % IntMod IN IF 2 * u >= IntMod THEN u - IntMod ELSE u

Argument(x) ==
  IF x.long THEN x.arg ELSE IF x.conv = "d" THEN AsInt(x.arg) ELSE AsInt(x.arg) % IntMod

-----------------------------------------------------------------------------
(* mg_dtoa *)

\* What a buffer holds of a text.
Cut(text, size) == SubSeq(text, 1, Min({size - 1, Len(text)}))

Real(neg, m, x) == [kind |-> "number", neg |-> neg, m |-> m, x |-> x]
Zero == Real(FALSE, 0, 0)

\* The exponent of the first digit.
ExpOf(v) == v.x + Len(Numeral(v.m, 10)) - 1

\* The number v + 5 * 10^k.
PlusHalf(v, k) ==
  LET x == Min({v.x, k})
  IN  [v EXCEPT !.m = v.m * 10 ^ (v.x - x) + 5 * 10 ^ (k - x), !.x = x]

\* "Round": half of the last of width digits is added, and a tenth of that to
\* 1, 0.1, 0.01, ..., which are taken for the end of the decade below.
Rounded(v, width) ==
  LET q == IF v.m = 1 /\ v.x <= 0 THEN v.x - 1 ELSE ExpOf(v)
  IN  PlusHalf(v, q - width)

\* addexp, which leaves out a 0 in the tens of an exponent of three digits.
Exponent(e) ==
  LET a == IF e < 0 THEN -e ELSE e
      digit(k) == DigitChars[k + 1]
  IN  <<"e", IF e < 0 THEN "-" ELSE "+">>
      \o (IF a < 10 THEN <<"0">> ELSE <<>>)
      \o (IF a >= 100 THEN <<digit(a \div 100)>> ELSE <<>>)
      \o (IF a % 100 >= 10 THEN <<digit((a % 100) \div 10)>> ELSE <<>>)
      \o <<digit(a % 10)>>

\* Trailing zeros, as far as they are among the last k, and a dot behind those
\* of the k that are left.
Trimmed(text, k, tz) ==
  LET zeros == Max({j \in 0 .. k : (tz \/ j = 0) /\ \A i \in 1 .. j : text[Len(text) - i + 1] = "0"})
      kept == Len(text) - zeros
  IN  SubSeq(text, 1, IF k > zeros /\ text[kept] = "." THEN kept - 1 ELSE kept)

\* So many digits of r, from 10^k on.
DigitsFrom(r, k, count) ==
  LET digits == Numeral(r.m, 10)
      skipped == r.x + Len(digits) - 1 - k
  IN  [i \in 1 .. Max({0, count}) |->
         IF skipped + i \in DOMAIN digits THEN digits[skipped + i] ELSE "0"]

\* What is behind the sign and the whole part: the rest of width digits, the
\* zeros behind the dot of a number below 1 included, as far as there is room.
WithFraction(r, width, tz, whole, front) ==
  LET dot == IF Len(front) < DtoaBuf THEN <<".">> ELSE <<>>
      fraction == DigitsFrom(r, -1, Min({width - Len(whole), DtoaBuf - Len(front \o dot)}))
  IN  Cut(Trimmed(front \o dot \o fraction, Len(whole \o fraction), tz), DtoaBuf)

WithWhole(r, width, tz, sign, whole) ==
  WithFraction(r, width, tz, whole, sign \o (IF whole = <<>> THEN <<"0">> ELSE whole))

\* Without an exponent.
Digits(r, width, tz, sign) ==
  WithWhole(r, width, tz, sign,
            DigitsFrom(r, ExpOf(r), Min({ExpOf(r) + 1, DtoaBuf - Len(sign)})))

Plain(v, width, tz) == Digits(Rounded(v, width), width, tz, IF v.neg THEN <<"-">> ELSE <<>>)

\* The number is too large or too small to be printed without an exponent.
HasExponent(v, width) ==
  LET e == ExpOf(Rounded(v, width)) IN width > 1 /\ (e >= width \/ e <= -width)

\* Faulty form: of the number that has been rounded before.
RoundedTwice(v, width, tz) ==
  LET r == Rounded(v, width) IN Plain([r EXCEPT !.neg = FALSE, !.x = @ - ExpOf(r)], width, tz)

\* saved / mul, printed by mg_dtoa itself.
Mantissa(v, width, tz) ==
  Plain([v EXCEPT !.neg = FALSE, !.x = @ - ExpOf(Rounded(v, width))], width, tz)

\* The mantissa goes to the beginning of buf, over the sign, and the exponent
\* to where it would end if the sign were before it: behind the mantissa's NUL.
Scientific(v, width, tz) ==
  Mantissa(v, width, tz) \o (IF v.neg THEN <<>> ELSE Exponent(ExpOf(Rounded(v, width))))

mg_dtoa(v, width, tz) ==
  CASE v.kind = "nan" -> <<"n", "a", "n">>
    [] v.kind = "inf" -> (IF v.neg THEN <<"-">> ELSE <<>>) \o <<"i", "n", "f">>
    [] v.kind = "number" /\ v.m = 0 -> <<"0">>
    [] v.kind = "number" /\ v.m # 0 ->
         IF HasExponent(v, width) THEN Scientific(v, width, tz) ELSE Plain(v, width, tz)

IsReal(x) == x.conv \in {"g", "f"}
RealPrec(x) == IF x.pr = NoPrec THEN 6 ELSE x.pr

\* addexp writes behind the end of buf.
Overruns(x) ==
  LET v == x.real
      width == RealPrec(x)
  IN  /\ IsReal(x) /\ v.kind = "number" /\ v.m # 0 /\ HasExponent(v, width)
      /\ (IF v.neg THEN 1 ELSE 0) + Len(Mantissa(v, width, x.conv = "g"))
           + Len(Exponent(ExpOf(Rounded(v, width)))) > DtoaBuf

-----------------------------------------------------------------------------
(* mg_vxprintf *)

Pad(ch, k) == [i \in 1 .. (IF k > 0 THEN k ELSE 0) |-> ch]

\* Faulty form: the prefix does not count.
PrefixOutside(x) == x.w

\* What the prefix leaves of the width.
WidthLeft(x) == IF ~x.hash THEN x.w ELSE IF x.w > 2 THEN x.w - 2 ELSE 0

\* Numbers: blanks, prefix, zeros, digits, blanks.  Of a real that is longer
\* than tmp the whole length counts.
Padded(x, digits, shown) ==
  LET room == WidthLeft(x) - Len(digits)
  IN  (IF ~x.zero /\ ~x.minus THEN Pad(Blank, room) ELSE <<>>)
      \o (IF x.hash THEN <<"0", "x">> ELSE <<>>)
      \o (IF x.zero THEN Pad("0", room) ELSE <<>>)
      \o shown
      \o (IF ~x.zero /\ x.minus THEN Pad(Blank, room) ELSE <<>>)

PrintReal(x, digits) == Padded(x, digits, Cut(digits, DtoaBuf))
PrintInteger(x, digits) == Padded(x, digits, digits)

PrintNumber(x) ==
  IF IsReal(x) THEN PrintReal(x, mg_dtoa(x.real, RealPrec(x), x.conv = "g"))
  ELSE PrintInteger(x, mg_lld(Argument(x), x.conv = "d", x.conv \in {"x", "X", "p"}))

\* Strings, which are padded as if they were as long as the precision.
PrintString(x) ==
  LET pr == IF x.pr = NoPrec THEN Len(x.text) ELSE x.pr
      padding == Pad(IF x.zero THEN "0" ELSE Blank, x.w - pr)
  IN  (IF x.minus THEN <<>> ELSE padding)
      \o SubSeq(x.text, 1, IF pr < Len(x.text) THEN pr ELSE Len(x.text))
      \o (IF x.minus THEN padding ELSE <<>>)

mg_vxprintf(x) ==
  CASE x.conv \in {"d", "u", "x", "X", "p", "g", "f"} ->
         PrintNumber(IF x.conv = "p" THEN [x EXCEPT !.hash = TRUE, !.long = TRUE] ELSE x)
    [] x.conv = "s" -> PrintString(x)
    [] x.conv = "c" -> SubSeq(x.text, 1, 1)
    [] x.conv = "m" -> <<"\"">> \o x.text \o <<"\"">>
    [] x.conv = "M" -> x.text
    [] x.conv = "%" -> <<"%">>
    [] OTHER -> <<"%", x.conv>>

-----------------------------------------------------------------------------
(* Where the characters go *)

\* mg_pfn_iobuf_private: a character, and the zero behind it.
mg_pfn_iobuf(io, ch, expand) ==
  LET b == IF expand /\ Len(io.bytes) + 2 > io.size THEN [io EXCEPT !.size = Len(io.bytes) + 2] ELSE io
  IN  IF Len(b.bytes) + 2 <= b.size THEN [b EXCEPT !.bytes = Append(@, ch), !.zero = TRUE]
      ELSE IF Len(b.bytes) < b.size THEN [b EXCEPT !.bytes = Append(@, NUL), !.zero = FALSE]
      ELSE b

Io(size) == [size |-> size, bytes |-> <<>>, zero |-> FALSE]

Directives ==
  [conv : {"d", "u", "x", "X", "p"}, hash : BOOLEAN, minus : BOOLEAN, zero : BOOLEAN, long : BOOLEAN,
   w : Widths, pr : {NoPrec}, arg : Values, real : {Zero}, text : {<<>>}]
  \cup [conv : {"g", "f"}, hash : {FALSE}, minus : BOOLEAN, zero : BOOLEAN, long : {FALSE},
        w : RealWidths, pr : RealPrecisions, arg : {0}, real : Reals, text : {<<>>}]
  \cup [conv : {"s"}, hash : {FALSE}, minus : BOOLEAN, zero : {FALSE}, long : {FALSE}, w : Widths,
        pr : Precisions, arg : {0}, real : {Zero}, text : Texts]
  \cup [conv : {"c", "m", "M", "%", "k"}, hash : {FALSE}, minus : {FALSE}, zero : {FALSE}, long : {FALSE},
        w : {0}, pr : {NoPrec}, arg : {0}, real : {Zero}, text : Texts \ {<<>>}]

\* Behind the end of buf anything may be: the program goes on as if it were
\* longer, or ends.
Init ==
  /\ d \in Directives
  /\ left = mg_vxprintf(d) \/ (Overruns(d) /\ left = <<>>)
  /\ n = Len(left)
  /\ \E size \in BufSizes : buf = Io(size)
  /\ heap = Io(0)

Out ==
  /\ left # <<>>
  /\ buf' = mg_pfn_iobuf(buf, left[1], FALSE)
  /\ heap' = mg_pfn_iobuf(heap, left[1], TRUE)
  /\ left' = Tail(left)
  /\ UNCHANGED <<d, n>>

\* mg_vsnprintf puts the zero where there is room for all.
Terminate ==
  /\ left = <<>> /\ n < buf.size /\ ~buf.zero
  /\ buf' = [buf EXCEPT !.zero = TRUE]
  /\ UNCHANGED <<d, left, n, heap>>

Next == Out \/ Terminate

-----------------------------------------------------------------------------
(* Properties *)

\* What C prints: the prefix and zeros are part of the width, blanks stand on
\* one side, and a string is cut before it is padded.
LikeC(x) ==
  LET text == SubSeq(x.text, 1, IF x.pr # NoPrec /\ x.pr < Len(x.text) THEN x.pr ELSE Len(x.text))
      value == IF x.long THEN x.arg ELSE AsInt(x.arg)
      digits == IF x.conv = "d" THEN (IF value < 0 THEN <<"-">> \o Numeral(-value, 10) ELSE Numeral(value, 10))
                ELSE Numeral(value % (IF x.long THEN LongMod ELSE IntMod), IF x.conv = "u" THEN 10 ELSE 16)
      prefix == IF x.hash THEN <<"0", "x">> ELSE <<>>
      body == IF x.conv = "s" THEN text
              ELSE prefix \o (IF x.zero THEN Pad("0", x.w - Len(prefix \o digits)) ELSE <<>>) \o digits
  IN  IF x.minus THEN body \o Pad(Blank, x.w - Len(body)) ELSE Pad(Blank, x.w - Len(body)) \o body

\* Directives with flags that C has for them are printed as C prints them,
\* but for a zero before the digits of a negative number, for strings that are
\* shorter than their precision, and for X, which prints small letters.
PrintsLikeC ==
  heap.bytes = <<>> /\ d.conv \in {"d", "u", "x", "X", "s"} =>
    \/ left = LikeC(d)
    \/ d.hash /\ d.conv \notin {"x", "X"}
    \/ d.zero /\ (d.minus \/ (d.conv = "d" /\ d.arg < 0))
    \/ d.conv = "s" /\ d.pr > Len(d.text) /\ d.w > Len(d.text)

\* What a reader makes of the text of a real: the decimal number before the
\* exponent, and the exponent.
WholeNumber(digits) ==
  FoldLeft(LAMBDA k, ch : 10 * k + (CHOOSE i \in 0 .. 9 : DigitChars[i + 1] = ch), 0, digits)

ReadReal(s) ==
  LET at(ch) == Min({i \in 1 .. Len(s) : s[i] = ch} \cup {Len(s) + 1})
      dot == Min({at("."), at("e")})
      exp == SubSeq(s, at("e") + 2, Len(s))
      whole == SubSeq(s, IF s[1] = "-" THEN 2 ELSE 1, dot - 1)
      fraction == SubSeq(s, dot + 1, at("e") - 1)
  IN  [sci |-> at("e") <= Len(s), dot |-> at(".") <= Len(s), whole |-> whole, fraction |-> fraction,
       m |-> WholeNumber(whole \o fraction), x |-> -Len(fraction),
       e |-> IF exp = <<>> THEN 0
             ELSE IF s[at("e") + 1] = "-" THEN -WholeNumber(exp) ELSE WholeNumber(exp)]

\* a * 10^x and b * 10^y are no more than c * 10^k apart.
Near(a, x, b, y, c, k) ==
  LET low == Min({x, y, k})
      p == a * 10 ^ (x - low)
      q == b * 10 ^ (y - low)
  IN  (IF p < q THEN q - p ELSE p - q) <= c * 10 ^ (k - low)

\* What is read as the exponent e.
Misread(e) ==
  LET a == IF e < 0 THEN -e ELSE e
      b == IF a >= 100 /\ (a % 100) < 10 THEN 10 * (a \div 100) + (a % 10) ELSE a
  IN  IF e < 0 THEN -b ELSE b

\* The number is within half of the last of its digits, of which the precision
\* says how many there are in all (not behind the dot); one below 1 without an
\* exponent is cut to that many decimals.  Only what needs it has an exponent,
\* of which those from 100 to 109 and so on lack their 0; %g leaves no zero at
\* the end, and none a dot.  A precision of 0 or 1 adds half of that digit too, but
\* prints those behind it.
IsRounded(r, v, p) ==
  LET e == ExpOf(v)
      digits == p - (IF r.whole = <<"0">> THEN 0 ELSE Len(r.whole))
  IN  /\ r.sci => p > 1 /\ \E k \in {e, e + 1} :
                    /\ k >= p \/ k <= -p
                    /\ r.e = Misread(k) /\ Near(r.m, r.x + k, v.m, v.x, 5, e - p)
      /\ ~r.sci => CASE e >= 0 -> Near(r.m, r.x, v.m, v.x, 5, e - p)
                     [] e < 0 /\ e >= -p - 1 -> Near(r.m, r.x, v.m, v.x, 1, -p) /\ r.x >= -p
                     [] e < -p - 1 -> r.m = 0 /\ p < 2
      /\ p > 1 => /\ ~r.sci => r.m >= 10 \/ r.x > -p
                  /\ r.fraction = <<>> => ~r.dot
                  /\ IF d.conv = "f" THEN Len(r.fraction) = digits
                     ELSE Len(r.fraction) <= digits /\ (r.fraction # <<>> => Last(r.fraction) # "0")

\* Of the text of the real v, and that of its absolute value: it is a number near
\* to it, with its sign, but that a negative one that needs an exponent loses both
\* its sign and its exponent.
RealIsRead(v, p, text, positive) ==
  LET sci == "e" \in Range(positive) IN
  /\ sci \/ ExpOf(v) + 3 < DtoaBuf => IsRounded(ReadReal(IF v.neg /\ sci THEN positive ELSE text), v, p)
  /\ (text[1] = "-") = (v.neg /\ ~sci)
  /\ v.neg /\ sci => \E k \in DOMAIN positive :
                      positive[k] = "e" /\ text = SubSeq(positive, 1, k - 1)

RealIsPrinted(v, p, text, positive) ==
  LET padding == Pad(IF d.zero THEN "0" ELSE Blank, d.w - Len(text))
      safe == p \in 2 .. DtoaBuf - 7
      whole == safe \/ Len(positive) + 1 < DtoaBuf
  IN  /\ v.kind = "number" /\ v.m # 0 /\ whole => RealIsRead(v, p, text, positive)
      /\ v.kind = "number" /\ v.m = 0 => text = <<"0">>
      /\ v.kind = "inf" => text = (IF v.neg THEN <<"-">> ELSE <<>>) \o <<"i", "n", "f">>
      /\ safe => ~Overruns(d)
      /\ whole => left = IF d.minus /\ ~d.zero THEN text \o padding ELSE padding \o text

\* A real is printed as a number near to it, and then padded.  What is longer than
\* buf loses its end; but that is for a precision of 0 or 1, which has no exponents,
\* or of more than DtoaBuf - 7: with any other one there is room in buf, and it is
\* not overrun.
RealsAreRounded ==
  IsReal(d) /\ heap.bytes = <<>> /\ left # <<>> =>
    RealIsPrinted(d.real, RealPrec(d), mg_vxprintf([d EXCEPT !.w = 0]),
                  mg_vxprintf([d EXCEPT !.w = 0, !.real.neg = FALSE]))

\* In a buffer of a fixed size there is, in the end, the beginning of what was
\* printed, and a zero behind it; and all of it in one that grows.
BuffersAreTerminated ==
  left = <<>> /\ (buf.zero \/ n >= buf.size) /\ ~Overruns(d) =>
    LET all == mg_vxprintf(d) IN
    /\ n = Len(all)
    /\ heap.bytes = all
    /\ IF n < buf.size THEN buf.bytes = all /\ buf.zero
       ELSE buf.size > 0 => buf.bytes = SubSeq(all, 1, buf.size - 1) \o <<NUL>>

=============================================================================
