------------------------------ MODULE YyScalar ------------------------------
(***************************************************************************)
(* The numbers and strings of yyjson 0.3.0.  A number is a sequence of     *)
(* characters when it is read or has been written; before that it is the   *)
(* word of an integer, or the sign, the exponent and the significand of a  *)
(* double.  A string, up to its closing quote, is a sequence of items:     *)
(* bytes, escapes of one letter and \uXXXX escapes.                        *)
(***************************************************************************)
EXTENDS Integers, Sequences, SequencesExt

CONSTANTS
  SafeDigits,  \* U64_SAFE_DIG: so many digits always fit
  Max64,       \* U64_MAX, which has one digit more
  Half64,      \* 1 << 63, which has SafeDigits digits
  MaxExp, LowExp, \* F64_MAX_DEC_EXP, and 19 - F64_MIN_DEC_EXP
  Numbers,     \* the numbers that are read
  Literals,    \* the strings that are read
  WriteFlags,  \* the flags a string is written with, as records [slashes, unicode]
  SigBits, ExpBits, \* F64_SIG_BITS and F64_EXP_BITS: 52 and 11
  LowDot, HighDot,  \* 6 and 21: a number below 10 ^ -LowDot or not below
                    \* 10 ^ HighDot is written with an exponent
  Chunk, Half, \* 8 and 4: the digits that integers are written in chunks of
  Values       \* the integers that are written

YyScalarAssumption ==
  /\ Half64 \in Nat \ {0} /\ Max64 = 2 * Half64 - 1 /\ LowExp > 0 /\ MaxExp > 0
  /\ 10 ^ SafeDigits <= Max64 /\ Max64 < 10 ^ (SafeDigits + 1)
  /\ 10 ^ (SafeDigits - 1) <= Half64 /\ Half64 < 10 ^ SafeDigits
  /\ SigBits \in Nat \ {0} /\ ExpBits \in Nat \ {0, 1} /\ LowDot \in Nat /\ HighDot \in Nat
  /\ Chunk \in Nat \ {0} /\ Half \in 1 .. Chunk /\ Values \subseteq 0 .. 10 ^ (2 * Chunk + Half) - 1

-----------------------------------------------------------------------------
(* read_number *)

Digit(c) == CASE c = "0" -> 0 [] c = "1" -> 1 [] c = "2" -> 2 [] c = "3" -> 3 [] c = "4" -> 4
              [] c = "5" -> 5 [] c = "6" -> 6 [] c = "7" -> 7 [] c = "8" -> 8 [] c = "9" -> 9

Char(s, i) == IF i \in DOMAIN s THEN s[i] ELSE "end"
IsDigit(c) == c \in {"0", "1", "2", "3", "4", "5", "6", "7", "8", "9"}

\* Where the digits of s that begin at i end.
Run(s, i) == CHOOSE j \in i .. Len(s) + 1 :
               ~IsDigit(Char(s, j)) /\ \A k \in i .. j - 1 : IsDigit(s[k])

Number(digits) == FoldLeft(LAMBDA n, d : 10 * n + Digit(d), 0, digits)

Wrong(err) == [kind |-> "error", err |-> err, end |-> 1, sig |-> 0, exp |-> 0]
Result(kind, sig, exp, end) == [kind |-> kind, err |-> "none", end |-> end, sig |-> sig, exp |-> exp]

\* return_i64: what no signed integer holds is read as a real number.
Integer(sign, sig, end) ==
  IF sign /\ sig > Half64 THEN Result("real", sig, 0, end)
  ELSE Result(IF sign THEN "sint" ELSE "uint", sig, 0, end)

\* The significant digits, and by how many digits they are cut.
Significand(digits) ==
  LET kept == SubSeq(digits, 1, SafeDigits)
  IN  IF Len(digits) <= SafeDigits THEN [sig |-> Number(digits), cut |-> 0]
      ELSE [sig |-> Number(kept) + IF Digit(digits[SafeDigits + 1]) >= 5 THEN 1 ELSE 0,
            cut |-> Len(digits) - SafeDigits]

\* digi_exp_more and digi_exp_finish; i is at the letter, x is the exponent so
\* far.  A long exponent is not added up.
Exponent(s, i, sig, x) ==
  LET signed == Char(s, i + 1) \in {"+", "-"}
      from == IF signed THEN i + 2 ELSE i + 1
      end == Run(s, from)
      first == CHOOSE k \in from .. end : Char(s, k) # "0" /\ \A m \in from .. k - 1 : s[m] = "0"
      lit == Number(SubSeq(s, first, end - 1))
      minus == Char(s, i + 1) = "-"
      sum == x + IF minus THEN -lit ELSE lit
  IN  IF end = from THEN Wrong("exponent")
      ELSE IF end > from /\ end - first >= SafeDigits THEN
             IF minus THEN Result("zero", 0, 0, end) ELSE Wrong("infinity")
      ELSE IF sum < -LowExp THEN Result("zero", 0, 0, end)
      ELSE IF sum > MaxExp THEN Wrong("infinity")
      ELSE Result("real", sig, sum, end)

\* How many digits there are between the point and the end.
Places(dot, end) == IF dot < end THEN end - dot - 1 ELSE 0

\* digi_frac_more and digi_frac_end: the digits of s from "from" to "end" with
\* a point at dot, or at the end.
Real(s, from, dot, end) ==
  LET digits == SelectSeq(SubSeq(s, from, end - 1), IsDigit)
      first == SelectInSeq(digits, LAMBDA d : d # "0")
      m == Significand(SubSeq(digits, first, Len(digits)))
      exp == m.cut - Places(dot, end)
  IN  IF Char(s, end) = "e" THEN Exponent(s, end, m.sig, exp)
      ELSE IF exp < -LowExp THEN Result("zero", 0, 0, end)
      ELSE IF exp > MaxExp THEN Wrong("infinity")
      ELSE Result("real", m.sig, exp, end)

\* A number that begins with 0.
ReadZero(s, i, sign) ==
  LET next == Char(s, i + 1)
      end == IF next = "." THEN Run(s, i + 2) ELSE i + 1
      zeros == \A k \in i + 2 .. end - 1 : s[k] = "0"
      \* 0 with any exponent is still 0.
      exponent(k) == LET from == IF Char(s, k + 1) \in {"+", "-"} THEN k + 2 ELSE k + 1
                     IN  IF Run(s, from) = from THEN Wrong("exponent")
                         ELSE Result("zero", 0, 0, Run(s, from))
  IN  CASE next = "." /\ end = i + 2 -> Wrong("point")
        [] next = "." /\ end > i + 2 /\ ~zeros -> Real(s, i, i + 1, end)
        [] next = "." /\ end > i + 2 /\ zeros ->
             IF Char(s, end) = "e" THEN exponent(end) ELSE Result("zero", 0, 0, end)
        [] next = "e" -> exponent(i + 1)
        [] IsDigit(next) -> Wrong("leading")
        [] OTHER -> Integer(sign, 0, i + 1)

ReadNumber(s) ==
  LET sign == Char(s, 1) = "-"
      i == IF sign THEN 2 ELSE 1
      end == Run(s, i)
      n == end - i
      digits == SubSeq(s, i, end - 1)
      fits == n <= SafeDigits \/ (n = SafeDigits + 1 /\ Number(digits) <= Max64)
  IN  CASE n = 0 -> Wrong("sign")
        [] n > 0 /\ s[i] = "0" -> ReadZero(s, i, sign)
        [] n > 0 /\ s[i] # "0" /\ Char(s, end) = "." ->
             IF IsDigit(Char(s, end + 1)) THEN Real(s, i, end, Run(s, end + 1))
             ELSE Wrong("point")
        [] OTHER -> IF Char(s, end) # "e" /\ fits THEN Integer(sign, Number(digits), end)
                    ELSE Real(s, i, end, end)

-----------------------------------------------------------------------------
(* read_string *)

ByteItem(b) == [t |-> "byte", v |-> b]
Bytes(items) == [k \in DOMAIN items |-> ByteItem(items[k])]

ItemSize(i) == CASE i.t = "byte" -> 1 [] i.t = "u" -> 6 [] OTHER -> 2

\* The byte that item k of s begins with; an escape begins with a backslash,
\* and the string is followed by a quote.
Byte(s, k) == CASE k > Len(s) -> 34
                [] k <= Len(s) /\ s[k].t = "byte" -> s[k].v
                [] OTHER -> 92

Trails(s, k, n) == \A m \in k + 1 .. k + n : Byte(s, m) \div 64 = 2

\* Faulty form: the bits that a longer sequence must use are not required.
SeqLenLoose(s, k) ==
  LET b == Byte(s, k)
  IN  CASE b \div 16 = 14 /\ Trails(s, k, 2) -> 3
        [] b \div 32 = 6 /\ Trails(s, k, 1) -> 2
        [] b \div 8 = 30 /\ Trails(s, k, 3) -> 4
        [] OTHER -> 0

\* is_valid_seq_3, 2 and 4: the length of the UTF-8 sequence at k, or 0.
SeqLen(s, k) ==
  LET b == Byte(s, k)
      bit5 == (Byte(s, k + 1) % 64) \div 32
      bits45 == (Byte(s, k + 1) % 64) \div 16
  IN  CASE /\ b \div 16 = 14 /\ Trails(s, k, 2)
           /\ <<b % 16, bit5>> \notin {<<0, 0>>, <<13, 1>>} -> 3
        [] b \div 32 = 6 /\ Trails(s, k, 1) /\ (b % 32) \div 2 # 0 -> 2
        [] /\ b \div 8 = 30 /\ Trails(s, k, 3)
           /\ <<b % 8, bits45>> # <<0, 0>>
           /\ b % 8 < 4 \/ (b % 4 = 0 /\ bits45 = 0) -> 4
        [] OTHER -> 0

\* What a \uXXXX below 0x10000 and a surrogate pair are written as.
Encoded(u) ==
  CASE u >= 65536 -> <<240 + (u \div 262144), 128 + ((u \div 4096) % 64),
                       128 + ((u \div 64) % 64), 128 + (u % 64)>>
    [] u >= 2048 /\ u < 65536 -> <<224 + (u \div 4096), 128 + ((u \div 64) % 64), 128 + (u % 64)>>
    [] u >= 128 /\ u < 2048 -> <<192 + (u \div 64), 128 + (u % 64)>>
    [] OTHER -> <<u>>

NewString == [k |-> 1, src |-> 0, out |-> <<>>, err |-> "none"]

\* Takes n items and writes some bytes, in place.
Took(s, st, n, bytes) ==
  [st EXCEPT !.k = @ + n, !.out = @ \o bytes,
             !.src = @ + FoldLeft(LAMBDA sum, i : sum + ItemSize(i), 0, SubSeq(s, st.k, st.k + n - 1))]

Surrogates(s, st) ==
  LET hi == s[st.k].v
      next == s[st.k + 1]
      err(e) == [st EXCEPT !.err = e]
  IN  CASE hi \div 1024 # 54 -> err("high surrogate")
        [] hi \div 1024 = 54 /\ (st.k = Len(s) \/ (st.k < Len(s) /\ next.t # "u")) ->
             err("no low surrogate")
        [] hi \div 1024 = 54 /\ st.k < Len(s) /\ next.t = "u" /\ next.v \div 1024 # 55 ->
             err("low surrogate")
        [] OTHER -> Took(s, st, 2, Encoded((hi - 55296) * 1024 + (next.v - 56320) + 65536))

\* One item of a string that has not ended.
StringTurn(s, st) ==
  LET i == s[st.k]
      n == SeqLen(s, st.k)
  IN  CASE i.t = "byte" /\ i.v >= 128 ->
             IF n = 0 THEN [st EXCEPT !.err = "UTF-8"]
             ELSE Took(s, st, n, [m \in 1 .. n |-> Byte(s, st.k + m - 1)])
        [] i.t = "byte" /\ i.v < 32 -> [st EXCEPT !.err = "control"]
        [] i.t = "byte" /\ i.v \in 32 .. 127 -> Took(s, st, 1, <<i.v>>)
        [] i.t = "esc" -> Took(s, st, 1, <<i.v>>)
        [] i.t = "u" /\ i.v \div 2048 # 27 -> Took(s, st, 1, Encoded(i.v))
        [] i.t = "u" /\ i.v \div 2048 = 27 -> Surrogates(s, st)
        [] OTHER -> [st EXCEPT !.err = "escape"]

-----------------------------------------------------------------------------
(* write_string *)

\* esc_table_default and its three variants.
Escape(b, flags) ==
  CASE b \in {8, 9, 10, 12, 13, 34, 92} \/ (b = 47 /\ flags.slashes) -> "esc"
    [] b < 32 /\ b \notin {8, 9, 10, 12, 13} -> "u1"
    [] b >= 128 /\ flags.unicode -> CASE b \div 32 = 6 -> "u2" [] b \div 16 = 14 -> "u3"
                                      [] OTHER -> "u4"
    [] OTHER -> "none"

U(v) == [t |-> "u", v |-> v]

\* The items that a character at the beginning of bytes is written as, and
\* its length.
WriteChar(bytes, flags) ==
  LET b == bytes[1]
      low(m) == bytes[m] % 64
      kind == Escape(b, flags)
      u4 == (b % 8) * 262144 + low(2) * 4096 + low(3) * 64 + low(4) - 65536
  IN  CASE kind = "none" -> [n |-> 1, items |-> <<ByteItem(b)>>]
        [] kind = "esc" -> [n |-> 1, items |-> <<[t |-> "esc", v |-> b]>>]
        [] kind = "u1" -> [n |-> 1, items |-> <<U(b)>>]
        [] kind = "u2" -> [n |-> 2, items |-> <<U((b % 32) * 64 + low(2))>>]
        [] kind = "u3" -> [n |-> 3, items |-> <<U((b % 16) * 4096 + low(2) * 64 + low(3))>>]
        [] OTHER -> [n |-> 4, items |-> <<U((u4 \div 1024) + 55296), U((u4 % 1024) + 56320)>>]

\* write_string, for a string that is followed by a byte of 0.
WriteString(bytes, flags) ==
  LET from[k \in 1 .. Len(bytes) + 1] ==
        IF k > Len(bytes) THEN <<>>
        ELSE LET c == WriteChar(SubSeq(bytes, k, Len(bytes)), flags)
             IN  c.items \o from[k + c.n]
  IN  from[1]

-----------------------------------------------------------------------------
(* write_number: integers *)

Figure(d) == <<"0", "1", "2", "3", "4", "5", "6", "7", "8", "9">>[d + 1]

\* write_u32_len_8 and write_u32_len_4: n digits.
Padded(v, n) == [i \in 1 .. n |-> Figure((v \div 10 ^ (n - i)) % 10)]

DigitsOf(v) == CHOOSE n \in 1 .. 9 : v < 10 ^ n /\ (n = 1 \/ v >= 10 ^ (n - 1))

\* write_u32_len_1_8 and write_u64_len_5_8: no zero in front.
Plain(v) == Padded(v, DigitsOf(v))

write_u64(v) ==
  LET d == 10 ^ Chunk
      high == (v \div d) \div 10 ^ Half
  IN  CASE v < d -> Plain(v)
        [] v >= d /\ v < d * d -> Plain(v \div d) \o Padded(v, Chunk)
        [] OTHER -> Plain(high) \o Padded(v \div d, Half) \o Padded(v, Chunk)

\* write_u64_len_1_to_16 is its first two cases; of 17 digits the first one
\* stands alone.
write_u64_len_1_to_17(v) ==
  LET d == 10 ^ Chunk
      one == v \div (d * d)
  IN  IF v < d * 10 ^ (Chunk - 1) THEN write_u64(v)
      ELSE (IF one > 0 THEN <<Figure(one)>> ELSE <<>>) \o Padded(v \div d, Chunk) \o Padded(v, Chunk)

\* A word is negative when it is a signed one and its first bit is set.
Negative(x) == x.sub = "sint" /\ x.raw >= Half64
Magnitude(x) == IF Negative(x) THEN 2 * Half64 - x.raw ELSE x.raw

WriteInteger(x) == (IF Negative(x) THEN <<"-">> ELSE <<>>) \o write_u64(Magnitude(x))

-----------------------------------------------------------------------------
(* write_number: doubles *)

Bias == 2 ^ (ExpBits - 1) - 1
Normal(x) == x.exp # 0
SigBin(x) == IF Normal(x) THEN x.sig + 2 ^ SigBits ELSE x.sig
ExpBin(x) == (IF Normal(x) THEN x.exp ELSE 1) - Bias - SigBits

Pow(b, n) == IF n > 0 THEN b ^ n ELSE 1

\* round_to_odd: c * 2 ^ e / 10 ^ k, with its last bit set when it is not
\* exact.  (The 128 bits of the table of powers are enough for that.)
round_to_odd(c, e, k) ==
  LET num == c * Pow(5, -k) * Pow(2, e - k)
      den == Pow(5, k) * Pow(2, k - e)
      q == num \div den
  IN  IF num % den = 0 \/ q % 2 = 1 THEN q ELSE q + 1

\* The double below a power of two is closer than the one above.
LowerBoundCloser(x) == x.sig = 0 /\ x.exp > 1

\* Faulty form: the lower bound is as far away as the upper one.
f64_bin_to_dec_even(x) ==
  LET k == (ExpBin(x) * 315653) \div 2 ^ 20
      v(c) == round_to_odd(c, ExpBin(x), k)
      s == v(4 * SigBin(x)) \div 4
      sp == s \div 10
  IN  IF s >= 10 /\ v(4 * SigBin(x) - 2) <= 40 * sp THEN [sig |-> sp, exp |-> k + 1]
      ELSE [sig |-> s, exp |-> k]

\* The shortest decimal sig * 10 ^ exp that is read as the same double.
f64_bin_to_dec(x) ==
  LET odd == SigBin(x) % 2
      closer == LowerBoundCloser(x)
      c == 4 * SigBin(x)
      k == (ExpBin(x) * 315653 - IF closer THEN 131237 ELSE 0) \div 2 ^ 20
      v(n) == round_to_odd(n, ExpBin(x), k)
      vb == v(c)
      lower == v(IF closer THEN c - 1 ELSE c - 2) + odd
      upper == v(c + 2) - odd
      s == vb \div 4
      sp == s \div 10
      round_up == vb > 4 * s + 2 \/ (vb = 4 * s + 2 /\ s % 2 # 0)
      \* Which of a number n, in units of u / 4, and the next one are inside.
      u_inside(n, u) == lower <= u * n
      w_inside(n, u) == upper >= u * n + u
      next(n, up) == IF up THEN n + 1 ELSE n
  IN  IF s >= 10 /\ u_inside(sp, 40) # w_inside(sp, 40)
        THEN [sig |-> next(sp, w_inside(sp, 40)), exp |-> k + 1]
      ELSE IF u_inside(s, 4) # w_inside(s, 4)
        THEN [sig |-> next(s, w_inside(s, 4)), exp |-> k]
      ELSE [sig |-> next(s, round_up), exp |-> k]

\* write_u64_len_15_to_17_trim
Trimmed(digits) ==
  LET last == CHOOSE i \in DOMAIN digits : digits[i] # "0" /\ \A j \in i + 1 .. Len(digits) : digits[j] = "0"
  IN  SubSeq(digits, 1, last)

ZerosOf(n) == [i \in 1 .. n |-> "0"]

\* write_f64_exp
WriteExp(e) == <<"e">> \o (IF e < 0 THEN <<"-">> \o Plain(-e) ELSE Plain(e))

\* A normal number: the point is before the digits, among or behind them, or
\* there is an exponent.
WriteNormal(dec) ==
  LET digits == Trimmed(Plain(dec.sig))
      dot_pos == DigitsOf(dec.sig) + dec.exp
      filled == digits \o ZerosOf(dot_pos + 1)
      end == IF Len(digits) > dot_pos + 1 THEN Len(digits) ELSE dot_pos + 1
  IN  CASE -LowDot < dot_pos /\ dot_pos <= 0 -> <<"0", ".">> \o ZerosOf(-dot_pos) \o digits
        [] 0 < dot_pos /\ dot_pos <= HighDot ->
             SubSeq(filled, 1, dot_pos) \o <<".">> \o SubSeq(filled, dot_pos + 1, end)
        [] OTHER -> <<digits[1], ".">> \o Tail(digits) \o WriteExp(dot_pos - 1)

\* A subnormal one: the loop goes back over the zeros, and over the point.
WriteSubnormal(dec) ==
  LET all == write_u64_len_1_to_17(dec.sig)
      digits == Trimmed(all)
  IN  <<digits[1]>> \o (IF Len(digits) > 1 THEN <<".">> \o Tail(digits) ELSE <<>>)
        \o WriteExp(dec.exp + Len(all) - 1)

\* Infinity or not a number; YYJSON_WRITE_INF_AND_NAN_AS_NULL comes first.
Special(x) == x.exp = 2 ^ ExpBits - 1

WriteSpecial(x) ==
  CASE x.flag = "null" -> <<"null">>
    [] x.flag = "allow" -> IF x.sig # 0 THEN <<"NaN">> ELSE IF x.sign THEN <<"-", "Infinity">> ELSE <<"Infinity">>
    [] OTHER -> <<"failed">>

\* An integer that needs no shift is written as one.
SmallInteger(x) ==
  Normal(x) /\ ExpBin(x) \in -SigBits .. 0 /\ SigBin(x) % 2 ^ (-ExpBin(x)) = 0

write_f64_raw(x) ==
  IF Special(x) THEN WriteSpecial(x)
  ELSE (IF x.sign THEN <<"-">> ELSE <<>>)
       \o CASE x.exp = 0 /\ x.sig = 0 -> <<"0", ".", "0">>
            [] SmallInteger(x) -> write_u64(SigBin(x) \div 2 ^ (-ExpBin(x))) \o <<".", "0">>
            [] Normal(x) /\ ~SmallInteger(x) -> WriteNormal(f64_bin_to_dec(x))
            [] OTHER -> WriteSubnormal(f64_bin_to_dec(x))

write_number(x) == IF x.sub = "real" THEN write_f64_raw(x) ELSE WriteInteger(x)

-----------------------------------------------------------------------------
(* A number is read or written; a string is read, written and read again. *)

VARIABLES
  phase,
  item,  \* the number or the string
  st,    \* what came of the number, or how far the string has been read
  first  \* what was read the first time; what a number is written as

vars == <<phase, item, st, first>>

Doubles == [sub : {"real"}, sign : BOOLEAN, exp : 0 .. 2 ^ ExpBits - 1, sig : 0 .. 2 ^ SigBits - 1,
            flag : {"none", "null", "allow"}]

Words == [sub : {"uint"}, raw : Values] \cup [sub : {"uint", "sint"}, raw : 0 .. Max64]

Init == /\ first = <<>> /\ st = NewString
        /\ \/ phase = "number" /\ item \in Numbers
           \/ phase = "string" /\ item \in Literals
           \/ phase = "value" /\ item \in Doubles \cup Words

Read == /\ phase = "number"
        /\ phase' = "read" /\ st' = ReadNumber(item)
        /\ UNCHANGED <<item, first>>

Turn == /\ phase \in {"string", "again"} /\ st.err = "none" /\ st.k <= Len(item)
        /\ st' = StringTurn(item, st)
        /\ UNCHANGED <<phase, item, first>>

Write == /\ phase = "string" /\ st.err = "none" /\ st.k > Len(item)
         /\ \E f \in WriteFlags : item' = WriteString(st.out, f)
         /\ phase' = "again" /\ first' = st.out /\ st' = NewString

WriteNumber == /\ phase = "value"
               /\ phase' = "written" /\ first' = write_number(item)
               /\ UNCHANGED <<item, st>>

Next == Read \/ Turn \/ Write \/ WriteNumber

Spec == Init /\ [][Next]_vars

-----------------------------------------------------------------------------
(* What a number and a string of JSON are *)

\* The parts of a number, or none: its sign, its integer, its fraction and its
\* exponent.
Parts(s) ==
  LET digits(i, j) == i <= j /\ \A k \in i .. j : IsDigit(s[k])
      n == Len(s)
  IN  {p \in [sign : BOOLEAN, dot : 1 .. n + 1, e : 1 .. n + 1] :
         LET i == IF p.sign THEN 2 ELSE 1
             x == IF p.e < n /\ s[p.e + 1] \in {"+", "-"} THEN p.e + 2 ELSE p.e + 1
         IN  /\ p.sign => s[1] = "-"
             /\ p.dot <= p.e
             /\ digits(i, p.dot - 1) /\ (s[i] = "0" => p.dot = i + 1)
             /\ p.dot < p.e => s[p.dot] = "." /\ digits(p.dot + 1, p.e - 1)
             /\ p.e <= n => s[p.e] = "e" /\ digits(x, n)}

\* The value of a number with parts p is sig * 10 ^ exp, which is less than
\* 10 ^ top.
Value(s, p) ==
  LET digits == SelectSeq(SubSeq(s, 1, p.e - 1), IsDigit)
      nonzero == SelectInSeq(digits, LAMBDA d : d # "0")
      x == Number(SelectSeq(SubSeq(s, p.e + 1, Len(s)), IsDigit))
      exp == (IF Char(s, p.e + 1) = "-" THEN -x ELSE x)
               - (IF p.dot < p.e THEN p.e - p.dot - 1 ELSE 0)
  IN  [sig |-> Number(digits), exp |-> exp,
       top |-> exp + IF nonzero = 0 THEN 0 ELSE Len(digits) - nonzero + 1]

\* RFC 3629: the sequences of bytes that are characters.
Utf8 ==
  LET tail == 128 .. 191
  IN  {<<0 .. 127>>, <<194 .. 223, tail>>, <<{224}, 160 .. 191, tail>>,
       <<225 .. 236 \cup 238 .. 239, tail, tail>>, <<{237}, 128 .. 159, tail>>,
       <<{240}, 144 .. 191, tail, tail>>, <<241 .. 243, tail, tail, tail>>,
       <<{244}, 128 .. 143, tail, tail>>}

IsUtf8(b) ==
  LET from[k \in 1 .. Len(b) + 1] ==
        \/ k > Len(b)
        \/ \E c \in Utf8 : /\ k + Len(c) <= Len(b) + 1
                           /\ \A m \in DOMAIN c : b[k + m - 1] \in c[m]
                           /\ from[k + Len(c)]
  IN  from[1]

\* Whether every escaped surrogate is half of a pair.
Paired(s) ==
  LET at(k, n) == k \in DOMAIN s /\ s[k].t = "u" /\ s[k].v \div 1024 = n
  IN  \A k \in 0 .. Len(s) : at(k, 54) <=> at(k + 1, 55)

-----------------------------------------------------------------------------
(* Properties *)

\* A text is read as a number when it is one by the grammar of JSON.  It is an
\* integer when it has no point and no exponent and 64 bits hold it; otherwise
\* it is right to half a unit of its last digit that is kept; it is zero or too
\* large only beyond the exponents of a double.
ReadsNumbers ==
  phase = "read" =>
    /\ st.err # "infinity" =>
         (Parts(item) # {} <=> st.kind # "error" /\ st.end = Len(item) + 1)
    /\ \A p \in Parts(item) :
         LET v == Value(item, p)
             integer == p.dot = Len(item) + 1 /\ v.sig <= IF p.sign THEN Half64 ELSE Max64
             cut == 10 ^ (st.exp - v.exp)
             off == v.sig - st.sig * cut
         IN  CASE st.kind \in {"uint", "sint"} ->
                    integer /\ st.sig = v.sig /\ p.sign = (st.kind = "sint")
               [] st.kind = "real" ->
                    /\ ~integer /\ st.exp >= v.exp
                    /\ IF cut = 1 THEN off = 0 ELSE 2 * off \in -cut .. cut
               [] st.kind = "zero" -> v.sig = 0 \/ v.top <= SafeDigits - LowExp
               [] st.kind = "error" -> v.sig > 0 /\ v.top - 1 > MaxExp

\* A string is read when its bytes are UTF-8, its escapes are known and its
\* surrogates are paired; what it is read as is UTF-8 again and never
\* overtakes the text, in whose place it is written; and it stays the same
\* when it is written, in at most six bytes for each of its own, and read
\* again.
StringsSurvive ==
  /\ phase = "string" /\ (st.err # "none" \/ st.k > Len(item)) =>
       (st.err = "none" <=>
          /\ Paired(item)
          /\ \A k \in DOMAIN item : item[k].t # "byte" => item[k].t \in {"esc", "u"}
          /\ IsUtf8([k \in DOMAIN item |-> IF item[k].t = "byte" THEN item[k].v ELSE 0])
          /\ \A k \in DOMAIN item : item[k].t = "byte" => item[k].v >= 32)
  /\ phase = "string" => Len(st.out) <= st.src
  /\ phase = "string" /\ st.err = "none" => IsUtf8(st.out)
  /\ phase = "again" => st.err = "none" /\ st.src <= 6 * Len(first)
  /\ phase = "again" /\ st.k > Len(item) => st.out = first

\* An integer is written in its digits, and read as itself if there are no
\* more than 64 bits.
IntegersComeBack ==
  phase = "written" /\ item.sub # "real" =>
    LET digits == IF Negative(item) THEN Tail(first) ELSE first
        kind == IF Negative(item) THEN "sint" ELSE "uint"
    IN  /\ Number(digits) = Magnitude(item) /\ (digits[1] = "0" => digits = <<"0">>)
        /\ Head(first) = "-" <=> Negative(item)
        /\ item.raw <= Max64 => ReadNumber(first) = Result(kind, Magnitude(item), 0, Len(first) + 1)

\* The sign of a * 10 ^ m - c * 2 ^ e.
Compare(a, m, c, e) ==
  a * Pow(5, m) * Pow(2, m - e) - c * Pow(5, -m) * Pow(2, e - m)

\* Whether a * 10 ^ m is rounded to the double x.
RoundsTo(a, m, x) ==
  LET lo == Compare(a, m, 4 * SigBin(x) - (IF LowerBoundCloser(x) THEN 1 ELSE 2), ExpBin(x) - 2)
      hi == Compare(a, m, 4 * SigBin(x) + 2, ExpBin(x) - 2)
  IN  IF SigBin(x) % 2 = 0 THEN lo >= 0 /\ hi <= 0 ELSE lo > 0 /\ hi < 0

\* How far a * 10 ^ m is from x, in a unit that depends on m only.
Distance(a, m, x) ==
  LET d == Compare(a, m, SigBin(x), ExpBin(x)) IN IF d < 0 THEN -d ELSE d

Finite == phase = "written" /\ item.sub = "real" /\ ~Special(item)

\* The text, and what it is without a point that no digit follows.
Mended ==
  LET at == SelectInSeq(first, LAMBDA ch : ch = ".")
  IN  IF at # 0 /\ Char(first, at + 1) = "e" THEN RemoveAt(first, at) ELSE first

\* A finite double is written with a point or an exponent, and as a number
\* that is rounded to it, is the closest of those with as many digits, and has
\* the fewest digits of all that are; but for the digit that is missing when a
\* normal number has an exponent and one digit only.
RealsComeBack ==
  Finite =>
    \E p \in Parts(Mended) :
      LET v == Value(Mended, p)
          zeros == CHOOSE z \in 0 .. 9 : v.sig % 10 ^ z = 0 /\ (v.sig = 0 \/ v.sig % 10 ^ (z + 1) # 0)
          a == v.sig \div 10 ^ zeros
          m == v.exp + zeros
      IN  /\ p.sign = item.sign
          /\ p.dot <= Len(first)
          /\ IF SigBin(item) = 0 THEN v.sig = 0
             ELSE /\ RoundsTo(a, m, item)
                  /\ \A b \in {a - 1, a + 1} :
                       RoundsTo(b, m, item) => Distance(a, m, item) <= Distance(b, m, item)
                  /\ \A b \in {a \div 10, (a \div 10) + 1} : a >= 10 => ~RoundsTo(b, m + 1, item)

\* "Write a JSON number", says yyjson.c of write_number.
RealsAreJson == Finite => Parts(first) # {}

=============================================================================
