------------------------------- MODULE MgText -------------------------------
(***************************************************************************)
(* Texts of mongoose 7.12: those that stand for bytes, base64, hexadecimal,*)
(* numbers and addresses (src/base64.c, src/str.c, src/net.c, src/fmt.c),  *)
(* and those that are taken apart (src/http.c, src/url.c), lists of names  *)
(* and values, percent-encoding, parameters of a header, the parts of a    *)
(* multipart body, URLs, paths and patterns.                               *)
(*                                                                         *)
(* A character is its code.  A text grows by one of them in a step, and    *)
(* the properties compare what becomes of it with a definition of what     *)
(* should; a pattern, its text and the two parts of a body are split from  *)
(* one text.  The text of a digest, MD5 or SHA-1 (src/md5.c, src/sha1.c),  *)
(* is the lengths of the pieces in which a message comes: what matters is  *)
(* how they are cut into blocks, counted and padded, and the state of a    *)
(* digest is the blocks that the transformation was given.                 *)
(***************************************************************************)
EXTENDS Integers, Sequences, SequencesExt, FiniteSetsExt

CONSTANTS
  Chars,       \* the alphabet of each of the kinds below
  Lengths,     \* bound: how long a text of it grows
  Beginnings,  \* what addresses begin with
  SizeMax,     \* (size_t) -1
  Block,       \* the bytes of a block of a digest: 64
  Words,       \* the bytes that the two words of the length take in it: 8
  Mod          \* of the arithmetic of such a word: 2^32

MgTextAssumption ==
  /\ Words \in Nat \ {0} /\ Words % 2 = 0 /\ Block \in Nat /\ Words < Block
  /\ Mod \in Nat \ {0} /\ Mod % (8 * Block) = 0

VARIABLES
  kind,  \* what the text is
  text,  \* its bytes or characters
  more   \* how many of them may follow

vars == <<kind, text, more>>

Kinds == {"bytes", "number", "address", "form", "header", "parts", "url", "path", "match",
          "digest"}

Char0 == 48
Char9 == 57
CharA == 65
CharZ == 90
Chara == 97
Charz == 122
Space == 32
Tab == 9
Minus == 45
Dot == 46
Colon == 58
Percent == 37
Open == 91
Close == 93
Equals == 61
Plus == 43
Slash == 47
Amp == 38
Comma == 44
Semi == 59
Quote == 34
At0 == 64
Star == 42
Hash == 35
Question == 63
CR == 13
LF == 10
Back == 92

Digit(ch) == ch \in Char0 .. Char9
HexDigit(ch) == Digit(ch) \/ ch \in Chara .. Chara + 5 \/ ch \in CharA .. CharA + 5

\* The characters of s from i + 1 on, and n of them.
Drop(s, i) == SubSeq(s, i + 1, Len(s))
Take(s, i, n) == SubSeq(s, i + 1, i + n)
At(s, i) == s[i + 1]

-----------------------------------------------------------------------------
(* base64.c *)

mg_base64_encode_single(c) ==
  CASE c < 26 -> c + CharA
    [] c \in 26 .. 51 -> (c - 26) + Chara
    [] c \in 52 .. 61 -> (c - 52) + Char0
    [] c = 62 -> Plus
    [] OTHER -> Slash

mg_base64_decode_single(c) ==
  CASE c \in CharA .. CharZ -> c - CharA
    [] c \in Chara .. Charz -> (c + 26) - Chara
    [] Digit(c) -> (c + 52) - Char0
    [] c = Plus -> 62
    [] c = Slash -> 63
    [] c = Equals -> 64
    [] OTHER -> -1

\* A text of n characters that is followed by the bits of the next one.
Started == [n |-> 0, to |-> <<>>]

mg_base64_update(t, ch) ==
  LET done == SubSeq(t.to, 1, t.n)
      rem == (t.n % 4) % 3
      enc(v) == mg_base64_encode_single(v)
  IN  CASE rem = 0 -> [n |-> t.n + 1, to |-> done \o <<enc(ch \div 4), (ch % 4) * 16>>]
        [] rem = 1 -> [n |-> t.n + 1, to |-> done \o <<enc(t.to[t.n + 1] + (ch \div 16)), (ch % 16) * 4>>]
        [] OTHER -> [n |-> t.n + 2, to |-> done \o <<enc(t.to[t.n + 1] + (ch \div 64)), enc(ch % 64)>>]

\* The bits that are left, and padding up to a multiple of four.
mg_base64_final(t) ==
  LET u == IF t.n % 4 # 0 THEN mg_base64_update(t, 0) ELSE t
      n == IF t.n % 4 = 2 THEN u.n - 1 ELSE u.n
  IN  SubSeq(u.to, 1, n) \o [i \in 1 .. (4 - (n % 4)) % 4 |-> Equals]

Updates(t, p) == FoldLeft(mg_base64_update, t, p)

\* Into a buffer of dl characters.
mg_base64_encode(p, dl) ==
  IF dl < (((Len(p) + 2) \div 3) * 4) + 1 THEN <<>> ELSE mg_base64_final(Updates(Started, p))

Group(s, i) == [j \in 1 .. 4 |-> mg_base64_decode_single(s[(4 * i) + j])]

\* The bytes of a group of four; <<>> if it is none.
Decoded(g) ==
  IF g[1] \in {64, -1} \/ g[2] \in {64, -1} \/ -1 \in {g[3], g[4]} THEN <<>>
  ELSE <<((g[1] * 4) + (g[2] \div 16)) % 256>>
       \o (IF g[3] = 64 THEN <<>>
           ELSE <<((g[2] * 16) + (g[3] \div 4)) % 256>>
                \o (IF g[4] = 64 THEN <<>> ELSE <<((g[3] * 64) + g[4]) % 256>>))

mg_base64_decode(s, dl) ==
  LET gs == [i \in 1 .. Len(s) \div 4 |-> Decoded(Group(s, i - 1))]
  IN  IF dl < ((Len(s) \div 4) * 3) + 1 \/ \E i \in DOMAIN gs : gs[i] = <<>> THEN <<>>
      ELSE FlattenSeq(gs)

\* bcpy, the %M form of the same.
bcpy(p) ==
  LET byte(i) == IF i \in DOMAIN p THEN p[i] ELSE 0
      enc(v) == mg_base64_encode_single(v)
      group(i) == <<enc(byte(i) \div 4), enc(((byte(i) % 4) * 16) + (byte(i + 1) \div 16)),
                    IF i + 1 \in DOMAIN p THEN enc(((byte(i + 1) % 16) * 4) + (byte(i + 2) \div 64)) ELSE Equals,
                    IF i + 2 \in DOMAIN p THEN enc(byte(i + 2) % 64) ELSE Equals>>
  IN  FlattenSeq([k \in 1 .. (Len(p) + 2) \div 3 |-> group((3 * k) - 2)])

-----------------------------------------------------------------------------
(* A user and a password in the Authorization header *)

\* mg_http_bauth: what follows "Basic ", and the room that is made for the line.
mg_http_bauth(user, pass) ==
  LET t == Updates(Started, user)
  IN  mg_base64_final(IF pass = <<>> THEN t ELSE Updates(t, <<Colon>> \o pass))

Need(user, pass) == 36 + ((Len(user) + Len(pass)) * 2)

\* mg_http_creds: the name and the password, or no name.
mg_http_creds(s) ==
  LET buf == mg_base64_decode(s, 256)
      at == SelectInSeq(buf, LAMBDA ch : ch = Colon)
  IN  IF at = 0 THEN <<<<>>, <<>>>> ELSE <<SubSeq(buf, 1, at - 1), Drop(buf, at)>>

-----------------------------------------------------------------------------
(* Hexadecimal *)

HexOf(v) == IF v < 10 THEN Char0 + v ELSE Chara + (v - 10)
mg_hex(p) == FlattenSeq([i \in 1 .. Len(p) |-> <<HexOf(p[i] \div 16), HexOf(p[i] % 16)>>])

mg_unhex_nimble(c) ==
  CASE Digit(c) -> c - Char0
    [] c \in CharA .. CharA + 5 -> c - 55
    [] OTHER -> c - 87

mg_unhexn(s) == FoldLeft(LAMBDA v, c : (v * 16) + mg_unhex_nimble(c), 0, s)
mg_unhex(s) == [i \in 1 .. Len(s) \div 2 |-> mg_unhexn(SubSeq(s, (2 * i) - 1, 2 * i))]

-----------------------------------------------------------------------------
(* mg_to_size_t *)

NoSize == -1
Blank(ch) == ch \in {Space, Tab}

\* Where the run of characters that satisfy Is and begins at i ends.
RunEnd(s, i, Is(_)) == CHOOSE j \in i .. Len(s) : (\A k \in i .. j - 1 : Is(At(s, k)))
                                                 /\ (j = Len(s) \/ ~Is(At(s, j)))

\* Faulty form: only the multiplication is checked.
AddDigitWraps(v, d) ==
  IF v = NoSize \/ v > SizeMax \div 10 THEN NoSize ELSE ((v * 10) + d) % (SizeMax + 1)

\* One digit more: neither the multiplication nor the addition may overflow.
AddDigit(v, d) ==
  IF v = NoSize \/ v > SizeMax \div 10 \/ v * 10 > SizeMax - d THEN NoSize ELSE (v * 10) + d

mg_to_size_t(s) ==
  LET i == RunEnd(s, 0, Blank)
      j == RunEnd(s, i, Digit)
  IN  IF i = j \/ RunEnd(s, j, Blank) # Len(s) THEN NoSize
      ELSE FoldLeft(LAMBDA v, ch : AddDigit(v, ch - Char0), 0, SubSeq(s, i + 1, j))

-----------------------------------------------------------------------------
(* Addresses *)

NoAddr == [ip |-> <<>>, is_ip6 |-> FALSE]
Ip4(d) == [ip |-> d, is_ip6 |-> FALSE]
Ip6(d) == [ip |-> d, is_ip6 |-> TRUE]

\* mg_aton4, character by character; dots is -1 after an error.
Octet(a, s, i) ==
  LET ch == At(s, i)
      v == (a.data[a.dots + 1] * 10) + (ch - Char0)
      err == [a EXCEPT !.dots = -1]
  IN  CASE a.dots = -1 -> a
        [] a.dots # -1 /\ Digit(ch) -> IF v > 255 THEN err ELSE [a EXCEPT !.data[a.dots + 1] = v]
        [] a.dots # -1 /\ ch = Dot ->
             IF a.dots >= 3 \/ i = 0 THEN err ELSE IF At(s, i - 1) = Dot THEN err ELSE [a EXCEPT !.dots = @ + 1]
        [] OTHER -> err

mg_aton4(s) ==
  LET a == FoldLeftDomain(LAMBDA x, i : Octet(x, s, i - 1), [data |-> <<0, 0, 0, 0>>, dots |-> 0], s)
  IN  IF a.dots # 3 \/ Last(s) = Dot THEN NoAddr ELSE Ip4(a.data)

\* mg_v4mapped: ::ffff:1.2.3.4
mg_v4mapped(s) ==
  LET ff(ch) == ch \in {Chara + 5, CharA + 5}
      a == mg_aton4(Drop(s, 7))
  IN  IF /\ Len(s) >= 14 /\ s[1] = Colon /\ s[2] = Colon /\ s[7] = Colon
         /\ \A i \in 3 .. 6 : ff(s[i])
      THEN IF a = NoAddr THEN NoAddr ELSE Ip6([i \in 1 .. 16 |-> IF i <= 10 THEN 0 ELSE IF i <= 12 THEN 255 ELSE a.ip[i - 12]])
      ELSE NoAddr

\* mg_aton6, character by character: j is where the group began, n the byte it
\* goes to, dc the byte of the double colon (42: none).
Group6(a, s, i) ==
  LET ch == At(s, i)
      err == [a EXCEPT !.err = TRUE]
      val == mg_unhexn(SubSeq(s, a.j + 1, i + 1))
      twice == i > 0 /\ At(s, i - 1) = Colon
      n == IF i > 0 /\ ~twice THEN a.n + 2 ELSE a.n
  IN  CASE a.err \/ a.scope -> IF a.scope /\ ~Digit(ch) THEN err ELSE a
        [] ~(a.err \/ a.scope) /\ HexDigit(ch) ->
             IF i > a.j + 3 THEN err
             ELSE [a EXCEPT !.ip = [@ EXCEPT ![a.n + 1] = (val \div 256) % 256, ![a.n + 2] = val % 256]]
        [] ~(a.err \/ a.scope) /\ ch = Colon ->
             IF (twice /\ i > 1 /\ At(s, i - 2) = Colon) \/ n > 14 THEN err
             ELSE [a EXCEPT !.j = i + 1, !.n = n, !.dc = IF twice THEN n ELSE @,
                            !.ip = [@ EXCEPT ![n + 1] = 0, ![n + 2] = 0]]
        [] ~(a.err \/ a.scope) /\ ch = Percent -> [a EXCEPT !.scope = TRUE]
        [] OTHER -> err

\* The groups behind the double colon move to the end, and zeros come between.
Spread(a) ==
  LET gap == 14 - a.n
  IN  [k \in 1 .. 16 |-> CASE k <= a.dc -> a.ip[k]
                           [] k > a.dc /\ k <= a.dc + gap -> 0
                           [] OTHER -> a.ip[k - gap]]

mg_aton6(str) ==
  LET s == IF Len(str) > 2 /\ str[1] = Open THEN SubSeq(str, 2, Len(str) - 1) ELSE str
      a == FoldLeftDomain(LAMBDA x, i : Group6(x, s, i - 1),
             [ip |-> [k \in 1 .. 16 |-> 0], j |-> 0, n |-> 0, dc |-> 42, scope |-> FALSE, err |-> FALSE], s)
  IN  IF mg_v4mapped(s) # NoAddr THEN mg_v4mapped(s)
      ELSE IF a.err \/ (a.n < 14 /\ a.dc = 42) THEN NoAddr
      ELSE Ip6(IF a.n < 14 THEN Spread(a) ELSE a.ip)

\* mg_aton, but for the name "localhost".
mg_aton(s) ==
  CASE s = <<>> -> Ip4(<<0, 0, 0, 0>>)
    [] s # <<>> /\ mg_aton4(s) # NoAddr -> mg_aton4(s)
    [] OTHER -> mg_aton6(s)

\* mg_lld: the digits of a number that is not negative.
Digits(v) ==
  LET of[n \in 0 .. v] == IF n < 10 THEN <<Char0 + n>> ELSE Append(of[n \div 10], Char0 + (n % 10)) IN of[v]

HexDigits(v) ==
  LET of[n \in 0 .. v] == IF n < 16 THEN <<HexOf(n)>> ELSE Append(of[n \div 16], HexOf(n % 16)) IN of[v]

Joined(parts, ch) == FlattenSeq([i \in 1 .. Len(parts) |-> IF i = 1 THEN parts[i] ELSE <<ch>> \o parts[i]])

print_ip4(ip) == Joined([i \in 1 .. 4 |-> Digits(ip[i])], Dot)

print_ip6(ip) ==
  <<Open>> \o Joined([i \in 1 .. 8 |-> HexDigits((256 * ip[(2 * i) - 1]) + ip[2 * i])], Colon) \o <<Close>>

mg_print_ip(a) == IF a.is_ip6 THEN print_ip6(a.ip) ELSE print_ip4(a.ip)

mg_print_mac(mac) == Joined([i \in 1 .. Len(mac) |-> mg_hex(<<mac[i]>>)], Colon)

-----------------------------------------------------------------------------
(* Texts that are taken apart *)

\* The index, from 0 on, of the first character of s for which Is holds, or
\* the length of s.
Find(s, from, Is(_)) == RunEnd(s, from, LAMBDA ch : ~Is(ch))

mg_lower(ch) == IF ch \in CharA .. CharZ THEN ch + 32 ELSE ch
SameName(s, t) == Len(s) = Len(t) /\ \A i \in DOMAIN s : mg_lower(s[i]) = mg_lower(t[i])

\* The characters of t stand in s at i.
Matches(s, i, t) == i + Len(t) <= Len(s) /\ Take(s, i, Len(t)) = t

-----------------------------------------------------------------------------
(* Names and values *)

\* mg_nce: the name, the value, and where the next pair begins.
mg_nce(s, i, delim) ==
  LET e == Find(s, i, LAMBDA ch : ch = delim)
      kv == SubSeq(s, i + 1, e)
      q == Find(kv, 0, LAMBDA ch : ch = Equals)
  IN  [k |-> SubSeq(kv, 1, q), v |-> Drop(kv, q + 1), next |-> IF e + 1 > Len(s) THEN Len(s) ELSE e + 1]

\* mg_split, as often as it goes.
mg_split(s, sep) ==
  LET of[i \in 0 .. Len(s)] ==
        IF i = Len(s) THEN <<>> ELSE LET x == mg_nce(s, i, sep) IN <<x>> \o of[x.next]
  IN  of[0]

NoText == <<-1>>

mg_http_var(buf, name) ==
  LET ps == mg_split(buf, Amp)
      i == SelectInSeq(ps, LAMBDA x : SameName(x.k, name))
  IN  IF i = 0 THEN NoText ELSE ps[i].v

-----------------------------------------------------------------------------
(* Percent-encoding *)

\* The two digits of an escape are there.
Escaped(s, i) == i + 2 < Len(s) /\ HexDigit(At(s, i + 1)) /\ HexDigit(At(s, i + 2))

\* mg_url_decode into dst_len characters; NoText if it fails.
mg_url_decode(s, dst_len, form) ==
  LET of[i \in 0 .. Len(s)] ==
        IF i >= Len(s) THEN <<>>
        ELSE LET ch == At(s, i) IN
             CASE ch = Percent -> IF Escaped(s, i) THEN <<mg_unhexn(Take(s, i + 1, 2))>> \o of[i + 3] ELSE NoText
               [] form /\ ch = Plus -> <<Space>> \o of[i + 1]
               [] OTHER -> <<ch>> \o of[i + 1]
      d == of[0]
  IN  IF -1 \in ToSet(d) \/ Len(d) >= dst_len THEN NoText ELSE d

mg_is_url_safe(ch) ==
  Digit(ch) \/ ch \in Chara .. Charz \/ ch \in CharA .. CharZ \/ ch \in {Dot, 95, Minus, 126}

\* mg_url_encode, which wants room for an escape before each character.
mg_url_encode(s, len) ==
  FoldLeft(LAMBDA d, ch :
             IF d = NoText \/ Len(d) + 4 >= len THEN NoText
             ELSE IF mg_is_url_safe(ch) THEN Append(d, ch) ELSE d \o <<Percent>> \o mg_hex(<<ch>>),
           <<>>, s)

\* mg_http_get_var: the value, or the number of an error; v is the value as it
\* stands in the form, and d what it decodes to.
Var(buf, dst_len, v, d) ==
  CASE dst_len = 0 -> [len |-> -2, text |-> <<>>]
    [] dst_len > 0 /\ buf = <<>> -> [len |-> -1, text |-> <<>>]
    [] dst_len > 0 /\ buf # <<>> /\ v = NoText -> [len |-> -4, text |-> <<>>]
    [] dst_len > 0 /\ buf # <<>> /\ v # NoText /\ d = NoText -> [len |-> -3, text |-> <<>>]
    [] OTHER -> [len |-> Len(d), text |-> d]

mg_http_get_var(buf, name, dst_len) ==
  LET Decoding(v) == Var(buf, dst_len, v, mg_url_decode(v, dst_len, TRUE))
  IN  Decoding(mg_http_var(buf, name))

-----------------------------------------------------------------------------
(* Parameters of a header *)

stripquotes(s) ==
  IF Len(s) > 1 /\ s[1] = Quote /\ Last(s) = Quote THEN SubSeq(s, 2, Len(s) - 1) ELSE s

\* mg_http_get_header_var: from the first place where the name stands before
\* a "=", and two characters more.
mg_http_get_header_var(s, v) ==
  LET at == {i \in 0 .. Len(s) : /\ v # <<>> /\ i + Len(v) + 2 < Len(s)
                                 /\ At(s, i + Len(v)) = Equals /\ Matches(s, i, v)}
      b == Min(at) + Len(v) + 1
      quoted == At(s, b) = Quote
      e == IF quoted THEN Find(s, b + 1, LAMBDA ch : ch = Quote)
           ELSE Find(s, b, LAMBDA ch : ch \in {Semi, Space, Comma})
  IN  IF at = {} THEN NoText
      ELSE stripquotes(SubSeq(s, b + 1, IF quoted /\ e < Len(s) THEN e + 1 ELSE e))

-----------------------------------------------------------------------------
(* Multipart bodies *)

\* A line ends where a CR comes or an LF comes next.
LineEnd(s, i) ==
  CHOOSE j \in i .. Len(s) : /\ j + 2 >= Len(s) \/ At(s, j) = CR \/ At(s, j + 1) = LF
                             /\ \A k \in i .. j - 1 : k + 2 < Len(s) /\ At(s, k) # CR /\ At(s, k + 1) # LF

\* The headers that begin at h: where they end (0: not at all), and the last
\* Content-Disposition, which is "cd" here.
Headers(s, h, cd) ==
  LET of[i \in 0 .. Len(s) + 2] ==
        IF i + 2 > Len(s) THEN [at |-> 0, v |-> <<>>]
        ELSE LET e == LineEnd(s, i)
                 rest == of[e + 2]
                 own == Matches(s, i, cd) /\ i + Len(cd) + 2 < e /\ At(s, i + Len(cd)) = Colon
             IN  IF e = i THEN [at |-> i + 2, v |-> <<>>]
                 ELSE IF e + 2 >= Len(s) THEN [at |-> 0, v |-> <<>>]
                 ELSE IF own /\ rest.v = <<>> THEN [rest EXCEPT !.v = SubSeq(s, i + Len(cd) + 3, e)] ELSE rest
  IN  of[h]

NoPart == [next |-> 0, v |-> <<>>, body |-> <<>>]

\* The boundary, which is the first line of the body, comes after a CR LF.
Boundary(s, i, n) == At(s, i) = CR /\ At(s, i + 1) = LF /\ Matches(s, i + 2, SubSeq(s, 1, n))

\* mg_http_next_multipart: the part that begins at ofs, and where the next one
\* does (0: there is none).  Its first line ends at b, and h are its headers.
PartAt(s, ofs, b, h) ==
  LET max == Len(s)
      stop(i) == i + 2 + (b - ofs) + 2 >= max \/ Boundary(s, i, b - ofs)
      UpTo(b2) == IF b2 + 2 >= max THEN NoPart
                  ELSE [next |-> b2 + 2, v |-> h.v, body |-> SubSeq(s, h.at + 1, b2)]
  IN  IF b <= ofs \/ b + 2 >= max \/ h.at = 0 \/ h.at > max THEN NoPart
      ELSE UpTo(CHOOSE j \in h.at .. max : stop(j) /\ \A k \in h.at .. j - 1 : ~stop(k))

mg_http_next_multipart(s, ofs, cd) ==
  LET From(b) == PartAt(s, ofs, b, Headers(s, b + 2, cd)) IN From(LineEnd(s, ofs))

AllParts(s, cd) ==
  LET of[i \in 0 .. Len(s)] ==
        LET And(p) == IF p.next = 0 THEN <<>> ELSE <<p>> \o of[p.next]
        IN  And(mg_http_next_multipart(s, i, cd))
  IN  of[0]

-----------------------------------------------------------------------------
(* url.c *)

NoUrl == [host |-> 0, port |-> 0, user |-> 0, pass |-> 0, uri |-> 0]

\* What the i-th character tells of where the parts of the URL are.
UrlChar(u, s, i) ==
  LET ch == At(s, i) IN
  CASE ch = Slash /\ i > 0 /\ u.host = 0 /\ Matches(s, i - 1, <<Slash>>) -> [u EXCEPT !.host = i + 1, !.port = 0]
    [] ch = Close -> [u EXCEPT !.port = 0]
    [] ch = Colon /\ u.port = 0 /\ u.uri = 0 -> [u EXCEPT !.port = i + 1]
    [] ch = At0 /\ u.user = 0 /\ u.pass = 0 /\ u.uri = 0 ->
         [u EXCEPT !.user = u.host, !.pass = u.port, !.host = i + 1, !.port = 0]
    [] ch = Slash /\ u.host # 0 /\ u.uri = 0 -> [u EXCEPT !.uri = i]
    [] OTHER -> u

urlparse(s) == FoldLeftDomain(LAMBDA u, i : UrlChar(u, s, i - 1), NoUrl, s)

mg_url_host(s) ==
  LET u == urlparse(s)
  IN  Take(s, u.host, IF u.port # 0 THEN u.port - u.host - 1 ELSE IF u.uri # 0 THEN u.uri - u.host ELSE Len(s) - u.host)

mg_url_uri(s) == LET u == urlparse(s) IN IF u.uri # 0 THEN Drop(s, u.uri) ELSE <<Slash>>

mg_url_user(s) ==
  LET u == urlparse(s)
  IN  IF u.user # 0 /\ (u.pass # 0 \/ u.host # 0)
      THEN Take(s, u.user, (IF u.pass # 0 THEN u.pass ELSE u.host) - u.user - 1) ELSE <<>>

mg_url_pass(s) ==
  LET u == urlparse(s) IN IF u.pass # 0 /\ u.host # 0 THEN Take(s, u.pass, u.host - u.pass - 1) ELSE <<>>

\* mg_url_port: that of the scheme, or atoi of what stands behind the colon.
mg_url_port(s, default) ==
  LET p == urlparse(s).port
      digits == SubSeq(s, p + 1, RunEnd(s, p, Digit))
  IN  IF p = 0 THEN default ELSE FoldLeft(LAMBDA v, ch : ((10 * v) + (ch - Char0)) % 65536, 0, digits)

-----------------------------------------------------------------------------
(* Paths and patterns *)

mg_path_is_sane(p) ==
  \A i \in 1 .. Len(p) : i = 1 \/ p[i] \in {Slash, Back} => ~Matches(p, i, <<Dot, Dot>>)

\* One turn of mg_match's loop: i in the pattern, j in the text, and where to
\* go back to, ni and nj, if a star has been seen.
Turn(x, s, p) ==
  LET both == x.i < Len(p) /\ x.j < Len(s)
      star == x.i < Len(p) /\ At(p, x.i) \in {Star, Hash}
      slash == x.j < Len(s) /\ At(s, x.j) = Slash
  IN  IF both /\ (At(p, x.i) = Question \/ At(s, x.j) = At(p, x.i))
      THEN [x EXCEPT !.i = @ + 1, !.j = @ + 1]
      ELSE IF star THEN [x EXCEPT !.ni = x.i, !.nj = x.j + 1, !.i = @ + 1]
      ELSE IF x.nj > 0 /\ x.nj <= Len(s) /\ (At(p, x.ni) = Hash \/ ~slash)
      THEN [x EXCEPT !.i = x.ni, !.j = x.nj]
      ELSE [x EXCEPT !.fail = TRUE]

mg_match(s, p) ==
  LET of[x \in [i : 0 .. Len(p), j : 0 .. Len(s), ni : 0 .. Len(p), nj : 0 .. Len(s) + 1, fail : BOOLEAN]] ==
        IF x.fail THEN FALSE ELSE IF x.i = Len(p) /\ x.j = Len(s) THEN TRUE ELSE of[Turn(x, s, p)]
  IN  of[[i |-> 0, j |-> 0, ni |-> 0, nj |-> 0, fail |-> FALSE]]

-----------------------------------------------------------------------------
(* Digests *)

\* A byte: the i-th of the message, padding, or one of a word of the length.
Byte(what, v) == [what |-> what, v |-> v]
Zero == Byte("zero", 0)
Mark == Byte("mark", 0)
Data(from, n) == [i \in 1 .. n |-> Byte("data", from + i)]
Zeros(n) == [i \in 1 .. n |-> Zero]
Word(w) == [i \in 1 .. Words \div 2 |-> Byte("word", w)]

\* memcpy to offset at of a block.
Put(b, at, d) == [i \in DOMAIN b |-> IF i - at \in DOMAIN d THEN d[i - at] ELSE b[i]]

Blocks(d) == [i \in 1 .. Len(d) \div Block |-> SubSeq(d, ((i - 1) * Block) + 1, i * Block)]

Rest(d) == SubSeq(d, ((Len(d) \div Block) * Block) + 1, Len(d))

From(d, i) == SubSeq(d, i + 1, Len(d))

\* The place in the block.
Place(x) == (x.count[1] \div 8) % Block

\* The bits of n bytes more.
CountBits(x, n) ==
  LET low == (x.count[1] + ((8 * n) % Mod)) % Mod
      carry == IF low < x.count[1] THEN 1 ELSE 0
  IN  [x EXCEPT !.count = <<low, (@[2] + carry + ((8 * n) \div Mod)) % Mod>>]

Context == [state |-> <<>>, in |-> Zeros(Block), count |-> <<0, 0>>, len |-> 0]

-----------------------------------------------------------------------------
(* md5.c *)

mg_md5_transform(x) == [x EXCEPT !.state = Append(@, x.in)]

\* Every full block passes through ctx->in.
mg_md5_update(x, d) ==
  LET t == Place(x)
      fill == IF t = 0 THEN 0 ELSE Block - t
      all == (IF t = 0 THEN <<>> ELSE <<Put(x.in, t, SubSeq(d, 1, fill))>>)
               \o Blocks(From(d, fill))
      in == IF all = <<>> THEN x.in ELSE Last(all)
  IN  IF Len(d) < fill THEN [CountBits(x, Len(d)) EXCEPT !.in = Put(@, t, d)]
      ELSE [CountBits(x, Len(d)) EXCEPT !.state = @ \o all, !.in = Put(in, 0, Rest(From(d, fill)))]

mg_md5_final(x) ==
  LET at == Place(x) + 1
      count == Block - at
      marked == [x EXCEPT !.in = Put(@, at - 1, <<Mark>> \o Zeros(
                                   IF count < Words THEN count ELSE count - Words))]
      padded == IF count < Words
                  THEN [mg_md5_transform(marked) EXCEPT !.in = Put(@, 0, Zeros(Block - Words))]
                  ELSE marked
  IN  mg_md5_transform(
        [padded EXCEPT !.in = Put(@, Block - Words, Word(x.count[1]) \o Word(x.count[2]))])

-----------------------------------------------------------------------------
(* sha1.c *)

\* Only the first block passes through the buffer.
mg_sha1_update(x, d) ==
  LET j == Place(x)
      i == Block - j
      first == Put(x.in, j, SubSeq(d, 1, i))
  IN  IF j + Len(d) > Block - 1
        THEN [CountBits(x, Len(d)) EXCEPT !.state = @ \o <<first>> \o Blocks(From(d, i)),
                                      !.in = Put(first, 0, Rest(From(d, i)))]
        ELSE [CountBits(x, Len(d)) EXCEPT !.in = Put(@, j, d)]

\* One zero at a time, until the two words fill the block.
mg_sha1_final(x) ==
  LET marked == mg_sha1_update(x, <<Mark>>)
      zeros == CHOOSE n \in 0 .. Block - 1 : (Place(marked) + n) % Block = Block - Words
      padded == FoldLeft(LAMBDA y, z : mg_sha1_update(y, <<z>>), marked, Zeros(zeros))
  IN  mg_sha1_update(padded, Word(x.count[2]) \o Word(x.count[1]))

\* What becomes of a message that comes in pieces of these lengths.
Digest(alg, lens) ==
  LET update(x, n) ==
        LET d == Data(x.len, n)
        IN  [ctx |-> IF alg = "md5" THEN mg_md5_update(x.ctx, d) ELSE mg_sha1_update(x.ctx, d),
             len |-> x.len + n]
      x == FoldLeft(update, [ctx |-> Context, len |-> 0], lens)
  IN  [(IF alg = "md5" THEN mg_md5_final(x.ctx) ELSE mg_sha1_final(x.ctx)) EXCEPT !.len = x.len]

-----------------------------------------------------------------------------
(* The texts *)

First(k) ==
  CASE k = "address" -> Beginnings
    [] k = "url" -> {<<CharZ, Colon, Slash, Slash>>}
    [] OTHER -> {<<>>}

Init == kind \in Kinds /\ text \in First(kind) /\ more = Lengths[kind]

Grow ==
  /\ more > 0
  /\ \E ch \in Chars[kind] : text' = Append(text, ch)
  /\ more' = more - 1
  /\ UNCHANGED kind

Spec == Init /\ [][Grow]_vars

-----------------------------------------------------------------------------
(* Properties *)

\* What base64 should be: the bits in groups of six, and padding.
Base64(p) ==
  LET bits == FlattenSeq([i \in 1 .. Len(p) |-> [j \in 1 .. 8 |-> (p[i] \div (2 ^ (8 - j))) % 2]])
      bit(i) == IF i \in DOMAIN bits THEN bits[i] ELSE 0
      six(k) == FoldLeft(LAMBDA v, j : (2 * v) + bit((6 * (k - 1)) + j), 0, <<1, 2, 3, 4, 5, 6>>)
  IN  [k \in 1 .. 4 * ((Len(p) + 2) \div 3) |->
        IF 6 * (k - 1) < Len(bits) THEN mg_base64_encode_single(six(k)) ELSE Equals]

\* Bytes are encoded as they should be, by either encoder, and come back.
BytesComeBack ==
  kind = "bytes" =>
    LET e == mg_base64_encode(text, 4 * Len(text) + 5) IN
    /\ e = Base64(text) /\ bcpy(text) = e
    /\ mg_base64_decode(e, Len(e) + 1) = text
    /\ mg_unhex(mg_hex(text)) = text

\* A user and a password come back from the header, if the password is not
\* empty and there is no colon in the name; and the header's line, with the
\* character that mg_base64_final puts behind it, has room.
CredentialsComeBack ==
  kind = "bytes" => \A n \in 0 .. Len(text) :
    LET user == SubSeq(text, 1, n)
        pass == Drop(text, n)
        s == mg_http_bauth(user, pass)
    IN  /\ 21 + Len(s) + 2 <= Need(user, pass)
        /\ pass # <<>> /\ (\A i \in DOMAIN user : user[i] # Colon) => mg_http_creds(s) = <<user, pass>>

\* A number is what stands between blanks, if it is digits only and fits.
NumbersAreRead ==
  kind = "number" =>
    LET is == {i \in DOMAIN text : ~Blank(text[i])}
        trim == IF is = {} THEN <<>> ELSE SubSeq(text, Min(is), Max(is))
        value == FoldLeft(LAMBDA v, ch : (10 * v) + (ch - Char0), 0, trim)
    IN  mg_to_size_t(text) =
          IF trim # <<>> /\ (\A i \in DOMAIN trim : Digit(trim[i])) /\ value <= SizeMax THEN value ELSE NoSize

\* What is between the characters ch of s.
Parts(s, ch) ==
  FoldLeft(LAMBDA ps, x : IF x = ch THEN Append(ps, <<>>) ELSE [ps EXCEPT ![Len(ps)] = Append(@, x)],
           <<<<>>>>, s)

\* What dotted addresses should be: four numbers up to 255.
Dotted(s) ==
  LET ps == Parts(s, Dot)
      value(p) == FoldLeft(LAMBDA v, ch : (10 * v) + (ch - Char0), 0, p)
  IN  /\ Len(ps) = 4
      /\ \A k \in 1 .. 4 : ps[k] # <<>> /\ (\A i \in DOMAIN ps[k] : Digit(ps[k][i])) /\ value(ps[k]) <= 255

\* What the others should be: eight groups, or fewer around one double colon.
Colons(s) ==
  LET groups(t) == IF t = <<>> THEN <<>> ELSE Parts(t, Colon)
      twice == {i \in 1 .. Len(s) - 1 : s[i] = Colon /\ s[i + 1] = Colon}
      at == Min(twice)
      l == IF twice = {} THEN groups(s) ELSE groups(SubSeq(s, 1, at - 1))
      r == IF twice = {} THEN <<>> ELSE groups(SubSeq(s, at + 2, Len(s)))
      all == l \o [k \in 1 .. 8 - (Len(l) + Len(r)) |-> <<Char0>>] \o r
      bytes(g) == <<mg_unhexn(g) \div 256, mg_unhexn(g) % 256>>
  IN  IF /\ Cardinality(twice) <= 1 /\ Len(l) + Len(r) <= (IF twice = {} THEN 8 ELSE 7)
         /\ (twice = {} => Len(l) = 8)
         /\ \A k \in DOMAIN all : Len(all[k]) \in 1 .. 4 /\ \A i \in DOMAIN all[k] : HexDigit(all[k][i])
      THEN Ip6(FlattenSeq([k \in DOMAIN all |-> bytes(all[k])])) ELSE NoAddr

\* Addresses of either kind are read as what they are, and dotted ones are told
\* from anything else; what is printed is read as the same.
AddressesAreRead ==
  kind = "address" /\ text # <<>> =>
    /\ (mg_aton4(text) # NoAddr) = Dotted(text)
    /\ Colons(text) # NoAddr => mg_aton6(text) = Colons(text)
    /\ \A a \in {mg_aton4(text), mg_aton6(text)} \ {NoAddr} : mg_aton(mg_print_ip(a)) = a

\* A text comes back from its encoding, and is read from a form that it is
\* sent in, whatever stands beside it.
FormIsRead(form, a) ==
  /\ mg_http_get_var(form, a, Len(text) + 1) = [len |-> Len(text), text |-> text]
  /\ mg_http_get_var(form, a, Len(text)).len < 0

ComesBack(e, a) ==
  /\ mg_url_decode(e, Len(text) + 1, TRUE) = text
  /\ FormIsRead(<<Charz, Equals>> \o e \o <<Amp>> \o a \o <<Equals>> \o e \o <<Amp>> \o a, a)

FormsComeBack == kind = "form" => ComesBack(mg_url_encode(text, 3 * Len(text) + 5), <<Chara>>)

\* A parameter of a header is found, if it is the only one whose name ends
\* like that, and if what is behind its "=" is two characters long.
ParametersAreFound ==
  kind = "header" =>
    LET ps == Parts(text, Semi)
        a == <<Chara>>
        ends(p) == \E i \in 0 .. Len(p) : i + 1 < Len(p) /\ At(p, i) = Chara /\ At(p, i + 1) = Equals
        plain(v) == v # <<>> /\ \A i \in DOMAIN v : v[i] \notin {Quote, Space, Comma}
        rest(k) == FoldLeft(LAMBDA n, i : n + Len(ps[i]) + 1, 0, [i \in 1 .. Len(ps) - k |-> k + i])
    IN  \A k \in DOMAIN ps :
          Matches(ps[k], 0, a \o <<Equals>>) /\ (\A i \in DOMAIN ps : i # k => ~ends(ps[i])) =>
            LET v == Drop(ps[k], 2) IN
            /\ plain(v) /\ Len(v) + rest(k) > 1 => mg_http_get_header_var(text, a) = v
            /\ Len(v) > 2 /\ v[1] = Quote /\ Last(v) = Quote /\ plain(SubSeq(v, 2, Len(v) - 1)) =>
                 mg_http_get_header_var(text, a) = SubSeq(v, 2, Len(v) - 1)

\* The parts of a body come out as they were put in, with their headers, if
\* the boundary does not begin a line of theirs.
PartsComeOut ==
  kind = "parts" =>
    LET line == <<Minus, Minus, Charz>>
        head == <<Chara, Colon, Space, Chara>>
        part(v) == line \o <<CR, LF>> \o head \o <<CR, LF, CR, LF>> \o v \o <<CR, LF>>
        clean(v) == LET w == <<CR, LF>> \o v \o <<CR, LF>> IN ~\E i \in 0 .. Len(w) : Matches(w, i, <<CR, LF>> \o line)
        Are(got, v, w) == /\ [i \in DOMAIN got |-> got[i].body] = <<v, w>>
                          /\ \A i \in DOMAIN got : got[i].v = <<Chara>>
        ComeOut(v, w) == clean(v) /\ clean(w) =>
                           Are(AllParts(part(v) \o part(w) \o line \o <<Minus, Minus, CR, LF>>, <<Chara>>), v, w)
    IN  \A n \in 0 .. Len(text) : ComeOut(SubSeq(text, 1, n), Drop(text, n))

\* A URL comes apart into the user, the password, the host, the port and the
\* rest, if it is user:password@host:port/rest with any of them missing but
\* the host, and a bracket only at the end of the host.
UrlsComeApart ==
  kind = "url" =>
    LET s == Drop(text, 4)
        sl == Find(s, 0, LAMBDA ch : ch = Slash)
        ats == Parts(SubSeq(s, 1, sl), At0)
        up == Parts(ats[1], Colon)
        h == Last(ats)
        br == Find(h, 0, LAMBDA ch : ch = Close) + 1
        hp == IF br > Len(h) THEN Parts(h, Colon) ELSE [Parts(Drop(h, br), Colon) EXCEPT ![1] = SubSeq(h, 1, br) \o @]
        brackets == {i \in DOMAIN s : s[i] = Close}
        regular == /\ Len(ats) <= 2 /\ Len(hp) <= 2 /\ (Len(ats) = 2 => Len(up) <= 2) /\ hp[1] # <<>>
                   /\ IF br > Len(h) THEN brackets = {} ELSE Cardinality(brackets) = 1 /\ Len(hp[1]) = br
    IN  regular =>
          /\ mg_url_host(text) = hp[1]
          /\ mg_url_uri(text) = IF sl = Len(s) THEN <<Slash>> ELSE Drop(s, sl)
          /\ mg_url_user(text) = IF Len(ats) = 2 THEN up[1] ELSE <<>>
          /\ mg_url_pass(text) = IF Len(ats) = 2 /\ Len(up) = 2 THEN up[2] ELSE <<>>
          /\ (mg_url_port(text, -1) # -1) = (Len(hp) = 2)

\* A path that is let through has no component that goes up.
PathsStayInside ==
  kind = "path" /\ mg_path_is_sane(<<CharA, Slash>> \o text) =>
    \A p \in ToSet(Parts(text, Slash)) : \A q \in ToSet(Parts(p, Back)) : q # <<Dot, Dot>>

\* What a pattern should match: "?" one character, "*" any but slashes, "#"
\* any at all.
Glob(s, p) ==
  LET of[i \in 0 .. Len(p), j \in 0 .. Len(s)] ==
        IF i = Len(p) THEN j = Len(s)
        ELSE CASE At(p, i) \in {Star, Hash} ->
                    \/ of[i + 1, j]
                    \/ j < Len(s) /\ (At(p, i) = Hash \/ At(s, j) # Slash) /\ of[i, j + 1]
               [] OTHER -> j < Len(s) /\ (At(p, i) = Question \/ At(s, j) = At(p, i)) /\ of[i + 1, j + 1]
  IN  of[0, 0]

\* A pattern matches what it should, if it has no "#" before a "*" (mg_match
\* goes back to the last of them only) and no "?" behind one; and what it
\* matches, it should, but for slashes that a "*" is led over.
PatternsMatch ==
  kind = "match" => \A n \in 0 .. Len(text) :
    LET p == SubSeq(text, 1, n)
        s == Drop(text, n)
    IN  ToSet(s) \cap {Star, Hash, Question} = {} =>
          /\ mg_match(s, p) => Glob(s, [i \in DOMAIN p |-> IF p[i] = Star THEN Hash ELSE p[i]])
          /\ Glob(s, p) /\ (\A i, j \in DOMAIN p : i < j => <<p[i], p[j]>> \notin {<<Hash, Star>>, <<Star, Question>>}) => mg_match(s, p)

\* A message of n bytes as RFC 1321 and RFC 3174 pad it.
Padded(alg, n) ==
  LET zeros == CHOOSE z \in 0 .. Block - 1 : (n + 1 + z + Words) % Block = 0
      low == (8 * n) % Mod
      high == ((8 * n) \div Mod) % Mod
  IN  Data(0, n) \o <<Mark>> \o Zeros(zeros)
        \o (IF alg = "md5" THEN Word(low) \o Word(high) ELSE Word(high) \o Word(low))

\* However a message is cut, the transformation is given the blocks of the
\* padded message, in their order.
DigestsAreStandard ==
  kind = "digest" => \A alg \in {"md5", "sha1"} :
    LET x == Digest(alg, text) IN x.state = Blocks(Padded(alg, x.len))

=============================================================================
