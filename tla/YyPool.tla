------------------------------- MODULE YyPool -------------------------------
(***************************************************************************)
(* The pool allocator of yyjson 0.3.0, which hands out chunks of one       *)
(* buffer, and its two clients: one that makes any calls, and a reader     *)
(* whose buffer is as large as yyjson_read_max_memory_usage says.  Sizes   *)
(* and addresses are in units of 16 bytes, the size of a chunk's header    *)
(* and of a value.                                                         *)
(***************************************************************************)
EXTENDS Integers, Sequences, SequencesExt, FiniteSetsExt

CONSTANTS
  PoolSize,   \* the units of the buffer of the client that makes any calls
  Requests,   \* the units that it asks for
  TextSizes,  \* the lengths of the texts that are read, in bytes
  Reads       \* bound: how many texts are read one after the other

YyPoolAssumption == PoolSize \in Nat /\ PoolSize >= 4 /\ Requests \subseteq Nat

Units(n) == (n + 15) \div 16

-----------------------------------------------------------------------------
(* The pool: its size, the size of every chunk by its address, and the     *)
(* addresses of the free chunks, as they are linked.                       *)

\* yyjson_alc_pool_init, for a buffer of n units.
NewPool(n) == [size |-> n, chunk |-> [a \in {1} |-> n - 1], free |-> <<1>>]

Set(f, a, n) == [x \in DOMAIN f \cup {a} |-> IF x = a THEN n ELSE f[x]]
Without(f, a) == [x \in DOMAIN f \ {a} |-> f[x]]

Refuses(p, n) == n = 0 \/ n >= p.size

\* pool_malloc: the pool, and the chunk's address or 0.
Malloc(p, asked) ==
  LET n == asked + 1
      i == SelectInSeq(p.free, LAMBDA a : p.chunk[a] >= n)
      cur == p.free[i]
      rest == p.chunk[cur] - n
  IN  IF Refuses(p, asked) \/ i = 0 THEN [p |-> p, ptr |-> 0]
      ELSE IF rest >= 2 THEN
             [p |-> [p EXCEPT !.chunk = Set(Set(@, cur + n, rest), cur, n),
                              !.free[i] = cur + n], ptr |-> cur]
      ELSE [p |-> [p EXCEPT !.free = RemoveAt(@, i)], ptr |-> cur]

\* Two chunks become one when the first ends where the second begins.
Merge(p, low, high) ==
  IF low + p.chunk[low] = high
    THEN [p EXCEPT !.chunk = Without(Set(@, low, @[low] + @[high]), high),
                   !.free = SelectSeq(@, LAMBDA a : a # high)]
    ELSE p

\* Faulty form: a chunk merges with the one above it only.
FreeUp(p, cur) ==
  LET i == Cardinality({a \in Range(p.free) : a < cur})
      linked == [p EXCEPT !.free = InsertAt(@, i + 1, cur)]
  IN  IF i < Len(p.free) THEN Merge(linked, cur, p.free[i + 1]) ELSE linked

\* pool_free
Free(p, cur) ==
  LET i == Cardinality({a \in Range(p.free) : a < cur})
      linked == [p EXCEPT !.free = InsertAt(@, i + 1, cur)]
      up == IF i < Len(p.free) THEN Merge(linked, cur, p.free[i + 1]) ELSE linked
  IN  IF i > 0 THEN Merge(up, p.free[i], cur) ELSE up

Shrink(p, cur, n) ==
  LET spare == p.chunk[cur] - n
  IN  IF spare >= 2 THEN Free([p EXCEPT !.chunk = Set(Set(@, cur + n, spare), cur, n)], cur + n)
      ELSE p

\* cur takes the free chunk above it, or as much of it as it needs.
GrowInPlace(p, cur, n) ==
  LET i == Cardinality({a \in Range(p.free) : a < cur}) + 1
      next == p.free[i]
      spare == p.chunk[cur] + p.chunk[next] - n
      chunk == Without(p.chunk, next)
  IN  IF spare > 2
        THEN [p EXCEPT !.chunk = Set(Set(chunk, cur + n, spare), cur, n), !.free[i] = cur + n]
        ELSE [p EXCEPT !.chunk = Set(chunk, cur, chunk[cur] + p.chunk[next]),
                       !.free = RemoveAt(@, i)]

\* pool_realloc
Realloc(p, cur, asked) ==
  LET n == asked + 1
      above == cur + p.chunk[cur]
      new == Malloc(p, asked)
  IN  CASE Refuses(p, asked) -> [p |-> p, ptr |-> 0]
        [] ~Refuses(p, asked) /\ n <= p.chunk[cur] -> [p |-> Shrink(p, cur, n), ptr |-> cur]
        [] /\ ~Refuses(p, asked) /\ n > p.chunk[cur]
           /\ above \in Range(p.free) /\ p.chunk[cur] + p.chunk[above] >= n ->
             [p |-> GrowInPlace(p, cur, n), ptr |-> cur]
        [] OTHER -> IF new.ptr = 0 THEN new ELSE [new EXCEPT !.p = Free(@, cur)]

-----------------------------------------------------------------------------

VARIABLES
  pool,
  held,   \* the addresses that the client holds, with the units it asked for
  reader  \* the reader of the texts, or nothing

vars == <<pool, held, reader>>

\* yyjson_read_max_memory_usage, in bytes, for a reader's way of reading:
\* [style, insitu, stop].
Larger(a, b) == IF a < b THEN b ELSE a
MaxUsage(len, way) ==
  (IF way.stop THEN Larger(len, 256) ELSE len) * (IF way.insitu THEN 12 ELSE 13) + 256

\* The array of values at first: the document's header, and an estimate.
Estimate(len, way) ==
  LET n == IF way.stop THEN 256 ELSE len
  IN  CASE way.style = "single" -> 4 + 1
        [] way.style = "minify" -> 4 + (n \div 6) + 4
        [] way.style = "pretty" -> 4 + (n \div 16) + 4

\* How many values a text that can be read has at most; a pretty one begins
\* with two blanks after its bracket.
MostValues(len, way) ==
  CASE way.style = "single" -> 1
    [] way.style = "minify" -> (len + 1) \div 2
    [] way.style = "pretty" -> (len - 1) \div 2

NoClient == [lab |-> "none"]

Init == /\ held = <<>>
        /\ \/ pool = NewPool(PoolSize) /\ reader = NoClient
           \/ \E len \in TextSizes,
                 way \in [style : {"single", "minify", "pretty"}, insitu : BOOLEAN, stop : BOOLEAN] :
                \* The buffer's address need not be a multiple of 16.
                \E skip \in {0, 15} :
                  /\ len >= (CASE way.style = "single" -> 1 [] way.style = "minify" -> 2
                               [] way.style = "pretty" -> 4)
                  /\ pool = NewPool((MaxUsage(len, way) - skip) \div 16)
                  /\ reader = [lab |-> "begin", len |-> len, way |-> way,
                               text |-> 0, vals |-> 0, alc |-> 0, count |-> 0, reads |-> 0]

AnyMalloc == /\ reader.lab = "none"
             /\ \E n \in Requests : \E m \in {Malloc(pool, n)} :
                  /\ pool' = m.p
                  /\ held' = IF m.ptr = 0 THEN held ELSE Set(held, m.ptr, n)
             /\ UNCHANGED reader

AnyFree == /\ reader.lab = "none"
           /\ \E a \in DOMAIN held : pool' = Free(pool, a) /\ held' = Without(held, a)
           /\ UNCHANGED reader

AnyRealloc == /\ reader.lab = "none"
              /\ \E a \in DOMAIN held, n \in Requests : \E m \in {Realloc(pool, a, n)} :
                   /\ pool' = m.p
                   /\ held' = IF m.ptr = 0 THEN held ELSE Set(Without(held, a), m.ptr, n)
              /\ UNCHANGED reader

\* yyjson_read_opts copies the text, with four bytes of padding.
CopyText == /\ reader.lab = "begin" /\ reader.reads < Reads
            /\ \E m \in {IF reader.way.insitu THEN [p |-> pool, ptr |-> 0]
                         ELSE Malloc(pool, Units(reader.len + 4))} :
                 /\ pool' = m.p
                 /\ reader' = [reader EXCEPT !.text = m.ptr, !.reads = @ + 1,
                                 !.lab = IF m.ptr = 0 /\ ~reader.way.insitu THEN "failed" ELSE "root"]
            /\ UNCHANGED held

\* read_root_minify and read_root_pretty allocate the array of values.
Root == /\ reader.lab = "root"
        /\ \E n \in {Estimate(reader.len, reader.way)} : \E m \in {Malloc(pool, n)} :
             /\ pool' = m.p
             /\ reader' = [reader EXCEPT !.vals = m.ptr, !.alc = n, !.count = 1,
                                         !.lab = IF m.ptr = 0 THEN "failed" ELSE "values"]
        /\ UNCHANGED held

\* val_incr
Value == /\ reader.lab = "values" /\ reader.count < MostValues(reader.len, reader.way)
         /\ IF 4 + reader.count >= reader.alc - 2
              THEN \E n \in {reader.alc + (reader.alc \div 2)} :
                   \E m \in {Realloc(pool, reader.vals, n)} :
                     /\ pool' = m.p
                     /\ reader' = [reader EXCEPT !.vals = m.ptr, !.alc = n, !.count = @ + 1,
                                                 !.lab = IF m.ptr = 0 THEN "failed" ELSE @]
              ELSE pool' = pool /\ reader' = [reader EXCEPT !.count = @ + 1]
         /\ UNCHANGED held

\* yyjson_doc_free
FreeDoc == /\ reader.lab = "values"
           /\ pool' = LET p == IF reader.way.insitu THEN pool ELSE Free(pool, reader.text)
                      IN  Free(p, reader.vals)
           /\ reader' = [reader EXCEPT !.lab = "begin", !.text = 0, !.vals = 0]
           /\ UNCHANGED held

Next == AnyMalloc \/ AnyFree \/ AnyRealloc \/ CopyText \/ Root \/ Value \/ FreeDoc

Spec == Init /\ [][Next]_vars

-----------------------------------------------------------------------------
(* Properties *)

\* The chunks are the whole buffer after its header and do not overlap; the
\* free ones are linked in order and no two of them touch; every other chunk is
\* one that the client holds, as large as it asked for.
ChunksTileTheBuffer ==
  LET end(a) == a + pool.chunk[a]
      live == IF reader.lab = "none" THEN DOMAIN held ELSE {reader.text, reader.vals} \ {0}
  IN  /\ {end(a) : a \in DOMAIN pool.chunk} = (DOMAIN pool.chunk \ {1}) \cup {pool.size}
      /\ FoldSet(LAMBDA a, sum : sum + pool.chunk[a], 0, DOMAIN pool.chunk) = pool.size - 1
      /\ \A i \in 1 .. Len(pool.free) - 1 : end(pool.free[i]) < pool.free[i + 1]
      /\ reader.lab # "failed" => live = DOMAIN pool.chunk \ Range(pool.free)
      /\ \A a \in DOMAIN held : pool.chunk[a] > held[a]

\* A buffer of the size that yyjson_read_max_memory_usage says is enough for a
\* text that can be read, and for the next one after it.
MaxUsageSuffices == reader.lab # "failed"

=============================================================================
