------------------------------ MODULE MgFiles ------------------------------
(***************************************************************************)
(* The files of mongoose 7.12 (src/fs.c, src/http.c and the file systems   *)
(* below them): one process that replaces a file with mg_file_write, and   *)
(* another one that reads it with mg_file_read, both of which make several *)
(* calls of the file system.  The writer may be killed, and the disk may   *)
(* be full.  A server answers requests for files: mg_http_serve_dir asks   *)
(* the file system about a path several times, static_cb puts the file     *)
(* into the send buffer as room comes, and the client may send its next    *)
(* requests before it has the response.  A second client uploads a file in *)
(* pieces with mg_http_upload.                                             *)
(*                                                                         *)
(* A path is what it is the path of, the file of a directory, and whether  *)
(* it ends in ".gz".  What is sent is a sequence of tokens:                *)
(* <<status, length, size, mtime>> is the head of a response and <<b>> is  *)
(* a byte of its body.                                                     *)
(***************************************************************************)
EXTENDS Integers, Sequences, SequencesExt, FiniteSets

CONSTANTS
  Sizes,        \* the sizes of what is written
  MaxWrites,    \* bound: the calls of mg_file_write
  MaxInodes,    \* bound: the files ever made
  Requests,     \* the requests of the client: [uri, method, gzip, match, range]
  MaxRequests,  \* bound: how many it sends
  SendSize,     \* the size of the send buffer, MG_IO_SIZE
  HasPage404,   \* opts->page404 is set
  MaxUpload, MaxPieces  \* the size up to which uploads are accepted, and a
                        \* bound: how many pieces are sent

VARIABLES
  disk,    \* dir[p]: the file at path p, or 0; ino[i]: what file i holds;
           \* mtime[i], and the clock, in seconds
  writer,  \* the call of mg_file_write; lost: the disk was full when its file
           \* was closed
  reader,   \* the call of mg_file_read, and the files that it may have seen
  c,      \* the connection at the server: pc says which callback is next
          \* ("http", "stat" between mg_fs_open and st, "static")
  cl,     \* its client: sent requests, received responses
  up      \* the client that uploads: what it takes for the file's size, and
          \* what became of its file

svars == <<disk, writer, reader, c, cl, up>>

File(at) == <<at, "", FALSE>>
Gz(p) == <<p[1], p[2], TRUE>>
In(dir, leaf) == <<dir, leaf, FALSE>>

F == File("f")
Tmp == In("f", "tmp")
Page404 == File("404")
Up == File("up")
Dirs == {"", "d"}
Index == {In("d", "index"), In("d", "shtml"), Gz(In("d", "index"))}
FilePaths == {F, Gz(F), Tmp, Page404, Up} \cup Index

\* What file i holds: its bytes are told apart by the file.
Content(i, n) == [j \in 1 .. n |-> (10 * i) + j]

NoDisk == [dir |-> [p \in FilePaths |-> 0], ino |-> <<>>, mtime |-> <<>>, clock |-> 0]

\* A new file with n bytes.
Make(d, p, n) ==
  [d EXCEPT !.dir[p] = Len(d.ino) + 1, !.ino = Append(@, Content(Len(d.ino) + 1, n)),
            !.mtime = Append(@, d.clock)]

Size(d, i) == Len(d.ino[i])

\* The file systems: stat, remove and rename.
Exists(d, p) == p \in FilePaths /\ d.dir[p] # 0
Unlink(d, p) == [d EXCEPT !.dir[p] = 0]
Rename(d, p, q) == [d EXCEPT !.dir[q] = d.dir[p], !.dir[p] = 0]

\* fs->rd: what there is of the n bytes from a position on.
FileRead(data, at, n) == SubSeq(data, at + 1, IF at + n > Len(data) THEN Len(data) ELSE at + n)

\* Opened to be written, a file that is there is appended to.
Appended(d, p, data) ==
  LET e == IF Exists(d, p) THEN d ELSE Make(d, p, 0)
      i == e.dir[p]
  IN  [e EXCEPT !.ino[i] = @ \o data, !.mtime[i] = d.clock]

-----------------------------------------------------------------------------
(* mg_file_write, by a process of its own *)

NoWriter == [pc |-> "idle", writes |-> 0, lost |-> FALSE, old |-> 0, new |-> 0]

\* Faulty form: the new file is written in the old one's place.
WriteInPlace ==
  /\ writer.pc = "idle" /\ writer.writes < MaxWrites /\ Len(disk.ino) < MaxInodes
  /\ disk' = Make(disk, F, 0)
  /\ writer' = [writer EXCEPT !.pc = "write", !.writes = @ + 1, !.old = disk.dir[F],
                              !.new = Len(disk.ino) + 1]
  /\ UNCHANGED <<reader, c, cl, up>>

WriteOpen ==
  /\ writer.pc = "idle" /\ writer.writes < MaxWrites /\ Len(disk.ino) < MaxInodes
  /\ disk' = Make(disk, Tmp, 0)
  /\ writer' = [writer EXCEPT !.pc = "write", !.writes = @ + 1, !.old = disk.dir[F],
                              !.new = Len(disk.ino) + 1]
  /\ UNCHANGED <<reader, c, cl, up>>

\* fs->wr, which keeps what it is given in a buffer, and mg_fs_close, which
\* says nothing when the disk is full.
WriteClose ==
  /\ writer.pc = "write"
  /\ \E n \in Sizes :
       \/ /\ disk' = [disk EXCEPT !.ino[writer.new] = Content(writer.new, n)]
          /\ writer' = [writer EXCEPT !.pc = "remove"]
       \/ /\ n > 0
          /\ disk' = [disk EXCEPT !.ino[writer.new] = Content(writer.new, n - 1)]
          /\ writer' = [writer EXCEPT !.pc = "remove", !.lost = TRUE]
  /\ UNCHANGED <<reader, c, cl, up>>

\* What does not fit into the buffer is written at once, and a failure is
\* told.
WriteFails ==
  /\ writer.pc = "write"
  /\ disk' = Unlink(disk, Tmp)
  /\ writer' = [writer EXCEPT !.pc = "idle"]
  /\ UNCHANGED <<reader, c, cl, up>>

WriteRemove ==
  /\ writer.pc = "remove"
  /\ disk' = Unlink(disk, F)
  /\ writer' = [writer EXCEPT !.pc = "rename"]
  /\ UNCHANGED <<reader, c, cl, up>>

WriteRename ==
  /\ writer.pc = "rename"
  /\ disk' = Rename(disk, Tmp, F)
  /\ writer' = [writer EXCEPT !.pc = "idle"]
  /\ UNCHANGED <<reader, c, cl, up>>

\* The writer is killed, and nothing that it began is undone.
WriterDies ==
  /\ writer.pc # "idle"
  /\ writer' = [writer EXCEPT !.pc = "dead"]
  /\ UNCHANGED <<disk, reader, c, cl, up>>

-----------------------------------------------------------------------------
(* mg_file_read, by another one *)

NoReader == [pc |-> "idle", size |-> 0, statted |-> 0, fd |-> 0, got |-> <<>>, reads |-> 0]

ReadStat ==
  /\ reader.pc = "idle" /\ reader.reads < 1
  /\ reader' = [NoReader EXCEPT !.pc = "open", !.reads = reader.reads + 1, !.statted = disk.dir[F],
                                !.size = IF Exists(disk, F) THEN Size(disk, disk.dir[F]) ELSE 0]
  /\ UNCHANGED <<disk, writer, c, cl, up>>

ReadOpen ==
  /\ reader.pc = "open"
  /\ reader' = IF Exists(disk, F) THEN [reader EXCEPT !.pc = "read", !.fd = disk.dir[F]]
               ELSE [reader EXCEPT !.pc = "null"]
  /\ UNCHANGED <<disk, writer, c, cl, up>>

ReadRead ==
  /\ reader.pc = "read"
  /\ reader' = IF Size(disk, reader.fd) < reader.size THEN [reader EXCEPT !.pc = "null"]
               ELSE [reader EXCEPT !.pc = "data", !.got = SubSeq(disk.ino[reader.fd], 1, reader.size)]
  /\ UNCHANGED <<disk, writer, c, cl, up>>

Tick ==
  /\ disk.clock < 1
  /\ disk' = [disk EXCEPT !.clock = @ + 1]
  /\ UNCHANGED <<writer, reader, c, cl, up>>

Write == WriteOpen \/ WriteClose \/ WriteFails \/ WriteRemove \/ WriteRename \/ WriterDies
Read == ReadStat \/ ReadOpen \/ ReadRead

Files == Write \/ Read \/ Tick

-----------------------------------------------------------------------------
(* What the server is asked, and answers *)

NoNumber == -1
NotFound == [status |-> 404, body |-> <<0>>]

\* mg_split and mg_to_size_t on what stands behind "bytes=", which is two
\* numbers that may be missing.
getrange(r) ==
  [n |-> Cardinality({i \in 1 .. 2 : r[i] # NoNumber}),
   a |-> IF r[1] = NoNumber THEN 0 ELSE r[1], b |-> IF r[2] = NoNumber THEN 0 ELSE r[2]]

etag(size, mtime) == <<size, mtime>>
HeadOf(status, len, tag) == <<status, len, tag[1], tag[2]>>
Bytes(s) == [i \in 1 .. Len(s) |-> <<s[i]>>]

\* There is no If-None-Match, or no etag in a response.
NoTag == etag(-1, -1)

\* mg_http_reply and mg_printf, which answer a HEAD with a body too.
Reply(s, status, body) ==
  [s EXCEPT !.send = @ \o <<HeadOf(status, Len(body), NoTag)>> \o Bytes(body), !.is_resp = FALSE,
            !.odd = IF s.req.method = "HEAD" /\ body # <<>> THEN @ \cup {s.taken} ELSE @]

-----------------------------------------------------------------------------
(* Which file is it? *)

\* uri_to_path2: a directory is answered by its index, or by a list; without
\* its slash, by a redirection.
Target(d, uri) ==
  CASE uri = "/" -> [flags |-> "dir", path |-> File("")]
    [] uri = "d" -> [flags |-> "redirect", path |-> File("d")]
    [] uri = "d/" ->
         LET there == {p \in Index : Exists(d, p)}
         IN  IF In("d", "index") \in there THEN [flags |-> "file", path |-> In("d", "index")]
             ELSE IF In("d", "shtml") \in there THEN [flags |-> "file", path |-> In("d", "shtml")]
             ELSE IF there # {} THEN [flags |-> "file", path |-> In("d", "index")]
             ELSE [flags |-> "dir", path |-> File("d")]
    [] OTHER -> [flags |-> "file", path |-> File(uri)]

\* listdir and printdirentry: a line for each file of the directory.
Listing(d, dir) ==
  LET here == {p \in FilePaths : Exists(d, p) /\ IF dir = "" THEN p[2] = "" ELSE p[1] = dir}
  IN  [i \in 1 .. Cardinality(here) + 1 |-> 0]

\* The open file of mg_http_serve_file, if there is one: compressed, the one
\* asked for, or the page for what is missing.
OpenPath(d, path, gzip) ==
  IF gzip /\ Exists(d, Gz(path)) THEN Gz(path) ELSE IF Exists(d, path) THEN path ELSE Page404

-----------------------------------------------------------------------------
(* The server *)

\* http_cb takes the next request, unless it waits for the answer to one.
Take == c.pc = "http" /\ c.woken /\ ~c.is_resp /\ c.recv # <<>>

Begun == [c EXCEPT !.recv = Tail(@), !.is_resp = TRUE, !.req = c.recv[1], !.taken = @ + 1]

\* mg_http_serve_dir, as far as mg_fs_open.
ServeDir ==
  /\ Take
  /\ LET req == c.recv[1]
         t == Target(disk, req.uri)
         p == OpenPath(disk, t.path, req.gzip)
     IN  c' = CASE t.flags = "redirect" -> Reply(Begun, 301, <<>>)
                [] t.flags = "dir" -> Reply(Begun, 200, Listing(disk, t.path[1]))
                [] t.flags = "file" /\ ~Exists(disk, p) -> Reply(Begun, 404, <<0>>)
                [] t.flags = "file" /\ p = Page404 /\ ~HasPage404 -> Reply(Begun, 404, <<0>>)
                [] OTHER -> [Begun EXCEPT !.pc = "stat", !.path = p, !.fd = disk.dir[p]]
  /\ UNCHANGED <<disk, writer, reader, cl, up>>

\* Faulty form: the file's end is the range's, whatever the range begins with.
RangeFromStart(req, size) ==
  LET r == getrange(req.range) IN
  CASE r.n = 0 -> [status |-> 200, first |-> 0, len |-> size]
    [] OTHER -> LET last == IF r.n = 1 THEN size - 1 ELSE r.b
                IN  IF r.a > last \/ last >= size THEN [status |-> 416, first |-> 0, len |-> 0]
                    ELSE [status |-> 206, first |-> r.a, len |-> last + 1]

\* The Range header: "400-" goes to the end.
RangeOf(req, size) ==
  LET r == getrange(req.range) IN
  CASE r.n = 0 -> [status |-> 200, first |-> 0, len |-> size]
    [] OTHER -> LET last == IF r.n = 1 THEN size - 1 ELSE r.b
                IN  IF r.a > last \/ last >= size THEN [status |-> 416, first |-> 0, len |-> 0]
                    ELSE [status |-> 206, first |-> r.a, len |-> last - r.a + 1]

\* fs->st and the rest of mg_http_serve_file: the path may be another file by
\* now, or none.
ServeStat ==
  /\ c.pc = "stat"
  /\ LET i == disk.dir[c.path]
         tag == etag(Size(disk, i), disk.mtime[i])
         r == RangeOf(c.req, Size(disk, i))
         to == [c EXCEPT !.pc = "http", !.woken = TRUE, !.fd = 0,
                         !.seen = Append(@, [n |-> c.taken, i |-> i, first |-> r.first]),
                         !.odd = IF i # c.fd THEN @ \cup {c.taken} ELSE @]
         said == [to EXCEPT !.send = Append(@, HeadOf(r.status, r.len, tag))]
     IN  c' = CASE i = 0 -> Reply([c EXCEPT !.pc = "http", !.fd = 0], 404, <<0>>)
                [] i # 0 /\ c.req.match = tag -> Reply(to, 304, <<>>)
                [] i # 0 /\ c.req.match # tag /\ c.req.method = "HEAD" ->
                     [said EXCEPT !.is_draining = TRUE, !.is_resp = FALSE]
                [] OTHER -> [said EXCEPT !.pc = "static", !.fd = c.fd, !.at = r.first, !.left = r.len]
  /\ UNCHANGED <<disk, writer, reader, cl, up>>

\* http_cb has come to the end of what is buffered.
Rest == c.pc = "http" /\ c.woken /\ (c.is_resp \/ c.recv = <<>>)

\* static_cb, at MG_EV_WRITE and MG_EV_POLL: when nothing is left, or the file
\* ends early, the connection goes back to http_cb, which waits for data.
static_cb(s) ==
  LET space == SendSize - Len(s.send)
      n == IF space < s.left THEN space ELSE s.left
      data == FileRead(disk.ino[s.fd], s.at, n)
  IN  IF s.pc # "static" \/ space <= 0 THEN s
      ELSE IF data = <<>> THEN [s EXCEPT !.pc = "http", !.fd = 0, !.woken = FALSE, !.is_resp = FALSE]
      ELSE [s EXCEPT !.send = @ \o Bytes(data), !.at = @ + Len(data), !.left = @ - Len(data)]

Poll ==
  /\ c.pc \in {"http", "static"} /\ static_cb(c) # c
  /\ c' = static_cb(c)
  /\ UNCHANGED <<disk, writer, reader, cl, up>>

\* write_conn sends some of it; a connection that drains is closed at its end.
Sent ==
  /\ c.pc \in {"http", "static"} /\ (c.pc = "http" => ~c.woken)
  /\ \E n \in 1 .. Len(c.send) :
       LET s == static_cb([c EXCEPT !.send = SubSeq(@, n + 1, Len(@))])
       IN  /\ c' = IF s.is_draining /\ s.send = <<>> THEN [s EXCEPT !.pc = "closed", !.fd = 0] ELSE s
           /\ cl' = [cl EXCEPT !.got = @ \o SubSeq(c.send, 1, n)]
  /\ UNCHANGED <<disk, writer, reader, up>>

Wait ==
  /\ Rest
  /\ c' = [c EXCEPT !.woken = FALSE]
  /\ UNCHANGED <<disk, writer, reader, cl, up>>

-----------------------------------------------------------------------------
(* The client that gets files *)

\* The responses in what it has got, taken apart by Content-Length: each one
\* is the index of its head, and complete or not.
IsHead(t) == Len(t) = 4
BodyAt(got, k) == SubSeq(got, k + 1, k + got[k][2])
NextHead(got, k) == k + 1 + got[k][2]

Starts(got, methods) ==
  LET next[n \in 1 .. Len(methods) + 1] ==
        IF n = 1 THEN 1
        ELSE LET k == next[n - 1] IN
             IF k > Len(got) THEN Len(got) + 2
             ELSE IF methods[n - 1] = "HEAD" THEN k + 1 ELSE NextHead(got, k)
  IN  next

\* The etag of the last file that it has got.
LastTag(got) ==
  LET heads == {k \in 1 .. Len(got) : IsHead(got[k]) /\ got[k][1] = 200 /\ got[k][3] >= 0}
  IN  IF heads = {} THEN NoTag ELSE LET k == CHOOSE j \in heads : heads \subseteq 1 .. j
                                    IN  etag(got[k][3], got[k][4])

\* It has the whole response to each of its requests.
AllGot ==
  Starts(cl.got, [k \in 1 .. cl.sent |-> cl.reqs[k].method])[cl.sent + 1] = Len(cl.got) + 1

\* It sends one request, or several at once; the server reads what is there.
Send ==
  /\ cl.sent < MaxRequests
  /\ (c.pc = "http" /\ ~c.woken) \/ c.pc = "static"
  /\ \E rs \in UNION {[1 .. n -> Requests] : n \in 1 .. MaxRequests - cl.sent} :
       LET reqs == [k \in 1 .. Len(rs) |-> IF rs[k].match = NoTag THEN rs[k]
                                            ELSE [rs[k] EXCEPT !.match = LastTag(cl.got)]]
       IN  /\ cl' = [cl EXCEPT !.sent = @ + Len(rs), !.reqs = @ \o reqs,
                               !.pipelined = @ \/ Len(rs) > 1 \/ ~AllGot]
           /\ c' = [c EXCEPT !.recv = @ \o reqs, !.woken = c.pc = "http"]
  /\ UNCHANGED <<disk, writer, reader, up>>

-----------------------------------------------------------------------------
(* mg_http_upload *)

\* One request with a piece of the file, or without a body.  Whether the file
\* can be opened, whether the disk takes it all, and whether the answer comes,
\* is open; a client without an answer sends again, and one that is refused
\* begins again.
Piece(offset, n) == [j \in 1 .. n |-> offset + j]

\* What is not written: nothing, what has no place, a piece that does not go
\* where the file ends, and one that makes it too long.
Verdict(size, offset, n) ==
  IF n = 0 THEN "nothing"
  ELSE IF offset < 0 THEN "required"
  ELSE IF offset > 0 /\ size # offset THEN "mismatch"
  ELSE IF offset + n > MaxUpload THEN "over"
  ELSE "write"

\* An upload without a body is answered with 0, whatever its offset.
Upload ==
  /\ up.pieces < MaxPieces
  /\ \E n \in 0 .. MaxUpload, offset \in {up.at, -1}, heard \in BOOLEAN :
       LET d == IF offset = 0 /\ n > 0 THEN Unlink(disk, Up) ELSE disk
           size == IF Exists(d, Up) THEN Size(d, d.dir[Up]) ELSE 0
           hears(at) == up' = [up EXCEPT !.pieces = @ + 1, !.at = IF heard THEN at ELSE @]
       IN  \/ /\ Verdict(size, offset, n) = "write"
              /\ Exists(d, Up) \/ Len(d.ino) < MaxInodes
              /\ \E k \in 0 .. n : \E told \in {n, k} :
                   /\ disk' = Appended(d, Up, SubSeq(Piece(offset, n), 1, k))
                   /\ hears(offset + told)
           \* Nothing to write, refused, or not opened.
           \/ disk' = d /\ hears(0)
  /\ UNCHANGED <<writer, reader, c, cl>>

-----------------------------------------------------------------------------
NoRequest == [uri |-> "", method |-> "", gzip |-> FALSE, match |-> NoTag, range |-> <<NoNumber, NoNumber>>]

InitAt(d) ==
  /\ disk = d /\ writer = NoWriter /\ reader = NoReader
  /\ c = [pc |-> "http", woken |-> FALSE, is_resp |-> FALSE, is_draining |-> FALSE, recv |-> <<>>,
          send |-> <<>>, req |-> NoRequest, path |-> F, fd |-> 0, at |-> 0, left |-> 0, taken |-> 0,
          seen |-> <<>>, odd |-> {}]
  /\ cl = [sent |-> 0, reqs |-> <<>>, got |-> <<>>, pipelined |-> FALSE]
  /\ up = [at |-> 0, pieces |-> 0]

Serve == ServeDir \/ ServeStat \/ Poll \/ Sent \/ Wait

Next ==
  \/ Files
  \/ Serve \/ Send \/ Upload

-----------------------------------------------------------------------------
(* Properties *)

\* Whenever the writer is killed, the file is the old one or the new one, and
\* complete; or it is gone, but the new one is complete under its other name.
\* The exception is a disk that was full when the new one was closed.
OldOrNew ==
  writer.writes > 0 /\ ~writer.lost =>
    LET i == disk.dir[F]
        whole(j) == j # 0 /\ \E n \in Sizes : disk.ino[j] = Content(j, n)
    IN  /\ i # 0 => whole(i)
        /\ i = 0 /\ writer.old # 0 => whole(disk.dir[Tmp])

\* What is read is a file as a whole; or the beginning of one that came into
\* the place of a shorter one after its size had been asked for.
ReadsAreWhole ==
  reader.pc = "data" =>
    \/ reader.got = disk.ino[reader.fd]
    \/ reader.fd # reader.statted /\ IsPrefix(reader.got, disk.ino[reader.fd])

\* The k-th response is the one to the k-th request, and the body of a file is
\* the part of it that the head announces; unless, before it, a file was
\* replaced between mg_fs_open and st, or a HEAD was answered with a body.
BodiesAreRanges ==
  LET got == cl.got
      starts == Starts(got, [k \in 1 .. c.taken |-> cl.reqs[k].method])
  IN  \A k \in 1 .. c.taken :
        LET s == starts[k] IN
        s <= Len(got) /\ (\A x \in c.odd : x > k) =>
          /\ IsHead(got[s])
          /\ \A x \in Range(c.seen) :
               x.n = k /\ cl.reqs[k].method = "GET" /\ Len(got) >= s + got[s][2] =>
                 BodyAt(got, s) = Bytes(FileRead(disk.ino[x.i], x.first, got[s][2]))

\* A client that waits for each response before it sends its next request is
\* never left without one: the connection is back with http_cb when the last
\* byte of a file goes out.  (A request that comes before is read by nobody.)
OneByOneIsAnswered ==
  ~cl.pipelined /\ c.pc = "http" /\ ~c.woken => c.recv = <<>>

\* An uploaded file is a beginning of what is being uploaded, whatever was
\* lost, written in part or sent twice.
UploadIsPrefix ==
  Exists(disk, Up) => /\ disk.ino[disk.dir[Up]] = Piece(0, Size(disk, disk.dir[Up]))
                      /\ Size(disk, disk.dir[Up]) <= MaxUpload

=============================================================================
