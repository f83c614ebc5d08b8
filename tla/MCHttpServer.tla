---------------------------- MODULE MCHttpServer ----------------------------
(***************************************************************************)
(* The scripts of two clients for HttpServer.                              *)
(***************************************************************************)
EXTENDS HttpServer

CONSTANTS c1, c2

Request(q, uri, post, framing, body) ==
  [q |-> q, uri |-> uri, post |-> post, framing |-> framing, body |-> body]

\* The tokens of a request.
Tokens(r) ==
  LET token(t) == [t |-> t, r |-> r]
      chunk == <<token("size"), token("crlf"), token("data")>>
  IN  <<token("start"), token("head")>>
        \o IF r.framing = "chunked"
             THEN FlattenSeq([i \in 1 .. r.body |-> chunk]) \o <<token("zero"), token("end")>>
             ELSE [i \in 1 .. r.body |-> token("byte")]

Junk == <<[t |-> "junk", r |-> Request(0, "any", FALSE, "none", 0)]>>

Post(q, body) == Tokens(Request(q, "status", TRUE, "length", body))
Get(q, uri) == Tokens(Request(q, uri, FALSE, "none", 0))

MCScripts ==
  c1 :> {Post(1, 1) \o Post(2, 1),
         Post(1, 0) \o Get(2, "status") \o Post(3, 0),
         Post(1, 1) \o Junk,
         Get(1, "quit") \o Get(2, "debug"),
         Tokens(Request(1, "status", TRUE, "chunked", 1)),
         Tokens(Request(1, "status", TRUE, "none", 1)),
         Post(1, 4)}
  @@ c2 :> {Post(1, 0)}

=============================================================================
