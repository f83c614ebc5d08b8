------------------------------- MODULE MgDns -------------------------------
(***************************************************************************)
(* The resolver of mongoose 7.12 (src/dns.c): connections that look up     *)
(* their hosts through one connection to a DNS server, a list of requests, *)
(* and answers that may be lost, repeated, late or in another order.  Time *)
(* is what is left of a request's timeout.                                 *)
(***************************************************************************)
EXTENDS Naturals, FiniteSets

CONSTANTS
  Conns, Hosts,  \* the connections of the application, and what they look up
  Timeout,       \* mgr->dnstimeout
  MaxFaults,     \* bound: answers lost or repeated, calls that fail
  MaxConnects,   \* bound: the calls of mg_connect
  NONE

MgDnsAssumption ==
  Timeout \in Nat /\ MaxFaults \in Nat /\ MaxConnects \in Nat /\ NONE \notin Hosts

VARIABLES
  conn,   \* each connection, or what is left of it; see Conn
  dns,    \* mgr->dns4.c: "none", "open" or "closing"
  reqs,   \* mgr->active_dns_requests: the list is in the order of the
          \* identifiers, the largest first
  net,    \* the queries and the answers on their way
  past    \* faults, connects, and late: a request was given up, or an answer
          \* repeated, so that an answer may come to nobody, or to another

vars == <<conn, dns, reqs, net, past>>

Conn(live, host) ==
  [live |-> live, host |-> host, is_resolving |-> FALSE, is_closing |-> FALSE, rem |-> NONE]

Init == /\ conn = [c \in Conns |-> Conn(FALSE, NONE)]
        /\ dns = "none"
        /\ reqs = {}
        /\ net = {}
        /\ past = [faults |-> 0, connects |-> 0, late |-> FALSE]

-----------------------------------------------------------------------------

\* mg_error of each of a set of connections.
Failed(f, cs) == [c \in Conns |-> IF c \in cs THEN [f[c] EXCEPT !.is_closing = TRUE] ELSE f[c]]

Owners(rs) == {d.c : d \in rs}

\* Some query of these requests is not answered yet.
Unanswered(rs) == \E m \in net, d \in rs : m.txnid = d.txnid

Query(txnid, host) == [kind |-> "query", txnid |-> txnid, host |-> host]
Answer(q, found) == [kind |-> "answer", txnid |-> q.txnid, host |-> q.host, found |-> found]

\* Faulty form: as many as there are requests, and one.
txnid_by_length(rs) == Cardinality(rs)

\* The request at the head of the list.
Youngest(rs) == CHOOSE d \in rs : \A e \in rs : e.txnid <= d.txnid

\* The identifier of a new request: one more than that one's.
new_txnid(rs) == IF rs = {} THEN 1 ELSE Youngest(rs).txnid + 1

Fails == past.faults < MaxFaults
Fault == past' = [past EXCEPT !.faults = @ + 1]

\* mg_connect to a host by its name: mg_resolve and mg_sendnsreq, which make
\* the connection to the server if there is none.  That may fail, as may the
\* allocation of the request and the sending of the query.
Connect(h) ==
  /\ past.connects < MaxConnects /\ \E c \in Conns : ~conn[c].live
  /\ LET c == CHOOSE c \in Conns : ~conn[c].live
         f == [conn EXCEPT ![c] = Conn(TRUE, h)]
         d == [c |-> c, txnid |-> new_txnid(reqs), left |-> Timeout]
         called == [past EXCEPT !.connects = @ + 1]
         failed == [called EXCEPT !.faults = @ + 1]
     IN  \/ \* resolver, or resolve OOM
            /\ Fails /\ past' = failed
            /\ conn' = Failed(f, {c})
            /\ dns' \in {dns, IF dns = "none" THEN "open" ELSE dns}
            /\ UNCHANGED <<reqs, net>>
         \/ /\ conn' = [f EXCEPT ![c].is_resolving = TRUE]
            /\ reqs' = reqs \cup {d}
            /\ \/ /\ dns' = IF dns = "none" THEN "open" ELSE dns
                  /\ net' = net \cup {Query(d.txnid, h)}
                  /\ past' = called
               \/ \* DNS send
                  /\ Fails /\ past' = failed
                  /\ dns' = "closing"
                  /\ UNCHANGED net

\* dns_cb, MG_EV_POLL.
DnsPoll ==
  /\ dns # "none"
  /\ \E d \in reqs : d.left = 0 /\ ~conn[d.c].is_closing
  /\ conn' = Failed(conn, Owners({d \in reqs : d.left = 0}))
  /\ UNCHANGED <<dns, reqs, net, past>>

\* dns_cb, MG_EV_READ: the first address of the answer, or none, goes to
\* every request with its identifier.  mg_connect_resolved leaves the
\* connection to the transport.
DnsRead(m) ==
  /\ dns = "open" /\ m \in net /\ m.kind = "answer"
  /\ LET mine == {d \in reqs : d.txnid = m.txnid}
         asked == {c \in Owners(mine) : conn[c].is_resolving}
     IN  /\ conn' = IF m.found
                      THEN [c \in Conns |-> IF c \notin asked THEN conn[c]
                              ELSE [conn[c] EXCEPT !.rem = m.host, !.is_resolving = FALSE]]
                      ELSE Failed(conn, asked)
         /\ reqs' = reqs \ mine
  /\ net' = net \ {m}
  /\ UNCHANGED <<dns, past>>

\* Something that mg_dns_parse refuses comes, or an answer that none asked.
DnsStray(m) ==
  /\ dns # "open" /\ m \in net /\ m.kind = "answer"
  /\ net' = net \ {m}
  /\ UNCHANGED <<conn, dns, reqs, past>>

\* mg_close_conn of the connection to the server; dns_cb, MG_EV_CLOSE.
DnsClose ==
  /\ dns = "closing"
  /\ dns' = "none"
  /\ conn' = Failed(conn, Owners(reqs))
  /\ reqs' = {}
  /\ past' = [past EXCEPT !.late = @ \/ Unanswered(reqs)]
  /\ UNCHANGED net

\* The socket of the connection to the server fails.
DnsError ==
  /\ dns = "open" /\ Fails /\ Fault
  /\ dns' = "closing"
  /\ UNCHANGED <<conn, reqs, net>>

mg_resolve_cancel(rs, c) == {d \in rs : d.c # c}

\* mg_close_conn of a connection, which the application may have asked for.
Close(c) ==
  /\ conn[c].live
  /\ conn' = [conn EXCEPT ![c] = Conn(FALSE, NONE)]
  /\ reqs' = mg_resolve_cancel(reqs, c)
  /\ past' = [past EXCEPT !.late = @ \/ Unanswered({d \in reqs : d.c = c})]
  /\ UNCHANGED <<dns, net>>

-----------------------------------------------------------------------------
(* The server, the network and the time *)

Serve(q) ==
  /\ q \in net /\ q.kind = "query"
  /\ \E found \in BOOLEAN : net' = (net \ {q}) \cup {Answer(q, found)}
  /\ UNCHANGED <<conn, dns, reqs, past>>

Lose(m) ==
  /\ Fails /\ Fault
  /\ m \in net /\ net' = net \ {m}
  /\ UNCHANGED <<conn, dns, reqs>>

\* An answer is given twice.
Repeat(q) ==
  /\ Fails
  /\ past' = [past EXCEPT !.faults = @ + 1, !.late = TRUE]
  /\ q \in net /\ q.kind = "query"
  /\ \E found \in BOOLEAN : net' = net \cup {Answer(q, found)}
  /\ UNCHANGED <<conn, dns, reqs>>

Tick ==
  /\ \E d \in reqs : d.left > 0
  /\ reqs' = {[d EXCEPT !.left = IF @ = 0 THEN 0 ELSE @ - 1] : d \in reqs}
  /\ UNCHANGED <<conn, dns, net, past>>

Receive == \E m \in net : DnsRead(m) \/ DnsStray(m)

Next ==
  \/ DnsPoll \/ Receive \/ DnsClose \/ DnsError \/ Tick
  \/ \E h \in Hosts : Connect(h)
  \/ \E c \in Conns : Close(c)
  \/ \E m \in net : Serve(m) \/ Lose(m) \/ Repeat(m)

Spec == Init /\ [][Next]_vars

\* mg_mgr_poll goes on, and closes what is to be closed; time passes.
FairSpec ==
  /\ Spec
  /\ WF_vars(DnsPoll) /\ WF_vars(DnsClose) /\ WF_vars(Tick)
  /\ \A c \in Conns : WF_vars(Close(c) /\ conn[c].is_closing)

-----------------------------------------------------------------------------
(* Properties *)

\* A connection is told the address of the host that it asked for, unless an
\* answer was late or repeated: then the identifier may be another's by now.
OwnAddress ==
  \A c \in Conns : conn[c].rem \in {NONE, conn[c].host} \/ past.late

\* A request names a connection that is there and waits for it, and no two
\* have the same identifier, nor the same connection.
RequestsAreLive ==
  /\ \A c \in Owners(reqs) : conn[c].live /\ conn[c].is_resolving
  /\ \A d, e \in reqs : d.txnid = e.txnid \/ d.c = e.c => d = e

\* Every look-up ends: with an answer, or with the end of its connection.
LookupsEnd == \A c \in Conns : conn[c].is_resolving ~> ~conn[c].is_resolving

=============================================================================
