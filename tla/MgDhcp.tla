------------------------------- MODULE MgDhcp -------------------------------
(***************************************************************************)
(* The DHCP client of the built-in stack of mongoose 7.12: the state of    *)
(* the interface, over a link that goes up and down and a network that     *)
(* loses messages.  The server is an ordinary one, which names a router,   *)
(* or mongoose's own, which does not.  Time is counted in steps of half an *)
(* hour, the margin in which the client tries to renew its lease.          *)
(***************************************************************************)
EXTENDS Naturals

CONSTANTS
  MaxLease,   \* of the ordinary server
  MaxLosses   \* bound: messages lost, and changes of the link

MgDhcpAssumption == MaxLease \in Nat \ {0} /\ MaxLosses \in Nat

VARIABLES
  ifp,     \* the state of the interface, its address (0 or 1) and the time
           \* that is left of the lease
  link,    \* whether the driver says that the link is up
  server,  \* "ordinary" or "mongoose"
  asked, answered,  \* the messages on their way
  losses, dropped   \* dropped: a message was lost since the last DISCOVER

vars == <<ifp, link, server, asked, answered, losses, dropped>>

Down == [state |-> "DOWN", ip |-> 0, lease |-> 0]

Init == /\ ifp = Down /\ link = FALSE
        /\ server \in {"ordinary", "mongoose"}
        /\ asked = {} /\ answered = {}
        /\ losses = 0 /\ dropped = FALSE

-----------------------------------------------------------------------------
(* mg_tcpip_poll, once a second *)

\* The link, and what becomes of the interface.
Linked == IF link = (ifp.state # "DOWN") THEN ifp
          ELSE IF link THEN [ifp EXCEPT !.state = "UP"]
          ELSE [ifp EXCEPT !.state = "DOWN", !.ip = 0]

\* Faulty form: a lease that has run out is kept.
NeverExpires(f) == FALSE

Expires(f) == f.state = "READY" /\ f.lease = 0

Poll ==
  /\ LET f == Linked
     IN  /\ ifp' = IF Expires(f) THEN [f EXCEPT !.state = "UP", !.ip = 0] ELSE f
         /\ asked' = CASE f.state = "UP" -> asked \cup {"DISCOVER"}
                       [] f.state = "READY" /\ f.lease = 1 -> asked \cup {"RENEW"}
                       [] OTHER -> asked
         /\ dropped' = (dropped /\ f.state # "UP")
  /\ UNCHANGED <<link, server, answered, losses>>

-----------------------------------------------------------------------------
(* rx_dhcp_client *)

Take(m) == m \in answered /\ answered' = answered \ {m}

\* The offered address is only looked at when the message names a router.
Address(m) == IF m.router THEN 1 ELSE 0

Offer(m) ==
  /\ Take(m) /\ m.type = "OFFER"
  /\ IF ifp.state = "UP" /\ Address(m) # 0 /\ m.lease # 0
       THEN /\ ifp' = [ifp EXCEPT !.state = "REQ"]
            /\ asked' = asked \cup {"REQUEST"}
       ELSE UNCHANGED <<ifp, asked>>
  /\ UNCHANGED <<link, server, losses, dropped>>

Ack(m) ==
  /\ Take(m) /\ m.type = "ACK"
  /\ ifp' = CASE ifp.state = "REQ" /\ Address(m) # 0 /\ m.lease # 0 ->
                   [state |-> "READY", ip |-> Address(m), lease |-> m.lease]
              [] ifp.state = "READY" /\ ifp.ip = Address(m) -> [ifp EXCEPT !.lease = m.lease]
              [] OTHER -> ifp
  /\ UNCHANGED <<link, server, asked, losses, dropped>>

\* A NAK names no router, so that only an interface without an address takes
\* it for its own.
Nak(m) ==
  /\ Take(m) /\ m.type = "NAK"
  /\ ifp' = IF ifp.ip = Address(m) THEN [ifp EXCEPT !.state = "UP", !.ip = 0] ELSE ifp
  /\ UNCHANGED <<link, server, asked, losses, dropped>>

-----------------------------------------------------------------------------
(* The server, the network and the time *)

Reply(type) ==
  [type |-> type, router |-> type # "NAK", lease |-> IF type = "NAK" THEN 0 ELSE MaxLease]

\* Any answer that an ordinary server may give.
Ordinary(q) ==
  {Reply(type) : type \in IF q = "DISCOVER" THEN {"OFFER"} ELSE {"ACK", "NAK"}}

\* rx_dhcp_server: an OFFER or an ACK, with a lease of ever and no router.
rx_dhcp_server(q) ==
  {[type |-> IF q = "DISCOVER" THEN "OFFER" ELSE "ACK", router |-> FALSE, lease |-> MaxLease]}

Serve(q) ==
  /\ q \in asked /\ asked' = asked \ {q}
  /\ \E m \in IF server = "ordinary" THEN Ordinary(q) ELSE rx_dhcp_server(q) :
       answered' = answered \cup {m}
  /\ UNCHANGED <<ifp, link, server, losses, dropped>>

Lose ==
  /\ losses < MaxLosses /\ losses' = losses + 1
  /\ \/ \E q \in asked : asked' = asked \ {q} /\ UNCHANGED answered
     \/ \E m \in answered : answered' = answered \ {m} /\ UNCHANGED asked
  /\ dropped' = TRUE
  /\ UNCHANGED <<ifp, link, server>>

Relink ==
  /\ losses < MaxLosses /\ losses' = losses + 1
  /\ link' = ~link
  /\ UNCHANGED <<ifp, server, asked, answered, dropped>>

Pass ==
  /\ ifp.lease > 0
  /\ ifp' = [ifp EXCEPT !.lease = @ - 1]
  /\ UNCHANGED <<link, server, asked, answered, losses, dropped>>

Questions == {"DISCOVER", "REQUEST", "RENEW"}
Receive == \E m \in answered : Offer(m) \/ Ack(m) \/ Nak(m)

Next == Poll \/ Receive \/ (\E q \in Questions : Serve(q)) \/ Lose \/ Relink \/ Pass

Spec == Init /\ [][Next]_vars

FairSpec == /\ Spec
            /\ WF_vars(Poll) /\ WF_vars(Pass) /\ WF_vars(Receive)
            /\ \A q \in Questions : WF_vars(Serve(q))

-----------------------------------------------------------------------------
(* Properties *)

\* The interface has an address exactly when it is ready, and mongoose's
\* client gets none from mongoose's server.
AddressWhenReady ==
  /\ ifp.ip # 0 <=> ifp.state = "READY"
  /\ server = "mongoose" => ifp.ip = 0

\* A client in the state REQ asks nothing again: it waits for an answer that
\* is on its way, or for ever, when a message was lost.
ReqOnlyIfLost ==
  ifp.state = "REQ" =>
    dropped \/ "REQUEST" \in asked \/ \E m \in answered : m.type \in {"ACK", "NAK"}

\* A lease that has run out is renewed, or the address is given up.
Expired == ifp.state = "READY" /\ ifp.lease = 0

LeasesEnd == Expired ~> ~Expired

=============================================================================
