------------------------------ MODULE MCMgNet ------------------------------
(***************************************************************************)
(* Small instances of four parts of the network side of mongoose 7.12 that *)
(* do not know of each other: the message queue between a driver and the   *)
(* stack, a TCP connection, the DHCP client and the resolver.  A behaviour *)
(* is one of one of them, and the others stay where they begin.  The names *)
(* that MgQueue defines are its own.  The proofs are in MgNetProofs.       *)
(***************************************************************************)
EXTENDS MgQueue

CONSTANTS
  NONE,
  PeerData, AppData, Mss, MaxFaults, MaxConns,
  MaxLease, MaxLosses,
  Conns, Hosts, Timeout, MaxDnsFaults, MaxConnects

VARIABLES
  which,
  c, peer, up, down, past,
  ifp, link, server, asked, answered, losses, dropped,
  conn, dns, reqs, net, dns_past

T == INSTANCE MgTcpip
D == INSTANCE MgDhcp
N == INSTANCE MgDns WITH MaxFaults <- MaxDnsFaults, past <- dns_past

\* A peer that calls has two bytes to say, and one that is called has one.
MCPeerData == [server |-> 2, client |-> 1]

ASSUME MgNetAssumption ==
  /\ MgQueueAssumption /\ T!MgTcpipAssumption
  /\ D!MgDhcpAssumption /\ N!MgDnsAssumption

messages == <<buf, head, tail, producer, consumer, added, got>>
tcpip == <<c, peer, up, down, past>>
dhcp == <<ifp, link, server, asked, answered, losses, dropped>>
resolver == <<conn, dns, reqs, net, dns_past>>
nvars == <<which, messages, tcpip, dhcp, resolver>>

\* A component that a behaviour is not about begins in one way only.
NetInit ==
  /\ which \in {"messages", "tcpip", "dhcp", "dns"}
  /\ Init /\ T!Init /\ D!Init /\ N!Init
  /\ which # "tcpip" => past.role = "server"
  /\ which # "dhcp" => server = "ordinary"

NetNext ==
  \/ which = "messages" /\ Next /\ UNCHANGED <<which, tcpip, dhcp, resolver>>
  \/ which = "tcpip" /\ T!Next /\ UNCHANGED <<which, messages, dhcp, resolver>>
  \/ which = "dhcp" /\ D!Next /\ UNCHANGED <<which, messages, tcpip, resolver>>
  \/ which = "dns" /\ N!Next /\ UNCHANGED <<which, messages, tcpip, dhcp>>

NetSpec == NetInit /\ [][NetNext]_nvars

\* The fairness of each component.
FairNet ==
  /\ NetSpec
  /\ WF_messages(which = "messages" /\ Produce)
  /\ WF_messages(which = "messages" /\ Consume)
  /\ WF_tcpip(which = "tcpip" /\ T!Rx)
  /\ WF_tcpip(which = "tcpip" /\ T!TimesOut)
  /\ WF_tcpip(which = "tcpip" /\ T!Serve)
  /\ WF_tcpip(which = "tcpip" /\ T!PeerRecv)
  /\ WF_tcpip(which = "tcpip" /\ T!PeerRetransmit)
  /\ WF_dhcp(which = "dhcp" /\ D!Poll)
  /\ WF_dhcp(which = "dhcp" /\ D!Pass)
  /\ WF_dhcp(which = "dhcp" /\ D!Receive)
  /\ \A q \in D!Questions : WF_dhcp(which = "dhcp" /\ D!Serve(q))
  /\ WF_resolver(which = "dns" /\ N!DnsPoll)
  /\ WF_resolver(which = "dns" /\ N!DnsClose)
  /\ WF_resolver(which = "dns" /\ N!Tick)
  /\ \A i \in Conns : WF_resolver(which = "dns" /\ N!Close(i) /\ conn[i].is_closing)

-----------------------------------------------------------------------------
(* Properties *)

\* Of the message queue: the messages arrive whole, in their order, and its
\* assertions hold.  Of TCP: the streams of a connection have no gap,
\* repetition or exchange, and begin with the first byte when the network has
\* no fault.  Of DHCP: the interface has an address exactly when it is ready,
\* and asks once only.  Of DNS: an address goes to whoever asked for it, and
\* requests are those of connections that wait.
NetworkIsTrue ==
  /\ which = "messages" => MessagesIntact /\ AssertsHold
  /\ which = "tcpip" => T!StreamsAreTrue /\ T!NothingMissed
  /\ which = "dhcp" => D!AddressWhenReady /\ D!ReqOnlyIfLost
  /\ which = "dns" => N!OwnAddress /\ N!RequestsAreLive

\* What a component has to come to the end of.
Pending == \/ which = "messages" /\ Booking
           \/ which = "tcpip" /\ T!Ending
           \/ which = "dhcp" /\ D!Expired
           \/ which = "dns" /\ \E i \in Conns : conn[i].is_resolving

\* RoomComesBack of the message queue, ConnectionsEnd of TCP, LeasesEnd of
\* DHCP and LookupsEnd of DNS: a message for which there will be room gets in,
\* a connection that is to end does, and so do a lease, or the address that it
\* is for, and the look-ups, of which there is a last one here.
EverythingEnds == Pending ~> ~Pending

=============================================================================
