-------------------------------- MODULE Mdns --------------------------------
(***************************************************************************)
(* The mDNS client, CMDns (gui-app/src/Utils/mDNS/mDns.cpp): which sockets *)
(* it opens, which advertised services it asks for, and which addresses it *)
(* makes of the answers.  One CMDns serves one discovery.  It waits for    *)
(* answers once, reads at most one packet from each socket, and hands the  *)
(* records of all packets, one after the other, to a callback.             *)
(***************************************************************************)
EXTENDS Naturals, SequencesExt

CONSTANTS
  Networks,     \* the lists of interfaces that getifaddrs may return
  Adverts,      \* the packets that may answer the discovery
  Answers,      \* the packets that may answer the query
  MaxSockets    \* the length of the arrays of sockets (32 in the code)

\* Lists of interfaces and packets are sequences.
ASSUME MdnsAssumption ==
  /\ MaxSockets \in Nat \ {0}
  /\ \A list \in Networks \cup Adverts \cup Answers :
       Len(list) \in Nat /\ DOMAIN list = 1..Len(list)

EXPECTED_ENTRY_TYPE_NAME == "_services._dns-sd._udp.local."
SERVICE_NAME == "_sane_in_the_membrane_service"

-----------------------------------------------------------------------------
(* Sockets.                                                                *)

Usable(ifa) ==
  /\ {"UP", "MULTICAST"} \subseteq ifa.flags
  /\ ifa.flags \cap {"LOOPBACK", "POINTOPOINT"} = {}
  /\ \/ ifa.family = "inet"
     \/ ifa.family = "inet6" /\ ~ifa.scoped
  /\ ~ifa.local /\ ifa.opens

\* How many are opened; those beyond the array are not.
open_client_sockets(ifaddr) ==
  Min({MaxSockets, Cardinality({n \in DOMAIN ifaddr : Usable(ifaddr[n])})})

\* What select and the reads may give on these sockets: on each a packet or
\* nothing; nothing on all of them when the time is over or a signal came.
Received(ifaddr, packets) ==
  [1..open_client_sockets(ifaddr) -> packets \cup {<<>>}]

-----------------------------------------------------------------------------
(* The discovery: names of services.                                       *)

discover_callback(advertised, record) ==
  IF /\ record.name = EXPECTED_ENTRY_TYPE_NAME
     /\ record.type = "PTR" /\ record.value = SERVICE_NAME
  THEN Append(advertised, record.value) ELSE advertised

discover_services(received) ==
  FoldLeft(discover_callback, <<>>, FlattenSeq(received))

-----------------------------------------------------------------------------
(* The query: addresses.  A partial result has an optional address and an  *)
(* optional port, each a sequence of at most one element.                  *)

Unset == <<>>
Empty == [m_ip_v4_addr |-> Unset, m_port |-> Unset, m_query_results |-> <<>>]

Built(p, kept) ==
  [m_ip_v4_addr |-> Unset, m_port |-> kept,
   m_query_results |-> Append(p.m_query_results, <<p.m_ip_v4_addr[1], p.m_port[1]>>)]

\* Mutant: the port is not reset.
build_ipv4_no_reset(p) ==
  IF p.m_ip_v4_addr = Unset \/ p.m_port = Unset THEN p ELSE Built(p, p.m_port)

\* Only a complete pair becomes a result, and both halves are used up by it.
build_ipv4(p) ==
  IF p.m_ip_v4_addr = Unset \/ p.m_port = Unset THEN p ELSE Built(p, Unset)

\* An AAAA record sets the IPv6 address, of which no result is ever built.
query_callback(p, record) ==
  build_ipv4(
    CASE record.type = "SRV" -> [p EXCEPT !.m_port = <<record.value>>]
      [] record.type = "A"   -> [p EXCEPT !.m_ip_v4_addr = <<record.value>>]
      [] OTHER               -> p)

\* mdns_query_recv: the callback gets the records of a packet in order.
read_packet(p, packet) ==
  LET after[n \in 0..Len(packet)] ==
        IF n = 0 THEN p ELSE query_callback(after[n - 1], packet[n])
  IN after[Len(packet)]

\* One partial result goes through the packets of all sockets.
send_mdns_query(received) ==
  LET after[n \in 0..Len(received)] ==
        IF n = 0 THEN Empty ELSE read_packet(after[n - 1], received[n])
  IN after[Len(received)].m_query_results

-----------------------------------------------------------------------------
(* What discover_services and query_services may return.                   *)

NoSockets(ifaddr) == open_client_sockets(ifaddr) = 0

CanFail == \E ifaddr \in Networks : NoSockets(ifaddr)

\* Whether our service was advertised.
DiscoverResults ==
  UNION {{discover_services(r) # <<>> : r \in Received(ifaddr, Adverts)} :
           ifaddr \in {i \in Networks : ~NoSockets(i)}}

\* A packet in which the query's callback cannot mistake one server for
\* another: one port with one address, or neither.
Balanced(packet) ==
  LET Count(t) == Cardinality({n \in DOMAIN packet : packet[n].type = t}) IN
  Count("SRV") = Count("A") /\ Count("A") <= 1

query_results(received) ==
  [results |-> send_mdns_query(received),
   balanced |-> \A n \in DOMAIN received : Balanced(received[n])]

QueryResults ==
  UNION {{query_results(r) : r \in Received(ifaddr, Answers)} :
           ifaddr \in {i \in Networks : ~NoSockets(i)}}

\* query_services: without an advertised service nothing is asked.
query_services(advertised) ==
  IF advertised THEN QueryResults ELSE {[results |-> <<>>, balanced |-> TRUE]}
query_fails(advertised) == advertised /\ CanFail
=============================================================================
