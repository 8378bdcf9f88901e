---------------------------- MODULE DiscoveryMC ----------------------------
(***************************************************************************)
(* An instance of Discovery for TLC: two servers, a host with three        *)
(* interfaces, of which two may carry mDNS, or with none.                  *)
(***************************************************************************)
EXTENDS Discovery

Lan == [family |-> "inet", flags |-> {"UP", "MULTICAST"}, local |-> FALSE,
        scoped |-> FALSE, opens |-> TRUE]
Lan6     == [Lan EXCEPT !.family = "inet6"]
Loopback == [Lan EXCEPT !.flags = @ \cup {"LOOPBACK"}]
HostNetworks == {<<Loopback>>, <<Loopback, Lan, Lan6, Lan>>}

TwoServers == {<<"host1", 1>>, <<"host2", 2>>}

Record(name, type, value) == [name |-> name, type |-> type, value |-> value]
Advert(value) == Record(EXPECTED_ENTRY_TYPE_NAME, "PTR", value)
ServerAdverts == {<<Advert("printer")>>, <<Advert("printer"), Advert(SERVICE_NAME)>>}

Ptr(s)  == Record(SERVICE_NAME, "PTR", s[1])
Srv(s)  == Record(s[1], "SRV", s[2])
A(s)    == Record(s[1], "A", s[1])
Aaaa(s) == Record(s[1], "AAAA", s[1])

\* The first server answers with its port and address, or on a network of IPv6
\* only with no address of use; the second with its address first.
ServerAnswers ==
  {<<Ptr(<<"host1", 1>>), Srv(<<"host1", 1>>), A(<<"host1", 1>>)>>,
   <<Srv(<<"host1", 1>>), Aaaa(<<"host1", 1>>)>>,
   <<A(<<"host2", 2>>), Srv(<<"host2", 2>>)>>}
=============================================================================
