--------------------------- MODULE Discovery_proofs ---------------------------
(***************************************************************************)
(* Theorems about the client's discovery of its server, for all servers,   *)
(* networks and packets that answer, every number of channels and every    *)
(* length of the queue of signals.                                         *)
(*                                                                         *)
(* What the query makes of the records it is handed is computed by two     *)
(* loops, of which the first part proves the invariants: by the least      *)
(* round that breaks them.  The second part is about the threads.          *)
(***************************************************************************)
EXTENDS Discovery, FiniteSetTheorems, SequenceTheorems, WellFoundedInduction, TLAPS

-----------------------------------------------------------------------------
(* Least elements, in the place of induction.                              *)

Less == {p \in Nat \X Nat : p[1] < p[2]}

LEMMA LessWellFounded == IsWellFoundedOn(Less, Nat)
BY NatLessThanWellFounded DEF OpToRel, Less

\* A set of numbers has a least one.
LEMMA LeastOf ==
  ASSUME NEW S, S \subseteq Nat, S # {}
  PROVE  \E n \in S : \A m \in S : n <= m
<1>1. PICK n \in S : \A m \in S : ~(<<m, n>> \in Less)
  BY LessWellFounded, WFMin
<1>2. ASSUME NEW m \in S
      PROVE  n <= m
  <2>1. ~(<<m, n>> \in Less)
    BY <1>1
  <2> QED
    BY <2>1 DEF Less
<1> QED
  BY <1>2

\* Rounds that are all good, if the first is and a good one leads to a good one.
LEMMA AllRounds ==
  ASSUME NEW N \in Nat, NEW Good \in SUBSET Nat, 0 \in Good,
         \A n \in 0..N - 1 : n \in Good => n + 1 \in Good
  PROVE  0..N \subseteq Good
<1> DEFINE Bad == {n \in 0..N : n \notin Good}
<1>1. SUFFICES ASSUME Bad # {}
               PROVE  FALSE
  OBVIOUS
<1>a. Bad \subseteq Nat
  OBVIOUS
<1>2. PICK n \in Bad : \A m \in Bad : n <= m
  <2> HIDE DEF Bad
  <2> QED
    BY <1>1, <1>a, LeastOf
<1>3. n # 0 /\ n - 1 \in 0..N - 1
  BY <1>2
<1>4. n - 1 \in Good
  BY <1>2, <1>3
<1> QED
  BY <1>2, <1>3, <1>4

-----------------------------------------------------------------------------
(* The records of one packet.                                              *)

\* The loop over the records of a packet computes something.
LEMMA PacketLoop ==
  ASSUME NEW p, NEW packet, Len(packet) \in Nat
  PROVE  \E f : f = [n \in 0..Len(packet) |->
                      IF n = 0 THEN p ELSE query_callback(f[n - 1], packet[n])]
<1> DEFINE Loop(k) == \E f : f = [n \in 0..k |->
                      IF n = 0 THEN p ELSE query_callback(f[n - 1], packet[n])]
           Good == {k \in Nat : Loop(k)}
<1>1. Loop(0)
  <2> DEFINE f == [n \in 0..0 |-> p]
  <2>1. f = [n \in 0..0 |-> IF n = 0 THEN p ELSE query_callback(f[n - 1], packet[n])]
    OBVIOUS
  <2> QED
    BY <2>1
<1>2. ASSUME NEW k \in Nat, Loop(k)
      PROVE  Loop(k + 1)
  <2>1. PICK f : f = [n \in 0..k |->
                      IF n = 0 THEN p ELSE query_callback(f[n - 1], packet[n])]
    BY <1>2
  <2> DEFINE g == [n \in 0..k + 1 |->
                    IF n = k + 1 THEN query_callback(f[k], packet[k + 1]) ELSE f[n]]
             h == [n \in 0..k + 1 |->
                    IF n = 0 THEN p ELSE query_callback(g[n - 1], packet[n])]
  <2>2. ASSUME NEW n \in 0..k + 1
        PROVE  g[n] = h[n]
    <3>1. CASE n = 0
      <4>1. f[0] = p
        BY <2>1
      <4> QED
        BY <3>1, <4>1
    <3>2. CASE n \in 1..k
      <4>1. f[n] = query_callback(f[n - 1], packet[n])
        BY <2>1, <3>2
      <4>2. n - 1 \in 0..k + 1 /\ n - 1 # k + 1 /\ n # k + 1 /\ n # 0
        BY <3>2
      <4> QED
        BY <4>1, <4>2
    <3>3. CASE n = k + 1
      <4>1. n - 1 = k /\ k \in 0..k + 1 /\ k # k + 1 /\ n # 0
        BY <3>3
      <4> QED
        BY <3>3, <4>1
    <3> QED
      BY <3>1, <3>2, <3>3
  <2>3. g = h
    BY <2>2
  <2> QED
    BY <2>3
<1> HIDE DEF Loop
<1>a. Good \in SUBSET Nat /\ 0 \in Good /\ \A n \in 0..Len(packet) - 1 : n \in Good => n + 1 \in Good
  BY <1>1, <1>2
<1>3. 0..Len(packet) \subseteq Good
  <2> HIDE DEF Good
  <2> QED
    BY <1>a, AllRounds
<1>4. Loop(Len(packet))
  BY <1>3
<1> QED
  BY <1>4 DEF Loop

\* What it computes satisfies the loop's equation.
LEMMA PacketRounds ==
  ASSUME NEW p, NEW packet, Len(packet) \in Nat
  PROVE  \E f : /\ f = [n \in 0..Len(packet) |->
                         IF n = 0 THEN p ELSE query_callback(f[n - 1], packet[n])]
                /\ read_packet(p, packet) = f[Len(packet)]
<1> DEFINE Eq(f) == f = [n \in 0..Len(packet) |->
                         IF n = 0 THEN p ELSE query_callback(f[n - 1], packet[n])]
<1>1. Eq(CHOOSE f : Eq(f))
  BY PacketLoop
<1>2. read_packet(p, packet) = (CHOOSE f : Eq(f))[Len(packet)]
  BY DEF read_packet
<1> QED
  BY <1>1, <1>2
\* A partial result with nothing left over, and results that are servers.
Clean == [m_ip_v4_addr : {Unset}, m_port : {Unset}, m_query_results : Seq(Servers)]

Partial(address, port, results) ==
  [m_ip_v4_addr |-> address, m_port |-> port, m_query_results |-> results]

\* Of one half no address is built.
LEMMA NothingBuilt ==
  ASSUME NEW a, NEW b, a = Unset \/ b = Unset, NEW rs
  PROVE  build_ipv4(Partial(a, b, rs)) = Partial(a, b, rs)
BY DEF build_ipv4, Partial

\* Of two halves one is built, and uses them up.
LEMMA AddressBuilt ==
  ASSUME NEW a, NEW b, NEW rs
  PROVE  build_ipv4(Partial(<<a>>, <<b>>, rs)) =
           Partial(Unset, Unset, Append(rs, <<a, b>>))
<1>1. <<a>> # <<>> /\ <<b>> # <<>> /\ <<a>>[1] = a /\ <<b>>[1] = b
  OBVIOUS
<1> QED
  BY <1>1 DEF build_ipv4, Partial, Built, Unset

\* What the callback does with a port, by what is there already.
LEMMA CallbackOfPort ==
  ASSUME NEW a, NEW rs, NEW rec, rec.type = "SRV"
  PROVE  /\ query_callback(Partial(Unset, Unset, rs), rec)
              = Partial(Unset, <<rec.value>>, rs)
         /\ query_callback(Partial(<<a>>, Unset, rs), rec)
              = Partial(Unset, Unset, Append(rs, <<a, rec.value>>))
<1>1. ASSUME NEW x
      PROVE  query_callback(Partial(x, Unset, rs), rec)
               = build_ipv4(Partial(x, <<rec.value>>, rs))
  BY DEF query_callback, Partial
<1>2. build_ipv4(Partial(Unset, <<rec.value>>, rs)) = Partial(Unset, <<rec.value>>, rs)
  BY NothingBuilt
<1>3. build_ipv4(Partial(<<a>>, <<rec.value>>, rs))
        = Partial(Unset, Unset, Append(rs, <<a, rec.value>>))
  BY AddressBuilt
<1> QED
  BY <1>1, <1>2, <1>3

\* The same of an address.
LEMMA CallbackOfAddress ==
  ASSUME NEW b, NEW rs, NEW rec, rec.type = "A"
  PROVE  /\ query_callback(Partial(Unset, Unset, rs), rec)
              = Partial(<<rec.value>>, Unset, rs)
         /\ query_callback(Partial(Unset, <<b>>, rs), rec)
              = Partial(Unset, Unset, Append(rs, <<rec.value, b>>))
<1>1. ASSUME NEW x
      PROVE  query_callback(Partial(Unset, x, rs), rec)
               = build_ipv4(Partial(<<rec.value>>, x, rs))
  BY DEF query_callback, Partial
<1>2. build_ipv4(Partial(<<rec.value>>, Unset, rs)) = Partial(<<rec.value>>, Unset, rs)
  BY NothingBuilt
<1>3. build_ipv4(Partial(<<rec.value>>, <<b>>, rs))
        = Partial(Unset, Unset, Append(rs, <<rec.value, b>>))
  BY AddressBuilt
<1> QED
  BY <1>1, <1>2, <1>3

\* Records of other types change nothing.
LEMMA CallbackOfOther ==
  ASSUME NEW a, NEW b, a = Unset \/ b = Unset, NEW rs, NEW rec,
         rec.type \notin {"SRV", "A"}
  PROVE  query_callback(Partial(a, b, rs), rec) = Partial(a, b, rs)
<1>1. query_callback(Partial(a, b, rs), rec) = build_ipv4(Partial(a, b, rs))
  BY DEF query_callback
<1>2. build_ipv4(Partial(a, b, rs)) = Partial(a, b, rs)
  BY NothingBuilt
<1> QED
  BY <1>1, <1>2

\* The port is in record i, the address in record j, and there are no others.
OneOfEach(packet, i, j) ==
  \A n \in DOMAIN packet : /\ packet[n].type = "SRV" <=> n = i
                           /\ packet[n].type = "A" <=> n = j

\* What that says of one record.
LEMMA RecordAt ==
  ASSUME NEW packet, NEW i, NEW j, OneOfEach(packet, i, j), NEW n \in DOMAIN packet
  PROVE  /\ packet[n].type = "SRV" <=> n = i
         /\ packet[n].type = "A" <=> n = j
BY DEF OneOfEach

\* A balanced packet has neither half of an address, or one of each.
LEMMA BalancedHas ==
  ASSUME NEW packet, Len(packet) \in Nat, DOMAIN packet = 1..Len(packet),
         Balanced(packet)
  PROVE  \/ \A n \in DOMAIN packet : packet[n].type \notin {"SRV", "A"}
         \/ \E i, j \in DOMAIN packet : OneOfEach(packet, i, j)
<1> DEFINE At(t) == {n \in DOMAIN packet : packet[n].type = t}
<1>1. Cardinality(At("SRV")) = Cardinality(At("A")) /\ Cardinality(At("A")) <= 1
  BY DEF Balanced
<1>2. IsFiniteSet(DOMAIN packet)
  BY FS_Interval
<1>3. IsFiniteSet(At("SRV")) /\ IsFiniteSet(At("A"))
  BY <1>2, FS_Subset
<1>4. Cardinality(At("A")) \in Nat
  BY <1>3, FS_CardinalityType
<1>5. CASE Cardinality(At("A")) = 0
  <2> HIDE DEF At
  <2>1. At("SRV") = {} /\ At("A") = {}
    BY <1>1, <1>3, <1>5, FS_EmptySet
  <2> QED
    BY <2>1 DEF At
<1>6. CASE Cardinality(At("A")) = 1
  <2> HIDE DEF At
  <2>1. PICK i : At("SRV") = {i}
    BY <1>1, <1>3, <1>6, FS_Singleton
  <2>2. PICK j : At("A") = {j}
    BY <1>1, <1>3, <1>6, FS_Singleton
  <2>3. \A n : n \in At("SRV") <=> n = i
    BY <2>1
  <2>4. \A n : n \in At("A") <=> n = j
    BY <2>2
  <2>5. \A t, n : n \in At(t) <=> n \in DOMAIN packet /\ packet[n].type = t
    BY DEF At
  <2>6. i \in DOMAIN packet /\ j \in DOMAIN packet /\ OneOfEach(packet, i, j)
    BY <2>3, <2>4, <2>5 DEF OneOfEach
  <2> QED
    BY <2>6
<1> QED
  BY <1>1, <1>4, <1>5, <1>6

\* The answer of one server, read with nothing left over, leaves nothing over
\* and adds that server or nothing.
LEMMA PacketIsClean ==
  ASSUME NEW packet \in Answers \cup {<<>>}, NEW p \in Clean, Balanced(packet)
  PROVE  read_packet(p, packet) \in Clean
<1> DEFINE N == Len(packet)
<1>1. N \in Nat /\ DOMAIN packet = 1..N
  BY MdnsAssumption
<1>2. PICK f : /\ f = [n \in 0..N |->
                        IF n = 0 THEN p ELSE query_callback(f[n - 1], packet[n])]
               /\ read_packet(p, packet) = f[N]
  BY <1>1, PacketRounds
<1>3. f[0] = p /\ \A n \in 0..N - 1 : f[n + 1] = query_callback(f[n], packet[n + 1])
  <2>1. f[0] = p
    BY <1>1, <1>2
  <2>2. ASSUME NEW n \in 0..N - 1
        PROVE  f[n + 1] = query_callback(f[n], packet[n + 1])
    <3>1. n + 1 \in 0..N /\ n + 1 # 0 /\ (n + 1) - 1 = n
      BY <1>1
    <3> QED
      BY <1>2, <3>1
  <2> QED
    BY <2>1, <2>2
<1>4. PICK rs \in Seq(Servers) : p = Partial(Unset, Unset, rs)
  BY DEF Clean, Partial
<1>5. CASE \A n \in DOMAIN packet : packet[n].type \notin {"SRV", "A"}
  <2> DEFINE Good == {n \in Nat : n \in 0..N => f[n] = p}
  <2>1. Good \in SUBSET Nat /\ 0 \in Good
    BY <1>3
  <2>2. ASSUME NEW n \in 0..N - 1, n \in Good
        PROVE  n + 1 \in Good
    <3>1. f[n] = p /\ n + 1 \in DOMAIN packet
      BY <1>1, <2>2
    <3>2. query_callback(p, packet[n + 1]) = p
      <4>1. packet[n + 1].type \notin {"SRV", "A"}
        BY <1>5, <3>1
      <4> QED
        BY <1>4, <4>1, CallbackOfOther
    <3> QED
      BY <1>1, <1>3, <3>1, <3>2
  <2>3. 0..N \subseteq Good
    <3> HIDE DEF Good
    <3> QED
      BY <1>1, <2>1, <2>2, AllRounds
  <2>4. f[N] = p
    BY <1>1, <2>3
  <2> QED
    BY <1>2, <2>4
<1>6. CASE \E i, j \in DOMAIN packet : OneOfEach(packet, i, j)
  <2>a. PICK i, j \in DOMAIN packet : OneOfEach(packet, i, j)
    BY <1>6
  <2>1. i \in 1..N /\ j \in 1..N
    BY <1>1, <2>a
  <2> DEFINE server == <<packet[j].value, packet[i].value>>
             At(n) == Partial(IF j <= n /\ n < i THEN <<packet[j].value>> ELSE Unset,
                              IF i <= n /\ n < j THEN <<packet[i].value>> ELSE Unset,
                              IF i <= n /\ j <= n THEN Append(rs, server) ELSE rs)
             Good == {n \in Nat : n \in 0..N => f[n] = At(n)}
  <2>2. i # j
    <3>1. packet[i].type = "SRV" /\ packet[j].type = "A"
      BY <2>a, RecordAt
    <3> QED
      BY <3>1
  <2>3. Good \in SUBSET Nat /\ 0 \in Good
    BY <1>1, <1>3, <1>4, <2>1
  <2>4. ASSUME NEW n \in 0..N - 1, n \in Good
        PROVE  n + 1 \in Good
    <3>1. f[n] = At(n) /\ n + 1 \in 1..N /\ n \in Nat /\ i \in Nat /\ j \in Nat
      BY <1>1, <2>4
    <3>2. f[n + 1] = query_callback(At(n), packet[n + 1])
      BY <1>3, <3>1
    <3>a. /\ packet[n + 1].type = "SRV" <=> n + 1 = i
          /\ packet[n + 1].type = "A" <=> n + 1 = j
      <4>1. n + 1 \in DOMAIN packet
        BY <1>1, <3>1
      <4> QED
        BY <2>a, <4>1, RecordAt
    <3>3. CASE n + 1 = i
      <4>1. packet[n + 1].type = "SRV" /\ packet[n + 1] = packet[i]
        BY <3>a, <3>3
      <4>2. CASE j < i
        <5>1. /\ At(n) = Partial(<<packet[j].value>>, Unset, rs)
              /\ At(n + 1) = Partial(Unset, Unset, Append(rs, server))
          BY <3>1, <3>3, <4>2
        <5>2. query_callback(Partial(<<packet[j].value>>, Unset, rs), packet[i])
                = Partial(Unset, Unset, Append(rs, server))
          <6>1. packet[i].type = "SRV"
            BY <4>1
          <6>2. ASSUME NEW v
                PROVE  query_callback(Partial(<<v>>, Unset, rs), packet[i])
                         = Partial(Unset, Unset, Append(rs, <<v, packet[i].value>>))
            BY <6>1, CallbackOfPort
          <6> QED
            BY <6>2
        <5> QED
          BY <3>2, <4>1, <5>1, <5>2
      <4>3. CASE i < j
        <5>1. /\ At(n) = Partial(Unset, Unset, rs)
              /\ At(n + 1) = Partial(Unset, <<packet[i].value>>, rs)
          BY <3>1, <3>3, <4>3
        <5>2. query_callback(Partial(Unset, Unset, rs), packet[n + 1])
                = Partial(Unset, <<packet[i].value>>, rs)
          BY <3>3, <4>1, CallbackOfPort
        <5> QED
          BY <3>2, <5>1, <5>2
      <4> QED
        BY <2>2, <3>1, <4>2, <4>3
    <3>4. CASE n + 1 = j
      <4>1. packet[n + 1].type = "A" /\ packet[n + 1] = packet[j]
        BY <3>a, <3>4
      <4>2. CASE i < j
        <5>1. /\ At(n) = Partial(Unset, <<packet[i].value>>, rs)
              /\ At(n + 1) = Partial(Unset, Unset, Append(rs, server))
          BY <3>1, <3>4, <4>2
        <5>2. query_callback(Partial(Unset, <<packet[i].value>>, rs), packet[j])
                = Partial(Unset, Unset, Append(rs, server))
          <6>1. packet[j].type = "A"
            BY <4>1
          <6> QED
            BY <6>1, CallbackOfAddress
        <5> QED
          BY <3>2, <4>1, <5>1, <5>2
      <4>3. CASE j < i
        <5>1. /\ At(n) = Partial(Unset, Unset, rs)
              /\ At(n + 1) = Partial(<<packet[j].value>>, Unset, rs)
          BY <3>1, <3>4, <4>3
        <5>2. query_callback(Partial(Unset, Unset, rs), packet[n + 1])
                = Partial(<<packet[j].value>>, Unset, rs)
          BY <3>4, <4>1, CallbackOfAddress
        <5> QED
          BY <3>2, <5>1, <5>2
      <4> QED
        BY <2>2, <3>1, <4>2, <4>3
    <3>5. CASE n + 1 # i /\ n + 1 # j
      <4>1. packet[n + 1].type \notin {"SRV", "A"}
        BY <3>a, <3>5
      <4>2. At(n + 1) = At(n)
        BY <3>1, <3>5
      <4>3. query_callback(At(n), packet[n + 1]) = At(n)
        <5> DEFINE a == IF j <= n /\ n < i THEN <<packet[j].value>> ELSE Unset
                   b == IF i <= n /\ n < j THEN <<packet[i].value>> ELSE Unset
        <5>1. a = Unset \/ b = Unset
          BY <3>1
        <5> HIDE DEF a, b
        <5>2. \A qs : query_callback(Partial(a, b, qs), packet[n + 1]) = Partial(a, b, qs)
          BY <4>1, <5>1, CallbackOfOther
        <5> QED
          BY <5>2 DEF a, b
      <4> QED
        BY <3>2, <4>2, <4>3
    <3> QED
      BY <3>3, <3>4, <3>5
  <2>5. 0..N \subseteq Good
    <3> HIDE DEF Good
    <3> QED
      BY <1>1, <2>3, <2>4, AllRounds
  <2>6. f[N] = Partial(Unset, Unset, Append(rs, server))
    BY <1>1, <2>1, <2>5
  <2>7. server \in Servers
    <3>1. packet \in Answers /\ i \in DOMAIN packet /\ j \in DOMAIN packet
      BY <2>a
    <3>2. packet[j].type = "A" /\ packet[i].type = "SRV"
      BY <2>a, RecordAt
    <3> QED
      BY <3>1, <3>2, PacketsOfServers
  <2>8. Append(rs, server) \in Seq(Servers)
    BY <2>7
  <2> QED
    <3> HIDE DEF server
    <3>1. Partial(Unset, Unset, Append(rs, server)) \in Clean
      BY <2>8 DEF Clean, Partial
    <3> QED
      BY <1>2, <2>6, <3>1
<1> QED
  BY <1>1, <1>5, <1>6, BalancedHas
-----------------------------------------------------------------------------
(* The packets of one query.                                               *)

\* The loop over the sockets computes something.
LEMMA SocketLoop ==
  ASSUME NEW received, Len(received) \in Nat
  PROVE  \E f : f = [n \in 0..Len(received) |->
                      IF n = 0 THEN Empty ELSE read_packet(f[n - 1], received[n])]
<1> DEFINE Loop(k) == \E f : f = [n \in 0..k |->
                      IF n = 0 THEN Empty ELSE read_packet(f[n - 1], received[n])]
           Good == {k \in Nat : Loop(k)}
<1>1. Loop(0)
  <2> DEFINE f == [n \in 0..0 |-> Empty]
  <2>1. f = [n \in 0..0 |-> IF n = 0 THEN Empty ELSE read_packet(f[n - 1], received[n])]
    OBVIOUS
  <2> QED
    BY <2>1
<1>2. ASSUME NEW k \in Nat, Loop(k)
      PROVE  Loop(k + 1)
  <2>1. PICK f : f = [n \in 0..k |->
                      IF n = 0 THEN Empty ELSE read_packet(f[n - 1], received[n])]
    BY <1>2
  <2> DEFINE g == [n \in 0..k + 1 |->
                    IF n = k + 1 THEN read_packet(f[k], received[k + 1]) ELSE f[n]]
             h == [n \in 0..k + 1 |->
                    IF n = 0 THEN Empty ELSE read_packet(g[n - 1], received[n])]
  <2>2. ASSUME NEW n \in 0..k + 1
        PROVE  g[n] = h[n]
    <3>1. CASE n = 0
      <4>1. f[0] = Empty
        BY <2>1
      <4> QED
        BY <3>1, <4>1
    <3>2. CASE n \in 1..k
      <4>1. f[n] = read_packet(f[n - 1], received[n])
        BY <2>1, <3>2
      <4>2. n - 1 \in 0..k + 1 /\ n - 1 # k + 1 /\ n # k + 1 /\ n # 0
        BY <3>2
      <4> QED
        BY <4>1, <4>2
    <3>3. CASE n = k + 1
      <4>1. n - 1 = k /\ k \in 0..k + 1 /\ k # k + 1 /\ n # 0
        BY <3>3
      <4> QED
        BY <3>3, <4>1
    <3> QED
      BY <3>1, <3>2, <3>3
  <2>3. g = h
    BY <2>2
  <2> QED
    BY <2>3
<1> HIDE DEF Loop
<1>3. /\ Good \in SUBSET Nat /\ 0 \in Good
      /\ \A n \in 0..Len(received) - 1 : n \in Good => n + 1 \in Good
  BY <1>1, <1>2
<1>4. 0..Len(received) \subseteq Good
  <2> HIDE DEF Good
  <2> QED
    BY <1>3, AllRounds
<1>5. Loop(Len(received))
  BY <1>4
<1> QED
  BY <1>5 DEF Loop

\* When every packet that is received is balanced, a query makes servers of them.
LEMMA QueryFindsServers ==
  ASSUME NEW N \in Nat, NEW received \in [1..N -> Answers \cup {<<>>}],
         \A n \in 1..N : Balanced(received[n])
  PROVE  send_mdns_query(received) \in Seq(Servers)
<1>1. Len(received) = N
  OBVIOUS
<1> DEFINE Eq(f) == f = [n \in 0..Len(received) |->
                      IF n = 0 THEN Empty ELSE read_packet(f[n - 1], received[n])]
<1>2. Eq(CHOOSE f : Eq(f))
  <2>1. \E f : Eq(f)
    BY <1>1, SocketLoop
  <2> HIDE DEF Eq
  <2> QED
    BY <2>1
<1>3. send_mdns_query(received) = (CHOOSE f : Eq(f))[Len(received)].m_query_results
  BY DEF send_mdns_query
<1>4. PICK f : Eq(f) /\ send_mdns_query(received) = f[Len(received)].m_query_results
  <2> HIDE DEF Eq
  <2> QED
    BY <1>2, <1>3
<1>5. f[0] = Empty /\ \A n \in 0..N - 1 : f[n + 1] = read_packet(f[n], received[n + 1])
  <2>1. f[0] = Empty
    BY <1>1, <1>4
  <2>2. ASSUME NEW n \in 0..N - 1
        PROVE  f[n + 1] = read_packet(f[n], received[n + 1])
    <3>1. n + 1 \in 0..N /\ n + 1 # 0 /\ (n + 1) - 1 = n
      OBVIOUS
    <3> QED
      BY <1>1, <1>4, <3>1
  <2> QED
    BY <2>1, <2>2
<1> HIDE DEF Eq
<1> DEFINE Good == {n \in Nat : n \in 0..N => f[n] \in Clean}
<1>6. Good \in SUBSET Nat /\ 0 \in Good
  <2>1. <<>> \in Seq(Servers)
    OBVIOUS
  <2>2. Empty \in Clean
    BY <2>1 DEF Empty, Clean, Unset
  <2> QED
    BY <1>5, <2>2
<1>7. ASSUME NEW n \in 0..N - 1, n \in Good
      PROVE  n + 1 \in Good
  <2>1. f[n] \in Clean /\ n + 1 \in 1..N
    BY <1>7
  <2>2. received[n + 1] \in Answers \cup {<<>>} /\ Balanced(received[n + 1])
    BY <2>1
  <2>3. read_packet(f[n], received[n + 1]) \in Clean
    BY <2>1, <2>2, PacketIsClean
  <2> QED
    BY <1>5, <2>1, <2>3
<1>8. 0..N \subseteq Good
  <2> HIDE DEF Good
  <2> QED
    BY <1>6, <1>7, AllRounds
<1>9. f[N] \in Clean
  BY <1>8
<1> QED
  BY <1>1, <1>4, <1>9 DEF Clean

\* How many sockets there are is a number.
LEMMA SocketsAreCounted ==
  ASSUME NEW list \in Networks
  PROVE  open_client_sockets(list) \in Nat
<1> DEFINE S == {n \in DOMAIN list : Usable(list[n])}
           C == Cardinality(S)
<1>1. IsFiniteSet(S)
  <2>1. Len(list) \in Nat /\ DOMAIN list = 1..Len(list)
    BY MdnsAssumption
  <2>2. IsFiniteSet(DOMAIN list)
    BY <2>1, FS_Interval
  <2> QED
    BY <2>2, FS_Subset
<1>2. C \in Nat
  BY <1>1, FS_CardinalityType
<1>3. open_client_sockets(list) = Min({MaxSockets, C})
  BY DEF open_client_sockets
<1> HIDE DEF C
<1>4. MaxSockets \in Nat
  BY MdnsAssumption
<1>5. CASE MaxSockets <= C
  <2>1. \A y \in {MaxSockets, C} : MaxSockets <= y
    BY <1>2, <1>4, <1>5
  <2> QED
    BY <1>2, <1>3, <1>4, <2>1 DEF Min
<1>6. CASE C <= MaxSockets
  <2>1. \A y \in {MaxSockets, C} : C <= y
    BY <1>2, <1>4, <1>6
  <2> QED
    BY <1>2, <1>3, <1>4, <2>1 DEF Min
<1> QED
  BY <1>2, <1>4, <1>5, <1>6

\* Everything a call of query_services may return.
Found == query_services(TRUE) \cup query_services(FALSE)

\* A balanced one is a list of servers.
LEMMA FoundAreServers ==
  ASSUME NEW found \in Found
  PROVE  /\ found.balanced \in BOOLEAN
         /\ found.balanced => found.results \in Seq(Servers)
<1>1. CASE found = [results |-> <<>>, balanced |-> TRUE]
  <2>1. <<>> \in Seq(Servers)
    OBVIOUS
  <2> QED
    BY <1>1, <2>1
<1>2. CASE found \in QueryResults
  <2>0. PICK list \in Networks :
               \E received \in Received(list, Answers) : found = query_results(received)
    BY <1>2 DEF QueryResults
  <2>1. PICK received \in Received(list, Answers) : found = query_results(received)
    BY <2>0
  <2> DEFINE N == open_client_sockets(list)
  <2>2. N \in Nat
    BY SocketsAreCounted
  <2>3. received \in [1..N -> Answers \cup {<<>>}]
    BY DEF Received
  <2>4. /\ found.balanced = (\A n \in DOMAIN received : Balanced(received[n]))
        /\ found.results = send_mdns_query(received)
    BY <2>1 DEF query_results
  <2> HIDE DEF N
  <2>5. found.balanced => \A n \in 1..N : Balanced(received[n])
    BY <2>3, <2>4
  <2> QED
    BY <2>2, <2>3, <2>4, <2>5, QueryFindsServers
<1> QED
  BY <1>1, <1>2 DEF Found, query_services
-----------------------------------------------------------------------------
(* The invariant.                                                          *)

\* The signals that are queued, and where a channel may lead.
Event ==
  [type : {"discovering", "failed", "stopping"}]
    \cup [type : {"state"}, state : States]
    \cup [type : {"discovered"}, found : Found]

Endpoint == {Local} \cup {found.results[1] : found \in {f \in Found : f.results # <<>>}}

\* The queued signals that will change the channel.
Replacing(queue) == {n \in DOMAIN queue : Replaces(queue[n])}

TypeInv ==
  /\ TypeOK
  /\ events \in Seq(Event)
  /\ channel \in Seq([endpoint : Endpoint, balanced : BOOLEAN,
                      state : States \cup {"SHUTDOWN"}])

\* Channels made and to be made are counted; one that is being made counts twice.
CountInv ==
  /\ Current + Cardinality(Replacing(events))
       <= MaxChannels + (IF gui = "replacing" THEN 1 ELSE 0)
  /\ gui = "replacing" => Current > 1 /\ events # <<>> /\ Replaces(Head(events))

\* A channel is deleted after its watcher's thread has ended, and a watcher is
\* started with its channel; the first one waits for the event loop.
WatcherInv ==
  /\ gui = "starting" => Current = 1 /\ channel[1].state = "TRANSIENT_FAILURE"
  /\ \A g \in 1..Current : channel[g].state = "SHUTDOWN" => watcher[g].pc = "exited"
  /\ \A g \in Current + 1..MaxChannels : watcher[g].pc = "none"

\* The channels that were made of what a query found.
ServerInv == \A g \in 2..Current : channel[g].balanced => channel[g].endpoint \in Servers

DiscoveryInv == TypeInv /\ CountInv /\ WatcherInv /\ ServerInv
-----------------------------------------------------------------------------
(* The queue.                                                              *)

\* The signals that change the channel can be counted.
LEMMA ReplacingIsCounted ==
  ASSUME NEW S, NEW queue \in Seq(S)
  PROVE  IsFiniteSet(Replacing(queue)) /\ Cardinality(Replacing(queue)) \in Nat
<1>1. IsFiniteSet(DOMAIN queue)
  <2>1. DOMAIN queue = 1..Len(queue) /\ Len(queue) \in Nat
    OBVIOUS
  <2> QED
    BY <2>1, FS_Interval
<1>2. IsFiniteSet(Replacing(queue))
  BY <1>1, FS_Subset DEF Replacing
<1> QED
  BY <1>2, FS_CardinalityType

\* Signals of other kinds do not add to them.
LEMMA OthersQueued ==
  ASSUME NEW S, NEW queue \in Seq(S), NEW more \in Seq(S),
         \A n \in 1..Len(more) : ~Replaces(more[n])
  PROVE  Replacing(queue \o more) = Replacing(queue)
<1>1. /\ DOMAIN queue = 1..Len(queue) /\ Len(queue) \in Nat /\ Len(more) \in Nat
      /\ DOMAIN (queue \o more) = 1..Len(queue) + Len(more)
      /\ \A n \in 1..Len(queue) : (queue \o more)[n] = queue[n]
      /\ \A n \in Len(queue) + 1..Len(queue) + Len(more) :
           (queue \o more)[n] = more[n - Len(queue)]
  BY ConcatProperties
<1>2. ASSUME NEW n \in Len(queue) + 1..Len(queue) + Len(more)
      PROVE  ~Replaces((queue \o more)[n])
  <2>1. n - Len(queue) \in 1..Len(more)
    BY <1>1
  <2> QED
    BY <1>1, <2>1
<1>3. ASSUME NEW n
      PROVE  n \in Replacing(queue \o more) <=> n \in Replacing(queue)
  <2>1. n \in 1..Len(queue) + Len(more) <=>
          n \in 1..Len(queue) \/ n \in Len(queue) + 1..Len(queue) + Len(more)
    BY <1>1
  <2> QED
    BY <1>1, <1>2, <2>1 DEF Replacing
<1> QED
  BY <1>3

\* One signal adds one at most.
LEMMA OneQueued ==
  ASSUME NEW S, NEW queue \in Seq(S), NEW e \in S
  PROVE  Cardinality(Replacing(queue \o <<e>>)) <= Cardinality(Replacing(queue)) + 1
<1> DEFINE k == Len(queue) + 1
           R == Replacing(queue)
<1>1. Replacing(queue \o <<e>>) \subseteq R \cup {k}
  BY DEF Replacing
<1>2. IsFiniteSet(R) /\ Cardinality(R) \in Nat
  BY ReplacingIsCounted
<1>3. k \notin R
  BY DEF Replacing
<1> HIDE DEF R, k
<1>4. IsFiniteSet(R \cup {k}) /\ Cardinality(R \cup {k}) = Cardinality(R) + 1
  BY <1>2, <1>3, FS_AddElement
<1>5. Cardinality(Replacing(queue \o <<e>>)) <= Cardinality(R \cup {k})
  BY <1>1, <1>4, FS_Subset
<1> QED
  BY <1>4, <1>5 DEF R

\* Handling the first signal moves the others one place.
LEMMA OneHandled ==
  ASSUME NEW S, NEW queue \in Seq(S), queue # <<>>
  PROVE  Cardinality(Replacing(queue)) =
           Cardinality(Replacing(Tail(queue))) + (IF Replaces(Head(queue)) THEN 1 ELSE 0)
<1> DEFINE T == Replacing(Tail(queue))
           U == Replacing(queue) \ {1}
           f == [n \in T |-> n + 1]
<1>1. /\ Tail(queue) \in Seq(S) /\ Len(queue) \in Nat \ {0}
      /\ DOMAIN queue = 1..Len(queue)
      /\ DOMAIN Tail(queue) = 1..Len(queue) - 1
      /\ \A n \in 1..Len(queue) - 1 : Tail(queue)[n] = queue[n + 1]
      /\ Head(queue) = queue[1]
  OBVIOUS
<1>2. ASSUME NEW n \in T
      PROVE  n \in Nat /\ n + 1 \in U
  BY <1>1 DEF Replacing
<1>3. ASSUME NEW m \in U
      PROVE  m - 1 \in T /\ m \in Nat
  BY <1>1 DEF Replacing
<1>4. ExistsBijection(T, U)
  <2> HIDE DEF T, U
  <2>1. f \in [T -> U]
    BY <1>2
  <2>2. \A a, b \in T : f[a] = f[b] => a = b
    BY <1>2
  <2>3. \A m \in U : \E n \in T : f[n] = m
    <3> TAKE m \in U
    <3>1. f[m - 1] = m
      BY <1>3
    <3> QED
      BY <1>3, <3>1
  <2>4. f \in Bijection(T, U)
    BY <2>1, <2>2, <2>3 DEF Bijection, Injection, Surjection, IsInjective
  <2> QED
    BY <2>4 DEF ExistsBijection
<1>5. IsFiniteSet(T) /\ Cardinality(T) \in Nat
  BY <1>1, ReplacingIsCounted
<1>6. IsFiniteSet(U) /\ Cardinality(U) = Cardinality(T)
  <2> HIDE DEF T, U
  <2> QED
    BY <1>4, <1>5, FS_Bijection
<1>7. IsFiniteSet(Replacing(queue)) /\ Cardinality(Replacing(queue)) \in Nat
  BY ReplacingIsCounted
<1>8. 1 \in Replacing(queue) <=> Replaces(Head(queue))
  BY <1>1 DEF Replacing
<1>9. Cardinality(U) = IF 1 \in Replacing(queue) THEN Cardinality(Replacing(queue)) - 1
                       ELSE Cardinality(Replacing(queue))
  BY <1>7, FS_RemoveElement
<1> QED
  BY <1>5, <1>6, <1>7, <1>8, <1>9
\* What a query finds is a signal; so are the others.
LEMMA SignalsAreEvents ==
  /\ \A type \in {"discovering", "failed", "stopping"} :
       Signal(type) \in Event /\ ~Replaces(Signal(type))
  /\ \A state \in States : StateChanged(state) \in Event /\ ~Replaces(StateChanged(state))
  /\ \A found \in Found : Discovered(found) \in Event
BY DEF Event, Signal, StateChanged, Discovered, Replaces

\* What is emitted is queued, while the queue has room and somebody takes from it.
LEMMA EmittedOthers ==
  ASSUME TypeInv, CountInv, NEW signals \in Seq(Event),
         \A n \in 1..Len(signals) : ~Replaces(signals[n]),
         Emit(signals), UNCHANGED <<channel, gui>>
  PROVE  events' \in Seq(Event) /\ Len(events') <= MaxEvents /\ CountInv'
<1>1. CASE Looping
  <2>1. events' = events \o signals /\ Len(events) + Len(signals) <= MaxEvents
    BY <1>1 DEF Emit
  <2>2. events \in Seq(Event)
    BY DEF TypeInv
  <2>3. /\ events' \in Seq(Event) /\ Len(events') = Len(events) + Len(signals)
        /\ events # <<>> => events' # <<>> /\ Head(events') = Head(events)
    BY <2>1, <2>2
  <2>4. Replacing(events') = Replacing(events)
    BY <2>1, <2>2, OthersQueued
  <2> QED
    BY <2>1, <2>3, <2>4 DEF CountInv, Current
<1>2. CASE ~Looping
  <2>1. events' = events
    BY <1>2 DEF Emit
  <2> QED
    BY <2>1 DEF CountInv, Current, TypeInv, TypeOK
<1> QED
  BY <1>1, <1>2

\* Of what a query finds there is room for one channel more.
LEMMA EmittedFound ==
  ASSUME TypeInv, CountInv, NEW found \in Found, Emit(<<Discovered(found)>>),
         found.results # <<>> => Promised < MaxChannels, UNCHANGED <<channel, gui>>
  PROVE  events' \in Seq(Event) /\ Len(events') <= MaxEvents /\ CountInv'
<1> DEFINE signals == <<Discovered(found)>>
<1>1. signals \in Seq(Event) /\ Len(signals) = 1 /\ signals[1] = Discovered(found)
  BY SignalsAreEvents
<1>2. CASE found.results = <<>>
  <2>1. ~Replaces(Discovered(found))
    BY <1>2 DEF Replaces, Discovered
  <2>2. \A n \in 1..Len(signals) : ~Replaces(signals[n])
    BY <1>1, <2>1
  <2> HIDE DEF signals
  <2>3. Emit(signals)
    BY DEF signals
  <2> QED
    BY <1>1, <2>2, <2>3, EmittedOthers
<1>3. CASE found.results # <<>> /\ Looping
  <2>1. events' = events \o signals /\ Len(events) + Len(signals) <= MaxEvents
    BY <1>3 DEF Emit
  <2>2. events \in Seq(Event) /\ Current \in Nat
    BY DEF TypeInv, TypeOK
  <2>3. /\ events' \in Seq(Event) /\ Len(events') = Len(events) + Len(signals)
        /\ events # <<>> => events' # <<>> /\ Head(events') = Head(events)
    BY <1>1, <2>1, <2>2
  <2>4. Cardinality(Replacing(events')) <= Cardinality(Replacing(events)) + 1
    BY <2>1, <2>2, SignalsAreEvents, OneQueued
  <2>5. Cardinality(Replacing(events')) \in Nat /\ Cardinality(Replacing(events)) \in Nat
    BY <2>2, <2>3, ReplacingIsCounted
  <2>6. Current + Cardinality(Replacing(events)) < MaxChannels
    BY <1>3 DEF Promised, Replacing
  <2>7. Current' = Current /\ MaxChannels \in Nat
    BY DiscoveryAssumption DEF Current
  <2>8. Current' + Cardinality(Replacing(events'))
          <= MaxChannels + (IF gui' = "replacing" THEN 1 ELSE 0)
    BY <2>2, <2>4, <2>5, <2>6, <2>7
  <2> QED
    BY <2>1, <2>3, <2>7, <2>8 DEF CountInv
<1>4. CASE ~Looping
  <2>1. events' = events
    BY <1>4 DEF Emit
  <2> QED
    BY <2>1 DEF CountInv, Current, TypeInv, TypeOK
<1> QED
  BY <1>2, <1>3, <1>4

\* A discovery that can be asked for.
LEMMA DiscoverTells == DiscoverResults \subseteq BOOLEAN
BY DEF DiscoverResults

-----------------------------------------------------------------------------
(* The worker's steps.                                                     *)

\* The worker finds nothing out about channels or watchers.
LEMMA WorkerKeeps ==
  ASSUME DiscoveryInv, WorkerStep \/ SpuriousWake \/ sl_rediscover
  PROVE  DiscoveryInv'
<1> USE DEF DiscoveryInv
<1>1. UNCHANGED <<channel, watcher, gui, m_stop, light, missed, late>>
  BY DEF WorkerStep, SpuriousWake, sl_rediscover, BeginDiscovery, DiscoverFails, Discover,
         QueryFails, Query, Wait, Wake, worker_vars
<1>2. WatcherInv' /\ ServerInv'
  BY <1>1 DEF WatcherInv, ServerInv, Current
<1> DEFINE Queued == events' \in Seq(Event) /\ Len(events') <= MaxEvents /\ CountInv'
<1>3. ASSUME NEW type \in {"discovering", "failed", "stopping"}, Emit(<<Signal(type)>>)
      PROVE  Queued
  <2> DEFINE signals == <<Signal(type)>>
  <2>1. signals \in Seq(Event) /\ Len(signals) = 1 /\ ~Replaces(signals[1])
    BY SignalsAreEvents
  <2>2. \A n \in 1..Len(signals) : ~Replaces(signals[n])
    BY <2>1
  <2>3. Emit(signals)
    BY <1>3
  <2> HIDE DEF signals
  <2> QED
    BY <1>1, <2>1, <2>2, <2>3, EmittedOthers
<1>4. ASSUME events' = events
      PROVE  Queued
  BY <1>1, <1>4 DEF CountInv, Current, TypeInv, TypeOK
<1>5. Queued
  <2>1. CASE BeginDiscovery
    BY <1>3, <1>4, <2>1 DEF BeginDiscovery
  <2>2. CASE DiscoverFails
    BY <1>3, <2>2 DEF DiscoverFails
  <2>3. CASE QueryFails
    BY <1>3, <1>4, <2>3 DEF QueryFails
  <2>4. CASE Query
    <3>1. PICK found \in query_services(advertised) :
                 /\ found.results # <<>> => Promised < MaxChannels
                 /\ Emit(<<Discovered(found)>>)
      BY <2>4 DEF Query
    <3>2. found \in Found
      BY DEF Found, TypeInv, TypeOK
    <3> QED
      BY <1>1, <3>1, <3>2, EmittedFound
  <2>5. CASE Discover \/ Wait \/ Wake \/ SpuriousWake \/ sl_rediscover
    BY <1>4, <2>5 DEF Discover, Wait, Wake, SpuriousWake, sl_rediscover
  <2> QED
    BY <2>1, <2>2, <2>3, <2>4, <2>5 DEF WorkerStep
<1>6. /\ worker' \in {"begin", "discovering", "querying", "idle", "waiting", "woken", "ended"}
      /\ advertised' \in BOOLEAN /\ m_interrupted' \in BOOLEAN
      /\ wakes' \in 0..MaxWakes
      /\ crashed' \in {"no", "error_of_value", "dead_finder"}
  <2>1. /\ worker \in {"begin", "discovering", "querying", "idle", "waiting", "woken", "ended"}
        /\ advertised \in BOOLEAN /\ m_interrupted \in BOOLEAN
        /\ wakes \in 0..MaxWakes /\ MaxWakes \in Nat
        /\ crashed \in {"no", "error_of_value", "dead_finder"}
    BY DiscoveryAssumption DEF TypeInv, TypeOK
  <2>2. CASE BeginDiscovery \/ DiscoverFails \/ Wait \/ Wake
    BY <2>1, <2>2 DEF BeginDiscovery, DiscoverFails, Wait, Wake
  <2>3. CASE Discover
    BY <2>1, <2>3, DiscoverTells DEF Discover
  <2>4. CASE QueryFails \/ Query
    BY <2>1, <2>4 DEF QueryFails, Query
  <2>5. CASE SpuriousWake \/ sl_rediscover
    BY <2>1, <2>5 DEF SpuriousWake, sl_rediscover, Notified
  <2> QED
    BY <2>2, <2>3, <2>4, <2>5 DEF WorkerStep
<1>7. TypeInv'
  BY <1>1, <1>5, <1>6 DEF TypeInv, TypeOK, Current
<1> QED
  BY <1>2, <1>5, <1>7
-----------------------------------------------------------------------------
(* The steps of channels and watchers.                                     *)

WatcherState ==
  [pc : {"none", "sleep", "look", "exited"}, m_started : BOOLEAN, m_state : States,
   m_connection_failure_count : 0..AUTO_CONNECT_MAX_TRIES]

\* A channel that has a state of gRPC's goes to another.
LEMMA ChannelKeeps ==
  ASSUME DiscoveryInv, NEW from \in States, NEW to \in States, ChannelMoves(from, to)
  PROVE  DiscoveryInv'
<1> USE DEF DiscoveryInv
<1> DEFINE C == [endpoint : Endpoint, balanced : BOOLEAN, state : States \cup {"SHUTDOWN"}]
<1>1. /\ Current > 1 /\ channel[Current].state = from
      /\ channel' = [channel EXCEPT ![Current].state = to]
      /\ UNCHANGED <<worker, advertised, m_interrupted, m_stop, watcher, events, light,
                     gui, wakes, missed, late, crashed>>
  BY DEF ChannelMoves, worker_vars
<1>2. channel \in Seq(C) /\ Current \in 1..MaxChannels /\ MaxChannels \in Nat
  BY DiscoveryAssumption DEF TypeInv, TypeOK
<1>a. \A g \in 1..Current : channel[g] \in C
  <2> HIDE DEF C
  <2> QED
    BY <1>2 DEF Current
<1>3. /\ channel' \in Seq(C) /\ Current' = Current
      /\ \A g \in 1..Current :
           channel'[g] = IF g = Current THEN [channel[g] EXCEPT !.state = to] ELSE channel[g]
  <2>1. channel[Current] \in C
    BY <1>2, <1>a
  <2>2. [channel[Current] EXCEPT !.state = to] \in C
    BY <2>1
  <2>3. channel' = [channel EXCEPT ![Current] = [channel[Current] EXCEPT !.state = to]]
    BY <1>1
  <2> HIDE DEF C
  <2> QED
    BY <1>2, <2>2, <2>3 DEF Current
<1>4. \A g \in 1..Current : channel[g] \in C /\ channel'[g] \in C
  <2> HIDE DEF C
  <2>1. \A g \in 1..Len(channel') : channel'[g] \in C
    BY <1>3
  <2> QED
    BY <1>3, <1>a, <2>1 DEF Current
<1>5. \A g \in 1..Current :
        /\ channel'[g].balanced = channel[g].balanced
        /\ channel'[g].endpoint = channel[g].endpoint
        /\ channel'[g].state = IF g = Current THEN to ELSE channel[g].state
  BY <1>3, <1>4
<1>6. TypeInv'
  <2>1. \A g \in 1..Current' : channel'[g].state \in States \cup {"SHUTDOWN"}
    BY <1>3, <1>4
  <2>2. TypeOK'
    BY <1>1, <1>2, <1>3, <2>1 DEF TypeInv, TypeOK
  <2> QED
    BY <1>1, <1>3, <2>2 DEF TypeInv
<1>7. CountInv'
  BY <1>1, <1>3 DEF CountInv
<1>8. WatcherInv'
  <2>1. "SHUTDOWN" \notin States
    BY DEF States
  <2> QED
    BY <1>1, <1>2, <1>3, <1>5, <2>1 DEF WatcherInv
<1>9. ServerInv'
  BY <1>2, <1>3, <1>5 DEF ServerInv
<1> QED
  BY <1>6, <1>7, <1>8, <1>9

\* A watcher that wakes looks or ends.
LEMMA WakingKeeps ==
  ASSUME DiscoveryInv, NEW g \in 1..MaxChannels, WatcherWakes(g)
  PROVE  DiscoveryInv'
<1> USE DEF DiscoveryInv
<1>1. /\ watcher[g].pc = "sleep"
      /\ UNCHANGED <<worker, advertised, m_interrupted, m_stop, channel, events, light,
                     gui, wakes, missed, late, crashed>>
  BY DEF WatcherWakes, worker_vars
<1>2. watcher \in [1..MaxChannels -> WatcherState]
  BY DEF TypeInv, TypeOK, WatcherState
<1> DEFINE w == IF watcher[g].m_started THEN [watcher[g] EXCEPT !.pc = "look"]
                ELSE [Watcher EXCEPT !.pc = "exited"]
<1>3. watcher' = [watcher EXCEPT ![g] = w]
  BY DEF WatcherWakes
<1>4. w \in WatcherState /\ w.pc \in {"look", "exited"}
  <2>1. watcher[g] \in WatcherState
    BY <1>2
  <2>2. [watcher[g] EXCEPT !.pc = "look"] \in WatcherState
    BY <2>1 DEF WatcherState
  <2>3. 0 \in 0..AUTO_CONNECT_MAX_TRIES
    BY DiscoveryAssumption
  <2>4. Watcher \in WatcherState
    BY <2>3 DEF Watcher, WatcherState, States
  <2>5. /\ [Watcher EXCEPT !.pc = "exited"] \in WatcherState
        /\ [Watcher EXCEPT !.pc = "exited"].pc = "exited"
    BY <2>4 DEF WatcherState
  <2>6. [watcher[g] EXCEPT !.pc = "look"].pc = "look"
    BY <2>1 DEF WatcherState
  <2> QED
    BY <2>2, <2>5, <2>6
<1> HIDE DEF w
<1>5. watcher' \in [1..MaxChannels -> WatcherState]
  BY <1>2, <1>3, <1>4
<1>6. \A h \in 1..MaxChannels : watcher'[h] = IF h = g THEN w ELSE watcher[h]
  BY <1>2, <1>3
<1>7. TypeInv'
  BY <1>1, <1>5 DEF TypeInv, TypeOK, Current, WatcherState
<1>8. CountInv' /\ ServerInv'
  BY <1>1 DEF CountInv, ServerInv, Current
<1>9. WatcherInv'
  <2>1. Current \in 1..MaxChannels /\ Current' = Current
    BY <1>1 DEF TypeInv, TypeOK, Current
  <2>2. \A h \in 1..Current : channel'[h].state = "SHUTDOWN" => watcher'[h].pc = "exited"
    BY <1>1, <1>6, <2>1, DiscoveryAssumption DEF WatcherInv
  <2>3. \A h \in Current + 1..MaxChannels : watcher'[h].pc = "none"
    BY <1>1, <1>6, <2>1, DiscoveryAssumption DEF WatcherInv
  <2> QED
    BY <1>1, <2>1, <2>2, <2>3 DEF WatcherInv
<1> QED
  BY <1>7, <1>8, <1>9
\* A watcher that looks at its channel tells of it and may ask for a discovery.
LEMMA LookingKeeps ==
  ASSUME DiscoveryInv, NEW g \in 1..MaxChannels, Look(g)
  PROVE  DiscoveryInv'
<1> USE DEF DiscoveryInv
<1> DEFINE s     == channel[g].state
           tries == Tries(watcher[g], s)
           count == watcher[g].m_connection_failure_count + (IF tries THEN 1 ELSE 0)
           kept  == IF watcher[g].m_state # s /\ s \in {"IDLE", "READY"} THEN 0 ELSE count
           stops == IF tries /\ count = AUTO_CONNECT_MAX_TRIES
                    THEN <<Signal("stopping")>> ELSE <<>>
           moved == IF watcher[g].m_state = s THEN <<>> ELSE <<StateChanged(s)>>
           told  == IF g = Current THEN stops \o moved ELSE <<>>
           w     == [watcher[g] EXCEPT !.pc = "sleep", !.m_state = s,
                                       !.m_connection_failure_count = kept]
<1>1. /\ watcher[g].pc = "look"
      /\ watcher' = [watcher EXCEPT ![g] = w]
      /\ Emit(told)
      /\ worker' = IF tries THEN Notified ELSE worker
      /\ crashed' = IF tries /\ gui = "services" THEN "dead_finder" ELSE crashed
      /\ UNCHANGED <<advertised, m_interrupted, m_stop, channel, light, gui, wakes,
                     missed, late>>
  BY DEF Look
<1>2. /\ watcher \in [1..MaxChannels -> WatcherState]
      /\ watcher[g] \in WatcherState
      /\ Current \in 1..MaxChannels /\ MaxChannels \in Nat
  BY DiscoveryAssumption DEF TypeInv, TypeOK, WatcherState
<1>3. g \in 1..Current /\ s \in States
  <2>1. g \notin Current + 1..MaxChannels
    BY <1>1 DEF WatcherInv
  <2>2. g \in 1..Current
    BY <1>2, <2>1
  <2>3. s \in States \cup {"SHUTDOWN"} /\ s # "SHUTDOWN"
    BY <1>1, <2>2 DEF WatcherInv, TypeInv, TypeOK
  <2> QED
    BY <2>2, <2>3
<1>4. kept \in 0..AUTO_CONNECT_MAX_TRIES
  <2>1. watcher[g].m_connection_failure_count \in 0..AUTO_CONNECT_MAX_TRIES
    BY <1>2 DEF WatcherState
  <2>2. tries => watcher[g].m_connection_failure_count < AUTO_CONNECT_MAX_TRIES
    BY DEF Tries
  <2>3. AUTO_CONNECT_MAX_TRIES \in Nat
    BY DiscoveryAssumption
  <2> HIDE DEF s, tries
  <2> QED
    BY <2>1, <2>2, <2>3
<1>5. told \in Seq(Event) /\ \A n \in 1..Len(told) : ~Replaces(told[n])
  <2>1. /\ Signal("stopping") \in Event /\ ~Replaces(Signal("stopping"))
        /\ StateChanged(s) \in Event /\ ~Replaces(StateChanged(s))
    BY <1>3, SignalsAreEvents
  <2>2. <<>> \in Seq(Event)
    OBVIOUS
  <2> HIDE DEF s, tries, count
  <2>3. stops \in Seq(Event) /\ \A n \in 1..Len(stops) : ~Replaces(stops[n])
    BY <2>1, <2>2
  <2>4. moved \in Seq(Event) /\ \A n \in 1..Len(moved) : ~Replaces(moved[n])
    BY <2>1, <2>2
  <2> HIDE DEF stops, moved
  <2>5. /\ stops \o moved \in Seq(Event)
        /\ \A n \in 1..Len(stops \o moved) : ~Replaces((stops \o moved)[n])
    BY <2>3, <2>4, ConcatProperties
  <2> QED
    BY <2>2, <2>5
<1>6. events' \in Seq(Event) /\ Len(events') <= MaxEvents /\ CountInv'
  <2> HIDE DEF told
  <2> QED
    BY <1>1, <1>5, EmittedOthers
<1>7. w \in WatcherState /\ w.pc = "sleep"
  <2> HIDE DEF s, kept
  <2> QED
    BY <1>2, <1>3, <1>4 DEF WatcherState
<1> HIDE DEF w, told
<1>8. watcher' \in [1..MaxChannels -> WatcherState]
  BY <1>1, <1>2, <1>7
<1>9. \A h \in 1..MaxChannels : watcher'[h] = IF h = g THEN w ELSE watcher[h]
  BY <1>1, <1>2
<1>10. worker' \in {"begin", "discovering", "querying", "idle", "waiting", "woken", "ended"}
  BY <1>1 DEF Notified, TypeInv, TypeOK
<1>11. TypeInv'
  BY <1>1, <1>6, <1>8, <1>10 DEF TypeInv, TypeOK, Current, WatcherState
<1>12. ServerInv'
  BY <1>1 DEF ServerInv, Current
<1>13. WatcherInv'
  <2>1. Current' = Current
    BY <1>1 DEF Current
  <2>2. \A h \in 1..Current : channel'[h].state = "SHUTDOWN" => watcher'[h].pc = "exited"
    <3>1. s # "SHUTDOWN"
      BY <1>3 DEF States
    <3> QED
      BY <1>1, <1>2, <1>9, <3>1 DEF WatcherInv
  <2>3. \A h \in Current + 1..MaxChannels : watcher'[h].pc = "none"
    BY <1>1, <1>2, <1>3, <1>9 DEF WatcherInv
  <2> QED
    BY <1>1, <2>1, <2>2, <2>3 DEF WatcherInv
<1> QED
  BY <1>6, <1>11, <1>12, <1>13
-----------------------------------------------------------------------------
(* The steps of the main thread.                                           *)

\* What is left when the first signal was handled.
LEMMA QueueAfter ==
  ASSUME TypeInv, events # <<>>, Handled
  PROVE  /\ events' \in Seq(Event) /\ Len(events') <= MaxEvents
         /\ Cardinality(Replacing(events)) \in Nat
         /\ Cardinality(Replacing(events')) \in Nat
         /\ Cardinality(Replacing(events)) = Cardinality(Replacing(events'))
              + (IF Replaces(Head(events)) THEN 1 ELSE 0)
<1>1. events \in Seq(Event) /\ events' = Tail(events)
  BY DEF TypeInv, Handled
<1>2. events' \in Seq(Event) /\ Len(events') <= MaxEvents
  BY <1>1, DiscoveryAssumption DEF TypeInv, TypeOK
<1>3. Cardinality(Replacing(events)) \in Nat /\ Cardinality(Replacing(events')) \in Nat
  BY <1>1, <1>2, ReplacingIsCounted
<1>4. Cardinality(Replacing(events)) = Cardinality(Replacing(events'))
              + (IF Replaces(Head(events)) THEN 1 ELSE 0)
  BY <1>1, OneHandled
<1> QED
  BY <1>2, <1>3, <1>4

\* The light's slots take a signal and change the light.
LEMMA SlotsKeep ==
  ASSUME DiscoveryInv,
         sl_discovering \/ sl_failed \/ sl_channel_state_changed \/ sl_nothing_discovered
  PROVE  DiscoveryInv'
<1> USE DEF DiscoveryInv
<1>1. /\ gui = "loop" /\ events # <<>> /\ Handled
      /\ UNCHANGED <<worker, advertised, m_interrupted, m_stop, channel, watcher, gui,
                     wakes, missed, late, crashed>>
  BY DEF sl_discovering, sl_failed, sl_channel_state_changed, sl_nothing_discovered,
         AtSignal, worker_vars
<1>2. light' \in [status : {"Red", "Yellow", "Green"}, overruled : BOOLEAN]
  <2>1. \A state : LightOf(state) \in {"Red", "Yellow", "Green"}
    BY DEF LightOf
  <2>2. \E status \in {"Red", "Yellow", "Green"}, overruled \in BOOLEAN :
          Shows(status, overruled)
    BY <2>1 DEF sl_discovering, sl_failed, sl_channel_state_changed, sl_nothing_discovered
  <2> QED
    BY <2>2 DEF Shows
<1>3. events' \in Seq(Event) /\ Len(events') <= MaxEvents
  BY <1>1, QueueAfter
<1>4. TypeInv'
  BY <1>1, <1>2, <1>3 DEF TypeInv, TypeOK, Current
<1>5. CountInv'
  <2>1. Current \in Nat /\ MaxChannels \in Nat
    BY DiscoveryAssumption DEF TypeInv, TypeOK
  <2>2. Cardinality(Replacing(events')) <= Cardinality(Replacing(events))
        /\ Cardinality(Replacing(events)) \in Nat /\ Cardinality(Replacing(events')) \in Nat
    BY <1>1, QueueAfter
  <2>3. Current + Cardinality(Replacing(events)) <= MaxChannels
    BY <1>1, <2>1 DEF CountInv
  <2>4. Current' = Current /\ gui' = "loop"
    BY <1>1 DEF Current
  <2>5. Current' + Cardinality(Replacing(events')) <= MaxChannels
    BY <2>1, <2>2, <2>3, <2>4
  <2> QED
    BY <2>1, <2>4, <2>5 DEF CountInv
<1>6. WatcherInv' /\ ServerInv'
  BY <1>1 DEF WatcherInv, ServerInv, Current
<1> QED
  BY <1>4, <1>5, <1>6

\* A change of channel: there is room for it, and a balanced one is to a server.
LEMMA ChangeKeeps ==
  ASSUME DiscoveryInv, change_channel
  PROVE  DiscoveryInv'
<1> USE DEF DiscoveryInv
<1> DEFINE C == [endpoint : Endpoint, balanced : BOOLEAN, state : States \cup {"SHUTDOWN"}]
           found == Head(events).found
           new == Channel(found.results[1], found.balanced)
<1>1. /\ gui = "loop" /\ events # <<>> /\ Replaces(Head(events))
      /\ watcher' = [watcher EXCEPT ![Current] = Stopped(@), ![Current + 1] = Started]
      /\ channel' = Append(channel, new) /\ gui' = "replacing"
      /\ UNCHANGED <<worker, advertised, m_interrupted, m_stop, events, light, wakes,
                     missed, late, crashed>>
  BY DEF change_channel, AtSignal, worker_vars
<1>2. /\ channel \in Seq(C) /\ events \in Seq(Event)
      /\ watcher \in [1..MaxChannels -> WatcherState]
      /\ Current \in 1..MaxChannels /\ MaxChannels \in Nat
  BY DiscoveryAssumption DEF TypeInv, TypeOK, WatcherState
<1>3. /\ found \in Found /\ found.results # <<>>
      /\ found.balanced \in BOOLEAN
      /\ found.balanced => found.results \in Seq(Servers)
  <2>1. Head(events) \in Event /\ Head(events).type = "discovered"
    BY <1>1, <1>2 DEF Replaces
  <2>2. Head(events) \in [type : {"discovered"}, found : Found]
    BY <2>1 DEF Event
  <2>3. found \in Found /\ found.results # <<>>
    BY <1>1, <2>2 DEF Replaces
  <2> HIDE DEF found
  <2> QED
    BY <2>3, FoundAreServers
<1>4. Current + 1 <= MaxChannels
  <2>1. Cardinality(Replacing(events)) \in Nat /\ IsFiniteSet(Replacing(events))
    BY <1>2, ReplacingIsCounted
  <2>2. 1 \in Replacing(events)
    BY <1>1, <1>2 DEF Replacing
  <2>3. Cardinality(Replacing(events)) # 0
    BY <2>1, <2>2, FS_EmptySet
  <2>4. Current + Cardinality(Replacing(events)) <= MaxChannels
    BY <1>1, <1>2 DEF CountInv
  <2> QED
    BY <1>2, <2>1, <2>3, <2>4
<1>5. new \in C /\ (new.balanced => new.endpoint \in Servers) /\ new.state = "IDLE"
  <2>1. found.results[1] \in Endpoint
    BY <1>3 DEF Endpoint
  <2>2. found.balanced => found.results[1] \in Servers
    BY <1>3
  <2> HIDE DEF found
  <2> QED
    BY <1>3, <2>1, <2>2 DEF Channel, States
<1> HIDE DEF new, C
<1>6. /\ channel' \in Seq(C) /\ Current' = Current + 1
      /\ channel'[Current + 1] = new
      /\ \A g \in 1..Current : channel'[g] = channel[g]
  BY <1>1, <1>2, <1>5 DEF Current
<1>7. /\ watcher' \in [1..MaxChannels -> WatcherState]
      /\ \A g \in 1..MaxChannels : g # Current + 1 => watcher'[g].pc = watcher[g].pc
  <2>1. watcher[Current] \in WatcherState
    BY <1>2
  <2>2. /\ Stopped(watcher[Current]) \in WatcherState
        /\ Stopped(watcher[Current]).pc = watcher[Current].pc
    BY <2>1 DEF Stopped, WatcherState
  <2>3. 0 \in 0..AUTO_CONNECT_MAX_TRIES
    BY DiscoveryAssumption
  <2>4. Watcher \in WatcherState
    BY <2>3 DEF Watcher, WatcherState, States
  <2>5. Started \in WatcherState
    BY <2>4 DEF Started, WatcherState
  <2>6. watcher' = [watcher EXCEPT ![Current] = Stopped(watcher[Current]),
                                   ![Current + 1] = Started]
    BY <1>1
  <2> QED
    BY <1>2, <1>4, <2>2, <2>5, <2>6
<1>8. TypeInv'
  <2>1. \A g \in 1..Current' : channel'[g].state \in States \cup {"SHUTDOWN"}
    <3>1. \A g \in 1..Len(channel') : channel'[g] \in C
      BY <1>6
    <3> QED
      BY <3>1 DEF C, Current
  <2>2. Current' \in 1..MaxChannels
    BY <1>2, <1>4, <1>6
  <2>3. TypeOK'
    BY <1>1, <1>7, <2>1, <2>2 DEF TypeInv, TypeOK, WatcherState
  <2> QED
    BY <1>1, <1>6, <2>3 DEF TypeInv, C
<1>9. CountInv'
  <2>1. Cardinality(Replacing(events)) \in Nat
    BY <1>2, ReplacingIsCounted
  <2>2. Current + Cardinality(Replacing(events)) <= MaxChannels
    BY <1>1, <1>2 DEF CountInv
  <2>3. events' = events
    BY <1>1
  <2> QED
    BY <1>1, <1>2, <1>6, <2>1, <2>2, <2>3 DEF CountInv
<1>10. WatcherInv'
  <2>1. ASSUME NEW g \in 1..Current', channel'[g].state = "SHUTDOWN"
        PROVE  watcher'[g].pc = "exited"
    <3>1. g # Current + 1
      BY <1>5, <1>6, <2>1
    <3>2. g \in 1..Current
      BY <1>2, <1>6, <3>1
    <3>3. watcher[g].pc = "exited"
      BY <1>6, <2>1, <3>2 DEF WatcherInv
    <3> QED
      BY <1>2, <1>7, <3>1, <3>2, <3>3
  <2>2. \A g \in Current' + 1..MaxChannels : watcher'[g].pc = "none"
    BY <1>2, <1>6, <1>7 DEF WatcherInv
  <2> QED
    BY <1>1, <2>1, <2>2 DEF WatcherInv
<1>11. ServerInv'
  <2>1. ASSUME NEW g \in 2..Current', channel'[g].balanced
        PROVE  channel'[g].endpoint \in Servers
    <3>1. CASE g = Current + 1
      BY <1>5, <1>6, <2>1, <3>1
    <3>2. CASE g \in 2..Current
      BY <1>2, <1>6, <2>1, <3>2 DEF ServerInv
    <3> QED
      BY <1>2, <1>6, <3>1, <3>2
  <2> QED
    BY <2>1 DEF ServerInv
<1> QED
  BY <1>8, <1>9, <1>10, <1>11
\* The old services end with their watcher, and the signal has been handled.
LEMMA DeletingKeeps ==
  ASSUME DiscoveryInv, OldServicesDeleted
  PROVE  DiscoveryInv'
<1> USE DEF DiscoveryInv
<1> DEFINE C == [endpoint : Endpoint, balanced : BOOLEAN, state : States \cup {"SHUTDOWN"}]
           old == Current - 1
<1>1. /\ gui = "replacing" /\ watcher[old].pc = "exited" /\ gui' = "loop" /\ Handled
      /\ channel' = [channel EXCEPT ![old].state = "SHUTDOWN"]
      /\ light' = [status |-> "Green", overruled |-> FALSE]
      /\ UNCHANGED <<worker, advertised, m_interrupted, m_stop, watcher, wakes, missed,
                     late, crashed>>
  BY DEF OldServicesDeleted, Shows, worker_vars
<1>2. /\ channel \in Seq(C) /\ Current \in 1..MaxChannels /\ MaxChannels \in Nat
      /\ Current > 1 /\ events # <<>> /\ Replaces(Head(events))
  BY <1>1, DiscoveryAssumption DEF TypeInv, TypeOK, CountInv
<1>3. old \in 1..Current /\ channel[old] \in C /\ \A g \in 1..Current : channel[g] \in C
  <2>1. old \in 1..Current
    BY <1>2
  <2>2. \A g \in 1..Len(channel) : channel[g] \in C
    <3> HIDE DEF C
    <3> QED
      BY <1>2
  <2> QED
    BY <2>1, <2>2 DEF Current
<1>4. /\ [channel[old] EXCEPT !.state = "SHUTDOWN"] \in C
      /\ channel' = [channel EXCEPT ![old] = [channel[old] EXCEPT !.state = "SHUTDOWN"]]
  BY <1>1, <1>3
<1>5. /\ channel' \in Seq(C) /\ Current' = Current
      /\ \A g \in 1..Current : channel'[g] =
           IF g = old THEN [channel[old] EXCEPT !.state = "SHUTDOWN"] ELSE channel[g]
  <2> HIDE DEF C, old
  <2> QED
    BY <1>2, <1>3, <1>4 DEF Current
<1>6. \A g \in 1..Current :
        /\ channel'[g].balanced = channel[g].balanced
        /\ channel'[g].endpoint = channel[g].endpoint
        /\ channel'[g].state = IF g = old THEN "SHUTDOWN" ELSE channel[g].state
  BY <1>3, <1>5
<1>7. events' \in Seq(Event) /\ Len(events') <= MaxEvents
  BY <1>2, <1>1, QueueAfter
<1>8. TypeInv'
  <2>1. \A g \in 1..Current' : channel'[g].state \in States \cup {"SHUTDOWN"}
    BY <1>3, <1>5, <1>6
  <2>2. TypeOK'
    BY <1>1, <1>2, <1>5, <1>7, <2>1 DEF TypeInv, TypeOK
  <2> QED
    BY <1>5, <1>7, <2>2 DEF TypeInv
<1>9. CountInv'
  <2>1. /\ Cardinality(Replacing(events)) = Cardinality(Replacing(events')) + 1
        /\ Cardinality(Replacing(events')) \in Nat /\ Cardinality(Replacing(events)) \in Nat
    BY <1>1, <1>2, QueueAfter
  <2>2. Current + Cardinality(Replacing(events)) <= MaxChannels + 1
    BY <1>1 DEF CountInv
  <2> QED
    BY <1>1, <1>2, <1>5, <2>1, <2>2 DEF CountInv
<1>10. WatcherInv'
  BY <1>1, <1>2, <1>5, <1>6 DEF WatcherInv
<1>11. ServerInv'
  <2>1. ASSUME NEW g \in 2..Current, channel'[g].balanced
        PROVE  channel'[g].endpoint \in Servers
    <3>1. g \in 1..Current
      BY <1>2
    <3>2. channel[g].balanced /\ channel'[g].endpoint = channel[g].endpoint
      BY <1>6, <2>1, <3>1
    <3> QED
      BY <3>2 DEF ServerInv
  <2> QED
    BY <1>5, <2>1 DEF ServerInv
<1> QED
  BY <1>8, <1>9, <1>10, <1>11

\* The event loop begins, and the first watcher with it.
LEMMA ExecKeeps ==
  ASSUME DiscoveryInv, Exec
  PROVE  DiscoveryInv'
<1> USE DEF DiscoveryInv
<1>1. /\ gui = "starting" /\ gui' = "loop" /\ watcher' = [watcher EXCEPT ![1] = Started]
      /\ worker' = Notified
      /\ UNCHANGED <<advertised, m_interrupted, m_stop, channel, events, light, wakes,
                     missed, late, crashed>>
  BY DEF Exec
<1>2. /\ watcher \in [1..MaxChannels -> WatcherState]
      /\ MaxChannels \in Nat \ {0} /\ Current' = Current
  BY <1>1, DiscoveryAssumption DEF TypeInv, TypeOK, WatcherState, Current
<1>3. /\ watcher' \in [1..MaxChannels -> WatcherState]
      /\ \A g \in 1..MaxChannels : g # 1 => watcher'[g] = watcher[g]
  <2>1. 0 \in 0..AUTO_CONNECT_MAX_TRIES
    BY DiscoveryAssumption
  <2>2. Watcher \in WatcherState
    BY <2>1 DEF Watcher, WatcherState, States
  <2>3. Started \in WatcherState
    BY <2>2 DEF Started, WatcherState
  <2> QED
    BY <1>1, <1>2, <2>3
<1>4. worker' \in {"begin", "discovering", "querying", "idle", "waiting", "woken", "ended"}
  BY <1>1 DEF Notified, TypeInv, TypeOK
<1>5. TypeInv'
  BY <1>1, <1>2, <1>3, <1>4 DEF TypeInv, TypeOK, WatcherState
<1>6. CountInv' /\ ServerInv'
  BY <1>1, <1>2 DEF CountInv, ServerInv
<1>7. WatcherInv'
  <2>1. Current = 1 /\ channel[1].state = "TRANSIENT_FAILURE"
    BY <1>1 DEF WatcherInv
  <2> QED
    BY <1>1, <1>2, <1>3, <2>1 DEF WatcherInv
<1> QED
  BY <1>5, <1>6, <1>7

\* The end of the program starts nothing.
LEMMA EndKeeps ==
  ASSUME DiscoveryInv, closeEvent \/ EndStep
  PROVE  DiscoveryInv'
<1> USE DEF DiscoveryInv
<1>1. /\ gui \notin {"starting", "replacing"}
      /\ gui' \in {"closing", "stopping", "joining", "services", "finished"}
      /\ UNCHANGED <<channel, advertised, light, wakes, crashed>>
  BY DEF closeEvent, EndStep, StopWatcher, StopWorker, NotifyStop, JoinWorker, JoinWatcher,
         worker_vars
<1>2. /\ watcher \in [1..MaxChannels -> WatcherState] /\ MaxChannels \in Nat
      /\ Current \in 1..MaxChannels /\ Current' = Current
      /\ events \in Seq(Event)
  BY <1>1, DiscoveryAssumption DEF TypeInv, TypeOK, WatcherState, Current
<1>3. /\ events' \in Seq(Event) /\ Len(events') <= MaxEvents
      /\ Cardinality(Replacing(events')) \in Nat
      /\ Cardinality(Replacing(events')) <= Cardinality(Replacing(events))
  <2>1. Len(events) <= MaxEvents /\ MaxEvents \in Nat
        /\ Cardinality(Replacing(events)) \in Nat
    BY <1>2, DiscoveryAssumption, ReplacingIsCounted DEF TypeInv, TypeOK
  <2>2. CASE events' = events
    BY <1>2, <2>1, <2>2
  <2>3. CASE events' = <<>>
    <3>1. <<>> \in Seq(Event) /\ Len(<<>>) = 0
      OBVIOUS
    <3>2. Replacing(<<>>) = {}
      BY DEF Replacing
    <3> QED
      BY <2>1, <2>3, <3>1, <3>2, FS_EmptySet
  <2> QED
    BY <2>2, <2>3 DEF closeEvent, EndStep, StopWatcher, StopWorker, NotifyStop, JoinWorker,
                      JoinWatcher
<1>4. /\ watcher' \in [1..MaxChannels -> WatcherState]
      /\ \A g \in 1..MaxChannels : watcher'[g].pc = watcher[g].pc
  <2>1. CASE watcher' = watcher
    BY <1>2, <2>1
  <2>2. CASE watcher' = [watcher EXCEPT ![Current] = Stopped(@)]
    <3>1. watcher[Current] \in WatcherState
      BY <1>2
    <3>2. /\ Stopped(watcher[Current]) \in WatcherState
          /\ Stopped(watcher[Current]).pc = watcher[Current].pc
      BY <3>1 DEF Stopped, WatcherState
    <3>3. watcher' = [watcher EXCEPT ![Current] = Stopped(watcher[Current])]
      BY <2>2
    <3> QED
      BY <1>2, <3>2, <3>3
  <2> QED
    BY <2>1, <2>2 DEF closeEvent, EndStep, StopWatcher, StopWorker, NotifyStop, JoinWorker,
                      JoinWatcher
<1>5. /\ worker' \in {"begin", "discovering", "querying", "idle", "waiting", "woken", "ended"}
      /\ m_interrupted' \in BOOLEAN /\ m_stop' \in BOOLEAN
      /\ missed' \in BOOLEAN /\ late' \in BOOLEAN
  <2>1. /\ worker \in {"begin", "discovering", "querying", "idle", "waiting", "woken", "ended"}
        /\ m_interrupted \in BOOLEAN /\ m_stop \in BOOLEAN
        /\ missed \in BOOLEAN /\ late \in BOOLEAN
    BY DEF TypeInv, TypeOK
  <2>2. CASE closeEvent
    BY <2>1, <2>2 DEF closeEvent
  <2>3. CASE StopWatcher
    <3>1. late' \in BOOLEAN
      BY <2>3 DEF StopWatcher
    <3> QED
      BY <2>1, <2>3, <3>1 DEF StopWatcher, worker_vars
  <2>4. CASE NotifyStop
    <3>1. missed' \in BOOLEAN
      BY <2>4 DEF NotifyStop
    <3> QED
      BY <2>1, <2>4, <3>1 DEF NotifyStop, Notified
  <2>5. CASE StopWorker \/ JoinWorker \/ JoinWatcher
    BY <2>1, <2>5 DEF StopWorker, JoinWorker, JoinWatcher, worker_vars
  <2> QED
    BY <2>2, <2>3, <2>4, <2>5 DEF EndStep
<1>6. TypeInv'
  BY <1>1, <1>2, <1>3, <1>4, <1>5 DEF TypeInv, TypeOK, WatcherState
<1>7. CountInv'
  <2>1. Current + Cardinality(Replacing(events)) <= MaxChannels
        /\ Cardinality(Replacing(events)) \in Nat
    BY <1>1, <1>2, ReplacingIsCounted DEF CountInv
  <2> QED
    BY <1>1, <1>2, <1>3, <2>1 DEF CountInv
<1>8. WatcherInv' /\ ServerInv'
  BY <1>1, <1>2, <1>4 DEF WatcherInv, ServerInv
<1> QED
  BY <1>6, <1>7, <1>8

-----------------------------------------------------------------------------
(* The theorems.                                                           *)

\* At the start there is one channel and nothing is queued.
LEMMA DiscoveryInit == Init => DiscoveryInv
<1> SUFFICES ASSUME Init
             PROVE  DiscoveryInv
  OBVIOUS
<1> DEFINE C == [endpoint : Endpoint, balanced : BOOLEAN, state : States \cup {"SHUTDOWN"}]
           c == [Channel(Local, TRUE) EXCEPT !.state = "TRANSIENT_FAILURE"]
<1>1. channel = <<c>> /\ events = <<>>
  BY DEF Init
<1>2. c \in C /\ c.state = "TRANSIENT_FAILURE"
  BY DEF Channel, Endpoint, States
<1> HIDE DEF c, C
<1>3. channel \in Seq(C) /\ Current = 1 /\ channel[1] = c
  BY <1>1, <1>2 DEF Current
<1>4. events \in Seq(Event) /\ Len(events) = 0
  <2>1. <<>> \in Seq(Event)
    OBVIOUS
  <2> QED
    BY <1>1, <2>1
<1>5. watcher \in [1..MaxChannels -> WatcherState]
      /\ \A g \in 1..MaxChannels : watcher[g].pc = "none"
  <2>1. 0 \in 0..AUTO_CONNECT_MAX_TRIES
    BY DiscoveryAssumption
  <2>2. Watcher \in WatcherState /\ Watcher.pc = "none"
    BY <2>1 DEF Watcher, WatcherState, States
  <2> HIDE DEF WatcherState
  <2> QED
    BY <2>2 DEF Init
<1>6. TypeInv
  <2>1. \A g \in 1..Current : channel[g].state \in States \cup {"SHUTDOWN"}
    BY <1>2, <1>3 DEF States
  <2>2. /\ light \in [status : {"Red", "Yellow", "Green"}, overruled : BOOLEAN]
        /\ wakes \in 0..MaxWakes
        /\ Current \in 1..MaxChannels
        /\ Len(events) <= MaxEvents
    BY <1>3, <1>4, DiscoveryAssumption DEF Init
  <2>3. /\ worker = "begin" /\ gui = "starting" /\ crashed = "no"
        /\ {advertised, m_stop, m_interrupted, missed, late} \subseteq BOOLEAN
    BY DEF Init
  <2>4. TypeOK
    BY <1>5, <2>1, <2>2, <2>3 DEF TypeOK, WatcherState
  <2> QED
    BY <1>3, <1>4, <2>4 DEF TypeInv, C
<1>7. CountInv
  <2>1. Replacing(events) = {}
    BY <1>1 DEF Replacing
  <2>2. Cardinality(Replacing(events)) = 0
    BY <2>1, FS_EmptySet
  <2>3. gui = "starting" /\ MaxChannels \in Nat \ {0}
    BY DiscoveryAssumption DEF Init
  <2> QED
    BY <1>3, <2>2, <2>3 DEF CountInv
<1>8. WatcherInv
  BY <1>2, <1>3, <1>5, DiscoveryAssumption DEF WatcherInv
<1>9. ServerInv
  BY <1>3 DEF ServerInv
<1> QED
  BY <1>6, <1>7, <1>8, <1>9 DEF DiscoveryInv

\* Every step of every thread keeps the invariant.
LEMMA DiscoveryNext == DiscoveryInv /\ [Next]_vars => DiscoveryInv'
<1> SUFFICES ASSUME DiscoveryInv, [Next]_vars
             PROVE  DiscoveryInv'
  OBVIOUS
<1>1. CASE WorkerStep \/ SpuriousWake \/ sl_rediscover
  BY <1>1, WorkerKeeps
<1>2. ASSUME NEW g \in 1..MaxChannels, WatcherStep(g)
      PROVE  DiscoveryInv'
  BY <1>2, WakingKeeps, LookingKeeps DEF WatcherStep
<1>3. CASE Dial \/ Connects \/ Refused \/ Disconnects
  <2>1. \E from, to \in States : ChannelMoves(from, to)
    BY <1>3 DEF Dial, Connects, Refused, Disconnects, States
  <2> QED
    BY <2>1, ChannelKeeps
<1>4. CASE LoopStep
  BY <1>4, ExecKeeps, SlotsKeep, ChangeKeeps, DeletingKeeps DEF LoopStep
<1>5. CASE closeEvent \/ EndStep
  BY <1>5, EndKeeps
<1>6. CASE UNCHANGED vars
  BY <1>6 DEF vars, worker_vars, DiscoveryInv, TypeInv, TypeOK, CountInv, WatcherInv,
              ServerInv, Current
<1> QED
  BY <1>1, <1>2, <1>3, <1>4, <1>5, <1>6 DEF Next

\* The client never has more channels, signals or failures than it should, and
\* a watcher never counts past AUTO_CONNECT_MAX_TRIES.
THEOREM TypeCorrect == Spec => []TypeOK
<1>1. DiscoveryInv => TypeOK
  BY DEF DiscoveryInv, TypeInv
<1> QED
  BY <1>1, DiscoveryInit, DiscoveryNext, PTL DEF Spec

\* The client changes to no address that is not a server's, if each packet that
\* answered its query was balanced.
THEOREM ConnectsToServers == Spec => []ConnectsToServer
<1>1. DiscoveryInv => ConnectsToServer
  <2> SUFFICES ASSUME DiscoveryInv
               PROVE  ConnectsToServer
    OBVIOUS
  <2>1. ASSUME NEW n \in DOMAIN events, events[n].type = "discovered",
               events[n].found.balanced
        PROVE  ToSet(events[n].found.results) \subseteq Servers
    <3>1. events[n] \in Event
      BY DEF DiscoveryInv, TypeInv
    <3>2. events[n].found \in Found
      BY <2>1, <3>1 DEF Event
    <3>3. events[n].found.results \in Seq(Servers)
      BY <2>1, <3>2, FoundAreServers
    <3> QED
      BY <3>3 DEF ToSet
  <2> QED
    BY <2>1 DEF ConnectsToServer, DiscoveryInv, ServerInv
<1> QED
  BY <1>1, DiscoveryInit, DiscoveryNext, PTL DEF Spec
=============================================================================
