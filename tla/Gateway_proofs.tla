--------------------------- MODULE Gateway_proofs ---------------------------
(***************************************************************************)
(* Proofs about the UDP gateway, for any addresses, numbers of connections *)
(* and clients, sizes of buffers and links, and failures: a number stands  *)
(* for one connection of the client, the packet the server is sending      *)
(* outlives the connection it belongs to, and a socket of the server sends *)
(* for one pair of addresses only.                                         *)
(***************************************************************************)
EXTENDS Gateway, SequenceTheorems, TLAPS

Conids == Client!Conids
DataPackets == [kind : {"data"}, conid : Conids, rebind : BOOLEAN, addr : Conaddrs]
Packets == DataPackets \union {Client!Keepalive}

ClientConnections == [conid : Conids, addr : Conaddrs, buf : Seq(DataPackets)]

\* The flow that is sending has the packet it is sending.
Holds(cs, c) == \E i \in 1..Len(cs) : cs[i].conid = c /\ cs[i].buf # <<>>
SendingHasPacket == sending \in Conids => Holds(connections, sending)

ClientInv ==
  /\ connections \in Seq(ClientConnections)
  /\ sending \in Conids \union {Client!KeepaliveFlow, Client!Idle}
  /\ NumbersDistinct /\ SendingHasPacket

LinkInv == link \in Clients \union {NoLink} /\ up \in [Clients -> Seq(Packets)]

-----------------------------------------------------------------------------
(* Sequences. *)

LEMMA AppendFacts ==
  ASSUME NEW S, NEW s \in Seq(S), NEW e \in S
  PROVE  /\ Append(s, e) \in Seq(S) /\ Len(Append(s, e)) = Len(s) + 1
         /\ \A i \in 1..Len(s) : Append(s, e)[i] = s[i]
         /\ Append(s, e)[Len(s) + 1] = e
         /\ Len(s) \in Nat
  OBVIOUS

LEMMA TailFacts ==
  ASSUME NEW S, NEW s \in Seq(S), s # <<>>
  PROVE  /\ Tail(s) \in Seq(S) /\ Len(Tail(s)) = Len(s) - 1 /\ Len(s) \in Nat /\ Len(s) > 0
         /\ Head(s) = s[1] /\ Head(s) \in S
  OBVIOUS

\* Where the k-th element was before the i-th was removed.
Was(i, k) == IF k < i THEN k ELSE k + 1

LEMMA WasFacts ==
  ASSUME NEW n \in Nat, NEW i \in 1..n
  PROVE  /\ \A k \in 1..(n - 1) : Was(i, k) \in 1..n /\ Was(i, k) # i
         /\ \A k, l \in 1..(n - 1) : Was(i, k) = Was(i, l) => k = l
         /\ \A m \in 1..n : m # i => \E k \in 1..(n - 1) : Was(i, k) = m
  <1>1. \A k \in 1..(n - 1) : Was(i, k) \in 1..n /\ Was(i, k) # i
    BY DEF Was
  <1>2. \A k, l \in 1..(n - 1) : Was(i, k) = Was(i, l) => k = l
    BY DEF Was
  <1>3. ASSUME NEW m \in 1..n, m # i PROVE \E k \in 1..(n - 1) : Was(i, k) = m
    <2>1. CASE m < i
      <3>1. m \in 1..(n - 1) /\ Was(i, m) = m
        BY <2>1 DEF Was
      <3> QED
        BY <3>1
    <2>2. CASE m > i
      <3>1. m - 1 \in 1..(n - 1) /\ Was(i, m - 1) = m
        BY <2>2 DEF Was
      <3> QED
        BY <3>1
    <2> QED
      BY <1>3, <2>1, <2>2
  <1> QED
    BY <1>1, <1>2, <1>3

LEMMA RemovedFacts ==
  ASSUME NEW S, NEW s \in Seq(S), NEW i \in 1..Len(s), NEW t,
         t = SubSeq(s, 1, i - 1) \o SubSeq(s, i + 1, Len(s))
  PROVE  /\ t \in Seq(S) /\ Len(t) = Len(s) - 1 /\ Len(s) \in Nat
         /\ \A k \in 1..(Len(s) - 1) : t[k] = s[Was(i, k)]
  <1> DEFINE a == SubSeq(s, 1, i - 1)
             b == SubSeq(s, i + 1, Len(s))
  <1>1. Len(s) \in Nat /\ i \in Nat /\ i >= 1 /\ i <= Len(s)
    OBVIOUS
  <1>2. a \in Seq(S) /\ Len(a) = i - 1 /\ \A k \in 1..(i - 1) : a[k] = s[k]
    BY <1>1
  <1>3. b \in Seq(S) /\ Len(b) = Len(s) - i /\ \A k \in 1..(Len(s) - i) : b[k] = s[k + i]
    BY <1>1
  <1>4. t = a \o b
    OBVIOUS
  <1> HIDE DEF a, b
  <1>5. /\ t \in Seq(S) /\ Len(t) = Len(a) + Len(b)
        /\ \A k \in 1..(Len(a) + Len(b)) : t[k] = IF k <= Len(a) THEN a[k] ELSE b[k - Len(a)]
    <2>1. /\ a \o b \in Seq(S) /\ Len(a \o b) = Len(a) + Len(b)
          /\ \A k \in 1..(Len(a) + Len(b)) : (a \o b)[k] = IF k <= Len(a) THEN a[k] ELSE b[k - Len(a)]
      BY <1>2, <1>3, ConcatProperties, Zenon
    <2> QED
      BY <1>4, <2>1, Zenon
  <1>6. Len(t) = Len(s) - 1 /\ Len(a) + Len(b) = Len(s) - 1
    <2>1. Len(a) + Len(b) = Len(s) - 1
      BY <1>1, <1>2, <1>3
    <2> QED
      BY <1>5, <2>1, Zenon
  <1>7. ASSUME NEW k \in 1..(Len(s) - 1) PROVE t[k] = s[Was(i, k)]
    <2>1. CASE k < i
      <3>1. k <= Len(a) /\ k \in 1..(i - 1)
        BY <1>1, <1>2, <2>1
      <3> QED
        BY <1>2, <1>5, <1>6, <2>1, <3>1 DEF Was
    <2>2. CASE ~(k < i)
      <3>1. t[k] = b[k - (i - 1)]
        <4>1. ~(k <= Len(a))
          BY <1>1, <1>2, <2>2
        <4> QED
          BY <1>2, <1>5, <1>6, <4>1
      <3>2. k - (i - 1) \in 1..(Len(s) - i) /\ (k - (i - 1)) + i = k + 1
        BY <1>1, <2>2
      <3> QED
        BY <1>3, <2>2, <3>1, <3>2 DEF Was
    <2> QED
      BY <2>1, <2>2
  <1> QED
    BY <1>1, <1>5, <1>6, <1>7

\* The i-th element of s has been removed and c added at the end.
IsMoved(t, s, i, c) ==
  /\ Len(t) = Len(s) /\ Len(s) \in Nat
  /\ \A k \in 1..(Len(s) - 1) : t[k] = s[Was(i, k)]
  /\ t[Len(s)] = c

LEMMA MovedFacts ==
  ASSUME NEW S, NEW s \in Seq(S), NEW i \in 1..Len(s), NEW c \in S
  PROVE  /\ Append(SubSeq(s, 1, i - 1) \o SubSeq(s, i + 1, Len(s)), c) \in Seq(S)
         /\ IsMoved(Append(SubSeq(s, 1, i - 1) \o SubSeq(s, i + 1, Len(s)), c), s, i, c)
  <1>1. PICK r : r = SubSeq(s, 1, i - 1) \o SubSeq(s, i + 1, Len(s))
    OBVIOUS
  <1>2. /\ r \in Seq(S) /\ Len(r) = Len(s) - 1 /\ Len(s) \in Nat
        /\ \A k \in 1..(Len(s) - 1) : r[k] = s[Was(i, k)]
    BY <1>1, RemovedFacts
  <1>3. /\ Append(r, c) \in Seq(S) /\ Len(Append(r, c)) = Len(r) + 1
        /\ Append(r, c)[Len(r) + 1] = c /\ \A k \in 1..Len(r) : Append(r, c)[k] = r[k]
    BY <1>2, AppendFacts
  <1>4. Len(r) + 1 = Len(s)
    BY <1>2
  <1>5. IsMoved(Append(r, c), s, i, c)
    BY <1>2, <1>3, <1>4 DEF IsMoved
  <1> QED
    BY <1>1, <1>3, <1>5

-----------------------------------------------------------------------------
(* The connections of the client. *)

Distinct(cs) ==
  \A i, j \in 1..Len(cs) : i # j => cs[i].conid # cs[j].conid /\ cs[i].addr # cs[j].addr

LEMMA DistinctIsNumbers ==
  ASSUME connections \in Seq(ClientConnections)
  PROVE  NumbersDistinct <=> Distinct(connections)
  <1>1. DOMAIN connections = 1..Len(connections) /\ \A i \in 1..Len(connections) : connections[i].conid \in Conids
    <2>1. \A i \in 1..Len(connections) : connections[i] \in ClientConnections
      OBVIOUS
    <2> QED
      BY <2>1 DEF ClientConnections
  <1> QED
    BY <1>1 DEF NumbersDistinct, Distinct, Conids

LEMMA DistinctPrimed ==
  ASSUME connections' \in Seq(ClientConnections), Distinct(connections')
  PROVE  NumbersDistinct'
  <1>1. /\ DOMAIN connections' = 1..Len(connections')
        /\ \A i \in 1..Len(connections') : connections'[i].conid \in Conids
    <2>1. \A i \in 1..Len(connections') : connections'[i] \in ClientConnections
      OBVIOUS
    <2> QED
      BY <2>1 DEF ClientConnections
  <1> QED
    BY <1>1 DEF NumbersDistinct, Distinct, Conids

LEMMA ConnectionFields ==
  ASSUME NEW cs \in Seq(ClientConnections), NEW i \in 1..Len(cs)
  PROVE  /\ cs[i] \in ClientConnections /\ cs[i].conid \in Conids /\ cs[i].addr \in Conaddrs
         /\ cs[i].buf \in Seq(DataPackets)
  <1>1. cs[i] \in ClientConnections
    OBVIOUS
  <1> QED
    BY <1>1 DEF ClientConnections

\* connection_send leaves number and addresses alone and empties no buffer.
LEMMA SendFacts ==
  ASSUME NEW con \in ClientConnections, NEW rebind \in BOOLEAN, NEW r,
         r = Client!connection_send(con, rebind)
  PROVE  /\ r \in ClientConnections /\ r.conid = con.conid /\ r.addr = con.addr
         /\ con.buf # <<>> => r.buf # <<>>
  <1>1. CASE Client!Full(con)
    BY <1>1 DEF Client!connection_send
  <1>2. CASE ~Client!Full(con)
    <2> DEFINE d == Client!Data(con.conid, rebind, con.addr)
    <2>1. con.buf \in Seq(DataPackets) /\ con.conid \in Conids /\ con.addr \in Conaddrs
      BY DEF ClientConnections
    <2>2. d \in DataPackets
      BY <2>1 DEF Client!Data, DataPackets
    <2>3. r = [con EXCEPT !.buf = Append(@, d)]
      BY <1>2 DEF Client!connection_send
    <2> HIDE DEF d
    <2>4. Append(con.buf, d) \in Seq(DataPackets) /\ Append(con.buf, d) # <<>>
      BY <2>1, <2>2
    <2> QED
      BY <2>3, <2>4 DEF ClientConnections
  <1> QED
    BY <1>1, <1>2

\* A connection is moved to the end of the list, perhaps with other addresses.
LEMMA MovedDistinct ==
  ASSUME NEW cs \in Seq(ClientConnections), Distinct(cs), NEW i \in 1..Len(cs),
         NEW con \in ClientConnections, con.conid = cs[i].conid,
         \A k \in 1..Len(cs) : k # i => con.addr # cs[k].addr,
         cs[i].buf # <<>> => con.buf # <<>>,
         NEW t, IsMoved(t, cs, i, con)
  PROVE  /\ Distinct(t)
         /\ \A c : Holds(cs, c) => Holds(t, c)
  <1>1. /\ Len(t) = Len(cs) /\ Len(cs) \in Nat
        /\ \A k \in 1..(Len(cs) - 1) : t[k] = cs[Was(i, k)]
        /\ t[Len(cs)] = con
    BY DEF IsMoved
  <1>2. /\ \A k \in 1..(Len(cs) - 1) : Was(i, k) \in 1..Len(cs) /\ Was(i, k) # i
        /\ \A k, l \in 1..(Len(cs) - 1) : Was(i, k) = Was(i, l) => k = l
        /\ \A m \in 1..Len(cs) : m # i => \E k \in 1..(Len(cs) - 1) : Was(i, k) = m
    BY <1>1, WasFacts
  <1>3. \A k \in 1..Len(cs) : k = Len(cs) \/ k \in 1..(Len(cs) - 1)
    BY <1>1
  <1>4. Distinct(t)
    <2> SUFFICES ASSUME NEW k \in 1..Len(cs), NEW l \in 1..Len(cs), k # l
                 PROVE  t[k].conid # t[l].conid /\ t[k].addr # t[l].addr
      BY <1>1 DEF Distinct
    <2>1. CASE k # Len(cs) /\ l # Len(cs)
      <3>1. k \in 1..(Len(cs) - 1) /\ l \in 1..(Len(cs) - 1)
        BY <1>3, <2>1
      <3>2. Was(i, k) # Was(i, l) /\ Was(i, k) \in 1..Len(cs) /\ Was(i, l) \in 1..Len(cs)
        BY <1>2, <3>1
      <3> QED
        BY <1>1, <3>1, <3>2 DEF Distinct
    <2>2. CASE k = Len(cs)
      <3>1. l \in 1..(Len(cs) - 1)
        BY <1>3, <2>2
      <3>2. Was(i, l) # i /\ Was(i, l) \in 1..Len(cs)
        BY <1>2, <3>1
      <3> QED
        BY <1>1, <2>2, <3>1, <3>2 DEF Distinct
    <2>3. CASE l = Len(cs)
      <3>1. k \in 1..(Len(cs) - 1)
        BY <1>3, <2>3
      <3>2. Was(i, k) # i /\ Was(i, k) \in 1..Len(cs)
        BY <1>2, <3>1
      <3> QED
        BY <1>1, <2>3, <3>1, <3>2 DEF Distinct
    <2> QED
      BY <2>1, <2>2, <2>3
  <1>5. ASSUME NEW c, Holds(cs, c) PROVE Holds(t, c)
    <2>1. PICK m \in 1..Len(cs) : cs[m].conid = c /\ cs[m].buf # <<>>
      BY <1>5 DEF Holds
    <2>2. CASE m = i
      <3>1. Len(cs) \in 1..Len(t)
        BY <1>1
      <3> QED
        BY <1>1, <2>1, <2>2, <3>1 DEF Holds
    <2>3. CASE m # i
      <3>1. PICK k \in 1..(Len(cs) - 1) : Was(i, k) = m
        BY <1>2, <2>3
      <3>2. k \in 1..Len(t)
        BY <1>1
      <3> QED
        BY <1>1, <2>1, <3>1, <3>2 DEF Holds
    <2> QED
      BY <2>2, <2>3
  <1> QED
    BY <1>4, <1>5

\* A connection with a number and addresses of its own is added.
LEMMA AddedDistinct ==
  ASSUME NEW cs \in Seq(ClientConnections), Distinct(cs), NEW con \in ClientConnections,
         \A k \in 1..Len(cs) : cs[k].conid # con.conid /\ cs[k].addr # con.addr
  PROVE  /\ Append(cs, con) \in Seq(ClientConnections) /\ Distinct(Append(cs, con))
         /\ \A c : Holds(cs, c) => Holds(Append(cs, con), c)
  <1>1. PICK t : t = Append(cs, con)
    OBVIOUS
  <1>2. /\ t \in Seq(ClientConnections) /\ Len(t) = Len(cs) + 1 /\ Len(cs) \in Nat
        /\ \A i \in 1..Len(cs) : t[i] = cs[i]
        /\ t[Len(cs) + 1] = con
    BY <1>1, AppendFacts
  <1>3. \A k \in 1..(Len(cs) + 1) : k = Len(cs) + 1 \/ k \in 1..Len(cs)
    BY <1>2
  <1>4. Distinct(t)
    BY <1>2, <1>3 DEF Distinct
  <1>5. \A c : Holds(cs, c) => Holds(t, c)
    BY <1>2 DEF Holds
  <1> QED
    BY <1>1, <1>2, <1>4, <1>5

-----------------------------------------------------------------------------
(* The actions of the client. *)

\* What has to be shown of a step that changes the list of connections.
LEMMA ConnectionsChange ==
  ASSUME ClientInv, connections' \in Seq(ClientConnections), Distinct(connections'),
         \A c : Holds(connections, c) => Holds(connections', c), UNCHANGED sending
  PROVE  ClientInv'
  <1>1. NumbersDistinct'
    BY DistinctPrimed
  <1> QED
    BY <1>1 DEF ClientInv, SendingHasPacket

LEMMA SubmitClientInv ==
  ASSUME ClientInv, NEW addr \in Conaddrs, Client!UdpGwClient_SubmitPacket(addr)
  PROVE  ClientInv'
  <1>1. connections \in Seq(ClientConnections) /\ Distinct(connections) /\ UNCHANGED sending
    BY DistinctIsNumbers DEF ClientInv, Client!UdpGwClient_SubmitPacket
  <1>2. /\ connections' \in Seq(ClientConnections) /\ Distinct(connections')
        /\ \A c : Holds(connections, c) => Holds(connections', c)
    <2>1. CASE \E i \in {j \in DOMAIN connections : connections[j].addr = addr} :
                 connections' = Client!MovedToEnd(i, Client!connection_send(connections[i], FALSE))
      <3>1. PICK i \in 1..Len(connections) :
              connections' = Client!MovedToEnd(i, Client!connection_send(connections[i], FALSE))
        <4>1. DOMAIN connections = 1..Len(connections)
          BY <1>1
        <4> QED
          BY <2>1, <4>1, Zenon
      <3>2. PICK con : con = Client!connection_send(connections[i], FALSE)
        OBVIOUS
      <3>3. /\ con \in ClientConnections /\ con.conid = connections[i].conid
            /\ con.addr = connections[i].addr
            /\ connections[i].buf # <<>> => con.buf # <<>>
        BY <1>1, <3>2, ConnectionFields, SendFacts
      <3>4. connections' = Append(SubSeq(connections, 1, i - 1) \o SubSeq(connections, i + 1, Len(connections)), con)
        BY <3>1, <3>2 DEF Client!MovedToEnd, Client!RemoveAt
      <3>5. connections' \in Seq(ClientConnections) /\ IsMoved(connections', connections, i, con)
        BY <1>1, <3>3, <3>4, MovedFacts, Zenon
      <3>6. \A k \in 1..Len(connections) : k # i => con.addr # connections[k].addr
        BY <1>1, <3>3 DEF Distinct
      <3> QED
        BY <1>1, <3>3, <3>5, <3>6, MovedDistinct
    <2>2. CASE /\ {j \in DOMAIN connections : connections[j].addr = addr} = {}
               /\ Len(connections) = MaxConnections /\ Client!reuse_connection(addr)
      <3> DEFINE h == [Head(connections) EXCEPT !.addr = addr]
      <3>1. Len(connections) > 0 /\ connections # <<>> /\ 1 \in 1..Len(connections)
        BY <1>1, <2>2, GatewayAssumption
      <3>2. Head(connections) = connections[1] /\ connections[1] \in ClientConnections
        BY <1>1, <3>1, ConnectionFields, TailFacts
      <3>3. h \in ClientConnections /\ h.conid = connections[1].conid /\ h.addr = addr /\ h.buf = connections[1].buf
        BY <3>2 DEF ClientConnections
      <3>4. connections' = Append(Tail(connections), Client!connection_send(h, TRUE))
        BY <2>2 DEF Client!reuse_connection, Client!REBIND
      <3> HIDE DEF h
      <3>5. PICK con : con = Client!connection_send(h, TRUE)
        OBVIOUS
      <3>6. /\ con \in ClientConnections /\ con.conid = connections[1].conid
            /\ con.addr = addr
            /\ connections[1].buf # <<>> => con.buf # <<>>
        BY <3>3, <3>5, SendFacts
      <3>7. connections' = Append(SubSeq(connections, 1, 1 - 1) \o SubSeq(connections, 1 + 1, Len(connections)), con)
        <4>1. Tail(connections) = SubSeq(connections, 2, Len(connections)) /\ Tail(connections) \in Seq(ClientConnections)
          BY <1>1, <3>1, TailIsSubSeq, TailFacts
        <4>2. SubSeq(connections, 1, 1 - 1) = <<>> /\ 1 + 1 = 2
          BY SubSeqEmpty
        <4>3. SubSeq(connections, 1, 1 - 1) \o SubSeq(connections, 1 + 1, Len(connections)) = Tail(connections)
          BY <4>1, <4>2, ConcatEmptySeq
        <4> QED
          BY <3>4, <3>5, <4>3
      <3>8. connections' \in Seq(ClientConnections) /\ IsMoved(connections', connections, 1, con)
        BY <1>1, <3>1, <3>6, <3>7, MovedFacts, Zenon
      <3>9. \A k \in 1..Len(connections) : con.addr # connections[k].addr
        <4>1. DOMAIN connections = 1..Len(connections)
          BY <1>1
        <4>2. \A k \in 1..Len(connections) : connections[k].addr # addr
          BY <2>2, <4>1, Zenon
        <4> QED
          BY <3>6, <4>2
      <3> QED
        BY <1>1, <3>1, <3>6, <3>8, <3>9, MovedDistinct
    <2>3. CASE /\ {j \in DOMAIN connections : connections[j].addr = addr} = {}
               /\ Client!connection_init(addr)
      <3>1. PICK c \in Client!find_unused_conid :
              connections' = Append(connections,
                Client!connection_send([conid |-> c, addr |-> addr, buf |-> <<>>], TRUE))
        BY <2>3 DEF Client!connection_init
      <3>2. c \in Conids /\ Client!WithConid(c) = {}
        BY <3>1 DEF Client!find_unused_conid, Conids
      <3> DEFINE new == [conid |-> c, addr |-> addr, buf |-> <<>>]
      <3>3. new \in ClientConnections /\ new.conid = c /\ new.addr = addr
        BY <3>2 DEF ClientConnections
      <3> HIDE DEF new
      <3>4. PICK con : con = Client!connection_send(new, TRUE)
        OBVIOUS
      <3>5. con \in ClientConnections /\ con.conid = c /\ con.addr = addr
        BY <3>3, <3>4, SendFacts
      <3>6. \A k \in 1..Len(connections) : connections[k].conid # con.conid /\ connections[k].addr # con.addr
        BY <1>1, <2>3, <3>2, <3>5 DEF Client!WithConid
      <3>7. connections' = Append(connections, con)
        BY <3>1, <3>4 DEF new
      <3> QED
        BY <1>1, <3>5, <3>6, <3>7, AddedDistinct
    <2> QED
      BY <2>1, <2>2, <2>3 DEF Client!UdpGwClient_SubmitPacket
  <1> QED
    BY <1>1, <1>2, ConnectionsChange

LEMMA ReceiveClientInv ==
  ASSUME ClientInv, NEW p, Client!recv_interface_handler_send(p)
  PROVE  ClientInv'
  <1>1. /\ connections \in Seq(ClientConnections) /\ Distinct(connections) /\ UNCHANGED sending
        /\ DOMAIN connections = 1..Len(connections)
    BY DistinctIsNumbers DEF ClientInv, Client!recv_interface_handler_send
  <1>2. CASE UNCHANGED connections
    BY <1>1, <1>2, ConnectionsChange
  <1>3. CASE \E i \in DOMAIN connections : connections' = Client!MovedToEnd(i, connections[i])
    <2>1. PICK i \in 1..Len(connections) : connections' = Client!MovedToEnd(i, connections[i])
      BY <1>1, <1>3, Zenon
    <2>2. connections[i] \in ClientConnections
      BY <1>1, ConnectionFields
    <2>3. connections' = Append(SubSeq(connections, 1, i - 1) \o SubSeq(connections, i + 1, Len(connections)), connections[i])
      BY <2>1 DEF Client!MovedToEnd, Client!RemoveAt
    <2>4. connections' \in Seq(ClientConnections) /\ IsMoved(connections', connections, i, connections[i])
      BY <1>1, <2>2, <2>3, MovedFacts, Zenon
    <2>5. \A k \in 1..Len(connections) : k # i => connections[i].addr # connections[k].addr
      BY <1>1 DEF Distinct
    <2>6. Distinct(connections') /\ \A c : Holds(connections, c) => Holds(connections', c)
      BY <1>1, <2>2, <2>4, <2>5, MovedDistinct
    <2> QED
      BY <1>1, <2>4, <2>6, ConnectionsChange
  <1> QED
    BY <1>2, <1>3 DEF Client!recv_interface_handler_send

\* The packet that has been sent was one of a connection, or a keepalive.
LEMMA DoneClientInv ==
  ASSUME ClientInv, NEW p, Client!output_handler_done(p)
  PROVE  ClientInv' /\ p \in Packets
  <1>1. /\ connections \in Seq(ClientConnections) /\ Distinct(connections)
        /\ DOMAIN connections = 1..Len(connections) /\ sending' = Client!Idle
    BY DistinctIsNumbers DEF ClientInv, Client!output_handler_done
  <1>2. Client!Idle \notin Conids
    BY GatewayAssumption DEF Client!Idle, Conids, Client!Conids
  <1>3. SendingHasPacket' /\ sending' \in Conids \union {Client!KeepaliveFlow, Client!Idle}
    BY <1>1, <1>2 DEF SendingHasPacket
  <1>4. CASE p = Client!Keepalive /\ UNCHANGED connections
    BY <1>1, <1>3, <1>4 DEF ClientInv, Packets, NumbersDistinct
  <1>5. CASE \E i \in Client!WithConid(sending) :
               /\ p = Head(connections[i].buf)
               /\ connections' = [connections EXCEPT ![i] = Client!Sent(@)]
    <2>1. PICK i \in 1..Len(connections) :
            /\ connections[i].conid = sending /\ p = Head(connections[i].buf)
            /\ connections' = [connections EXCEPT ![i] = Client!Sent(@)]
      BY <1>1, <1>5, Zenon DEF Client!WithConid
    <2>2. /\ connections[i] \in ClientConnections /\ connections[i].conid \in Conids
          /\ connections[i].buf \in Seq(DataPackets)
      BY <1>1, ConnectionFields
    <2>3. connections[i].buf # <<>>
      <3>1. PICK j \in 1..Len(connections) : connections[j].conid = sending /\ connections[j].buf # <<>>
        BY <2>1, <2>2 DEF ClientInv, SendingHasPacket, Holds
      <3>2. i = j
        BY <1>1, <2>1, <3>1 DEF Distinct
      <3> QED
        BY <3>1, <3>2
    <2>4. p \in DataPackets /\ Tail(connections[i].buf) \in Seq(DataPackets)
      BY <2>1, <2>2, <2>3, TailFacts
    <2>5. PICK con : con = Client!Sent(connections[i])
      OBVIOUS
    <2>6. /\ con \in ClientConnections /\ con.conid = connections[i].conid
          /\ con.addr = connections[i].addr
      BY <2>2, <2>4, <2>5 DEF Client!Sent, ClientConnections
    <2>7. connections' = [connections EXCEPT ![i] = con]
      BY <2>1, <2>5
    <2>8. /\ connections' \in Seq(ClientConnections) /\ Len(connections') = Len(connections)
          /\ \A j \in 1..Len(connections) : connections'[j] = IF j = i THEN con ELSE connections[j]
      BY <1>1, <2>6, <2>7, ExceptSeq
    <2>9. Distinct(connections')
      BY <1>1, <2>6, <2>8 DEF Distinct
    <2>10. NumbersDistinct'
      BY <2>8, <2>9, DistinctPrimed
    <2> QED
      BY <1>3, <2>4, <2>8, <2>10 DEF ClientInv, Packets
  <1> QED
    BY <1>4, <1>5 DEF Client!output_handler_done

LEMMA ScheduleClientInv ==
  ASSUME ClientInv, Client!input_handler_send
  PROVE  ClientInv'
  <1>1. /\ connections \in Seq(ClientConnections) /\ UNCHANGED connections
        /\ DOMAIN connections = 1..Len(connections)
    BY DEF ClientInv, Client!input_handler_send
  <1>2. sending' = Client!KeepaliveFlow \/ sending' \in Client!Waiting
    BY DEF Client!input_handler_send
  <1>3. NumbersDistinct'
    BY <1>1 DEF ClientInv, NumbersDistinct
  <1>4. CASE sending' = Client!KeepaliveFlow
    <2>1. Client!KeepaliveFlow \notin Conids
      BY GatewayAssumption DEF Client!KeepaliveFlow, Conids, Client!Conids
    <2> QED
      BY <1>1, <1>3, <1>4, <2>1 DEF ClientInv, SendingHasPacket
  <1>5. CASE sending' \in Client!Waiting
    <2>1. PICK i \in 1..Len(connections) : sending' = connections[i].conid /\ connections[i].buf # <<>>
      BY <1>1, <1>5, Zenon DEF Client!Waiting, Client!NotEmpty
    <2>2. sending' \in Conids
      BY <1>1, <2>1, ConnectionFields
    <2>3. SendingHasPacket'
      BY <1>1, <2>1 DEF SendingHasPacket, Holds
    <2> QED
      BY <1>1, <1>3, <2>2, <2>3 DEF ClientInv
  <1> QED
    BY <1>2, <1>4, <1>5

LEMMA ClientInvKept == ClientInv /\ UNCHANGED <<connections, sending>> => ClientInv'
  BY DEF ClientInv, NumbersDistinct, SendingHasPacket
LEMMA InitClientInv == Init => ClientInv
  <1> SUFFICES ASSUME Init PROVE ClientInv
    OBVIOUS
  <1>1. connections = <<>> /\ sending = Client!Idle
    BY DEF Init, Client!ClientInit
  <1>2. Client!Idle \notin Conids
    BY GatewayAssumption DEF Client!Idle, Conids, Client!Conids
  <1>3. connections \in Seq(ClientConnections) /\ NumbersDistinct
    BY <1>1 DEF NumbersDistinct
  <1> QED
    BY <1>1, <1>2, <1>3 DEF ClientInv, SendingHasPacket

LEMMA NextClientInv == ClientInv /\ [Next]_vars => ClientInv'
  <1> SUFFICES ASSUME ClientInv, [Next]_vars PROVE ClientInv'
    OBVIOUS
  <1>1. CASE Submit
    <2>1. PICK addr \in Conaddrs : Client!UdpGwClient_SubmitPacket(addr)
      BY <1>1 DEF Submit
    <2> QED
      BY <2>1, SubmitClientInv
  <1>2. CASE ClientSchedules
    <2>1. CASE Client!input_handler_send
      BY <2>1, ScheduleClientInv
    <2>2. CASE Client!send_monitor_handler
      BY <2>2, ClientInvKept DEF Client!send_monitor_handler
    <2> QED
      BY <1>2, <2>1, <2>2 DEF ClientSchedules
  <1>3. CASE ClientSends
    <2>1. PICK p : Client!output_handler_done(p)
      BY <1>3, Zenon DEF ClientSends
    <2> QED
      BY <2>1, DoneClientInv
  <1>4. CASE ClientReceives
    BY <1>4, ReceiveClientInv DEF ClientReceives
  <1>5. CASE Connect \/ ConnectFails
    BY <1>5, ClientInvKept DEF Connect, ConnectFails, Client!SocksUp
  <1>6. CASE Reconnect
    BY <1>6, ClientInvKept DEF Reconnect, Client!reconnect_timer_handler
  <1>7. CASE ClientLosesLink
    BY <1>7, ClientInvKept DEF ClientLosesLink, Client!free_socks
  <1>8. ASSUME NEW s \in Clients,
               \/ ServerReceives(s) \/ Answer(s) \/ SocketFails(s)
               \/ ServerSchedules(s) \/ ServerSends(s) \/ ServerLosesLink(s)
        PROVE  ClientInv'
    <2>1. UNCHANGED clientVars
      BY <1>8 DEF ServerReceives, Answer, SocketFails, ServerSchedules, ServerSends, ServerLosesLink
    <2> QED
      BY <2>1, ClientInvKept DEF clientVars
  <1>9. CASE UNCHANGED vars
    BY <1>9, ClientInvKept DEF vars, clientVars
  <1> QED
    BY <1>1, <1>2, <1>3, <1>4, <1>5, <1>6, <1>7, <1>8, <1>9 DEF Next

LEMMA ClientTypes == Spec => []ClientInv
  BY InitClientInv, NextClientInv, PTL DEF Spec

\* However many pairs of addresses there are and however often numbers are used again
\* (find_unused_conid, reuse_connection), a number stands for one connection and a pair
\* of addresses has one.
THEOREM NumbersAlwaysDistinct == Spec => []NumbersDistinct
  <1>1. ClientInv => NumbersDistinct
    BY DEF ClientInv
  <1> QED
    BY <1>1, ClientTypes, PTL

-----------------------------------------------------------------------------
(* The connections of a client of the server. *)

Addrs == {addr[2] : addr \in Conaddrs}
Answers == [conid : Conids, addr : {<<a[1], b>> : a \in Conaddrs, b \in Addrs}]
ServerConnections ==
  [conid : Conids, orig_addr : Addrs, answers : Seq(Answers), busy : BOOLEAN, asked : SUBSET Conaddrs]
ServerClients ==
  [open : BOOLEAN, connections : Seq(ServerConnections), closing : SUBSET ServerConnections,
   sending : Seq(Answers)]

Numbered(cs) == \A i, j \in 1..Len(cs) : cs[i].conid = cs[j].conid => i = j
BusyOf(cs) == {con \in ServerConnections : con.busy /\ \E i \in 1..Len(cs) : cs[i] = con}

\* The packet that is being sent is con's.
Sends(packets, con) == con.busy /\ con.answers # <<>> /\ packets = <<Head(con.answers)>>

\* At most one connection is busy, and it is in one list only.
OneBusy(busy, closing, packets) ==
  \/ busy = {} /\ closing = {} /\ packets = <<>>
  \/ \E con \in ServerConnections :
       /\ Sends(packets, con)
       /\ (busy = {con} /\ closing = {}) \/ (busy = {} /\ closing = {con})

Good(client) ==
  /\ client \in ServerClients /\ Len(client.connections) <= MaxForClient
  /\ Numbered(client.connections)
  /\ OneBusy(BusyOf(client.connections), client.closing, client.sending)

ServerInv == DOMAIN server = Clients /\ \A s \in Clients : Good(server[s])

LEMMA ServerConnectionFields ==
  ASSUME NEW cs \in Seq(ServerConnections), NEW i \in 1..Len(cs)
  PROVE  /\ cs[i] \in ServerConnections /\ cs[i].conid \in Conids /\ cs[i].orig_addr \in Addrs
         /\ cs[i].answers \in Seq(Answers) /\ cs[i].busy \in BOOLEAN /\ cs[i].asked \in SUBSET Conaddrs
  <1>1. cs[i] \in ServerConnections
    OBVIOUS
  <1> QED
    BY <1>1 DEF ServerConnections

\* A list of connections with the i-th taken out.
IsWithout(t, cs, i) ==
  /\ t \in Seq(ServerConnections) /\ Len(t) = Len(cs) - 1 /\ Len(cs) \in Nat
  /\ Numbered(t) /\ BusyOf(t) = BusyOf(cs) \ {cs[i]}
  /\ \A k \in 1..Len(t) : t[k].conid # cs[i].conid /\ \E m \in 1..Len(cs) : t[k] = cs[m]

LEMMA RemoveAtFacts ==
  ASSUME NEW cs \in Seq(ServerConnections), Numbered(cs), NEW i \in 1..Len(cs)
  PROVE  IsWithout(Server!RemoveAt(cs, i), cs, i)
  <1>1. PICK t : t = SubSeq(cs, 1, i - 1) \o SubSeq(cs, i + 1, Len(cs))
    OBVIOUS
  <1>2. /\ t \in Seq(ServerConnections) /\ Len(t) = Len(cs) - 1 /\ Len(cs) \in Nat
        /\ \A k \in 1..(Len(cs) - 1) : t[k] = cs[Was(i, k)]
    BY <1>1, RemovedFacts
  <1>3. /\ \A k \in 1..(Len(cs) - 1) : Was(i, k) \in 1..Len(cs) /\ Was(i, k) # i
        /\ \A k, l \in 1..(Len(cs) - 1) : Was(i, k) = Was(i, l) => k = l
        /\ \A m \in 1..Len(cs) : m # i => \E k \in 1..(Len(cs) - 1) : Was(i, k) = m
    BY <1>2, WasFacts
  <1>4. Numbered(t)
    <2> SUFFICES ASSUME NEW k \in 1..Len(t), NEW l \in 1..Len(t), t[k].conid = t[l].conid
                 PROVE  k = l
      BY DEF Numbered
    <2>1. k \in 1..(Len(cs) - 1) /\ l \in 1..(Len(cs) - 1)
      BY <1>2
    <2>2. /\ t[k] = cs[Was(i, k)] /\ Was(i, k) \in 1..Len(cs)
          /\ t[l] = cs[Was(i, l)] /\ Was(i, l) \in 1..Len(cs)
      BY <1>2, <1>3, <2>1
    <2>3. Was(i, k) = Was(i, l)
      BY <2>2 DEF Numbered
    <2> QED
      BY <1>3, <2>1, <2>3
  <1>5. ASSUME NEW k \in 1..Len(t)
        PROVE  t[k].conid # cs[i].conid /\ \E m \in 1..Len(cs) : t[k] = cs[m]
    <2>1. k \in 1..(Len(cs) - 1)
      BY <1>2
    <2>2. t[k] = cs[Was(i, k)] /\ Was(i, k) \in 1..Len(cs) /\ Was(i, k) # i
      BY <1>2, <1>3, <2>1
    <2> QED
      BY <2>2 DEF Numbered
  <1>6. BusyOf(t) = BusyOf(cs) \ {cs[i]}
    <2>1. ASSUME NEW con \in BusyOf(t) PROVE con \in BusyOf(cs) \ {cs[i]}
      BY <1>5 DEF BusyOf
    <2>2. ASSUME NEW con \in BusyOf(cs), con # cs[i] PROVE con \in BusyOf(t)
      <3>1. PICK m \in 1..Len(cs) : cs[m] = con
        BY DEF BusyOf
      <3>2. PICK k \in 1..(Len(cs) - 1) : Was(i, k) = m
        BY <1>3, <2>2, <3>1
      <3>3. k \in 1..Len(t) /\ t[k] = con
        BY <1>2, <3>1, <3>2
      <3> QED
        BY <3>3 DEF BusyOf
    <2> QED
      BY <2>1, <2>2
  <1>7. IsWithout(t, cs, i)
    BY <1>2, <1>4, <1>5, <1>6 DEF IsWithout
  <1> QED
    BY <1>1, <1>7 DEF Server!RemoveAt

\* A connection with a number that is not in the list is added at its end.
LEMMA AppendConnection ==
  ASSUME NEW cs \in Seq(ServerConnections), Numbered(cs), NEW con \in ServerConnections,
         \A k \in 1..Len(cs) : cs[k].conid # con.conid
  PROVE  /\ Append(cs, con) \in Seq(ServerConnections) /\ Len(Append(cs, con)) = Len(cs) + 1
         /\ Numbered(Append(cs, con))
         /\ BusyOf(Append(cs, con)) = BusyOf(cs) \union Server!Closing(con)
  <1>1. PICK t : t = Append(cs, con)
    OBVIOUS
  <1>2. /\ t \in Seq(ServerConnections) /\ Len(t) = Len(cs) + 1 /\ Len(cs) \in Nat
        /\ \A i \in 1..Len(cs) : t[i] = cs[i]
        /\ t[Len(cs) + 1] = con
    BY <1>1, AppendFacts
  <1>3. \A k \in 1..(Len(cs) + 1) : k = Len(cs) + 1 \/ k \in 1..Len(cs)
    BY <1>2
  <1>4. Numbered(t)
    BY <1>2, <1>3 DEF Numbered
  <1>5. BusyOf(t) = BusyOf(cs) \union Server!Closing(con)
    <2>1. ASSUME NEW d \in BusyOf(t) PROVE d \in BusyOf(cs) \union Server!Closing(con)
      <3>1. PICK k \in 1..(Len(cs) + 1) : t[k] = d
        BY <1>2 DEF BusyOf
      <3> QED
        BY <1>2, <1>3, <3>1 DEF BusyOf, Server!Closing
    <2>2. ASSUME NEW d \in BusyOf(cs) PROVE d \in BusyOf(t)
      BY <1>2 DEF BusyOf
    <2>3. ASSUME NEW d \in Server!Closing(con) PROVE d \in BusyOf(t)
      <3>1. d = con /\ con.busy
        BY <2>3 DEF Server!Closing
      <3>2. Len(cs) + 1 \in 1..Len(t)
        BY <1>2
      <3> QED
        BY <1>2, <3>1, <3>2 DEF BusyOf
    <2> QED
      BY <2>1, <2>2, <2>3
  <1> QED
    BY <1>1, <1>2, <1>4, <1>5

LEMMA ServerClientFields ==
  ASSUME NEW client \in ServerClients
  PROVE  /\ client.open \in BOOLEAN /\ client.connections \in Seq(ServerConnections)
         /\ client.closing \in SUBSET ServerConnections /\ client.sending \in Seq(Answers)
         /\ DOMAIN client.connections = 1..Len(client.connections)
  <1>1. /\ client.open \in BOOLEAN /\ client.connections \in Seq(ServerConnections)
        /\ client.closing \in SUBSET ServerConnections /\ client.sending \in Seq(Answers)
    BY DEF ServerClients
  <1> QED
    BY <1>1

\* What a list needs to take the place of client's.
LEMMA ListChanges ==
  ASSUME NEW client \in ServerClients, NEW cs \in Seq(ServerConnections), Len(cs) <= MaxForClient,
         Numbered(cs), OneBusy(BusyOf(cs), client.closing, client.sending)
  PROVE  Good([client EXCEPT !.connections = cs])
  <1> DEFINE r == [client EXCEPT !.connections = cs]
  <1>1. /\ r \in ServerClients /\ r.connections = cs /\ r.closing = client.closing
        /\ r.sending = client.sending
    BY DEF ServerClients
  <1> HIDE DEF r
  <1>2. Good(r)
    BY <1>1 DEF Good
  <1> QED
    BY <1>2 DEF r

\* A connection is moved to the end of the list; if it is busy, what it sends stays.
LEMMA MovedGood ==
  ASSUME NEW client, Good(client), NEW i \in 1..Len(client.connections), NEW con \in ServerConnections,
         con.conid = client.connections[i].conid, con.busy = client.connections[i].busy,
         con.busy => con.answers # <<>> /\ Head(con.answers) = Head(client.connections[i].answers)
  PROVE  Good(Server!MovedToEnd(client, i, con))
  <1> DEFINE cs == client.connections
             t == Server!RemoveAt(cs, i)
             old == cs[i]
  <1>1. /\ client \in ServerClients /\ cs \in Seq(ServerConnections) /\ Numbered(cs)
        /\ Len(cs) <= MaxForClient /\ OneBusy(BusyOf(cs), client.closing, client.sending)
    BY ServerClientFields DEF Good
  <1>2. old \in ServerConnections /\ old.busy \in BOOLEAN
    BY <1>1, ServerConnectionFields
  <1>3. IsWithout(t, cs, i)
    BY <1>1, RemoveAtFacts
  <1>4. old.busy => old \in BusyOf(cs)
    BY <1>2 DEF BusyOf
  <1>5. ~old.busy => old \notin BusyOf(cs)
    BY DEF BusyOf
  <1>6. con.conid = old.conid /\ con.busy = old.busy
    OBVIOUS
  <1>7. con.busy => con.answers # <<>> /\ Head(con.answers) = Head(old.answers)
    OBVIOUS
  <1>8. Server!MovedToEnd(client, i, con) = [client EXCEPT !.connections = Append(t, con)]
    BY DEF Server!MovedToEnd
  <1> HIDE DEF cs, t, old
  <1>9. \A k \in 1..Len(t) : t[k].conid # con.conid
    BY <1>3, <1>6 DEF IsWithout, old
  <1>10. /\ Append(t, con) \in Seq(ServerConnections) /\ Len(Append(t, con)) = Len(t) + 1
         /\ Numbered(Append(t, con))
         /\ BusyOf(Append(t, con)) = BusyOf(t) \union Server!Closing(con)
    BY <1>3, <1>9, AppendConnection DEF IsWithout
  <1>11. BusyOf(t) = BusyOf(cs) \ {old} /\ Len(t) + 1 = Len(cs)
    BY <1>3 DEF IsWithout, old
  <1>12. OneBusy(BusyOf(Append(t, con)), client.closing, client.sending)
    <2>1. CASE ~old.busy
      <3>1. Server!Closing(con) = {}
        BY <1>6, <2>1 DEF Server!Closing
      <3>2. BusyOf(Append(t, con)) = BusyOf(cs)
        BY <1>5, <1>10, <1>11, <2>1, <3>1
      <3> QED
        BY <1>1, <3>2
    <2>2. CASE old.busy
      <3>1. Server!Closing(con) = {con}
        BY <1>6, <2>2 DEF Server!Closing
      <3>2. Sends(client.sending, old) /\ BusyOf(cs) = {old} /\ client.closing = {}
        BY <1>1, <1>4, <2>2 DEF OneBusy
      <3>3. BusyOf(Append(t, con)) = {con}
        BY <1>10, <1>11, <3>1, <3>2
      <3>4. Sends(client.sending, con)
        BY <1>6, <1>7, <2>2, <3>2 DEF Sends
      <3> QED
        BY <3>2, <3>3, <3>4 DEF OneBusy
    <2> QED
      BY <1>2, <2>1, <2>2
  <1>13. Len(Append(t, con)) <= MaxForClient
    BY <1>1, <1>10, <1>11
  <1> QED
    BY <1>1, <1>8, <1>10, <1>12, <1>13, ListChanges

\* A connection that is closed while it is busy goes to the list of those that wait.
LEMMA CloseGood ==
  ASSUME NEW client, Good(client), NEW i \in 1..Len(client.connections)
  PROVE  /\ Good(Server!connection_close(client, i))
         /\ IsWithout(Server!connection_close(client, i).connections, client.connections, i)
  <1> DEFINE cs == client.connections
             t == Server!RemoveAt(cs, i)
             old == cs[i]
             r == Server!connection_close(client, i)
  <1>1. /\ client \in ServerClients /\ cs \in Seq(ServerConnections) /\ Numbered(cs)
        /\ Len(cs) <= MaxForClient /\ OneBusy(BusyOf(cs), client.closing, client.sending)
        /\ client.closing \in SUBSET ServerConnections
    BY ServerClientFields DEF Good
  <1>2. old \in ServerConnections /\ old.busy \in BOOLEAN
    BY <1>1, ServerConnectionFields
  <1>3. IsWithout(t, cs, i)
    BY <1>1, RemoveAtFacts
  <1>4. t \in Seq(ServerConnections) /\ Server!Closing(old) \in SUBSET ServerConnections
    BY <1>2, <1>3 DEF IsWithout, Server!Closing
  <1>5. r = [client EXCEPT !.connections = t, !.closing = client.closing \union Server!Closing(old)]
    BY <1>1 DEF Server!connection_close, ServerClients
  <1>6. /\ r \in ServerClients /\ r.connections = t /\ r.sending = client.sending
        /\ r.closing = client.closing \union Server!Closing(old)
    BY <1>1, <1>4, <1>5 DEF ServerClients
  <1>7. old.busy => old \in BusyOf(cs)
    BY <1>2 DEF BusyOf
  <1>8. ~old.busy => old \notin BusyOf(cs)
    BY DEF BusyOf
  <1>9. BusyOf(t) = BusyOf(cs) \ {old} /\ Len(t) = Len(cs) - 1 /\ Len(cs) \in Nat /\ Numbered(t)
    BY <1>3 DEF IsWithout
  <1> HIDE DEF cs, t, old, r
  <1>10. OneBusy(BusyOf(t), r.closing, r.sending)
    <2>1. CASE ~old.busy
      <3>1. BusyOf(t) = BusyOf(cs) /\ r.closing = client.closing
        BY <1>6, <1>8, <1>9, <2>1 DEF Server!Closing
      <3> QED
        BY <1>1, <1>6, <3>1
    <2>2. CASE old.busy
      <3>1. Sends(client.sending, old) /\ BusyOf(cs) = {old} /\ client.closing = {}
        BY <1>1, <1>7, <2>2 DEF OneBusy
      <3>2. BusyOf(t) = {} /\ r.closing = {old}
        BY <1>6, <1>9, <2>2, <3>1 DEF Server!Closing
      <3> QED
        BY <1>2, <1>6, <3>1, <3>2 DEF OneBusy
    <2> QED
      BY <1>2, <2>1, <2>2
  <1>11. Len(t) <= MaxForClient
    BY <1>1, <1>9, GatewayAssumption
  <1>12. Good(r)
    BY <1>6, <1>9, <1>10, <1>11 DEF Good
  <1> QED
    BY <1>3, <1>6, <1>12 DEF r, cs

\* The least recently used connection has made room for a new one.
LEMMA InitGood ==
  ASSUME NEW client, Good(client), NEW p \in DataPackets, Server!WithConidOf(client, p) = {}
  PROVE  Good(Server!connection_init(client, p))
  <1> DEFINE con == Server!Connection(p)
  <1>1. /\ con \in ServerConnections /\ con.conid = p.conid /\ con.busy = FALSE
        /\ Server!Closing(con) = {}
    <2>1. p.conid \in Conids /\ p.addr \in Conaddrs /\ p.addr[2] \in Addrs
      BY DEF DataPackets, Addrs
    <2> QED
      BY <2>1 DEF Server!Connection, ServerConnections, Server!Closing
  <1>2. \A k \in 1..Len(client.connections) : client.connections[k].conid # p.conid
    <2>1. DOMAIN client.connections = 1..Len(client.connections)
      BY ServerClientFields DEF Good
    <2> QED
      BY <2>1, Zenon DEF Server!WithConidOf
  <1> HIDE DEF con
  <1>3. ASSUME NEW room, Good(room), Len(room.connections) < MaxForClient,
               \A k \in 1..Len(room.connections) : room.connections[k].conid # p.conid
        PROVE  Good([room EXCEPT !.connections = Append(@, con)])
    <2> DEFINE cs == room.connections
    <2>1. /\ room \in ServerClients /\ cs \in Seq(ServerConnections) /\ Numbered(cs)
          /\ OneBusy(BusyOf(cs), room.closing, room.sending)
      BY <1>3, ServerClientFields DEF Good
    <2>2. /\ Append(cs, con) \in Seq(ServerConnections) /\ Len(Append(cs, con)) = Len(cs) + 1
          /\ Numbered(Append(cs, con))
          /\ BusyOf(Append(cs, con)) = BusyOf(cs) \union Server!Closing(con)
      <3>1. \A k \in 1..Len(cs) : cs[k].conid # con.conid
        BY <1>1, <1>3
      <3> QED
        BY <1>1, <2>1, <3>1, AppendConnection
    <2>3. Len(Append(cs, con)) <= MaxForClient
      BY <1>3, <2>1, <2>2, GatewayAssumption
    <2>4. BusyOf(Append(cs, con)) = BusyOf(cs)
      BY <1>1, <2>2
    <2>5. [room EXCEPT !.connections = Append(@, con)] = [room EXCEPT !.connections = Append(cs, con)]
      OBVIOUS
    <2> HIDE DEF cs
    <2>6. Good([room EXCEPT !.connections = Append(cs, con)])
      BY <2>1, <2>2, <2>3, <2>4, ListChanges
    <2> QED
      BY <2>5, <2>6
  <1>4. CASE Len(client.connections) = MaxForClient
    <2>1. 1 \in 1..Len(client.connections)
      BY <1>4, GatewayAssumption
    <2> DEFINE room == Server!connection_close(client, 1)
    <2>2. Good(room) /\ IsWithout(room.connections, client.connections, 1)
      BY <2>1, CloseGood
    <2>3. Server!connection_init(client, p) = [room EXCEPT !.connections = Append(@, con)]
      BY <1>4 DEF Server!connection_init, con
    <2> HIDE DEF room
    <2>4. Len(room.connections) < MaxForClient
      BY <1>4, <2>2 DEF IsWithout
    <2>5. \A k \in 1..Len(room.connections) : room.connections[k].conid # p.conid
      BY <1>2, <2>2 DEF IsWithout
    <2> QED
      BY <1>3, <2>2, <2>3, <2>4, <2>5
  <1>5. CASE Len(client.connections) # MaxForClient
    <2>1. Server!connection_init(client, p) = [client EXCEPT !.connections = Append(@, con)]
      BY <1>5 DEF Server!connection_init, con
    <2>2. Len(client.connections) < MaxForClient
      BY <1>5, ServerClientFields, GatewayAssumption DEF Good
    <2> QED
      BY <1>2, <1>3, <2>1, <2>2
  <1> QED
    BY <1>4, <1>5

LEMMA SendToUdpGood ==
  ASSUME NEW client, Good(client), NEW p \in DataPackets, NEW i \in 1..Len(client.connections),
         NEW sent \in BOOLEAN
  PROVE  Good(Server!connection_send_to_udp(client, i, p, sent))
  <1> DEFINE old == client.connections[i]
             con == IF sent THEN [old EXCEPT !.asked = old.asked \union {p.addr}] ELSE old
  <1>1. old \in ServerConnections
    BY ServerClientFields, ServerConnectionFields DEF Good
  <1>2. p.addr \in Conaddrs
    BY DEF DataPackets
  <1>3. Server!connection_send_to_udp(client, i, p, sent) = Server!MovedToEnd(client, i, con)
    BY DEF Server!connection_send_to_udp
  <1>4. /\ con \in ServerConnections /\ con.conid = old.conid /\ con.busy = old.busy
        /\ con.answers = old.answers
    BY <1>1, <1>2 DEF ServerConnections
  <1>5. old.busy => old.answers # <<>>
    <2>1. old.busy => old \in BusyOf(client.connections)
      BY <1>1 DEF BusyOf
    <2> QED
      BY <2>1 DEF Good, OneBusy, Sends
  <1>6. con.busy => con.answers # <<>> /\ Head(con.answers) = Head(old.answers)
    BY <1>4, <1>5
  <1> HIDE DEF con
  <1> QED
    BY <1>3, <1>4, <1>6, MovedGood

-----------------------------------------------------------------------------
(* The actions of the server. *)

\* The client s changes and the others do not.
LEMMA ServerChanges ==
  ASSUME ServerInv, NEW s \in Clients, NEW client, Good(client),
         server' = [server EXCEPT ![s] = client]
  PROVE  ServerInv'
  BY Zenon DEF ServerInv

LEMMA ReceiveGood ==
  ASSUME ServerInv, NEW s \in Clients, NEW p \in Packets, Server!client_recv_if_handler_send(s, p)
  PROVE  ServerInv'
  <1>1. CASE p.kind = "keepalive"
    <2>1. UNCHANGED server
      BY <1>1 DEF Server!client_recv_if_handler_send
    <2> QED
      BY <2>1 DEF ServerInv
  <1>2. CASE p.kind # "keepalive"
    <2>1. p \in DataPackets
      BY <1>2 DEF Packets, Client!Keepalive
    <2> DEFINE old == {i \in Server!WithConidOf(server[s], p) : Server!CloseOld(server[s].connections[i], p)}
               client == IF old = {} THEN server[s]
                         ELSE Server!connection_close(server[s], CHOOSE i \in old : TRUE)
    <2>2. \/ /\ Server!WithConidOf(client, p) = {}
             /\ server' = [server EXCEPT ![s] = Server!connection_init(client, p)]
          \/ \E i \in Server!WithConidOf(client, p), sent \in BOOLEAN :
               server' = [server EXCEPT ![s] = Server!connection_send_to_udp(client, i, p, sent)]
      BY <1>2 DEF Server!client_recv_if_handler_send
    <2>3. Good(server[s]) /\ DOMAIN server[s].connections = 1..Len(server[s].connections)
      BY ServerClientFields DEF ServerInv, Good
    <2>4. Good(client)
      <3>1. CASE old = {}
        BY <2>3, <3>1
      <3>2. CASE old # {}
        <4>1. PICK i : i = (CHOOSE j \in old : TRUE)
          OBVIOUS
        <4>2. i \in old
          BY <3>2, <4>1, Zenon
        <4>3. i \in 1..Len(server[s].connections)
          BY <2>3, <4>2, Zenon DEF Server!WithConidOf
        <4>4. client = Server!connection_close(server[s], i)
          BY <3>2, <4>1, Zenon
        <4> HIDE DEF client
        <4> QED
          BY <2>3, <4>3, <4>4, CloseGood
      <3> QED
        BY <3>1, <3>2, Zenon
    <2> HIDE DEF client
    <2>5. CASE /\ Server!WithConidOf(client, p) = {}
               /\ server' = [server EXCEPT ![s] = Server!connection_init(client, p)]
      BY <2>1, <2>4, <2>5, InitGood, ServerChanges
    <2>6. CASE \E i \in Server!WithConidOf(client, p), sent \in BOOLEAN :
                 server' = [server EXCEPT ![s] = Server!connection_send_to_udp(client, i, p, sent)]
      <3>1. DOMAIN client.connections = 1..Len(client.connections)
        BY <2>4, ServerClientFields DEF Good
      <3>2. PICK i \in 1..Len(client.connections), sent \in BOOLEAN :
              server' = [server EXCEPT ![s] = Server!connection_send_to_udp(client, i, p, sent)]
        BY <2>6, <3>1, Zenon DEF Server!WithConidOf
      <3> QED
        BY <2>1, <2>4, <3>2, SendToUdpGood, ServerChanges
    <2> QED
      BY <2>2, <2>5, <2>6
  <1> QED
    BY <1>1, <1>2

LEMMA SocketEventGood ==
  ASSUME ServerInv, NEW s \in Clients, NEW i, Server!connection_dgram_handler_event(s, i)
  PROVE  ServerInv'
  <1>1. Good(server[s]) /\ i \in 1..Len(server[s].connections)
    <2>1. DOMAIN server[s].connections = 1..Len(server[s].connections)
      BY ServerClientFields DEF ServerInv, Good
    <2> QED
      BY <2>1 DEF ServerInv, Server!connection_dgram_handler_event
  <1>2. Good(Server!connection_close(server[s], i))
    BY <1>1, CloseGood
  <1>3. server' = [server EXCEPT ![s] = Server!connection_close(server[s], i)]
    BY DEF ServerInv, Server!connection_dgram_handler_event
  <1> QED
    BY <1>2, <1>3, ServerChanges

LEMMA ListenerGood ==
  ASSUME ServerInv, NEW s \in Clients, Server!listener_handler(s) \/ Server!client_free(s)
  PROVE  ServerInv'
  <1> DEFINE Empty(client) == client.connections = <<>> /\ client.closing = {} /\ client.sending = <<>>
  <1>1. ASSUME NEW client \in ServerClients, Empty(client) PROVE Good(client)
    <2>1. BusyOf(client.connections) = {}
      BY <1>1 DEF BusyOf
    <2> QED
      BY <1>1, <2>1, GatewayAssumption DEF Good, OneBusy, Numbered
  <1>2. /\ Server!NewClient \in ServerClients /\ Empty(Server!NewClient)
        /\ Server!NoClient \in ServerClients /\ Empty(Server!NoClient)
    <2>1. Server!NewClient \in ServerClients /\ Empty(Server!NewClient)
      BY DEF Server!NewClient, ServerClients
    <2>2. ASSUME NEW client \in ServerClients, Empty(client)
          PROVE  [client EXCEPT !.open = FALSE] \in ServerClients /\ Empty([client EXCEPT !.open = FALSE])
      BY <2>2 DEF ServerClients
    <2>3. Server!NoClient \in ServerClients /\ Empty(Server!NoClient)
      BY <2>1, <2>2 DEF Server!NoClient
    <2> QED
      BY <2>1, <2>3
  <1>3. \/ server' = [server EXCEPT ![s] = Server!NewClient]
        \/ server' = [server EXCEPT ![s] = Server!NoClient]
    BY DEF Server!listener_handler, Server!client_free, Server!Freed
  <1> QED
    BY <1>1, <1>2, <1>3, ServerChanges

\* An answer goes to the end of the buffer, so that the packet being sent stays first.
LEMMA AnswerGood ==
  ASSUME ServerInv, NEW s \in Clients, NEW i, Server!connection_udp_recv_if_handler_send(s, i)
  PROVE  ServerInv'
  <1> DEFINE client == server[s]
             con == client.connections[i]
  <1>1. Good(client) /\ i \in 1..Len(client.connections)
    <2>1. DOMAIN server[s].connections = 1..Len(server[s].connections)
      BY ServerClientFields DEF ServerInv, Good
    <2> QED
      BY <2>1 DEF ServerInv, Server!connection_udp_recv_if_handler_send
  <1>2. PICK asked \in con.asked :
          server' = [server EXCEPT ![s] = Server!MovedToEnd(server[s], i,
            IF Len(con.answers) < ClientBufferSize
              THEN [con EXCEPT !.answers = Append(con.answers, [conid |-> con.conid, addr |-> <<asked[1], con.orig_addr>>])]
              ELSE con)]
    BY DEF Server!connection_udp_recv_if_handler_send, ServerInv
  <1> DEFINE answer == [conid |-> con.conid, addr |-> <<asked[1], con.orig_addr>>]
             new == IF Len(con.answers) < ClientBufferSize
                      THEN [con EXCEPT !.answers = Append(con.answers, answer)] ELSE con
  <1>3. /\ con \in ServerConnections /\ con.conid \in Conids /\ con.orig_addr \in Addrs
        /\ con.answers \in Seq(Answers) /\ con.asked \in SUBSET Conaddrs
    BY <1>1, ServerClientFields, ServerConnectionFields DEF Good
  <1>4. answer \in Answers
    BY <1>3 DEF Answers
  <1>5. con.busy => con.answers # <<>>
    <2>1. con.busy => con \in BusyOf(client.connections)
      BY <1>1, <1>3 DEF BusyOf
    <2> QED
      BY <1>1, <2>1 DEF Good, OneBusy, Sends
  <1>6. server' = [server EXCEPT ![s] = Server!MovedToEnd(client, i, new)]
    BY <1>2
  <1> HIDE DEF answer
  <1>7. /\ Append(con.answers, answer) \in Seq(Answers) /\ Append(con.answers, answer) # <<>>
        /\ con.answers # <<>> => Head(Append(con.answers, answer)) = Head(con.answers)
    <2> HIDE DEF con
    <2>0. /\ Append(con.answers, answer) \in Seq(Answers)
          /\ Len(Append(con.answers, answer)) = Len(con.answers) + 1 /\ Len(con.answers) \in Nat
          /\ \A k \in 1..Len(con.answers) : Append(con.answers, answer)[k] = con.answers[k]
      BY <1>3, <1>4, AppendFacts
    <2>1. /\ Append(con.answers, answer) \in Seq(Answers) /\ Append(con.answers, answer) # <<>>
          /\ \A k \in 1..Len(con.answers) : Append(con.answers, answer)[k] = con.answers[k]
      BY <2>0
    <2>2. ASSUME con.answers # <<>> PROVE Head(Append(con.answers, answer)) = Head(con.answers)
      <3>1. Head(con.answers) = con.answers[1] /\ 1 \in 1..Len(con.answers)
        BY <1>3, <2>2, TailFacts
      <3>2. Head(Append(con.answers, answer)) = Append(con.answers, answer)[1]
        BY <2>1, TailFacts
      <3> QED
        BY <2>1, <3>1, <3>2
    <2> QED
      BY <2>1, <2>2
  <1>8. /\ new \in ServerConnections /\ new.conid = con.conid /\ new.busy = con.busy
        /\ new.answers = IF Len(con.answers) < ClientBufferSize THEN Append(con.answers, answer)
                         ELSE con.answers
    BY <1>3, <1>7 DEF ServerConnections
  <1> HIDE DEF new
  <1>9. new.busy => new.answers # <<>> /\ Head(new.answers) = Head(con.answers)
    BY <1>5, <1>7, <1>8
  <1>10. Good(Server!MovedToEnd(client, i, new))
    BY <1>1, <1>8, <1>9, MovedGood
  <1> HIDE DEF client
  <1> QED
    BY <1>6, <1>10, ServerChanges

\* A connection becomes busy when none is.
LEMMA ScheduleGood ==
  ASSUME ServerInv, NEW s \in Clients, NEW i, Server!schedule(s, i)
  PROVE  ServerInv'
  <1> DEFINE client == server[s]
             cs == client.connections
             con == [cs[i] EXCEPT !.busy = TRUE]
             t == [cs EXCEPT ![i] = con]
             now == <<Head(cs[i].answers)>>
             r == [client EXCEPT !.connections = t, !.sending = now]
  <1>1. Good(client) /\ i \in 1..Len(cs) /\ DOMAIN cs = 1..Len(cs)
    <2>1. DOMAIN server[s].connections = 1..Len(server[s].connections)
      BY ServerClientFields DEF ServerInv, Good
    <2> QED
      BY <2>1 DEF ServerInv, Server!schedule
  <1>2. /\ client \in ServerClients /\ cs \in Seq(ServerConnections) /\ Numbered(cs)
        /\ Len(cs) <= MaxForClient
    BY <1>1, ServerClientFields DEF Good
  <1>3. cs[i] \in ServerConnections /\ cs[i].answers \in Seq(Answers) /\ cs[i].answers # <<>>
    BY <1>1, <1>2, ServerConnectionFields DEF Server!schedule
  <1>4. BusyOf(cs) = {} /\ client.closing = {}
    <2>1. client.sending = <<>>
      BY DEF Server!schedule
    <2> QED
      BY <1>1, <2>1 DEF Good, OneBusy, Sends
  <1>5. /\ con \in ServerConnections /\ con.conid = cs[i].conid /\ con.busy = TRUE
        /\ con.answers = cs[i].answers
    BY <1>3 DEF ServerConnections
  <1>6. server' = [server EXCEPT ![s] = r]
    <2>1. server' = [server EXCEPT ![s] = [server[s] EXCEPT
            !.connections[i].busy = TRUE, !.sending = <<Head(cs[i].answers)>>]]
      BY DEF Server!schedule, ServerInv
    <2>2. [server[s] EXCEPT !.connections[i].busy = TRUE, !.sending = <<Head(cs[i].answers)>>] = r
      BY <1>2 DEF ServerClients
    <2> QED
      BY <2>1, <2>2
  <1> HIDE DEF con
  <1>7. /\ t \in Seq(ServerConnections) /\ Len(t) = Len(cs)
        /\ \A j \in 1..Len(cs) : t[j] = IF j = i THEN con ELSE cs[j]
    BY <1>1, <1>2, <1>5, ExceptSeq
  <1>8. Numbered(t)
    BY <1>2, <1>5, <1>7 DEF Numbered
  <1>9. BusyOf(t) = {con}
    <2>1. \A j \in 1..Len(cs) : ~cs[j].busy
      <3>1. \A j \in 1..Len(cs) : cs[j] \in ServerConnections
        BY <1>2, ServerConnectionFields
      <3> QED
        BY <1>4, <3>1 DEF BusyOf
    <2>2. ASSUME NEW d \in BusyOf(t) PROVE d = con
      BY <1>7, <2>1 DEF BusyOf
    <2>3. con \in BusyOf(t)
      BY <1>1, <1>5, <1>7 DEF BusyOf
    <2> QED
      BY <2>2, <2>3
  <1> HIDE DEF t
  <1>10. now \in Seq(Answers) /\ now = <<Head(con.answers)>>
    BY <1>3, <1>5
  <1> HIDE DEF now
  <1>11. /\ r \in ServerClients /\ r.connections = t /\ r.closing = client.closing
         /\ r.sending = <<Head(con.answers)>>
    BY <1>2, <1>5, <1>7, <1>10 DEF ServerClients
  <1> HIDE DEF r
  <1>12. Good(r)
    <2>1. Sends(r.sending, con)
      BY <1>3, <1>5, <1>11 DEF Sends
    <2>2. OneBusy(BusyOf(r.connections), r.closing, r.sending)
      BY <1>4, <1>5, <1>9, <1>11, <2>1 DEF OneBusy
    <2> QED
      BY <1>2, <1>7, <1>8, <1>11, <2>2 DEF Good
  <1> QED
    BY <1>6, <1>12, ServerChanges

\* The packet has been sent: nothing is busy, and what was closing is freed.
LEMMA SentGood ==
  ASSUME ServerInv, NEW s \in Clients, NEW p, Server!output_handler_done(s, p)
  PROVE  ServerInv'
  <1> DEFINE client == server[s]
             cs == client.connections
             After(con) == IF con.busy THEN Server!Sent(con) ELSE con
             t == [i \in DOMAIN cs |-> IF cs[i].busy THEN Server!Sent(cs[i]) ELSE cs[i]]
             left == {con \in client.closing : ~con.busy}
             r == [client EXCEPT !.connections = t, !.closing = left, !.sending = <<>>]
  <1>1. Good(client) /\ DOMAIN cs = 1..Len(cs)
    <2>1. DOMAIN server[s].connections = 1..Len(server[s].connections)
      BY ServerClientFields DEF ServerInv, Good
    <2> QED
      BY <2>1 DEF ServerInv
  <1>2. /\ client \in ServerClients /\ cs \in Seq(ServerConnections) /\ Numbered(cs)
        /\ Len(cs) <= MaxForClient /\ Len(cs) \in Nat
    BY <1>1, ServerClientFields DEF Good
  <1>3. server' = [server EXCEPT ![s] = r]
    BY DEF Server!output_handler_done
  <1>4. ASSUME NEW i \in 1..Len(cs)
        PROVE  /\ After(cs[i]) \in ServerConnections /\ After(cs[i]).conid = cs[i].conid
               /\ ~After(cs[i]).busy
    <2>1. cs[i] \in ServerConnections /\ cs[i].answers \in Seq(Answers) /\ cs[i].busy \in BOOLEAN
      BY <1>2, ServerConnectionFields
    <2>2. CASE ~cs[i].busy
      BY <2>1, <2>2
    <2>3. CASE cs[i].busy
      <3>1. cs[i] \in BusyOf(cs)
        BY <2>1, <2>3 DEF BusyOf
      <3>2. cs[i].answers # <<>>
        BY <1>1, <3>1 DEF Good, OneBusy, Sends
      <3>3. Tail(cs[i].answers) \in Seq(Answers)
        BY <2>1, <3>2, TailFacts
      <3> QED
        BY <2>1, <2>3, <3>3 DEF Server!Sent, ServerConnections
    <2> QED
      BY <2>1, <2>2, <2>3
  <1>5. \A i \in 1..Len(cs) : t[i] = After(cs[i])
    BY <1>1
  <1>6. DOMAIN t = 1..Len(cs)
    BY <1>1
  <1> HIDE DEF After, t
  <1>7. t \in Seq(ServerConnections) /\ Len(t) = Len(cs)
    <2>1. t \in [1..Len(cs) -> ServerConnections]
      <3>1. t = [i \in DOMAIN t |-> t[i]]
        BY DEF t
      <3> QED
        BY <1>4, <1>5, <1>6, <3>1
    <2> QED
      BY <1>2, <2>1, SeqDef
  <1>8. Numbered(t)
    BY <1>2, <1>4, <1>5, <1>7 DEF Numbered
  <1>9. BusyOf(t) = {}
    BY <1>4, <1>5, <1>7 DEF BusyOf
  <1>10. left = {} /\ left \in SUBSET ServerConnections
    BY <1>1 DEF Good, OneBusy, Sends
  <1> HIDE DEF left
  <1>11. /\ r \in ServerClients /\ r.connections = t /\ r.closing = left /\ r.sending = <<>>
    <2>1. PICK none : none = <<>> /\ none \in Seq(Answers)
      <3>1. <<>> \in Seq(Answers)
        OBVIOUS
      <3> QED
        BY <3>1, Zenon
    <2>2. r = [client EXCEPT !.connections = t, !.closing = left, !.sending = none]
      BY <2>1
    <2> HIDE DEF r
    <2>3. /\ r \in ServerClients /\ r.connections = t /\ r.closing = left /\ r.sending = none
      BY <1>2, <1>7, <1>10, <2>1, <2>2 DEF ServerClients
    <2> QED
      BY <2>1, <2>3
  <1> HIDE DEF r
  <1>12. Good(r)
    BY <1>2, <1>7, <1>8, <1>9, <1>10, <1>11 DEF Good, OneBusy
  <1> QED
    BY <1>3, <1>12, ServerChanges

-----------------------------------------------------------------------------
(* Client, links and server. *)

GatewayInv == ClientInv /\ LinkInv /\ ServerInv

LEMMA InitGatewayInv == Init => GatewayInv
  <1> SUFFICES ASSUME Init PROVE GatewayInv
    OBVIOUS
  <1>1. LinkInv
    BY DEF Init, LinkInv
  <1>2. ASSUME NEW s \in Clients PROVE Good(server[s])
    <2>1. /\ server[s].open = FALSE /\ server[s].connections = <<>>
          /\ server[s].closing = {} /\ server[s].sending = <<>>
          /\ server[s] \in ServerClients
      <3>1. Server!NewClient \in ServerClients
        BY DEF Server!NewClient, ServerClients
      <3>2. ASSUME NEW client \in ServerClients
            PROVE  /\ [client EXCEPT !.open = FALSE] \in ServerClients
                   /\ [client EXCEPT !.open = FALSE].open = FALSE
                   /\ [client EXCEPT !.open = FALSE].connections = client.connections
                   /\ [client EXCEPT !.open = FALSE].closing = client.closing
                   /\ [client EXCEPT !.open = FALSE].sending = client.sending
        BY DEF ServerClients
      <3>3. /\ Server!NewClient.connections = <<>> /\ Server!NewClient.closing = {}
            /\ Server!NewClient.sending = <<>>
        BY DEF Server!NewClient
      <3>4. server[s] = [Server!NewClient EXCEPT !.open = FALSE]
        BY DEF Init, Server!ServerInit, Server!NoClient
      <3> QED
        BY <3>1, <3>2, <3>3, <3>4
    <2>2. BusyOf(server[s].connections) = {}
      BY <2>1 DEF BusyOf
    <2> QED
      BY <2>1, <2>2, GatewayAssumption DEF Good, OneBusy, Numbered
  <1>3. ServerInv
    BY <1>2 DEF ServerInv, Init, Server!ServerInit
  <1> QED
    BY <1>1, <1>3, InitClientInv DEF GatewayInv

LEMMA NextLinkInv == GatewayInv /\ [Next]_vars => LinkInv'
  <1> SUFFICES ASSUME GatewayInv, [Next]_vars PROVE LinkInv'
    OBVIOUS
  <1>1. link \in Clients \union {NoLink} /\ up \in [Clients -> Seq(Packets)] /\ ClientInv
    BY DEF GatewayInv, LinkInv
  <1>2. CASE UNCHANGED <<link, up>>
    BY <1>1, <1>2 DEF LinkInv
  <1>3. CASE ClientSends
    <2>1. PICK p : Client!output_handler_done(p) /\ up' = [up EXCEPT ![link] = Append(up[link], p)]
      BY <1>3, Zenon DEF ClientSends
    <2>2. p \in Packets
      BY <1>1, <2>1, DoneClientInv
    <2>3. link \in Clients /\ UNCHANGED link
      BY <1>1, <1>3 DEF ClientSends
    <2>4. Append(up[link], p) \in Seq(Packets)
      BY <1>1, <2>2, <2>3
    <2> QED
      BY <1>1, <2>1, <2>3, <2>4 DEF LinkInv
  <1>4. CASE Connect
    BY <1>1, <1>4 DEF Connect, LinkInv
  <1>5. CASE ClientLosesLink
    BY <1>1, <1>5 DEF ClientLosesLink, LinkInv
  <1>6. ASSUME NEW s \in Clients, ServerReceives(s) PROVE LinkInv'
    <2>1. Tail(up[s]) \in Seq(Packets)
      BY <1>1, <1>6, TailFacts DEF ServerReceives
    <2> QED
      BY <1>1, <1>6, <2>1 DEF ServerReceives, LinkInv
  <1>7. ASSUME NEW s \in Clients,
               \/ Answer(s) \/ SocketFails(s) \/ ServerSchedules(s) \/ ServerSends(s)
               \/ ServerLosesLink(s)
        PROVE  UNCHANGED <<link, up>>
    BY <1>7 DEF Answer, SocketFails, ServerSchedules, ServerSends, ServerLosesLink, linkVars
  <1>8. CASE Submit \/ ClientSchedules \/ ClientReceives \/ ConnectFails \/ Reconnect \/ UNCHANGED vars
    BY <1>2, <1>8 DEF Submit, ClientSchedules, ClientReceives, ConnectFails, Reconnect, vars, linkVars
  <1> QED
    BY <1>2, <1>3, <1>4, <1>5, <1>6, <1>7, <1>8 DEF Next

LEMMA NextServerInv == GatewayInv /\ [Next]_vars => ServerInv'
  <1> SUFFICES ASSUME GatewayInv, [Next]_vars PROVE ServerInv'
    OBVIOUS
  <1>1. ServerInv /\ up \in [Clients -> Seq(Packets)]
    BY DEF GatewayInv, LinkInv
  <1>2. CASE UNCHANGED server
    BY <1>1, <1>2 DEF ServerInv
  <1>3. CASE Connect
    BY <1>1, <1>3, ListenerGood DEF Connect
  <1>4. ASSUME NEW s \in Clients, ServerReceives(s) PROVE ServerInv'
    <2>1. Head(up[s]) \in Packets
      BY <1>1, <1>4, TailFacts DEF ServerReceives
    <2> QED
      BY <1>1, <1>4, <2>1, ReceiveGood DEF ServerReceives
  <1>5. ASSUME NEW s \in Clients, Answer(s) PROVE ServerInv'
    <2>1. PICK i \in 1..MaxForClient : Server!connection_udp_recv_if_handler_send(s, i)
      BY <1>5 DEF Answer
    <2> QED
      BY <1>1, <2>1, AnswerGood
  <1>6. ASSUME NEW s \in Clients, SocketFails(s) PROVE ServerInv'
    <2>1. PICK i \in 1..MaxForClient : Server!connection_dgram_handler_event(s, i)
      BY <1>6 DEF SocketFails
    <2> QED
      BY <1>1, <2>1, SocketEventGood
  <1>7. ASSUME NEW s \in Clients, ServerSchedules(s) PROVE ServerInv'
    <2>1. PICK i \in 1..MaxForClient : Server!schedule(s, i)
      BY <1>7 DEF ServerSchedules
    <2> QED
      BY <1>1, <2>1, ScheduleGood
  <1>8. ASSUME NEW s \in Clients, ServerSends(s) PROVE ServerInv'
    <2>1. PICK p : Server!output_handler_done(s, p)
      BY <1>8, Zenon DEF ServerSends
    <2> QED
      BY <1>1, <2>1, SentGood
  <1>9. ASSUME NEW s \in Clients, ServerLosesLink(s) PROVE ServerInv'
    BY <1>1, <1>9, ListenerGood DEF ServerLosesLink
  <1>10. CASE \/ Submit \/ ClientSchedules \/ ClientSends \/ ClientReceives \/ ConnectFails
              \/ Reconnect \/ ClientLosesLink \/ UNCHANGED vars
    BY <1>2, <1>10 DEF Submit, ClientSchedules, ClientSends, ClientReceives, ConnectFails,
                       Reconnect, ClientLosesLink, vars
  <1> QED
    BY <1>3, <1>4, <1>5, <1>6, <1>7, <1>8, <1>9, <1>10 DEF Next

LEMMA GatewayInvariant == Spec => []GatewayInv
  <1>1. GatewayInv /\ [Next]_vars => GatewayInv'
    BY NextClientInv, NextLinkInv, NextServerInv DEF GatewayInv
  <1> QED
    BY InitGatewayInv, <1>1, PTL DEF Spec

\* However connections are opened, moved, closed while their packet is on its way to the
\* client and replaced by others with the same number, the packet belongs to exactly one
\* connection that has not been freed (connection_close, connection_send_qflow_busy_handler).
THEOREM PacketsOutliveConnections == Spec => []PacketOutlivesConnection
  <1>1. ASSUME NEW s \in Clients, Good(server[s])
        PROVE  LET client == server[s]
                   busy == {con \in client.closing \union Server!ToSet(client.connections) : con.busy}
               IN /\ \A con \in client.closing : con.busy
                  /\ IF client.sending = <<>> THEN busy = {} ELSE \E con \in busy : busy = {con}
                  /\ \A con \in busy : con.answers # <<>> /\ client.sending = <<Head(con.answers)>>
                  /\ Len(client.connections) <= MaxForClient
                  /\ \A i, j \in DOMAIN client.connections :
                       client.connections[i].conid = client.connections[j].conid => i = j
    <2> DEFINE client == server[s]
               busy == {con \in client.closing \union Server!ToSet(client.connections) : con.busy}
    <2>1. /\ client.connections \in Seq(ServerConnections)
          /\ client.closing \in SUBSET ServerConnections
          /\ DOMAIN client.connections = 1..Len(client.connections)
          /\ Len(client.connections) <= MaxForClient /\ Numbered(client.connections)
          /\ OneBusy(BusyOf(client.connections), client.closing, client.sending)
      BY <1>1, ServerClientFields DEF Good
    <2> HIDE DEF client
    <2>2. \A i \in 1..Len(client.connections) : client.connections[i] \in ServerConnections
      BY <2>1, ServerConnectionFields
    <2>3. \A con \in client.closing : con.busy
      BY <2>1 DEF OneBusy, Sends
    <2>4. busy = client.closing \union BusyOf(client.connections)
      <3>1. Server!ToSet(client.connections) = {client.connections[i] : i \in 1..Len(client.connections)}
        BY <2>1 DEF Server!ToSet
      <3> QED
        BY <2>2, <2>3, <3>1 DEF BusyOf
    <2> HIDE DEF busy
    <2>5. /\ IF client.sending = <<>> THEN busy = {} ELSE \E con \in busy : busy = {con}
          /\ \A con \in busy : con.answers # <<>> /\ client.sending = <<Head(con.answers)>>
      <3>1. CASE busy = {} /\ client.sending = <<>>
        BY <3>1
      <3>2. CASE \E con \in ServerConnections : busy = {con} /\ Sends(client.sending, con)
        BY <3>2 DEF Sends
      <3> QED
        BY <2>1, <2>4, <3>1, <3>2 DEF OneBusy
    <2>6. \A i, j \in DOMAIN client.connections :
            client.connections[i].conid = client.connections[j].conid => i = j
      BY <2>1 DEF Numbered
    <2> QED
      BY <2>1, <2>3, <2>5, <2>6 DEF client, busy
  <1>2. GatewayInv => PacketOutlivesConnection
    <2> SUFFICES ASSUME GatewayInv PROVE PacketOutlivesConnection
      OBVIOUS
    <2>1. \A s \in Clients : Good(server[s])
      BY DEF GatewayInv, ServerInv
    <2>2. Server!PacketOutlivesConnection
      BY <1>1, <2>1, Zenon DEF Server!PacketOutlivesConnection
    <2> QED
      BY <2>2 DEF PacketOutlivesConnection
  <1> QED
    BY <1>2, GatewayInvariant, PTL

-----------------------------------------------------------------------------
(* What the packets of one number in a queue say of the pair that has it.  *)

OfAt(q, c) == {i \in 1..Len(q) : q[i].kind = "data" /\ q[i].conid = c}
Rebinding(q, c) == {k \in OfAt(q, c) : q[k].rebind}
Rebinds(q, c) == Rebinding(q, c) # {}

\* The pairs named before the number changes hands, and since it last has.
Before(q, c) == {q[i].addr : i \in {j \in OfAt(q, c) : \A k \in Rebinding(q, c) : k > j}}
After(q, c) == {q[i].addr : i \in {j \in OfAt(q, c) : \A k \in Rebinding(q, c) : k <= j}}

\* The pair changes with a REBIND only.
Steady(q, c) ==
  \A i, j \in OfAt(q, c) :
    i < j /\ (\A k \in Rebinding(q, c) : k <= i \/ k > j) => q[i].addr = q[j].addr

LEMMA EmptyFacts ==
  ASSUME NEW c
  PROVE  /\ Steady(<<>>, c) /\ ~Rebinds(<<>>, c) /\ Before(<<>>, c) = {} /\ After(<<>>, c) = {}
  <1>1. OfAt(<<>>, c) = {}
    BY DEF OfAt
  <1>2. Rebinding(<<>>, c) = {}
    BY <1>1 DEF Rebinding
  <1> QED
    BY <1>1, <1>2 DEF Steady, Rebinds, Before, After

\* A packet of another number says nothing.
LEMMA AppendOther ==
  ASSUME NEW q \in Seq(Packets), NEW p \in Packets, NEW c, ~(p.kind = "data" /\ p.conid = c)
  PROVE  /\ Steady(q, c) => Steady(Append(q, p), c)
         /\ Rebinds(Append(q, p), c) = Rebinds(q, c)
         /\ Before(Append(q, p), c) = Before(q, c) /\ After(Append(q, p), c) = After(q, c)
  <1>1. PICK t : t = Append(q, p)
    OBVIOUS
  <1>2. /\ Len(t) = Len(q) + 1 /\ Len(q) \in Nat /\ t[Len(q) + 1] = p
        /\ \A i \in 1..Len(q) : t[i] = q[i]
    BY <1>1, AppendFacts
  <1>3. OfAt(t, c) = OfAt(q, c) /\ \A i \in OfAt(q, c) : i \in Nat /\ t[i] = q[i]
    BY <1>2 DEF OfAt
  <1>4. Rebinding(t, c) = Rebinding(q, c)
    BY <1>3 DEF Rebinding
  <1>5. Steady(q, c) => Steady(t, c)
    BY <1>3, <1>4 DEF Steady
  <1>6. Before(t, c) = Before(q, c)
    BY <1>3, <1>4 DEF Before
  <1>7. After(t, c) = After(q, c)
    BY <1>3, <1>4 DEF After
  <1>8. Rebinds(t, c) = Rebinds(q, c)
    BY <1>4 DEF Rebinds
  <1> QED
    BY <1>1, <1>5, <1>6, <1>7, <1>8

LEMMA AppendOwn ==
  ASSUME NEW q \in Seq(Packets), NEW p \in DataPackets
  PROVE  /\ OfAt(Append(q, p), p.conid) = OfAt(q, p.conid) \union {Len(q) + 1}
         /\ p.rebind => Rebinding(Append(q, p), p.conid) = Rebinding(q, p.conid) \union {Len(q) + 1}
         /\ ~p.rebind => Rebinding(Append(q, p), p.conid) = Rebinding(q, p.conid)
         /\ OfAt(q, p.conid) \subseteq 1..Len(q) /\ Rebinding(q, p.conid) \subseteq 1..Len(q)
         /\ Len(q) \in Nat /\ Append(q, p)[Len(q) + 1] = p
         /\ \A i \in 1..Len(q) : Append(q, p)[i] = q[i]
  <1>1. PICK t : t = Append(q, p)
    OBVIOUS
  <1>2. /\ Len(t) = Len(q) + 1 /\ Len(q) \in Nat /\ t[Len(q) + 1] = p
        /\ \A i \in 1..Len(q) : t[i] = q[i]
    BY <1>1, AppendFacts DEF Packets
  <1>3. p.kind = "data"
    BY DEF DataPackets
  <1>4. \A i \in 1..(Len(q) + 1) : i = Len(q) + 1 \/ i \in 1..Len(q)
    BY <1>2
  <1>5. Len(q) + 1 \in 1..Len(t) /\ \A i \in 1..Len(q) : i \in 1..Len(t)
    BY <1>2
  <1>6. OfAt(t, p.conid) = OfAt(q, p.conid) \union {Len(q) + 1}
    BY <1>2, <1>3, <1>4, <1>5 DEF OfAt
  <1>7. /\ p.rebind => Rebinding(t, p.conid) = Rebinding(q, p.conid) \union {Len(q) + 1}
        /\ ~p.rebind => Rebinding(t, p.conid) = Rebinding(q, p.conid)
    <2>1. \A i \in OfAt(q, p.conid) : i \in 1..Len(q)
      BY DEF OfAt
    <2> QED
      BY <1>2, <1>6, <2>1 DEF Rebinding
  <1> QED
    BY <1>1, <1>2, <1>6, <1>7 DEF OfAt, Rebinding

\* A packet with REBIND gives the number to its pair.
LEMMA AppendRebind ==
  ASSUME NEW q \in Seq(Packets), NEW p \in DataPackets, p.rebind
  PROVE  /\ Steady(q, p.conid) => Steady(Append(q, p), p.conid)
         /\ Rebinds(Append(q, p), p.conid)
         /\ Before(Append(q, p), p.conid) = Before(q, p.conid)
         /\ After(Append(q, p), p.conid) = {p.addr}
  <1> DEFINE c == p.conid
  <1>1. PICK t : t = Append(q, p)
    OBVIOUS
  <1>2. /\ OfAt(t, c) = OfAt(q, c) \union {Len(q) + 1}
        /\ Rebinding(t, c) = Rebinding(q, c) \union {Len(q) + 1}
        /\ OfAt(q, c) \subseteq 1..Len(q) /\ Rebinding(q, c) \subseteq 1..Len(q)
        /\ Len(q) \in Nat /\ t[Len(q) + 1] = p /\ \A i \in 1..Len(q) : t[i] = q[i]
    BY <1>1, AppendOwn
  <1> HIDE DEF c
  <1>3. Steady(q, c) => Steady(t, c)
    BY <1>2 DEF Steady
  <1>4. Rebinds(t, c)
    BY <1>2 DEF Rebinds
  <1>5. Before(t, c) = Before(q, c)
    BY <1>2 DEF Before
  <1>6. After(t, c) = {p.addr}
    BY <1>2 DEF After
  <1> QED
    BY <1>1, <1>3, <1>4, <1>5, <1>6 DEF c

LEMMA AppendPlain ==
  ASSUME NEW q \in Seq(Packets), NEW p \in DataPackets, ~p.rebind
  PROVE  /\ Steady(q, p.conid) /\ (\A a \in After(q, p.conid) : a = p.addr) => Steady(Append(q, p), p.conid)
         /\ Rebinds(Append(q, p), p.conid) = Rebinds(q, p.conid)
         /\ \A b \in Before(Append(q, p), p.conid) :
              b \in Before(q, p.conid) \/ (b = p.addr /\ ~Rebinds(q, p.conid))
         /\ After(Append(q, p), p.conid) = After(q, p.conid) \union {p.addr}
  <1> DEFINE c == p.conid
  <1>1. PICK t : t = Append(q, p)
    OBVIOUS
  <1>2. /\ OfAt(t, c) = OfAt(q, c) \union {Len(q) + 1}
        /\ Rebinding(t, c) = Rebinding(q, c)
        /\ OfAt(q, c) \subseteq 1..Len(q) /\ Rebinding(q, c) \subseteq 1..Len(q)
        /\ Len(q) \in Nat /\ t[Len(q) + 1] = p /\ \A i \in 1..Len(q) : t[i] = q[i]
    BY <1>1, AppendOwn
  <1> HIDE DEF c
  <1>3. ASSUME Steady(q, c), \A a \in After(q, c) : a = p.addr PROVE Steady(t, c)
    <2> SUFFICES ASSUME NEW i \in OfAt(t, c), NEW j \in OfAt(t, c), i < j,
                        \A k \in Rebinding(q, c) : k <= i \/ k > j
                 PROVE  t[i].addr = t[j].addr
      BY <1>2 DEF Steady
    <2>1. i \in OfAt(q, c)
      BY <1>2
    <2>2. CASE j \in OfAt(q, c)
      BY <1>2, <1>3, <2>1, <2>2 DEF Steady
    <2>3. CASE j = Len(q) + 1
      <3>1. \A k \in Rebinding(q, c) : k <= i
        BY <1>2, <2>3
      <3>2. q[i].addr \in After(q, c)
        BY <2>1, <3>1 DEF After
      <3> QED
        BY <1>2, <1>3, <2>1, <2>3, <3>2
    <2> QED
      BY <1>2, <2>2, <2>3
  <1>4. Rebinds(t, c) = Rebinds(q, c)
    BY <1>2 DEF Rebinds
  <1>5. ASSUME NEW b \in Before(t, c) PROVE b \in Before(q, c) \/ (b = p.addr /\ ~Rebinds(q, c))
    <2>1. PICK j \in OfAt(t, c) : b = t[j].addr /\ \A k \in Rebinding(q, c) : k > j
      BY <1>2 DEF Before
    <2>2. CASE j \in OfAt(q, c)
      BY <1>2, <2>1, <2>2 DEF Before
    <2>3. CASE j = Len(q) + 1
      BY <1>2, <2>1, <2>3 DEF Rebinds
    <2> QED
      BY <1>2, <2>2, <2>3
  <1>6. After(t, c) = After(q, c) \union {p.addr}
    BY <1>2 DEF After
  <1> QED
    BY <1>1, <1>3, <1>4, <1>5, <1>6 DEF c

\* What is left when the first packet has gone.
LEMMA TailIndices ==
  ASSUME NEW q \in Seq(Packets), q # <<>>, NEW c
  PROVE  /\ \A i : i \in OfAt(Tail(q), c) <=> (i + 1 \in OfAt(q, c) /\ i \in 1..(Len(q) - 1))
         /\ \A i : i \in Rebinding(Tail(q), c) <=> (i + 1 \in Rebinding(q, c) /\ i \in 1..(Len(q) - 1))
         /\ OfAt(q, c) \subseteq 1..Len(q) /\ Rebinding(q, c) \subseteq OfAt(q, c)
         /\ OfAt(Tail(q), c) \subseteq 1..(Len(q) - 1) /\ Len(q) \in Nat
         /\ Rebinding(Tail(q), c) \subseteq OfAt(Tail(q), c)
         /\ \A i \in 1..(Len(q) - 1) : Tail(q)[i] = q[i + 1]
  <1>1. PICK t : t = Tail(q)
    OBVIOUS
  <1>2. /\ Len(t) = Len(q) - 1 /\ Len(q) \in Nat /\ Len(q) > 0
        /\ \A i \in 1..(Len(q) - 1) : t[i] = q[i + 1] /\ i + 1 \in 1..Len(q)
    BY <1>1
  <1>3. \A i : i \in OfAt(t, c) <=> (i + 1 \in OfAt(q, c) /\ i \in 1..(Len(q) - 1))
    BY <1>2 DEF OfAt
  <1>4. \A i : i \in Rebinding(t, c) <=> (i + 1 \in Rebinding(q, c) /\ i \in 1..(Len(q) - 1))
    BY <1>2, <1>3 DEF Rebinding
  <1>5. OfAt(q, c) \subseteq 1..Len(q) /\ Rebinding(q, c) \subseteq OfAt(q, c)
    BY DEF OfAt, Rebinding
  <1>6. OfAt(t, c) \subseteq 1..(Len(q) - 1) /\ Rebinding(t, c) \subseteq OfAt(t, c)
    BY <1>2 DEF OfAt, Rebinding
  <1> QED
    BY <1>1, <1>2, <1>3, <1>4, <1>5, <1>6

LEMMA TailSteady ==
  ASSUME NEW q \in Seq(Packets), q # <<>>, NEW c
  PROVE  /\ Steady(q, c) => Steady(Tail(q), c)
         /\ \A a \in After(Tail(q), c) : a \in After(q, c)
         /\ Rebinds(Tail(q), c) => Rebinds(q, c)
  <1>1. PICK t : t = Tail(q)
    OBVIOUS
  <1>2. /\ \A i : i \in OfAt(t, c) <=> (i + 1 \in OfAt(q, c) /\ i \in 1..(Len(q) - 1))
        /\ \A i : i \in Rebinding(t, c) <=> (i + 1 \in Rebinding(q, c) /\ i \in 1..(Len(q) - 1))
        /\ OfAt(q, c) \subseteq 1..Len(q) /\ Rebinding(q, c) \subseteq OfAt(q, c)
        /\ OfAt(t, c) \subseteq 1..(Len(q) - 1) /\ Rebinding(t, c) \subseteq OfAt(t, c)
        /\ Len(q) \in Nat /\ \A i \in 1..(Len(q) - 1) : t[i] = q[i + 1]
    BY <1>1, TailIndices
  <1>3. \A k \in Rebinding(q, c) : k = 1 \/ (k > 1 /\ k - 1 \in Rebinding(t, c))
    <2> SUFFICES ASSUME NEW k \in Rebinding(q, c), k # 1 PROVE k > 1 /\ k - 1 \in Rebinding(t, c)
      OBVIOUS
    <2>1. k \in Nat /\ k > 1 /\ k - 1 \in 1..(Len(q) - 1) /\ (k - 1) + 1 = k
      BY <1>2
    <2> QED
      BY <1>2, <2>1
  <1>4. ASSUME Steady(q, c) PROVE Steady(t, c)
    <2> SUFFICES ASSUME NEW i \in OfAt(t, c), NEW j \in OfAt(t, c), i < j,
                        \A k \in Rebinding(t, c) : k <= i \/ k > j
                 PROVE  t[i].addr = t[j].addr
      BY DEF Steady
    <2>1. i + 1 \in OfAt(q, c) /\ j + 1 \in OfAt(q, c) /\ i \in Nat /\ j \in Nat /\ i >= 1
      BY <1>2
    <2>2. \A k \in Rebinding(q, c) : k <= i + 1 \/ k > j + 1
      <3> SUFFICES ASSUME NEW k \in Rebinding(q, c), k # 1 PROVE k <= i + 1 \/ k > j + 1
        BY <2>1
      <3>1. k - 1 <= i \/ k - 1 > j
        BY <1>3
      <3> QED
        BY <1>2, <2>1, <3>1
    <2>3. q[i + 1].addr = q[j + 1].addr
      BY <1>4, <2>1, <2>2 DEF Steady
    <2> QED
      BY <1>2, <2>3
  <1>5. ASSUME NEW a \in After(t, c) PROVE a \in After(q, c)
    <2>1. PICK i \in OfAt(t, c) : a = t[i].addr /\ \A k \in Rebinding(t, c) : k <= i
      BY DEF After
    <2>2. i + 1 \in OfAt(q, c) /\ a = q[i + 1].addr /\ i \in Nat /\ i >= 1
      BY <1>2, <2>1
    <2>3. \A k \in Rebinding(q, c) : k <= i + 1
      BY <1>2, <1>3, <2>1, <2>2
    <2> QED
      BY <2>2, <2>3 DEF After
  <1>6. Rebinds(t, c) => Rebinds(q, c)
    BY <1>2 DEF Rebinds
  <1> QED
    BY <1>1, <1>4, <1>5, <1>6

\* The first packet does not give the number to a pair.
LEMMA TailPlain ==
  ASSUME NEW q \in Seq(Packets), q # <<>>, NEW c, ~(1 \in Rebinding(q, c))
  PROVE  /\ \A b \in Before(Tail(q), c) : b \in Before(q, c)
         /\ Rebinds(q, c) => Rebinds(Tail(q), c)
  <1>1. PICK t : t = Tail(q)
    OBVIOUS
  <1>2. /\ \A i : i \in OfAt(t, c) <=> (i + 1 \in OfAt(q, c) /\ i \in 1..(Len(q) - 1))
        /\ \A i : i \in Rebinding(t, c) <=> (i + 1 \in Rebinding(q, c) /\ i \in 1..(Len(q) - 1))
        /\ OfAt(q, c) \subseteq 1..Len(q) /\ Rebinding(q, c) \subseteq OfAt(q, c)
        /\ OfAt(t, c) \subseteq 1..(Len(q) - 1)
        /\ Len(q) \in Nat /\ \A i \in 1..(Len(q) - 1) : t[i] = q[i + 1]
    BY <1>1, TailIndices
  <1>3. ASSUME NEW k \in Rebinding(q, c) PROVE k \in Nat /\ k > 1 /\ k - 1 \in Rebinding(t, c)
    <2>1. k \in Nat /\ k > 1 /\ k - 1 \in 1..(Len(q) - 1) /\ (k - 1) + 1 = k
      BY <1>2
    <2> QED
      BY <1>2, <2>1
  <1>4. ASSUME NEW b \in Before(t, c) PROVE b \in Before(q, c)
    <2>1. PICK i \in OfAt(t, c) : b = t[i].addr /\ \A k \in Rebinding(t, c) : k > i
      BY DEF Before
    <2>2. i + 1 \in OfAt(q, c) /\ b = q[i + 1].addr /\ i \in Nat
      BY <1>2, <2>1
    <2>3. \A k \in Rebinding(q, c) : k > i + 1
      <3> SUFFICES ASSUME NEW k \in Rebinding(q, c) PROVE k > i + 1
        OBVIOUS
      <3>1. k \in Nat /\ k - 1 > i
        BY <1>3, <2>1
      <3> QED
        BY <2>2, <3>1
    <2> QED
      BY <2>2, <2>3 DEF Before
  <1>5. Rebinds(q, c) => Rebinds(t, c)
    BY <1>3 DEF Rebinds
  <1> QED
    BY <1>1, <1>4, <1>5

\* The first packet says what its pair is.
LEMMA TailOwn ==
  ASSUME NEW q \in Seq(Packets), q # <<>>, NEW c, 1 \in OfAt(q, c)
  PROVE  /\ Steady(q, c) => \A b \in Before(Tail(q), c) : b = q[1].addr
         /\ ~q[1].rebind => q[1].addr \in Before(q, c)
         /\ ~Rebinds(Tail(q), c) => q[1].addr \in After(q, c)
  <1>1. PICK t : t = Tail(q)
    OBVIOUS
  <1>2. /\ \A i : i \in OfAt(t, c) <=> (i + 1 \in OfAt(q, c) /\ i \in 1..(Len(q) - 1))
        /\ \A i : i \in Rebinding(t, c) <=> (i + 1 \in Rebinding(q, c) /\ i \in 1..(Len(q) - 1))
        /\ OfAt(q, c) \subseteq 1..Len(q) /\ Rebinding(q, c) \subseteq OfAt(q, c)
        /\ OfAt(t, c) \subseteq 1..(Len(q) - 1)
        /\ Len(q) \in Nat /\ \A i \in 1..(Len(q) - 1) : t[i] = q[i + 1]
    BY <1>1, TailIndices
  <1>3. \A k \in Rebinding(q, c) : k \in Nat /\ (k = 1 \/ (k > 1 /\ k - 1 \in Rebinding(t, c)))
    <2> SUFFICES ASSUME NEW k \in Rebinding(q, c), k # 1 PROVE k > 1 /\ k - 1 \in Rebinding(t, c)
      BY <1>2
    <2>1. k \in Nat /\ k > 1 /\ k - 1 \in 1..(Len(q) - 1) /\ (k - 1) + 1 = k
      BY <1>2
    <2> QED
      BY <1>2, <2>1
  <1>4. ASSUME Steady(q, c), NEW b \in Before(t, c) PROVE b = q[1].addr
    <2>1. PICK i \in OfAt(t, c) : b = t[i].addr /\ \A k \in Rebinding(t, c) : k > i
      BY DEF Before
    <2>2. i + 1 \in OfAt(q, c) /\ b = q[i + 1].addr /\ i \in Nat /\ 1 < i + 1
      BY <1>2, <2>1
    <2>3. \A k \in Rebinding(q, c) : k <= 1 \/ k > i + 1
      <3> SUFFICES ASSUME NEW k \in Rebinding(q, c), k # 1 PROVE k > i + 1
        BY <1>2
      <3>1. k \in Nat /\ k - 1 > i
        BY <1>3, <2>1
      <3> QED
        BY <2>2, <3>1
    <2> QED
      BY <1>4, <2>2, <2>3 DEF Steady
  <1>5. ASSUME ~q[1].rebind PROVE q[1].addr \in Before(q, c)
    <2>1. 1 \notin Rebinding(q, c)
      BY <1>5 DEF Rebinding
    <2>2. \A k \in Rebinding(q, c) : k > 1
      BY <1>3, <2>1
    <2> QED
      BY <2>2 DEF Before
  <1>6. ASSUME ~Rebinds(t, c) PROVE q[1].addr \in After(q, c)
    <2>1. \A k \in Rebinding(q, c) : k <= 1
      BY <1>3, <1>6 DEF Rebinds
    <2> QED
      BY <2>1 DEF After
  <1> QED
    BY <1>1, <1>4, <1>5, <1>6

-----------------------------------------------------------------------------
(* The buffer of a connection of the client, after packets that name A.    *)

\* What is in the buffer goes on with the pairs of A until the number changes hands.
Fits(A, con) ==
  /\ \A a \in A : \A b \in Before(con.buf, con.conid) : a = b
  /\ ~Rebinds(con.buf, con.conid) => \A a \in A : a = con.addr

\* The buffer holds packets of the connection's own, and ends with the pair it has.
Ready(con) ==
  /\ \A j \in 1..Len(con.buf) : con.buf[j].conid = con.conid
  /\ Steady(con.buf, con.conid)
  /\ \A a \in After(con.buf, con.conid) : a = con.addr

\* new takes the place of old.
Carries(new, old) ==
  /\ new.conid = old.conid
  /\ Ready(old) => Ready(new)
  /\ \A A : Fits(A, old) => Fits(A, new)

LEMMA OwnBuffer ==
  ASSUME NEW buf \in Seq(DataPackets), NEW d \in DataPackets,
         \A j \in 1..Len(buf) : buf[j].conid = d.conid
  PROVE  /\ buf \in Seq(Packets)
         /\ \A j \in 1..Len(Append(buf, d)) : Append(buf, d)[j].conid = d.conid
  <1>1. buf \in Seq(Packets)
    BY DEF Packets
  <1>2. /\ Len(Append(buf, d)) = Len(buf) + 1 /\ Len(buf) \in Nat /\ Append(buf, d)[Len(buf) + 1] = d
        /\ \A i \in 1..Len(buf) : Append(buf, d)[i] = buf[i]
    BY AppendFacts
  <1>3. \A j \in 1..(Len(buf) + 1) : j = Len(buf) + 1 \/ j \in 1..Len(buf)
    BY <1>2
  <1> QED
    BY <1>1, <1>2, <1>3

\* Another datagram of the same pair.
LEMMA SendCarries ==
  ASSUME NEW con \in ClientConnections, NEW r, r = Client!connection_send(con, FALSE)
  PROVE  Carries(r, con)
  <1>1. CASE Client!Full(con)
    BY <1>1 DEF Client!connection_send, Carries
  <1>2. CASE ~Client!Full(con)
    <2>1. PICK d : d = Client!Data(con.conid, FALSE, con.addr)
      OBVIOUS
    <2>2. con.buf \in Seq(DataPackets) /\ con.conid \in Conids /\ con.addr \in Conaddrs
      BY DEF ClientConnections
    <2>3. d \in DataPackets /\ d.conid = con.conid /\ ~d.rebind /\ d.addr = con.addr
      BY <2>1, <2>2 DEF Client!Data, DataPackets
    <2>4. con.buf \in Seq(Packets)
      BY <2>2 DEF Packets
    <2>5. r.buf = Append(con.buf, d) /\ r.conid = con.conid /\ r.addr = con.addr
      BY <1>2, <2>1 DEF Client!connection_send, ClientConnections
    <2>6. /\ Steady(con.buf, con.conid) /\ (\A a \in After(con.buf, con.conid) : a = con.addr)
             => Steady(r.buf, con.conid)
          /\ Rebinds(r.buf, con.conid) = Rebinds(con.buf, con.conid)
          /\ \A b \in Before(r.buf, con.conid) :
               b \in Before(con.buf, con.conid) \/ (b = con.addr /\ ~Rebinds(con.buf, con.conid))
          /\ After(r.buf, con.conid) = After(con.buf, con.conid) \union {con.addr}
      <3>1. /\ Steady(con.buf, d.conid) /\ (\A a \in After(con.buf, d.conid) : a = d.addr)
               => Steady(Append(con.buf, d), d.conid)
            /\ Rebinds(Append(con.buf, d), d.conid) = Rebinds(con.buf, d.conid)
            /\ \A b \in Before(Append(con.buf, d), d.conid) :
                 b \in Before(con.buf, d.conid) \/ (b = d.addr /\ ~Rebinds(con.buf, d.conid))
            /\ After(Append(con.buf, d), d.conid) = After(con.buf, d.conid) \union {d.addr}
        BY <2>3, <2>4, AppendPlain, Zenon
      <3> QED
        BY <2>3, <2>5, <3>1, Zenon
    <2>7. ASSUME Ready(con) PROVE Ready(r)
      <3>1. \A j \in 1..Len(r.buf) : r.buf[j].conid = r.conid
        <4>1. \A j \in 1..Len(con.buf) : con.buf[j].conid = d.conid
          BY <2>3, <2>7 DEF Ready
        <4>2. \A j \in 1..Len(Append(con.buf, d)) : Append(con.buf, d)[j].conid = d.conid
          BY <2>2, <2>3, <4>1, OwnBuffer, Zenon
        <4> QED
          BY <2>3, <2>5, <4>2, Zenon
      <3> QED
        BY <2>5, <2>6, <2>7, <3>1 DEF Ready
    <2>8. ASSUME NEW A, Fits(A, con) PROVE Fits(A, r)
      BY <2>5, <2>6, <2>8, Zenon DEF Fits
    <2> QED
      BY <2>5, <2>7, <2>8 DEF Carries
  <1> QED
    BY <1>1, <1>2

\* REBIND gives the number of con to addr.
LEMMA RebindCarries ==
  ASSUME NEW con \in ClientConnections, NEW addr \in Conaddrs, ~Client!Full(con),
         NEW r, r = Client!connection_send([con EXCEPT !.addr = addr], TRUE)
  PROVE  /\ Carries(r, con)
         /\ Rebinds(r.buf, r.conid) /\ Before(r.buf, r.conid) = Before(con.buf, con.conid)
  <1>1. PICK d : d = Client!Data(con.conid, TRUE, addr)
    OBVIOUS
  <1>2. con.buf \in Seq(DataPackets) /\ con.conid \in Conids
    BY DEF ClientConnections
  <1>3. d \in DataPackets /\ d.conid = con.conid /\ d.rebind /\ d.addr = addr
    BY <1>1, <1>2 DEF Client!Data, DataPackets
  <1>4. con.buf \in Seq(Packets)
    BY <1>2 DEF Packets
  <1>5. r.buf = Append(con.buf, d) /\ r.conid = con.conid /\ r.addr = addr
    <2>1. PICK h : h = [con EXCEPT !.addr = addr]
      OBVIOUS
    <2>2. /\ h \in ClientConnections /\ h.conid = con.conid /\ h.addr = addr /\ h.buf = con.buf
      BY <2>1 DEF ClientConnections
    <2>3. ~Client!Full(h)
      BY <2>2 DEF Client!Full
    <2> QED
      BY <1>1, <2>1, <2>2, <2>3 DEF Client!connection_send, ClientConnections
  <1>6. /\ Steady(con.buf, con.conid) => Steady(r.buf, con.conid)
        /\ Rebinds(r.buf, con.conid)
        /\ Before(r.buf, con.conid) = Before(con.buf, con.conid)
        /\ After(r.buf, con.conid) = {addr}
    <2>1. /\ Steady(con.buf, d.conid) => Steady(Append(con.buf, d), d.conid)
          /\ Rebinds(Append(con.buf, d), d.conid)
          /\ Before(Append(con.buf, d), d.conid) = Before(con.buf, d.conid)
          /\ After(Append(con.buf, d), d.conid) = {d.addr}
      BY <1>3, <1>4, AppendRebind, Zenon
    <2> QED
      BY <1>3, <1>5, <2>1, Zenon
  <1>7. ASSUME Ready(con) PROVE Ready(r)
    <2>1. \A j \in 1..Len(r.buf) : r.buf[j].conid = r.conid
      <3>1. \A j \in 1..Len(con.buf) : con.buf[j].conid = d.conid
        BY <1>3, <1>7 DEF Ready
      <3>2. \A j \in 1..Len(Append(con.buf, d)) : Append(con.buf, d)[j].conid = d.conid
        BY <1>2, <1>3, <3>1, OwnBuffer, Zenon
      <3> QED
        BY <1>3, <1>5, <3>2, Zenon
    <2> QED
      BY <1>5, <1>6, <1>7, <2>1 DEF Ready
  <1>8. ASSUME NEW A, Fits(A, con) PROVE Fits(A, r)
    BY <1>5, <1>6, <1>8, Zenon DEF Fits
  <1> QED
    BY <1>5, <1>6, <1>7, <1>8 DEF Carries

\* The first packet of a connection is one with REBIND, whatever its number meant before.
LEMMA NewReady ==
  ASSUME NEW c \in Conids, NEW addr \in Conaddrs, NEW r,
         r = Client!connection_send([conid |-> c, addr |-> addr, buf |-> <<>>], TRUE)
  PROVE  Ready(r) /\ \A A : Fits(A, r)
  <1>1. PICK con : con = [conid |-> c, addr |-> addr, buf |-> <<>>]
    OBVIOUS
  <1>2. con \in ClientConnections /\ con.buf = <<>> /\ con.conid = c /\ con.addr = addr
    BY <1>1 DEF ClientConnections
  <1>3. ~Client!Full(con)
    BY <1>2, GatewayAssumption DEF Client!Full
  <1>4. Ready(con) /\ Before(con.buf, con.conid) = {}
    BY <1>2, EmptyFacts DEF Ready
  <1>5. con = [con EXCEPT !.addr = addr]
    BY <1>1
  <1>6. Carries(r, con) /\ Rebinds(r.buf, r.conid) /\ Before(r.buf, r.conid) = {}
    BY <1>1, <1>2, <1>3, <1>4, <1>5, RebindCarries
  <1> QED
    BY <1>4, <1>6 DEF Carries, Fits

\* The first packet of the buffer has been sent: what is left goes on with its pair.
LEMMA SentCarries ==
  ASSUME NEW con \in ClientConnections, con.buf # <<>>, Ready(con), NEW p, p = Head(con.buf),
         NEW r, r = Client!Sent(con)
  PROVE  /\ r.conid = con.conid /\ r.addr = con.addr /\ Ready(r) /\ Fits({p.addr}, r)
         /\ p \in DataPackets /\ p.conid = con.conid
         /\ \A A : Fits(A, con) /\ ~p.rebind => \A a \in A : a = p.addr
  <1> DEFINE buf == con.buf
             c == con.conid
  <1>1. buf \in Seq(DataPackets) /\ buf \in Seq(Packets)
    BY DEF ClientConnections, Packets
  <1>2. r.conid = c /\ r.addr = con.addr /\ r.buf = Tail(buf)
    BY DEF Client!Sent, ClientConnections
  <1>3. p = buf[1] /\ p \in DataPackets /\ 1 \in 1..Len(buf) /\ Len(buf) \in Nat
    BY <1>1, TailFacts
  <1>4. /\ \A j \in 1..Len(buf) : buf[j].conid = c
        /\ Steady(buf, c) /\ \A a \in After(buf, c) : a = con.addr
    BY DEF Ready
  <1>5. p.conid = c /\ p.kind = "data" /\ 1 \in OfAt(buf, c)
    BY <1>3, <1>4 DEF DataPackets, OfAt
  <1>6. buf # <<>>
    OBVIOUS
  <1> HIDE DEF buf, c
  <1>7. /\ Steady(Tail(buf), c) /\ \A a \in After(Tail(buf), c) : a \in After(buf, c)
    BY <1>1, <1>4, <1>6, TailSteady
  <1>8. /\ \A b \in Before(Tail(buf), c) : b = p.addr
        /\ ~p.rebind => p.addr \in Before(buf, c)
        /\ ~Rebinds(Tail(buf), c) => p.addr \in After(buf, c)
    BY <1>1, <1>3, <1>4, <1>5, <1>6, TailOwn, Zenon
  <1>9. Ready(r)
    <2>1. \A j \in 1..Len(Tail(buf)) : Tail(buf)[j].conid = c
      <3>1. /\ Len(Tail(buf)) = Len(buf) - 1
            /\ \A i \in 1..(Len(buf) - 1) : Tail(buf)[i] = buf[i + 1] /\ i + 1 \in 1..Len(buf)
        BY <1>1, <1>6
      <3> QED
        BY <1>4, <3>1
    <2> QED
      BY <1>2, <1>4, <1>7, <2>1 DEF Ready
  <1>10. Fits({p.addr}, r)
    BY <1>2, <1>4, <1>8 DEF Fits
  <1>11. ASSUME NEW A, Fits(A, con), ~p.rebind PROVE \A a \in A : a = p.addr
    BY <1>8, <1>11 DEF Fits, buf, c
  <1> QED
    BY <1>2, <1>3, <1>5, <1>9, <1>10, <1>11 DEF c

-----------------------------------------------------------------------------
(* Sockets, what is on its way to them, and the buffers behind it.         *)

\* A socket has sent for one pair, and so will what is on its way until it is closed.
Own(socket, q) ==
  \E addr \in Conaddrs :
    /\ socket.asked = {addr} /\ addr[2] = socket.orig_addr
    /\ \A b \in Before(q, socket.conid) : b = addr

\* Unless it closes the socket on its way, con goes on with the socket's pair.
Matches(socket, con, q) ==
  con.conid = socket.conid /\ (~Rebinds(q, con.conid) => Fits(socket.asked, con))

\* The packets that the server can still get of what the client has sent.
OnWay == IF link = NoLink THEN <<>> ELSE up[link]

SocketsOwn(sv, u) ==
  \A s \in Clients : \A k \in 1..Len(sv[s].connections) : Own(sv[s].connections[k], u[s])
LinksSteady(u) == \A s \in Clients, c \in Conids : Steady(u[s], c)
ClientGoesOn(cs, q) == \A i \in 1..Len(cs) : Ready(cs[i]) /\ Fits(After(q, cs[i].conid), cs[i])
SocketsMatch(sockets, cs, q) ==
  \A k \in 1..Len(sockets) : \E i \in 1..Len(cs) : Matches(sockets[k], cs[i], q)
Known(q, cs) == \A j \in 1..Len(q) : q[j].kind = "data" => \E i \in 1..Len(cs) : cs[i].conid = q[j].conid

Owned ==
  /\ SocketsOwn(server, up) /\ LinksSteady(up)
  /\ ClientGoesOn(connections, OnWay) /\ Known(OnWay, connections)
  /\ link # NoLink => SocketsMatch(server[link].connections, connections, up[link])

OwnedInv == ~lost => Owned

LEMMA FitsLess == \A A, B, con : Fits(A, con) /\ B \subseteq A => Fits(B, con)
  BY DEF Fits

LEMMA CarriesSame == \A con : Carries(con, con)
  BY DEF Carries

\* The connections of new take the places of those of old, or have no past.
Succeeds(new, old) ==
  /\ \A k \in 1..Len(new) :
       (\E i \in 1..Len(old) : Carries(new[k], old[i])) \/ (Ready(new[k]) /\ \A A : Fits(A, new[k]))
  /\ \A i \in 1..Len(old) : \E k \in 1..Len(new) : Carries(new[k], old[i])

LEMMA SucceedsSame == \A cs : Succeeds(cs, cs)
  BY CarriesSame DEF Succeeds

LEMMA MovedSucceeds ==
  ASSUME NEW cs, NEW i \in 1..Len(cs), NEW con, Carries(con, cs[i]), NEW t, IsMoved(t, cs, i, con)
  PROVE  Succeeds(t, cs)
  <1>1. /\ Len(t) = Len(cs) /\ Len(cs) \in Nat /\ t[Len(cs)] = con
        /\ \A k \in 1..(Len(cs) - 1) : t[k] = cs[Was(i, k)]
    BY DEF IsMoved
  <1>2. /\ \A k \in 1..(Len(cs) - 1) : Was(i, k) \in 1..Len(cs)
        /\ \A m \in 1..Len(cs) : m # i => \E k \in 1..(Len(cs) - 1) : Was(i, k) = m
    BY <1>1, WasFacts
  <1>3. /\ \A k \in 1..Len(cs) : k = Len(cs) \/ k \in 1..(Len(cs) - 1)
        /\ \A k \in 1..(Len(cs) - 1) : k \in 1..Len(cs)
        /\ Len(cs) \in 1..Len(cs)
    BY <1>1
  <1>4. ASSUME NEW k \in 1..Len(t) PROVE \E m \in 1..Len(cs) : Carries(t[k], cs[m])
    <2>1. CASE k = Len(cs)
      BY <1>1, <2>1
    <2>2. CASE k # Len(cs)
      <3>1. k \in 1..(Len(cs) - 1)
        BY <1>1, <1>3, <2>2
      <3>2. t[k] = cs[Was(i, k)] /\ Was(i, k) \in 1..Len(cs)
        BY <1>1, <1>2, <3>1
      <3> QED
        BY <3>2, CarriesSame
    <2> QED
      BY <2>1, <2>2
  <1>5. ASSUME NEW m \in 1..Len(cs) PROVE \E k \in 1..Len(t) : Carries(t[k], cs[m])
    <2>1. CASE m = i
      BY <1>1, <1>3, <2>1
    <2>2. CASE m # i
      <3>1. PICK k \in 1..(Len(cs) - 1) : Was(i, k) = m
        BY <1>2, <2>2
      <3>2. t[k] = cs[m] /\ k \in 1..Len(t)
        BY <1>1, <1>3, <3>1
      <3> QED
        BY <3>2, CarriesSame
    <2> QED
      BY <2>1, <2>2
  <1> QED
    BY <1>4, <1>5 DEF Succeeds

\* What the client does to its list while the link and the server stay as they are.
LEMMA SucceedsOwned ==
  ASSUME Owned, Succeeds(connections', connections), UNCHANGED <<server, link, up>>
  PROVE  Owned'
  <1>1. OnWay' = OnWay
    BY DEF OnWay
  <1>2. ClientGoesOn(connections', OnWay)
    <2> SUFFICES ASSUME NEW k \in 1..Len(connections')
                 PROVE  Ready(connections'[k]) /\ Fits(After(OnWay, connections'[k].conid), connections'[k])
      BY DEF ClientGoesOn
    <2>1. CASE Ready(connections'[k]) /\ \A A : Fits(A, connections'[k])
      BY <2>1
    <2>2. CASE \E i \in 1..Len(connections) : Carries(connections'[k], connections[i])
      BY <2>2 DEF Owned, ClientGoesOn, Carries
    <2> QED
      BY <2>1, <2>2 DEF Succeeds
  <1>3. Known(OnWay, connections')
    BY DEF Owned, Known, Succeeds, Carries
  <1>4. ASSUME link # NoLink PROVE SocketsMatch(server[link].connections, connections', up[link])
    <2> SUFFICES ASSUME NEW j \in 1..Len(server[link].connections)
                 PROVE  \E k \in 1..Len(connections') : Matches(server[link].connections[j], connections'[k], up[link])
      BY DEF SocketsMatch
    <2>1. PICK i \in 1..Len(connections) : Matches(server[link].connections[j], connections[i], up[link])
      BY <1>4 DEF Owned, SocketsMatch
    <2>2. PICK k \in 1..Len(connections') : Carries(connections'[k], connections[i])
      BY DEF Succeeds
    <2>3. Matches(server[link].connections[j], connections'[k], up[link])
      BY <2>1, <2>2 DEF Matches, Carries
    <2> QED
      BY <2>3
  <1> QED
    BY <1>1, <1>2, <1>3, <1>4 DEF Owned

\* What the server does with its list when it opens no socket.
SocketLike(new, old) == new.conid = old.conid /\ new.asked = old.asked /\ new.orig_addr = old.orig_addr
SocketsLike(new, old) == \A k \in 1..Len(new) : \E i \in 1..Len(old) : SocketLike(new[k], old[i])

LEMMA LikeOwned ==
  ASSUME Owned, UNCHANGED <<connections, link, up>>, link \in Clients \union {NoLink},
         \A s \in Clients : SocketsLike(server'[s].connections, server[s].connections)
  PROVE  Owned'
  <1>1. OnWay' = OnWay
    BY DEF OnWay
  <1>2. SocketsOwn(server', up)
    <2> SUFFICES ASSUME NEW s \in Clients, NEW k \in 1..Len(server'[s].connections)
                 PROVE  Own(server'[s].connections[k], up[s])
      BY DEF SocketsOwn
    <2>1. PICK i \in 1..Len(server[s].connections) : SocketLike(server'[s].connections[k], server[s].connections[i])
      BY DEF SocketsLike
    <2>2. Own(server[s].connections[i], up[s])
      BY DEF Owned, SocketsOwn
    <2> QED
      BY <2>1, <2>2 DEF Own, SocketLike
  <1>3. ASSUME link # NoLink PROVE SocketsMatch(server'[link].connections, connections, up[link])
    <2> SUFFICES ASSUME NEW k \in 1..Len(server'[link].connections)
                 PROVE  \E m \in 1..Len(connections) : Matches(server'[link].connections[k], connections[m], up[link])
      BY DEF SocketsMatch
    <2>1. PICK i \in 1..Len(server[link].connections) :
            SocketLike(server'[link].connections[k], server[link].connections[i])
      BY <1>3 DEF SocketsLike
    <2>2. PICK m \in 1..Len(connections) : Matches(server[link].connections[i], connections[m], up[link])
      BY <1>3 DEF Owned, SocketsMatch
    <2>3. Matches(server'[link].connections[k], connections[m], up[link])
      BY <2>1, <2>2 DEF Matches, SocketLike
    <2> QED
      BY <2>3
  <1> QED
    BY <1>1, <1>2, <1>3 DEF Owned

\* Nothing is on its way over a link that is new or gone.
LEMMA NothingOnWay ==
  ASSUME Owned, OnWay' = <<>>, UNCHANGED connections, SocketsOwn(server', up'), LinksSteady(up'),
         link' # NoLink => server'[link'].connections = <<>>
  PROVE  Owned'
  <1>1. ClientGoesOn(connections, <<>>)
    <2>1. \A i \in 1..Len(connections) : Fits({}, connections[i])
      BY DEF Fits
    <2> QED
      BY <2>1, EmptyFacts DEF Owned, ClientGoesOn
  <1>2. Known(<<>>, connections)
    BY DEF Known
  <1>3. link' # NoLink => SocketsMatch(server'[link'].connections, connections, up'[link'])
    BY DEF SocketsMatch
  <1> QED
    BY <1>1, <1>2, <1>3 DEF Owned

LEMMA InitOwned == Init => OwnedInv
  <1> SUFFICES ASSUME Init PROVE Owned
    BY DEF OwnedInv
  <1>1. connections = <<>> /\ link = NoLink /\ up = [s \in Clients |-> <<>>] /\ OnWay = <<>>
    BY DEF Init, Client!ClientInit, OnWay
  <1>2. \A s \in Clients : server[s].connections = <<>>
    BY DEF Init, Server!ServerInit, Server!NoClient, Server!NewClient
  <1>3. SocketsOwn(server, up)
    BY <1>2 DEF SocketsOwn
  <1>4. LinksSteady(up)
    BY <1>1, EmptyFacts DEF LinksSteady
  <1>5. ClientGoesOn(connections, OnWay) /\ Known(OnWay, connections)
    BY <1>1 DEF ClientGoesOn, Known
  <1> QED
    BY <1>1, <1>3, <1>4, <1>5 DEF Owned

-----------------------------------------------------------------------------
(* What each step does to them. *)

\* A datagram of a pair that has a connection, takes over one or gets a new one.
LEMMA SubmitSucceeds ==
  ASSUME ClientInv, NEW addr \in Conaddrs, Client!UdpGwClient_SubmitPacket(addr), ~lost'
  PROVE  ~lost /\ Succeeds(connections', connections)
  <1>1. connections \in Seq(ClientConnections) /\ DOMAIN connections = 1..Len(connections)
    BY DEF ClientInv
  <1>2. CASE \E i \in {j \in DOMAIN connections : connections[j].addr = addr} :
               /\ connections' = Client!MovedToEnd(i, Client!connection_send(connections[i], FALSE))
               /\ UNCHANGED <<next_conid, lost>>
    <2>1. PICK i \in 1..Len(connections) :
            /\ connections' = Client!MovedToEnd(i, Client!connection_send(connections[i], FALSE))
            /\ UNCHANGED <<next_conid, lost>>
      BY <1>1, <1>2, Zenon
    <2>2. PICK con : con = Client!connection_send(connections[i], FALSE)
      OBVIOUS
    <2>3. con \in ClientConnections /\ Carries(con, connections[i])
      BY <1>1, <2>2, ConnectionFields, SendFacts, SendCarries
    <2>4. connections' = Append(SubSeq(connections, 1, i - 1) \o SubSeq(connections, i + 1, Len(connections)), con)
      BY <2>1, <2>2 DEF Client!MovedToEnd, Client!RemoveAt
    <2>5. IsMoved(connections', connections, i, con)
      BY <1>1, <2>3, <2>4, MovedFacts, Zenon
    <2>6. Succeeds(connections', connections)
      BY <2>3, <2>5, MovedSucceeds
    <2>7. ~lost
      BY <2>1
    <2> QED
      BY <2>6, <2>7
  <1>3. CASE Len(connections) = MaxConnections /\ Client!reuse_connection(addr)
    <2>1. Len(connections) > 0 /\ connections # <<>> /\ 1 \in 1..Len(connections)
      BY <1>1, <1>3, GatewayAssumption
    <2>2. Head(connections) = connections[1] /\ connections[1] \in ClientConnections
      BY <1>1, <2>1, ConnectionFields, TailFacts
    <2>3. PICK h : h = [connections[1] EXCEPT !.addr = addr]
      OBVIOUS
    <2>4. PICK con : con = Client!connection_send(h, TRUE)
      OBVIOUS
    <2>5. connections' = Append(Tail(connections), con) /\ lost' = (lost \/ Client!Full(h))
      BY <1>3, <2>2, <2>3, <2>4 DEF Client!reuse_connection, Client!REBIND
    <2>6. ~lost /\ ~Client!Full(h)
      BY <2>5
    <2>7. h \in ClientConnections /\ h.buf = connections[1].buf
      BY <2>2, <2>3 DEF ClientConnections
    <2>8. ~Client!Full(connections[1])
      BY <2>6, <2>7 DEF Client!Full
    <2>9. con \in ClientConnections /\ Carries(con, connections[1])
      BY <2>2, <2>3, <2>4, <2>7, <2>8, SendFacts, RebindCarries
    <2>10. connections' = Append(SubSeq(connections, 1, 1 - 1) \o SubSeq(connections, 1 + 1, Len(connections)), con)
      <3>1. Tail(connections) = SubSeq(connections, 2, Len(connections)) /\ Tail(connections) \in Seq(ClientConnections)
        BY <1>1, <2>1, TailIsSubSeq, TailFacts
      <3>2. SubSeq(connections, 1, 1 - 1) = <<>> /\ 1 + 1 = 2
        BY SubSeqEmpty
      <3>3. SubSeq(connections, 1, 1 - 1) \o SubSeq(connections, 1 + 1, Len(connections)) = Tail(connections)
        BY <3>1, <3>2, ConcatEmptySeq
      <3> QED
        BY <2>5, <3>3
    <2>11. IsMoved(connections', connections, 1, con)
      BY <1>1, <2>1, <2>9, <2>10, MovedFacts, Zenon
    <2>12. Succeeds(connections', connections)
      BY <2>1, <2>9, <2>11, MovedSucceeds
    <2> QED
      BY <2>6, <2>12
  <1>4. CASE Client!connection_init(addr)
    <2>1. PICK c \in Client!find_unused_conid :
            connections' = Append(connections,
              Client!connection_send([conid |-> c, addr |-> addr, buf |-> <<>>], TRUE))
      BY <1>4 DEF Client!connection_init
    <2>2. c \in Conids
      BY <2>1 DEF Client!find_unused_conid, Conids
    <2>3. PICK con : con = Client!connection_send([conid |-> c, addr |-> addr, buf |-> <<>>], TRUE)
      OBVIOUS
    <2>4. Ready(con) /\ \A A : Fits(A, con)
      BY <2>2, <2>3, NewReady
    <2>5. con \in ClientConnections
      <3>1. [conid |-> c, addr |-> addr, buf |-> <<>>] \in ClientConnections
        BY <2>2 DEF ClientConnections
      <3> QED
        BY <2>3, <3>1, SendFacts
    <2>6. /\ Len(connections') = Len(connections) + 1 /\ Len(connections) \in Nat
          /\ connections'[Len(connections) + 1] = con
          /\ \A i \in 1..Len(connections) : connections'[i] = connections[i]
      <3>1. connections' = Append(connections, con)
        BY <2>1, <2>3
      <3>2. /\ Len(Append(connections, con)) = Len(connections) + 1 /\ Len(connections) \in Nat
            /\ Append(connections, con)[Len(connections) + 1] = con
            /\ \A i \in 1..Len(connections) : Append(connections, con)[i] = connections[i]
        BY <1>1, <2>5, AppendFacts
      <3> QED
        BY <3>1, <3>2, Zenon
    <2>7. /\ \A k \in 1..(Len(connections) + 1) : k = Len(connections) + 1 \/ k \in 1..Len(connections)
          /\ \A k \in 1..Len(connections) : k \in 1..(Len(connections) + 1)
      BY <2>6
    <2>8. Succeeds(connections', connections)
      BY <2>4, <2>6, <2>7, CarriesSame DEF Succeeds
    <2>9. ~lost
      BY <1>4 DEF Client!connection_init
    <2> QED
      BY <2>8, <2>9
  <1> QED
    BY <1>2, <1>3, <1>4 DEF Client!UdpGwClient_SubmitPacket

LEMMA ReceiveSucceeds ==
  ASSUME ClientInv, NEW p, Client!recv_interface_handler_send(p)
  PROVE  UNCHANGED lost /\ Succeeds(connections', connections)
  <1>1. /\ connections \in Seq(ClientConnections) /\ UNCHANGED lost
        /\ DOMAIN connections = 1..Len(connections)
    BY DEF ClientInv, Client!recv_interface_handler_send
  <1>2. CASE UNCHANGED connections
    BY <1>1, <1>2, SucceedsSame
  <1>3. CASE \E i \in DOMAIN connections : connections' = Client!MovedToEnd(i, connections[i])
    <2>1. PICK i \in 1..Len(connections) : connections' = Client!MovedToEnd(i, connections[i])
      BY <1>1, <1>3, Zenon
    <2>2. connections[i] \in ClientConnections
      BY <1>1, ConnectionFields
    <2>3. connections' = Append(SubSeq(connections, 1, i - 1) \o SubSeq(connections, i + 1, Len(connections)), connections[i])
      BY <2>1 DEF Client!MovedToEnd, Client!RemoveAt
    <2>4. IsMoved(connections', connections, i, connections[i])
      BY <1>1, <2>2, <2>3, MovedFacts, Zenon
    <2> QED
      BY <1>1, <2>4, MovedSucceeds, CarriesSame
  <1> QED
    BY <1>2, <1>3 DEF Client!recv_interface_handler_send

LEMMA ConnectOwned ==
  ASSUME GatewayInv, Owned, Connect
  PROVE  Owned'
  <1>1. PICK s \in Clients :
          /\ Server!listener_handler(s) /\ link' = s
          /\ up' = [up EXCEPT ![s] = <<>>] /\ UNCHANGED connections
    BY DEF Connect, Client!SocksUp
  <1>2. up \in [Clients -> Seq(Packets)] /\ DOMAIN server = Clients
    BY DEF GatewayInv, LinkInv, ServerInv
  <1>3. /\ up'[s] = <<>> /\ server'[s].connections = <<>>
        /\ \A t \in Clients : t # s => up'[t] = up[t] /\ server'[t] = server[t]
    BY <1>1, <1>2 DEF Server!listener_handler, Server!NewClient
  <1>4. OnWay' = <<>>
    BY <1>1, <1>3, GatewayAssumption DEF OnWay
  <1>5. SocketsOwn(server', up')
    <2> SUFFICES ASSUME NEW t \in Clients, NEW k \in 1..Len(server'[t].connections)
                 PROVE  Own(server'[t].connections[k], up'[t])
      BY DEF SocketsOwn
    <2>1. t # s
      BY <1>3
    <2> QED
      BY <1>3, <2>1 DEF Owned, SocketsOwn
  <1>6. LinksSteady(up')
    <2> SUFFICES ASSUME NEW t \in Clients, NEW c \in Conids PROVE Steady(up'[t], c)
      BY DEF LinksSteady
    <2>1. CASE t = s
      BY <1>3, <2>1, EmptyFacts
    <2>2. CASE t # s
      BY <1>3, <2>2 DEF Owned, LinksSteady
    <2> QED
      BY <2>1, <2>2
  <1> QED
    BY <1>1, <1>3, <1>4, <1>5, <1>6, NothingOnWay

LEMMA LosesLinkOwned ==
  ASSUME Owned, ClientLosesLink
  PROVE  Owned'
  <1>1. link' = NoLink /\ UNCHANGED <<connections, server, up>>
    BY DEF ClientLosesLink, Client!free_socks
  <1>2. OnWay' = <<>>
    BY <1>1 DEF OnWay
  <1> QED
    BY <1>1, <1>2, NothingOnWay DEF Owned

\* A list without its i-th connection, perhaps with one that is like it at the end.
LEMMA WithoutLike ==
  ASSUME NEW cs, NEW i \in 1..Len(cs), NEW t, IsWithout(t, cs, i)
  PROVE  SocketsLike(t, cs)
  BY DEF IsWithout, SocketsLike, SocketLike

LEMMA MovedElements ==
  ASSUME NEW client, Good(client), NEW i \in 1..Len(client.connections), NEW con \in ServerConnections,
         NEW k \in 1..Len(Server!MovedToEnd(client, i, con).connections)
  PROVE  \/ Server!MovedToEnd(client, i, con).connections[k] = con
         \/ \E m \in 1..Len(client.connections) :
              Server!MovedToEnd(client, i, con).connections[k] = client.connections[m]
  <1> DEFINE cs == client.connections
             t == Server!RemoveAt(cs, i)
             u == Append(t, con)
  <1>1. client \in ServerClients /\ cs \in Seq(ServerConnections) /\ Numbered(cs)
    BY ServerClientFields DEF Good
  <1>2. IsWithout(t, cs, i)
    BY <1>1, RemoveAtFacts
  <1>3. t \in Seq(ServerConnections) /\ \A j \in 1..Len(t) : \E m \in 1..Len(cs) : t[j] = cs[m]
    BY <1>2 DEF IsWithout
  <1>4. u \in Seq(ServerConnections)
    BY <1>3
  <1>5. Server!MovedToEnd(client, i, con).connections = u
    BY <1>1 DEF Server!MovedToEnd, ServerClients
  <1> HIDE DEF t
  <1>6. /\ Len(u) = Len(t) + 1 /\ Len(t) \in Nat /\ u[Len(t) + 1] = con
        /\ \A j \in 1..Len(t) : u[j] = t[j]
    BY <1>3, AppendFacts
  <1> HIDE DEF u, cs
  <1>7. \A j \in 1..Len(u) : j = Len(t) + 1 \/ j \in 1..Len(t)
    BY <1>6
  <1>8. \A j \in 1..Len(u) : u[j] = con \/ \E m \in 1..Len(cs) : u[j] = cs[m]
    BY <1>3, <1>6, <1>7
  <1> QED
    BY <1>5, <1>8 DEF cs

LEMMA MovedLike ==
  ASSUME NEW client, Good(client), NEW i \in 1..Len(client.connections), NEW con \in ServerConnections,
         SocketLike(con, client.connections[i])
  PROVE  SocketsLike(Server!MovedToEnd(client, i, con).connections, client.connections)
  BY MovedElements DEF SocketsLike, SocketLike

\* One client of the server changes, and its sockets are like those it had.
LEMMA OneLike ==
  ASSUME ServerInv, NEW s \in Clients, NEW client,
         server' = [server EXCEPT ![s] = client],
         SocketsLike(client.connections, server[s].connections)
  PROVE  \A t \in Clients : SocketsLike(server'[t].connections, server[t].connections)
  <1>1. server'[s] = client /\ \A t \in Clients : t # s => server'[t] = server[t]
    BY DEF ServerInv
  <1>2. \A t \in Clients : SocketsLike(server[t].connections, server[t].connections)
    BY DEF SocketsLike, SocketLike
  <1> QED
    BY <1>1, <1>2

LEMMA AnswerLike ==
  ASSUME ServerInv, NEW s \in Clients, NEW i, Server!connection_udp_recv_if_handler_send(s, i)
  PROVE  \A t \in Clients : SocketsLike(server'[t].connections, server[t].connections)
  <1> DEFINE client == server[s]
             con == client.connections[i]
  <1>1. Good(client) /\ i \in 1..Len(client.connections)
    <2>1. DOMAIN server[s].connections = 1..Len(server[s].connections)
      BY ServerClientFields DEF ServerInv, Good
    <2> QED
      BY <2>1 DEF ServerInv, Server!connection_udp_recv_if_handler_send
  <1>2. PICK asked \in con.asked :
          server' = [server EXCEPT ![s] = Server!MovedToEnd(server[s], i,
            IF Len(con.answers) < ClientBufferSize
              THEN [con EXCEPT !.answers = Append(con.answers, [conid |-> con.conid, addr |-> <<asked[1], con.orig_addr>>])]
              ELSE con)]
    BY DEF Server!connection_udp_recv_if_handler_send, ServerInv
  <1>3. PICK answer : answer = [conid |-> con.conid, addr |-> <<asked[1], con.orig_addr>>]
    OBVIOUS
  <1>4. PICK new : new = IF Len(con.answers) < ClientBufferSize
                           THEN [con EXCEPT !.answers = Append(con.answers, answer)] ELSE con
    OBVIOUS
  <1>5. /\ con \in ServerConnections /\ con.conid \in Conids /\ con.orig_addr \in Addrs
        /\ con.answers \in Seq(Answers) /\ con.asked \in SUBSET Conaddrs
    BY <1>1, ServerClientFields, ServerConnectionFields DEF Good
  <1>6. answer \in Answers
    BY <1>3, <1>5 DEF Answers
  <1>7. Append(con.answers, answer) \in Seq(Answers)
    BY <1>5, <1>6, AppendFacts
  <1>8. server' = [server EXCEPT ![s] = Server!MovedToEnd(client, i, new)]
    BY <1>2, <1>3, <1>4
  <1> HIDE DEF con
  <1>9. /\ new \in ServerConnections /\ new.conid = con.conid /\ new.asked = con.asked
        /\ new.orig_addr = con.orig_addr
    BY <1>4, <1>5, <1>7 DEF ServerConnections
  <1>10. SocketsLike(Server!MovedToEnd(client, i, new).connections, client.connections)
    BY <1>1, <1>9, MovedLike DEF con, SocketLike
  <1> QED
    BY <1>8, <1>10, OneLike

LEMMA SocketEventLike ==
  ASSUME ServerInv, NEW s \in Clients, NEW i, Server!connection_dgram_handler_event(s, i)
  PROVE  \A t \in Clients : SocketsLike(server'[t].connections, server[t].connections)
  <1>1. Good(server[s]) /\ i \in 1..Len(server[s].connections)
    <2>1. DOMAIN server[s].connections = 1..Len(server[s].connections)
      BY ServerClientFields DEF ServerInv, Good
    <2> QED
      BY <2>1 DEF ServerInv, Server!connection_dgram_handler_event
  <1>2. SocketsLike(Server!connection_close(server[s], i).connections, server[s].connections)
    BY <1>1, CloseGood, WithoutLike
  <1>3. server' = [server EXCEPT ![s] = Server!connection_close(server[s], i)]
    BY DEF ServerInv, Server!connection_dgram_handler_event
  <1> QED
    BY <1>2, <1>3, OneLike

LEMMA ScheduleLike ==
  ASSUME ServerInv, NEW s \in Clients, NEW i, Server!schedule(s, i)
  PROVE  \A t \in Clients : SocketsLike(server'[t].connections, server[t].connections)
  <1> DEFINE client == server[s]
             cs == client.connections
             con == [cs[i] EXCEPT !.busy = TRUE]
             new == [cs EXCEPT ![i] = con]
             r == [client EXCEPT !.connections = new, !.sending = <<Head(cs[i].answers)>>]
  <1>1. Good(client) /\ i \in 1..Len(cs) /\ DOMAIN cs = 1..Len(cs)
    <2>1. DOMAIN server[s].connections = 1..Len(server[s].connections)
      BY ServerClientFields DEF ServerInv, Good
    <2> QED
      BY <2>1 DEF ServerInv, Server!schedule
  <1>2. client \in ServerClients /\ cs \in Seq(ServerConnections)
    BY <1>1, ServerClientFields DEF Good
  <1>3. cs[i] \in ServerConnections
    BY <1>1, <1>2, ServerConnectionFields
  <1>4. con \in ServerConnections /\ SocketLike(con, cs[i])
    BY <1>3 DEF ServerConnections, SocketLike
  <1>5. server' = [server EXCEPT ![s] = r]
    <2>1. server' = [server EXCEPT ![s] = [server[s] EXCEPT
            !.connections[i].busy = TRUE, !.sending = <<Head(cs[i].answers)>>]]
      BY DEF Server!schedule, ServerInv
    <2>2. [server[s] EXCEPT !.connections[i].busy = TRUE, !.sending = <<Head(cs[i].answers)>>] = r
      BY <1>2 DEF ServerClients
    <2> QED
      BY <2>1, <2>2
  <1>6. r.connections = new
    BY <1>2 DEF ServerClients
  <1> HIDE DEF con, r
  <1>7. /\ Len(new) = Len(cs)
        /\ \A j \in 1..Len(cs) : new[j] = IF j = i THEN con ELSE cs[j]
    BY <1>1, <1>2, <1>4, ExceptSeq
  <1> HIDE DEF new
  <1>8. SocketsLike(r.connections, cs)
    BY <1>1, <1>4, <1>6, <1>7 DEF SocketsLike, SocketLike
  <1> QED
    BY <1>5, <1>8, OneLike

LEMMA SentLike ==
  ASSUME ServerInv, NEW s \in Clients, NEW p, Server!output_handler_done(s, p)
  PROVE  \A t \in Clients : SocketsLike(server'[t].connections, server[t].connections)
  <1> DEFINE client == server[s]
             cs == client.connections
             new == [i \in DOMAIN cs |-> IF cs[i].busy THEN Server!Sent(cs[i]) ELSE cs[i]]
             r == [client EXCEPT !.connections = new, !.closing = {con \in client.closing : ~con.busy},
                                 !.sending = <<>>]
  <1>1. Good(client) /\ DOMAIN cs = 1..Len(cs)
    <2>1. DOMAIN server[s].connections = 1..Len(server[s].connections)
      BY ServerClientFields DEF ServerInv, Good
    <2> QED
      BY <2>1 DEF ServerInv
  <1>2. client \in ServerClients /\ cs \in Seq(ServerConnections) /\ Len(cs) \in Nat
    BY <1>1, ServerClientFields DEF Good
  <1>3. server' = [server EXCEPT ![s] = r]
    BY DEF Server!output_handler_done
  <1>4. r.connections = new
    BY <1>2 DEF ServerClients
  <1>5. ASSUME NEW i \in 1..Len(cs) PROVE SocketLike(new[i], cs[i])
    <2>1. cs[i] \in ServerConnections
      BY <1>2, ServerConnectionFields
    <2>2. SocketLike(Server!Sent(cs[i]), cs[i])
      BY <2>1 DEF Server!Sent, ServerConnections, SocketLike
    <2>3. new[i] = IF cs[i].busy THEN Server!Sent(cs[i]) ELSE cs[i]
      BY <1>1
    <2>4. CASE cs[i].busy
      BY <2>2, <2>3, <2>4
    <2>5. CASE ~cs[i].busy
      <3>1. new[i] = cs[i]
        BY <2>3, <2>5
      <3> QED
        BY <3>1 DEF SocketLike
    <2> QED
      BY <2>4, <2>5
  <1>6. Len(new) = Len(cs)
    <2>1. DOMAIN new = 1..Len(cs)
      BY <1>1
    <2> QED
      BY <1>2, <2>1
  <1> HIDE DEF new, r
  <1>7. SocketsLike(r.connections, cs)
    BY <1>4, <1>5, <1>6 DEF SocketsLike
  <1> QED
    BY <1>3, <1>7, OneLike

LEMMA FreeLike ==
  ASSUME ServerInv, NEW s \in Clients, Server!client_free(s)
  PROVE  \A t \in Clients : SocketsLike(server'[t].connections, server[t].connections)
  <1>1. server' = [server EXCEPT ![s] = Server!Freed]
    BY DEF Server!client_free
  <1>2. Server!Freed.connections = <<>>
    BY DEF Server!Freed, Server!NoClient, Server!NewClient
  <1>3. SocketsLike(Server!Freed.connections, server[s].connections)
    BY <1>2 DEF SocketsLike
  <1> QED
    BY <1>1, <1>3, OneLike

\* A socket that is there after the first packet of q, and one that it has opened.
Kept(socket, cs, q) == \E m \in 1..Len(cs) : SocketLike(socket, cs[m]) /\ 1 \notin Rebinding(q, cs[m].conid)
Opened(socket, p) ==
  /\ p \in DataPackets /\ socket.conid = p.conid /\ socket.asked = {p.addr}
  /\ socket.orig_addr = p.addr[2]

LEMMA ConnectionOpened ==
  ASSUME NEW p \in DataPackets
  PROVE  Server!Connection(p) \in ServerConnections /\ Opened(Server!Connection(p), p)
  <1>1. p.conid \in Conids /\ p.addr \in Conaddrs /\ p.addr[2] \in Addrs
    BY DEF DataPackets, Addrs
  <1> QED
    BY <1>1 DEF Server!Connection, ServerConnections, Opened

\* Elements of the list that connection_init leaves.
LEMMA InitElements ==
  ASSUME NEW client, Good(client), NEW p \in DataPackets,
         NEW k \in 1..Len(Server!connection_init(client, p).connections)
  PROVE  \/ Server!connection_init(client, p).connections[k] = Server!Connection(p)
         \/ \E m \in 1..Len(client.connections) :
              Server!connection_init(client, p).connections[k] = client.connections[m]
  <1> DEFINE room == IF Len(client.connections) = MaxForClient
                       THEN Server!connection_close(client, 1) ELSE client
             t == room.connections
             u == Append(t, Server!Connection(p))
  <1>1. Good(room) /\ \A j \in 1..Len(t) : \E m \in 1..Len(client.connections) : t[j] = client.connections[m]
    <2>1. CASE Len(client.connections) = MaxForClient
      <3>1. 1 \in 1..Len(client.connections)
        BY <2>1, GatewayAssumption
      <3>2. room = Server!connection_close(client, 1)
        BY <2>1
      <3>3. /\ Good(Server!connection_close(client, 1))
            /\ IsWithout(Server!connection_close(client, 1).connections, client.connections, 1)
        BY <3>1, CloseGood
      <3> HIDE DEF room
      <3> QED
        BY <3>2, <3>3 DEF IsWithout
    <2>2. CASE Len(client.connections) # MaxForClient
      BY <2>2
    <2> QED
      BY <2>1, <2>2
  <1>2. Server!connection_init(client, p) = [room EXCEPT !.connections = Append(@, Server!Connection(p))]
    BY DEF Server!connection_init
  <1> HIDE DEF room
  <1>3. room \in ServerClients /\ t \in Seq(ServerConnections)
    BY <1>1, ServerClientFields DEF Good
  <1>4. Server!connection_init(client, p).connections = u
    BY <1>2, <1>3 DEF ServerClients
  <1>5. Server!Connection(p) \in ServerConnections
    BY ConnectionOpened
  <1> HIDE DEF t
  <1>6. /\ Len(u) = Len(t) + 1 /\ Len(t) \in Nat /\ u[Len(t) + 1] = Server!Connection(p)
        /\ \A j \in 1..Len(t) : u[j] = t[j]
    BY <1>3, <1>5, AppendFacts
  <1> HIDE DEF u
  <1>7. \A j \in 1..Len(u) : j = Len(t) + 1 \/ j \in 1..Len(t)
    BY <1>6
  <1>8. \A j \in 1..Len(u) : \/ u[j] = Server!Connection(p)
                             \/ \E m \in 1..Len(client.connections) : u[j] = client.connections[m]
    BY <1>1, <1>6, <1>7
  <1> QED
    BY <1>4, <1>8

LEMMA ReceiveSockets ==
  ASSUME ServerInv, NEW s \in Clients, NEW q \in Seq(Packets), q # <<>>,
         Server!client_recv_if_handler_send(s, Head(q)),
         \A k \in 1..Len(server[s].connections) : Own(server[s].connections[k], q),
         NEW k \in 1..Len(server'[s].connections)
  PROVE  \/ Kept(server'[s].connections[k], server[s].connections, q)
         \/ Opened(server'[s].connections[k], Head(q))
  <1> DEFINE cs == server[s].connections
             p == Head(q)
  <1>1. p = q[1] /\ p \in Packets /\ 1 \in 1..Len(q)
    BY TailFacts
  <1>2. Good(server[s]) /\ DOMAIN cs = 1..Len(cs)
    BY ServerClientFields DEF ServerInv, Good
  <1>3. \A c : 1 \in Rebinding(q, c) => p.kind = "data" /\ p.conid = c /\ p.rebind
    BY <1>1 DEF Rebinding, OfAt
  <1>4. CASE p.kind = "keepalive"
    <2>1. server' = server
      BY <1>4 DEF Server!client_recv_if_handler_send
    <2>2. 1 \notin Rebinding(q, cs[k].conid)
      BY <1>3, <1>4
    <2> QED
      BY <2>1, <2>2 DEF Kept, SocketLike
  <1>5. CASE p.kind # "keepalive"
    <2> DEFINE old == {i \in Server!WithConidOf(server[s], p) : Server!CloseOld(server[s].connections[i], p)}
               client == IF old = {} THEN server[s]
                         ELSE Server!connection_close(server[s], CHOOSE i \in old : TRUE)
    <2>1. p \in DataPackets
      BY <1>1, <1>5 DEF Packets, Client!Keepalive
    <2>2. \/ server' = [server EXCEPT ![s] = Server!connection_init(client, p)]
          \/ \E i \in Server!WithConidOf(client, p), sent \in BOOLEAN :
               server' = [server EXCEPT ![s] = Server!connection_send_to_udp(client, i, p, sent)]
      BY <1>5 DEF Server!client_recv_if_handler_send
    <2>3. /\ Good(client)
          /\ \A j \in 1..Len(client.connections) : \E m \in 1..Len(cs) :
               /\ client.connections[j] = cs[m]
               /\ cs[m].conid = p.conid => ~Server!CloseOld(cs[m], p)
      <3>1. CASE old = {}
        <4>1. \A m \in 1..Len(cs) : cs[m].conid = p.conid => ~Server!CloseOld(cs[m], p)
          BY <1>2, <3>1, Zenon DEF Server!WithConidOf
        <4>2. client = server[s]
          BY <3>1
        <4> HIDE DEF client
        <4> QED
          BY <1>2, <4>1, <4>2
      <3>2. CASE old # {}
        <4>1. PICK i : i = (CHOOSE j \in old : TRUE)
          OBVIOUS
        <4>2. i \in old
          BY <3>2, <4>1, Zenon
        <4>3. i \in 1..Len(cs) /\ cs[i].conid = p.conid
          BY <1>2, <4>2, Zenon DEF Server!WithConidOf
        <4>4. client = Server!connection_close(server[s], i)
          BY <3>2, <4>1, Zenon
        <4> HIDE DEF client
        <4>5. /\ Good(Server!connection_close(server[s], i))
              /\ IsWithout(Server!connection_close(server[s], i).connections, cs, i)
          BY <1>2, <4>3, CloseGood
        <4> QED
          BY <4>3, <4>4, <4>5 DEF IsWithout
      <3> QED
        BY <3>1, <3>2, Zenon
    <2> HIDE DEF client, old
    <2>4. ASSUME NEW j \in 1..Len(client.connections), NEW e, SocketLike(e, client.connections[j])
          PROVE  Kept(e, cs, q)
      <3>1. PICK m \in 1..Len(cs) : /\ client.connections[j] = cs[m]
                                    /\ cs[m].conid = p.conid => ~Server!CloseOld(cs[m], p)
        BY <2>3
      <3>2. 1 \notin Rebinding(q, cs[m].conid)
        BY <1>3, <3>1 DEF Server!CloseOld
      <3> QED
        BY <2>4, <3>1, <3>2 DEF Kept
    <2>5. CASE server' = [server EXCEPT ![s] = Server!connection_init(client, p)]
      <3>1. server'[s] = Server!connection_init(client, p)
        BY <2>5 DEF ServerInv
      <3>2. \/ server'[s].connections[k] = Server!Connection(p)
            \/ \E m \in 1..Len(client.connections) : server'[s].connections[k] = client.connections[m]
        <4>1. k \in 1..Len(Server!connection_init(client, p).connections)
          BY <3>1
        <4>2. \/ Server!connection_init(client, p).connections[k] = Server!Connection(p)
              \/ \E m \in 1..Len(client.connections) :
                   Server!connection_init(client, p).connections[k] = client.connections[m]
          BY <2>1, <2>3, <4>1, InitElements
        <4> QED
          BY <3>1, <4>2
      <3> QED
        BY <2>1, <2>4, <3>2, ConnectionOpened DEF SocketLike
    <2>6. CASE \E i \in Server!WithConidOf(client, p), sent \in BOOLEAN :
                 server' = [server EXCEPT ![s] = Server!connection_send_to_udp(client, i, p, sent)]
      <3>1. DOMAIN client.connections = 1..Len(client.connections) /\ client.connections \in Seq(ServerConnections)
        BY <2>3, ServerClientFields DEF Good
      <3>2. PICK i \in 1..Len(client.connections), sent \in BOOLEAN :
              /\ client.connections[i].conid = p.conid
              /\ server' = [server EXCEPT ![s] = Server!connection_send_to_udp(client, i, p, sent)]
        BY <2>6, <3>1, Zenon DEF Server!WithConidOf
      <3>3. PICK was : was = client.connections[i]
        OBVIOUS
      <3>4. PICK con : con = IF sent THEN [was EXCEPT !.asked = was.asked \union {p.addr}] ELSE was
        OBVIOUS
      <3>5. was \in ServerConnections /\ was.conid = p.conid
        BY <3>1, <3>2, <3>3, ServerConnectionFields
      <3>6. PICK m \in 1..Len(cs) : was = cs[m] /\ ~Server!CloseOld(cs[m], p)
        BY <2>3, <3>3, <3>5
      <3>7. was.asked = was.asked \union {p.addr} /\ p.addr \in Conaddrs
        <4>1. PICK addr \in Conaddrs : was.asked = {addr} /\ \A b \in Before(q, was.conid) : b = addr
          BY <3>6 DEF Own
        <4>2. p.addr \in Before(q, p.conid)
          <5>1. 1 \in OfAt(q, p.conid)
            BY <1>1, <2>1 DEF OfAt, DataPackets
          <5>2. ~q[1].rebind
            BY <1>1, <3>6 DEF Server!CloseOld
          <5> QED
            BY <1>1, <5>1, <5>2, TailOwn
        <4> QED
          BY <2>1, <3>5, <4>1, <4>2 DEF DataPackets
      <3>8. con \in ServerConnections /\ SocketLike(con, was)
        <4>1. CASE sent
          BY <3>4, <3>5, <3>7, <4>1 DEF ServerConnections, SocketLike
        <4>2. CASE ~sent
          BY <3>4, <3>5, <4>2 DEF SocketLike
        <4> QED
          BY <4>1, <4>2
      <3>9. server'[s] = Server!MovedToEnd(client, i, con)
        BY <3>2, <3>3, <3>4 DEF ServerInv, Server!connection_send_to_udp
      <3>10. SocketsLike(server'[s].connections, client.connections)
        BY <2>3, <3>3, <3>8, <3>9, MovedLike
      <3> QED
        BY <2>4, <3>10 DEF SocketsLike
    <2> QED
      BY <2>2, <2>5, <2>6
  <1> QED
    BY <1>4, <1>5

\* The server takes the first packet that is on its way to it.
LEMMA ServerReceivesOwned ==
  ASSUME GatewayInv, Owned, NEW s \in Clients, ServerReceives(s)
  PROVE  Owned'
  <1> DEFINE q == up[s]
             cs == server[s].connections
             new == server'[s].connections
  <1>1. /\ up \in [Clients -> Seq(Packets)] /\ link \in Clients \union {NoLink}
        /\ ServerInv /\ q \in Seq(Packets) /\ q # <<>>
    BY DEF GatewayInv, LinkInv, ServerReceives
  <1>2. /\ Server!client_recv_if_handler_send(s, Head(q)) /\ up' = [up EXCEPT ![s] = Tail(q)]
        /\ UNCHANGED <<connections, link>>
    BY DEF ServerReceives, clientVars
  <1>3. Tail(q) \in Seq(Packets) /\ Head(q) = q[1] /\ 1 \in 1..Len(q)
    BY <1>1, TailFacts
  <1>4. up'[s] = Tail(q) /\ \A t \in Clients : t # s => up'[t] = up[t]
    BY <1>1, <1>2
  <1>5. \A t \in Clients : t # s => server'[t] = server[t]
    BY <1>1, <1>2 DEF ServerInv, Server!client_recv_if_handler_send
  <1>6. \A k \in 1..Len(new) : Kept(new[k], cs, q) \/ Opened(new[k], q[1])
    <2>1. \A k \in 1..Len(server[s].connections) : Own(server[s].connections[k], q)
      BY DEF Owned, SocketsOwn
    <2> QED
      BY <1>1, <1>2, <1>3, <2>1, ReceiveSockets
  <1>7. \A c \in Conids : Steady(q, c)
    BY DEF Owned, LinksSteady
  <1>8. \A k \in 1..Len(cs) : Own(cs[k], q)
    BY DEF Owned, SocketsOwn
  <1> HIDE DEF q, cs, new
  <1>9. ASSUME q[1] \in DataPackets
        PROVE  1 \in OfAt(q, q[1].conid) /\ q[1].conid \in Conids /\ q[1].addr \in Conaddrs
    BY <1>3, <1>9 DEF OfAt, DataPackets
  <1>10. ASSUME NEW k \in 1..Len(new) PROVE Own(new[k], Tail(q))
    <2>1. CASE Kept(new[k], cs, q)
      <3>1. PICK m \in 1..Len(cs) : SocketLike(new[k], cs[m]) /\ 1 \notin Rebinding(q, cs[m].conid)
        BY <2>1 DEF Kept
      <3>2. \A b \in Before(Tail(q), cs[m].conid) : b \in Before(q, cs[m].conid)
        BY <1>1, <3>1, TailPlain
      <3> QED
        BY <1>8, <3>1, <3>2 DEF Own, SocketLike
    <2>2. CASE Opened(new[k], q[1])
      <3>1. \A b \in Before(Tail(q), q[1].conid) : b = q[1].addr
        BY <1>1, <1>7, <1>9, <2>2, TailOwn DEF Opened
      <3> QED
        BY <1>9, <2>2, <3>1 DEF Opened, Own
    <2> QED
      BY <1>6, <2>1, <2>2
  <1>11. SocketsOwn(server', up')
    <2> SUFFICES ASSUME NEW t \in Clients, NEW k \in 1..Len(server'[t].connections)
                 PROVE  Own(server'[t].connections[k], up'[t])
      BY DEF SocketsOwn
    <2>1. CASE t = s
      BY <1>4, <1>10, <2>1 DEF new
    <2>2. CASE t # s
      BY <1>4, <1>5, <2>2 DEF Owned, SocketsOwn
    <2> QED
      BY <2>1, <2>2
  <1>12. LinksSteady(up')
    <2> SUFFICES ASSUME NEW t \in Clients, NEW c \in Conids PROVE Steady(up'[t], c)
      BY DEF LinksSteady
    <2>1. CASE t = s
      BY <1>1, <1>4, <1>7, <2>1, TailSteady
    <2>2. CASE t # s
      BY <1>4, <2>2 DEF Owned, LinksSteady
    <2> QED
      BY <2>1, <2>2
  <1>13. CASE link # s
    <2>1. OnWay' = OnWay /\ (link # NoLink => server'[link] = server[link] /\ up'[link] = up[link])
      BY <1>1, <1>2, <1>4, <1>5, <1>13 DEF OnWay
    <2> QED
      BY <1>2, <1>11, <1>12, <2>1 DEF Owned
  <1>14. CASE link = s
    <2>1. OnWay = q /\ OnWay' = Tail(q) /\ link # NoLink
      BY <1>2, <1>4, <1>14, GatewayAssumption DEF OnWay, q
    <2>2. ClientGoesOn(connections, q) /\ Known(q, connections) /\ SocketsMatch(cs, connections, q)
      BY <1>14, <2>1 DEF Owned, cs, q
    <2>3. ClientGoesOn(connections, Tail(q))
      <3>1. \A c : After(Tail(q), c) \subseteq After(q, c)
        BY <1>1, TailSteady
      <3> QED
        BY <2>2, <3>1, FitsLess DEF ClientGoesOn
    <2>4. Known(Tail(q), connections)
      <3>1. /\ Len(Tail(q)) = Len(q) - 1
            /\ \A j \in 1..(Len(q) - 1) : Tail(q)[j] = q[j + 1] /\ j + 1 \in 1..Len(q)
        BY <1>1
      <3> QED
        BY <2>2, <3>1 DEF Known
    <2>5. SocketsMatch(new, connections, Tail(q))
      <3> SUFFICES ASSUME NEW k \in 1..Len(new)
                   PROVE  \E i \in 1..Len(connections) : Matches(new[k], connections[i], Tail(q))
        BY DEF SocketsMatch
      <3>1. CASE Kept(new[k], cs, q)
        <4>1. PICK m \in 1..Len(cs) : SocketLike(new[k], cs[m]) /\ 1 \notin Rebinding(q, cs[m].conid)
          BY <3>1 DEF Kept
        <4>2. PICK i \in 1..Len(connections) : Matches(cs[m], connections[i], q)
          BY <2>2 DEF SocketsMatch
        <4>3. Rebinds(q, cs[m].conid) => Rebinds(Tail(q), cs[m].conid)
          BY <1>1, <4>1, TailPlain
        <4>4. Matches(new[k], connections[i], Tail(q))
          BY <4>1, <4>2, <4>3 DEF Matches, SocketLike
        <4> QED
          BY <4>4
      <3>2. CASE Opened(new[k], q[1])
        <4>1. q[1].kind = "data" /\ new[k].conid = q[1].conid /\ new[k].asked = {q[1].addr}
          BY <3>2 DEF Opened, DataPackets
        <4>2. PICK i \in 1..Len(connections) : connections[i].conid = q[1].conid
          BY <1>3, <2>2, <4>1 DEF Known
        <4>3. ASSUME ~Rebinds(Tail(q), q[1].conid) PROVE Fits({q[1].addr}, connections[i])
          <5>1. q[1].addr \in After(q, q[1].conid)
            BY <1>1, <1>9, <3>2, <4>3, TailOwn DEF Opened
          <5>2. Fits(After(q, q[1].conid), connections[i]) /\ {q[1].addr} \subseteq After(q, q[1].conid)
            BY <2>2, <4>2, <5>1 DEF ClientGoesOn
          <5> QED
            BY <5>2, FitsLess
        <4>4. Matches(new[k], connections[i], Tail(q))
          BY <4>1, <4>2, <4>3 DEF Matches
        <4> QED
          BY <4>4
      <3> QED
        BY <1>6, <3>1, <3>2
    <2> QED
      BY <1>2, <1>4, <1>11, <1>12, <1>14, <2>1, <2>3, <2>4, <2>5 DEF Owned, new
  <1> QED
    BY <1>13, <1>14

\* The flow of the client that has the output sends: its packet goes from the front of
\* its buffer to the end of the link, and the order of its packets stays as it was.
LEMMA ClientSendsOwned ==
  ASSUME GatewayInv, Owned, ClientSends
  PROVE  Owned'
  <1> DEFINE q == up[link]
  <1>1. PICK p : Client!output_handler_done(p) /\ up' = [up EXCEPT ![link] = Append(up[link], p)]
    BY Zenon DEF ClientSends
  <1>2. /\ up \in [Clients -> Seq(Packets)] /\ link \in Clients /\ link # NoLink
        /\ UNCHANGED <<server, link>> /\ ClientInv
    BY DEF GatewayInv, LinkInv, ClientSends
  <1>3. /\ connections \in Seq(ClientConnections) /\ Distinct(connections)
        /\ DOMAIN connections = 1..Len(connections)
    BY <1>2, DistinctIsNumbers DEF ClientInv
  <1>4. p \in Packets /\ q \in Seq(Packets)
    BY <1>1, <1>2, DoneClientInv
  <1>5. up'[link] = Append(q, p) /\ \A t \in Clients : t # link => up'[t] = up[t]
    BY <1>1, <1>2
  <1>6. OnWay = q /\ OnWay' = Append(q, p)
    BY <1>2, <1>5 DEF OnWay
  <1>7. /\ \A c \in Conids : Steady(q, c)
        /\ ClientGoesOn(connections, q) /\ Known(q, connections)
        /\ SocketsMatch(server[link].connections, connections, q)
        /\ \A k \in 1..Len(server[link].connections) : Own(server[link].connections[k], q)
    BY <1>2, <1>6 DEF Owned, SocketsOwn, LinksSteady
  <1> HIDE DEF q
  <1>8. /\ Len(Append(q, p)) = Len(q) + 1 /\ Len(q) \in Nat /\ Append(q, p)[Len(q) + 1] = p
        /\ \A j \in 1..Len(q) : Append(q, p)[j] = q[j]
    BY <1>4, AppendFacts
  <1>9. \A j \in 1..Len(Append(q, p)) : j = Len(q) + 1 \/ j \in 1..Len(q)
    BY <1>8
  \* What is left to show, of what is on its way over this link.
  <1>10. ASSUME \A k \in 1..Len(server[link].connections) : Own(server[link].connections[k], Append(q, p)),
                \A c \in Conids : Steady(Append(q, p), c),
                ClientGoesOn(connections', Append(q, p)), Known(Append(q, p), connections'),
                SocketsMatch(server[link].connections, connections', Append(q, p))
         PROVE  Owned'
    <2>1. SocketsOwn(server', up')
      BY <1>2, <1>5, <1>10 DEF Owned, SocketsOwn
    <2>2. LinksSteady(up')
      BY <1>2, <1>5, <1>10 DEF Owned, LinksSteady
    <2> QED
      BY <1>2, <1>5, <1>6, <1>10, <2>1, <2>2 DEF Owned
  <1>11. CASE p = Client!Keepalive /\ UNCHANGED connections
    <2>1. p.kind # "data"
      BY <1>11 DEF Client!Keepalive
    <2>2. \A c : /\ Steady(q, c) => Steady(Append(q, p), c)
                 /\ Rebinds(Append(q, p), c) = Rebinds(q, c)
                 /\ Before(Append(q, p), c) = Before(q, c) /\ After(Append(q, p), c) = After(q, c)
      BY <1>4, <2>1, AppendOther
    <2>3. \A k \in 1..Len(server[link].connections) : Own(server[link].connections[k], Append(q, p))
      BY <1>7, <2>2 DEF Own
    <2>4. ClientGoesOn(connections', Append(q, p))
      BY <1>7, <1>11, <2>2 DEF ClientGoesOn
    <2>5. Known(Append(q, p), connections')
      BY <1>7, <1>8, <1>9, <1>11, <2>1 DEF Known
    <2>6. SocketsMatch(server[link].connections, connections', Append(q, p))
      BY <1>7, <1>11, <2>2 DEF SocketsMatch, Matches
    <2> QED
      BY <1>7, <1>10, <2>2, <2>3, <2>4, <2>5, <2>6
  <1>12. CASE \E i \in Client!WithConid(sending) :
                /\ p = Head(connections[i].buf)
                /\ connections' = [connections EXCEPT ![i] = Client!Sent(@)]
    <2>1. PICK i \in 1..Len(connections) :
            /\ connections[i].conid = sending /\ p = Head(connections[i].buf)
            /\ connections' = [connections EXCEPT ![i] = Client!Sent(@)]
      BY <1>3, <1>12, Zenon DEF Client!WithConid
    <2>2. PICK was : was = connections[i]
      OBVIOUS
    <2>3. PICK con : con = Client!Sent(was)
      OBVIOUS
    <2>4. was \in ClientConnections /\ was.conid \in Conids
      BY <1>3, <2>2, ConnectionFields
    <2>5. was.buf # <<>>
      <3>1. PICK j \in 1..Len(connections) : connections[j].conid = sending /\ connections[j].buf # <<>>
        BY <1>2, <2>1, <2>2, <2>4 DEF ClientInv, SendingHasPacket, Holds
      <3>2. i = j
        BY <1>3, <2>1, <3>1 DEF Distinct
      <3> QED
        BY <2>2, <3>1, <3>2
    <2>6. Ready(was) /\ Fits(After(q, was.conid), was)
      BY <1>7, <2>2 DEF ClientGoesOn
    <2>7. /\ con.conid = was.conid /\ Ready(con) /\ Fits({p.addr}, con)
          /\ p \in DataPackets /\ p.conid = was.conid
          /\ \A A : Fits(A, was) /\ ~p.rebind => \A a \in A : a = p.addr
      BY <2>1, <2>2, <2>3, <2>4, <2>5, <2>6, SentCarries
    <2>8. con \in ClientConnections
      <3>1. Tail(was.buf) \in Seq(DataPackets)
        BY <2>4, <2>5, TailFacts DEF ClientConnections
      <3> QED
        BY <2>3, <2>4, <3>1 DEF Client!Sent, ClientConnections
    <2>9. connections' = [connections EXCEPT ![i] = con]
      BY <2>1, <2>2, <2>3
    <2>10. /\ Len(connections') = Len(connections)
           /\ \A j \in 1..Len(connections) : connections'[j] = IF j = i THEN con ELSE connections[j]
      BY <1>3, <2>8, <2>9, ExceptSeq
    <2>11. ASSUME NEW c, c # p.conid
           PROVE  /\ Steady(q, c) => Steady(Append(q, p), c)
                  /\ Rebinds(Append(q, p), c) = Rebinds(q, c)
                  /\ Before(Append(q, p), c) = Before(q, c) /\ After(Append(q, p), c) = After(q, c)
      BY <1>4, <2>11, AppendOther
    <2>12. /\ Steady(Append(q, p), p.conid)
           /\ \A a \in After(Append(q, p), p.conid) : a = p.addr
           /\ Rebinds(q, p.conid) => Rebinds(Append(q, p), p.conid)
           /\ p.rebind => Rebinds(Append(q, p), p.conid)
           /\ \A b \in Before(Append(q, p), p.conid) :
                b \in Before(q, p.conid) \/ (b = p.addr /\ ~p.rebind /\ ~Rebinds(q, p.conid))
      <3>1. Steady(q, p.conid)
        BY <1>7, <2>4, <2>7
      <3>2. CASE p.rebind
        BY <1>4, <2>7, <3>1, <3>2, AppendRebind
      <3>3. CASE ~p.rebind
        <4>1. \A a \in After(q, p.conid) : a = p.addr
          BY <2>6, <2>7, <3>3
        <4> QED
          BY <1>4, <2>7, <3>1, <3>3, <4>1, AppendPlain
      <3> QED
        BY <3>2, <3>3
    \* The socket with this number, if its REBIND is not on its way, is that of the packet's pair.
    <2>13. ASSUME NEW k \in 1..Len(server[link].connections), server[link].connections[k].conid = p.conid,
                  ~p.rebind, ~Rebinds(q, p.conid)
           PROVE  \A a \in server[link].connections[k].asked : a = p.addr
      <3>1. PICK j \in 1..Len(connections) : Matches(server[link].connections[k], connections[j], q)
        BY <1>7 DEF SocketsMatch
      <3>2. j = i
        BY <1>3, <2>2, <2>7, <2>13, <3>1 DEF Matches, Distinct
      <3> QED
        BY <2>2, <2>7, <2>13, <3>1, <3>2 DEF Matches
    <2>14. ASSUME NEW k \in 1..Len(server[link].connections)
           PROVE  Own(server[link].connections[k], Append(q, p))
      <3>1. PICK addr \in Conaddrs :
              /\ server[link].connections[k].asked = {addr}
              /\ addr[2] = server[link].connections[k].orig_addr
              /\ \A b \in Before(q, server[link].connections[k].conid) : b = addr
        BY <1>7 DEF Own
      <3>2. \A b \in Before(Append(q, p), server[link].connections[k].conid) : b = addr
        <4>1. CASE server[link].connections[k].conid = p.conid
          BY <2>12, <2>13, <3>1, <4>1
        <4>2. CASE server[link].connections[k].conid # p.conid
          BY <2>11, <3>1, <4>2
        <4> QED
          BY <4>1, <4>2
      <3> QED
        BY <3>1, <3>2 DEF Own
    <2>15. \A c \in Conids : Steady(Append(q, p), c)
      BY <1>7, <2>11, <2>12
    <2>16. ClientGoesOn(connections', Append(q, p))
      <3> SUFFICES ASSUME NEW j \in 1..Len(connections)
                   PROVE  /\ Ready(connections'[j])
                          /\ Fits(After(Append(q, p), connections'[j].conid), connections'[j])
        BY <2>10 DEF ClientGoesOn
      <3>1. CASE j = i
        <4>1. After(Append(q, p), con.conid) \subseteq {p.addr}
          BY <2>7, <2>12
        <4> QED
          BY <2>7, <2>10, <3>1, <4>1, FitsLess
      <3>2. CASE j # i
        <4>1. connections'[j] = connections[j] /\ connections[j].conid # p.conid
          BY <1>3, <2>2, <2>7, <2>10, <3>2 DEF Distinct
        <4> QED
          BY <1>7, <2>11, <4>1 DEF ClientGoesOn
      <3> QED
        BY <3>1, <3>2
    <2>17. Known(Append(q, p), connections')
      <3>1. \A j \in 1..Len(connections) : connections'[j].conid = connections[j].conid
        BY <2>2, <2>7, <2>10
      <3>2. ASSUME NEW j \in 1..Len(Append(q, p)), Append(q, p)[j].kind = "data"
            PROVE  \E m \in 1..Len(connections) : connections[m].conid = Append(q, p)[j].conid
        <4>1. CASE j = Len(q) + 1
          BY <1>8, <2>2, <2>7, <4>1
        <4>2. CASE j \in 1..Len(q)
          BY <1>7, <1>8, <3>2, <4>2 DEF Known
        <4> QED
          BY <1>9, <4>1, <4>2
      <3> QED
        BY <2>10, <3>1, <3>2 DEF Known
    <2>18. SocketsMatch(server[link].connections, connections', Append(q, p))
      <3> SUFFICES ASSUME NEW k \in 1..Len(server[link].connections)
                   PROVE  \E j \in 1..Len(connections) :
                            Matches(server[link].connections[k], connections'[j], Append(q, p))
        BY <2>10 DEF SocketsMatch
      <3>1. PICK j \in 1..Len(connections) : Matches(server[link].connections[k], connections[j], q)
        BY <1>7 DEF SocketsMatch
      <3>2. CASE j = i
        <4>1. con.conid = server[link].connections[k].conid /\ con.conid = p.conid
          BY <2>2, <2>7, <3>1, <3>2 DEF Matches
        <4>2. ASSUME ~Rebinds(Append(q, p), con.conid) PROVE Fits(server[link].connections[k].asked, con)
          <5>1. server[link].connections[k].asked \subseteq {p.addr}
            BY <2>12, <2>13, <4>1, <4>2
          <5> QED
            BY <2>7, <5>1, FitsLess
        <4>3. Matches(server[link].connections[k], con, Append(q, p))
          BY <4>1, <4>2 DEF Matches
        <4> QED
          BY <2>10, <3>2, <4>3
      <3>3. CASE j # i
        <4>1. connections'[j] = connections[j] /\ connections[j].conid # p.conid
          BY <1>3, <2>2, <2>7, <2>10, <3>3 DEF Distinct
        <4>2. Matches(server[link].connections[k], connections'[j], Append(q, p))
          BY <2>11, <3>1, <4>1 DEF Matches
        <4> QED
          BY <4>2
      <3> QED
        BY <3>2, <3>3
    <2> QED
      BY <1>10, <2>14, <2>15, <2>16, <2>17, <2>18
  <1> QED
    BY <1>1, <1>11, <1>12 DEF Client!output_handler_done

LEMMA NextOwned == GatewayInv /\ OwnedInv /\ [Next]_vars => OwnedInv'
  <1> SUFFICES ASSUME GatewayInv, OwnedInv, [Next]_vars, ~lost' PROVE Owned'
    BY DEF OwnedInv
  <1>1. ClientInv /\ ServerInv /\ link \in Clients \union {NoLink}
    BY DEF GatewayInv, LinkInv
  <1>2. CASE Submit
    <2>1. PICK addr \in Conaddrs : Client!UdpGwClient_SubmitPacket(addr)
      BY <1>2 DEF Submit
    <2>2. ~lost /\ Succeeds(connections', connections)
      BY <1>1, <2>1, SubmitSucceeds
    <2> QED
      BY <1>2, <2>2, SucceedsOwned DEF Submit, linkVars, OwnedInv
  <1>3. CASE ClientReceives
    <2>1. UNCHANGED lost /\ Succeeds(connections', connections)
      BY <1>1, <1>3, ReceiveSucceeds DEF ClientReceives
    <2> QED
      BY <1>3, <2>1, SucceedsOwned DEF ClientReceives, OwnedInv
  <1>4. CASE ClientSends
    <2>1. UNCHANGED lost
      BY <1>4 DEF ClientSends, Client!output_handler_done
    <2> QED
      BY <1>4, <2>1, ClientSendsOwned DEF OwnedInv
  <1>5. CASE Connect
    <2>1. UNCHANGED lost
      BY <1>5 DEF Connect, Client!SocksUp
    <2> QED
      BY <1>5, <2>1, ConnectOwned DEF OwnedInv
  <1>6. CASE ClientLosesLink
    <2>1. UNCHANGED lost
      BY <1>6 DEF ClientLosesLink, Client!free_socks
    <2> QED
      BY <1>6, <2>1, LosesLinkOwned DEF OwnedInv
  <1>7. CASE ClientSchedules \/ ConnectFails \/ Reconnect \/ UNCHANGED vars
    <2>1. UNCHANGED <<connections, server, link, up, lost>>
      BY <1>7 DEF ClientSchedules, ConnectFails, Reconnect, vars, clientVars, linkVars,
                  Client!input_handler_send, Client!send_monitor_handler, Client!SocksUp,
                  Client!reconnect_timer_handler
    <2> QED
      BY <2>1, SucceedsSame, SucceedsOwned DEF OwnedInv
  <1>8. ASSUME NEW s \in Clients, ServerReceives(s) PROVE Owned'
    <2>1. UNCHANGED lost
      BY <1>8 DEF ServerReceives, clientVars
    <2> QED
      BY <1>8, <2>1, ServerReceivesOwned DEF OwnedInv
  <1>9. ASSUME NEW s \in Clients,
               \/ Answer(s) \/ SocketFails(s) \/ ServerSchedules(s) \/ ServerSends(s) \/ ServerLosesLink(s)
        PROVE  Owned'
    <2>1. UNCHANGED <<connections, link, up, lost>>
      BY <1>9 DEF Answer, SocketFails, ServerSchedules, ServerSends, ServerLosesLink, clientVars, linkVars
    <2>2. \A t \in Clients : SocketsLike(server'[t].connections, server[t].connections)
      <3>1. CASE Answer(s)
        BY <1>1, <3>1, AnswerLike DEF Answer
      <3>2. CASE SocketFails(s)
        BY <1>1, <3>2, SocketEventLike DEF SocketFails
      <3>3. CASE ServerSchedules(s)
        BY <1>1, <3>3, ScheduleLike DEF ServerSchedules
      <3>4. CASE ServerSends(s)
        <4>1. PICK p : Server!output_handler_done(s, p)
          BY <3>4, Zenon DEF ServerSends
        <4> QED
          BY <1>1, <4>1, SentLike
      <3>5. CASE ServerLosesLink(s)
        BY <1>1, <3>5, FreeLike DEF ServerLosesLink
      <3> QED
        BY <1>9, <3>1, <3>2, <3>3, <3>4, <3>5
    <2> QED
      BY <1>1, <2>1, <2>2, LikeOwned DEF OwnedInv
  <1> QED
    BY <1>2, <1>3, <1>4, <1>5, <1>6, <1>7, <1>8, <1>9 DEF Next

\* Although numbers are given to other pairs while packets wait in buffers and links, fail
\* with them or are read from a link that the client has lost, a socket of the gateway
\* sends for one pair only, and is that pair's or about to be closed (reuse_connection,
\* connection_send, client_recv_if_handler_send).
THEOREM SocketsAlwaysOwned == Spec => []SocketsOwned
  <1>1. GatewayInv /\ OwnedInv => SocketsOwned
    <2> SUFFICES ASSUME GatewayInv, Owned, NEW s \in Clients, NEW k \in DOMAIN server[s].connections
                 PROVE  LET con == server[s].connections[k] IN
                        /\ \E addr \in con.asked : con.asked = {addr} /\ addr[2] = con.orig_addr
                        /\ s = link => \/ RebindComing(con.conid)
                                       \/ \E i \in Client!WithConid(con.conid) : connections[i].addr \in con.asked
      BY DEF OwnedInv, SocketsOwned
    <2> DEFINE con == server[s].connections[k]
    <2>1. k \in 1..Len(server[s].connections)
      BY ServerClientFields DEF GatewayInv, ServerInv, Good
    <2>2. PICK addr \in Conaddrs : con.asked = {addr} /\ addr[2] = con.orig_addr
      BY <2>1 DEF Owned, SocketsOwn, Own
    <2>3. ASSUME s = link
          PROVE  \/ RebindComing(con.conid)
                 \/ \E i \in Client!WithConid(con.conid) : connections[i].addr \in con.asked
      <3>1. link # NoLink /\ up[link] \in Seq(Packets)
        BY <2>3, GatewayAssumption DEF GatewayInv, LinkInv
      <3>2. PICK i \in 1..Len(connections) : Matches(con, connections[i], up[link])
        BY <2>1, <2>3, <3>1 DEF Owned, SocketsMatch
      <3>3. connections \in Seq(ClientConnections) /\ connections[i].buf \in Seq(DataPackets)
        BY ConnectionFields DEF GatewayInv, ClientInv
      <3>4. i \in Client!WithConid(con.conid)
        BY <3>2, <3>3 DEF Client!WithConid, Matches
      <3>5. CASE Rebinds(up[link], con.conid)
        BY <3>1, <3>5 DEF Rebinds, Rebinding, OfAt, RebindComing
      <3>6. CASE Rebinds(connections[i].buf, con.conid)
        BY <3>3, <3>4, <3>6 DEF Rebinds, Rebinding, OfAt, RebindComing
      <3>7. CASE ~Rebinds(up[link], con.conid) /\ ~Rebinds(connections[i].buf, con.conid)
        <4>1. connections[i].addr = addr
          BY <2>2, <3>2, <3>7 DEF Matches, Fits
        <4> QED
          BY <2>2, <3>4, <4>1
      <3> QED
        BY <3>5, <3>6, <3>7
    <2> QED
      BY <2>2, <2>3
  <1> QED
    BY <1>1, GatewayInvariant, InitOwned, NextOwned, PTL DEF Spec

=============================================================================
