------------------------------ MODULE Gateway ------------------------------
(***************************************************************************)
(* The UDP gateway's client and server with the links between them.  A     *)
(* link carries packets in order both ways; it may fail at any time, and   *)
(* then each end hears of it on its own: the client opens the next link    *)
(* while the server may still have the last one.                           *)
(***************************************************************************)
EXTENDS Integers, Sequences

CONSTANTS
  Conaddrs, MaxConnections, BufferSize,    \* of UdpGwClient
  Clients, MaxForClient, ClientBufferSize, \* of UdpGwServer
  NoLink,
  LinkSize,     \* bound on the packets on their way in one direction
  MaxSubmits, MaxAnswers, MaxFailures  \* bounds on what the applications, remote hosts and network do

VARIABLES
  connections, next_conid, keepalive_sending, sending, output, socks, lost,
  server,
  link,                        \* the client of the server at the other end, or NoLink
  up, down,                    \* packets on their way to and from each of them
  submits, answers, failures   \* how many there have been

Client == INSTANCE UdpGwClient
Server == INSTANCE UdpGwServer

ASSUME GatewayAssumption ==
  /\ MaxConnections \in Nat \ {0} /\ BufferSize \in Nat \ {0}
  /\ MaxForClient \in Nat \ {0} /\ ClientBufferSize \in Nat \ {0}
  /\ NoLink \notin Clients /\ LinkSize \in Nat \ {0}

clientVars == <<connections, next_conid, keepalive_sending, sending, output, socks, lost>>
linkVars == <<link, up, down>>
bounds == <<submits, answers, failures>>
vars == <<clientVars, server, linkVars, bounds>>

Init ==
  /\ Client!ClientInit /\ Server!ServerInit
  /\ link = NoLink /\ up = [s \in Clients |-> <<>>] /\ down = [s \in Clients |-> <<>>]
  /\ submits = 0 /\ answers = 0 /\ failures = 0

-----------------------------------------------------------------------------
\* The client of tun2socks hands over a datagram of one application.
Submit ==
  /\ submits < MaxSubmits /\ submits' = submits + 1
  /\ \E addr \in Conaddrs : Client!UdpGwClient_SubmitPacket(addr)
  /\ UNCHANGED <<server, linkVars, answers, failures>>

\* Within the client.
ClientSchedules ==
  /\ Client!input_handler_send \/ Client!send_monitor_handler
  /\ UNCHANGED <<server, linkVars, bounds>>

ClientSends ==
  /\ link # NoLink /\ Len(up[link]) < LinkSize
  /\ \E p \in {Client!Keepalive} \union {Head(connections[i].buf) : i \in Client!NotEmpty} :
       Client!output_handler_done(p) /\ up' = [up EXCEPT ![link] = Append(@, p)]
  /\ UNCHANGED <<server, link, down, bounds>>

ClientReceives ==
  /\ link # NoLink /\ down[link] # <<>>
  /\ Client!recv_interface_handler_send(Head(down[link]))
  /\ down' = [down EXCEPT ![link] = Tail(@)]
  /\ UNCHANGED <<server, link, up, bounds>>

\* The server may go on to read what a client has sent before the link failed.
ServerReceives(s) ==
  /\ up[s] # <<>> /\ Server!client_recv_if_handler_send(s, Head(up[s]))
  /\ up' = [up EXCEPT ![s] = Tail(@)]
  /\ UNCHANGED <<clientVars, link, down, bounds>>

\* A remote host answers.
Answer(s) ==
  /\ answers < MaxAnswers /\ answers' = answers + 1
  /\ \E i \in 1..MaxForClient : Server!connection_udp_recv_if_handler_send(s, i)
  /\ UNCHANGED <<clientVars, linkVars, submits, failures>>

SocketFails(s) ==
  /\ failures < MaxFailures /\ failures' = failures + 1
  /\ \E i \in 1..MaxForClient : Server!connection_dgram_handler_event(s, i)
  /\ UNCHANGED <<clientVars, linkVars, submits, answers>>

ServerSchedules(s) ==
  /\ \E i \in 1..MaxForClient : Server!schedule(s, i)
  /\ UNCHANGED <<clientVars, linkVars, bounds>>

\* What is written to a link that has failed is gone.
ServerSends(s) ==
  /\ Len(down[s]) < LinkSize
  /\ \E p \in {server[s].sending[i] : i \in DOMAIN server[s].sending} :
       /\ Server!output_handler_done(s, p)
       /\ down' = IF link = s THEN [down EXCEPT ![s] = Append(@, p)] ELSE down
  /\ UNCHANGED <<clientVars, link, up, bounds>>

-----------------------------------------------------------------------------
\* The SOCKS server has connected to the gateway, which takes the client if it has room.
Connect ==
  /\ \E s \in Clients :
       /\ Server!listener_handler(s) /\ link' = s
       /\ up' = [up EXCEPT ![s] = <<>>] /\ down' = [down EXCEPT ![s] = <<>>]
  /\ Client!SocksUp(TRUE)
  /\ UNCHANGED bounds

\* The client fails to set up the link it has been given.
ConnectFails ==
  /\ failures < MaxFailures /\ failures' = failures + 1
  /\ Client!SocksUp(FALSE)
  /\ UNCHANGED <<server, linkVars, submits, answers>>

Reconnect ==
  /\ \E initialized \in BOOLEAN :
       /\ Client!reconnect_timer_handler(initialized)
       /\ initialized \/ failures < MaxFailures
       /\ failures' = IF initialized THEN failures ELSE failures + 1
  /\ UNCHANGED <<server, linkVars, submits, answers>>

\* The link fails, the SOCKS server refuses it or the decoder of the client finds an
\* error; or the server has ended it.
Ended == link # NoLink /\ ~server[link].open

ClientLosesLink ==
  /\ Ended \/ failures < MaxFailures
  /\ failures' = IF Ended THEN failures ELSE failures + 1
  /\ Client!free_socks /\ link' = NoLink
  /\ UNCHANGED <<server, up, down, submits, answers>>

\* The server hears of a link that is gone, or takes it to be by its disconnect timer.
ServerLosesLink(s) ==
  /\ s # link \/ failures < MaxFailures
  /\ failures' = IF s # link THEN failures ELSE failures + 1
  /\ Server!client_free(s)
  /\ UNCHANGED <<clientVars, linkVars, submits, answers>>

Next ==
  \/ Submit \/ ClientSchedules \/ ClientSends \/ ClientReceives
  \/ Connect \/ ConnectFails \/ Reconnect \/ ClientLosesLink
  \/ \E s \in Clients :
       \/ ServerReceives(s) \/ Answer(s) \/ SocketFails(s)
       \/ ServerSchedules(s) \/ ServerSends(s) \/ ServerLosesLink(s)

Spec == Init /\ [][Next]_vars

\* Both programs run, timers run out and a link that is gone is noticed in the end; a
\* SOCKS server that can connect does.
FairSpec ==
  /\ Spec
  /\ WF_vars(ClientSchedules) /\ WF_vars(ClientSends) /\ WF_vars(ClientReceives)
  /\ WF_vars(Connect) /\ WF_vars(Reconnect) /\ WF_vars(Ended /\ ClientLosesLink)
  /\ \A s \in Clients :
       /\ WF_vars(ServerReceives(s)) /\ WF_vars(ServerSchedules(s)) /\ WF_vars(ServerSends(s))
       /\ WF_vars(s # link /\ ServerLosesLink(s))

-----------------------------------------------------------------------------
\* Numbers and address pairs stand for one connection each, although numbers are handed
\* out in turn, pairs change and connections are moved in the list.
NumbersDistinct ==
  \A i, j \in DOMAIN connections :
    /\ connections[i].conid \in Client!Conids
    /\ i # j => connections[i].conid # connections[j].conid /\ connections[i].addr # connections[j].addr

\* The packet that will make the server close its socket for conid is on its way.
RebindComing(conid) ==
  \/ \E i \in DOMAIN up[link] : up[link][i].kind = "data" /\ up[link][i].conid = conid /\ up[link][i].rebind
  \/ \E i \in Client!WithConid(conid) : \E k \in DOMAIN connections[i].buf : connections[i].buf[k].rebind

\* Unless a packet with REBIND has been dropped for want of buffer, a socket of the
\* server has sent the datagrams of one pair of addresses only, and that pair has its
\* number at the client, or the packet that will close the socket is on its way.
SocketsOwned ==
  ~lost => \A s \in Clients : \A k \in DOMAIN server[s].connections :
    LET con == server[s].connections[k] IN
    /\ \E addr \in con.asked : con.asked = {addr} /\ addr[2] = con.orig_addr
    /\ s = link => \/ RebindComing(con.conid)
                   \/ \E i \in Client!WithConid(con.conid) : connections[i].addr \in con.asked

\* See UdpGwServer.
PacketOutlivesConnection == Server!PacketOutlivesConnection

\* The client gets a link again, however it has lost the last one and whatever the
\* server still has of it.
LinkComesBack == []<>(socks = "up")

\* What the client has taken into a buffer is sent, over as many links as it takes.
BuffersDrain == <>[](Client!NotEmpty = {})
=============================================================================
