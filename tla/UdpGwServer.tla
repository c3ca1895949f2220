---------------------------- MODULE UdpGwServer ----------------------------
(***************************************************************************)
(* The UDP gateway, udpgw/udpgw.c.  For each client it has the connections *)
(* the client's packets name, each with a UDP socket of its own.  A        *)
(* connection that is closed while its packet is being sent to the client  *)
(* must outlive the packet: it loses its socket and its number, waits in   *)
(* closing_connections_list and is freed by the busy handler of its flow.  *)
(***************************************************************************)
EXTENDS Integers, Sequences, SequencesExt

CONSTANTS
  Clients,            \* struct client: as many as max_clients
  MaxForClient,       \* max_connections_for_client
  ClientBufferSize    \* CONNECTION_CLIENT_BUFFER_SIZE: answers not sent yet

VARIABLE server       \* the state of each client

NewClient == [open |-> TRUE, connections |-> <<>>, closing |-> {}, sending |-> <<>>]
NoClient == [NewClient EXCEPT !.open = FALSE]

\* A connection: busy while its flow is sending; asked is history, the address pairs
\* whose datagrams its socket has sent.
Connection(p) ==
  [conid |-> p.conid, orig_addr |-> p.addr[2], answers |-> <<>>, busy |-> FALSE, asked |-> {p.addr}]

ServerInit == server = [s \in Clients |-> NoClient]

-----------------------------------------------------------------------------
\* Faulty variant: a connection that is busy is freed at once.
Closing_Never(con) == {}

Closing(con) == IF con.busy THEN {con} ELSE {}

\* connection_close of the i-th connection of a client.
connection_close(client, i) ==
  [client EXCEPT !.connections = RemoveAt(@, i), !.closing = @ \union Closing(client.connections[i])]

WithConidOf(client, p) == {i \in DOMAIN client.connections : client.connections[i].conid = p.conid}

\* Faulty variant: a connection is closed for another address only.
CloseOld_Address(con, p) == con.orig_addr # p.addr[2]

CloseOld(con, p) == p.rebind \/ con.orig_addr # p.addr[2]

\* connection_init, after the least recently used connection has made room; its first
\* packet always goes out, in a job that runs before anything else does.
connection_init(client, p) ==
  LET room == IF Len(client.connections) = MaxForClient THEN connection_close(client, 1) ELSE client
  IN [room EXCEPT !.connections = Append(@, Connection(p))]

MovedToEnd(client, i, con) ==
  [client EXCEPT !.connections = Append(RemoveAt(@, i), con)]

\* connection_send_to_udp; sent is false when the UDP buffer is full.
connection_send_to_udp(client, i, p, sent) ==
  LET con == client.connections[i]
  IN MovedToEnd(client, i, IF sent THEN [con EXCEPT !.asked = @ \union {p.addr}] ELSE con)

\* A packet from the client.  A keepalive only resets the disconnect timer.
client_recv_if_handler_send(s, p) ==
  /\ server[s].open
  /\ IF p.kind = "keepalive" THEN UNCHANGED server
     ELSE LET old == {i \in WithConidOf(server[s], p) : CloseOld(server[s].connections[i], p)}
              client == IF old = {} THEN server[s]
                        ELSE connection_close(server[s], CHOOSE i \in old : TRUE)
              found == WithConidOf(client, p)
          IN \/ /\ found = {}
                /\ server' = [server EXCEPT ![s] = connection_init(client, p)]
             \/ \E i \in found, sent \in BOOLEAN :
                  server' = [server EXCEPT ![s] = connection_send_to_udp(client, i, p, sent)]

\* The socket of a connection reports an error.
connection_dgram_handler_event(s, i) ==
  /\ i \in DOMAIN server[s].connections
  /\ server' = [server EXCEPT ![s] = connection_close(@, i)]

\* A datagram arrives at the socket of a connection; it is dropped when the buffer to
\* the client is full.
connection_udp_recv_if_handler_send(s, i) ==
  /\ i \in DOMAIN server[s].connections
  /\ LET con == server[s].connections[i] IN
     \E asked \in con.asked :
       LET answer == [conid |-> con.conid, addr |-> <<asked[1], con.orig_addr>>] IN
       server' = [server EXCEPT ![s] = MovedToEnd(@, i,
         IF Len(con.answers) < ClientBufferSize
           THEN [con EXCEPT !.answers = Append(@, answer)] ELSE con)]

\* The next flow sends: the output has a packet that is in the buffer of its connection.
schedule(s, i) ==
  /\ i \in DOMAIN server[s].connections /\ server[s].sending = <<>>
  /\ LET con == server[s].connections[i] IN
     /\ con.answers # <<>>
     /\ server' = [server EXCEPT ![s] = [@ EXCEPT
          !.connections[i].busy = TRUE, !.sending = <<Head(con.answers)>>]]

Sent(con) == [con EXCEPT !.busy = FALSE, !.answers = Tail(@)]

\* The answer p has been written to the client.  The busy handler of a connection that
\* is closing frees it.
output_handler_done(s, p) ==
  /\ server[s].sending = <<p>>
  /\ LET client == server[s]
         cs == client.connections
     IN server' = [server EXCEPT ![s] = [client EXCEPT
          !.connections = [i \in DOMAIN cs |-> IF cs[i].busy THEN Sent(cs[i]) ELSE cs[i]],
          !.closing = {con \in client.closing : ~con.busy}, !.sending = <<>>]]

\* listener_handler: refused when there are max_clients.
listener_handler(s) == ~server[s].open /\ server' = [server EXCEPT ![s] = NewClient]

\* Faulty variant: the client still counts among max_clients.
Freed_Counted == NewClient

Freed == NoClient

\* client_free, after the connection has failed or ended, the decoder has found an
\* error, or the disconnect timer has run out.
client_free(s) == server[s].open /\ server' = [server EXCEPT ![s] = Freed]

-----------------------------------------------------------------------------
\* The packet that is being sent is in the buffer of a connection that exists, and a
\* connection that is closing exists for nothing else: there is one at most, it is
\* busy, and its number may be in use again.
PacketOutlivesConnection ==
  \A s \in Clients :
    LET client == server[s]
        busy == {con \in client.closing \union ToSet(client.connections) : con.busy} IN
    /\ \A con \in client.closing : con.busy
    /\ IF client.sending = <<>> THEN busy = {} ELSE \E con \in busy : busy = {con}
    /\ \A con \in busy : con.answers # <<>> /\ client.sending = <<Head(con.answers)>>
    /\ Len(client.connections) <= MaxForClient
    /\ \A i, j \in DOMAIN client.connections :
         client.connections[i].conid = client.connections[j].conid => i = j
=============================================================================
