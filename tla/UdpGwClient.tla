---------------------------- MODULE UdpGwClient ----------------------------
(***************************************************************************)
(* The client of the UDP gateway: udpgw_client/UdpGwClient.c, kept         *)
(* connected by tun2socks/SocksUdpGwClient.c.  Each pair of a local and a  *)
(* remote address has a connection with a number, conid; when there are no *)
(* numbers left the least recently used connection is given to the new     *)
(* pair, and REBIND tells the server.  The flows of the connections and of *)
(* keepalives share one output by a fair queue, PacketPassFairQueue; here  *)
(* any of them may be next.  Connections outlive the link to the server.   *)
(***************************************************************************)
EXTENDS Integers, Sequences, SequencesExt

CONSTANTS
  Conaddrs,        \* pairs of a local and a remote address
  MaxConnections,  \* max_connections
  BufferSize       \* send_buffer_size: packets of a connection not sent yet

VARIABLES
  connections,        \* connections_list, least recently used first
  next_conid,
  keepalive_sending,
  sending,            \* the flow whose packet the connector has: a conid, KeepaliveFlow or Idle
  output,             \* the packet has been passed on to the PacketStreamSender
  socks,              \* waiting: the reconnect timer runs; connecting: have_socks; up: socks_up
  lost                \* history: a packet with REBIND has been dropped

clientVars == <<connections, next_conid, keepalive_sending, sending, output, socks, lost>>

Conids == 0..(MaxConnections - 1)
KeepaliveFlow == -1
Idle == -2

\* What the server gets.  Of addr only the remote address is in the packet.
Keepalive == [kind |-> "keepalive"]
Data(conid, rebind, addr) == [kind |-> "data", conid |-> conid, rebind |-> rebind, addr |-> addr]

ClientInit ==
  /\ connections = <<>> /\ next_conid = 0 /\ keepalive_sending = FALSE
  /\ sending = Idle /\ output = FALSE /\ socks = "connecting" /\ lost = FALSE

-----------------------------------------------------------------------------
WithConid(c) == {i \in DOMAIN connections : connections[i].conid = c}

\* Faulty variant: the next number is taken without a look.
find_unused_conid_Next == {next_conid}

\* The first number from next_conid on that is not in use, starting again at 0.
find_unused_conid ==
  LET unused == {c \in Conids : WithConid(c) = {}}
      Ahead(c) == (c - next_conid) % MaxConnections
  IN {c \in unused : \A d \in unused : Ahead(c) <= Ahead(d)}

Full(con) == Len(con.buf) >= BufferSize

\* connection_send: the packet is dropped when the buffer is full.
connection_send(con, rebind) ==
  IF Full(con) THEN con ELSE [con EXCEPT !.buf = Append(@, Data(con.conid, rebind, con.addr))]

\* connection_init, with its first job, which runs before anything else does.
connection_init(addr) ==
  \E c \in find_unused_conid :
    /\ next_conid' = c
    /\ connections' = Append(connections, connection_send([conid |-> c, addr |-> addr, buf |-> <<>>], TRUE))
    /\ UNCHANGED lost

REBIND == TRUE

reuse_connection(addr) ==
  LET con == [Head(connections) EXCEPT !.addr = addr] IN
  /\ connections' = Append(Tail(connections), connection_send(con, REBIND))
  /\ lost' = (lost \/ Full(con))
  /\ UNCHANGED next_conid

MovedToEnd(i, con) == Append(RemoveAt(connections, i), con)

UdpGwClient_SubmitPacket(addr) ==
  /\ LET found == {i \in DOMAIN connections : connections[i].addr = addr} IN
     \/ \E i \in found :
          /\ connections' = MovedToEnd(i, connection_send(connections[i], FALSE))
          /\ UNCHANGED <<next_conid, lost>>
     \/ found = {} /\ Len(connections) = MaxConnections /\ reuse_connection(addr)
     \/ found = {} /\ Len(connections) < MaxConnections /\ connection_init(addr)
  /\ UNCHANGED <<keepalive_sending, sending, output, socks>>

\* The packet p comes from the server; it is dropped unless its number is known and is
\* that of its remote address.
Taken(i, p) == connections[i].conid = p.conid /\ connections[i].addr[2] = p.addr[2]

recv_interface_handler_send(p) ==
  /\ socks = "up"
  /\ \/ \E i \in DOMAIN connections :
          Taken(i, p) /\ connections' = MovedToEnd(i, connections[i])
     \/ ~(\E i \in DOMAIN connections : Taken(i, p)) /\ UNCHANGED connections
  /\ UNCHANGED <<next_conid, keepalive_sending, sending, output, socks, lost>>

-----------------------------------------------------------------------------
NotEmpty == {i \in DOMAIN connections : connections[i].buf # <<>>}
Waiting == {connections[i].conid : i \in NotEmpty}

\* The timer of the inactivity monitor, which runs while nothing is sent.
send_monitor_handler ==
  /\ sending = Idle /\ Waiting = {} /\ ~keepalive_sending
  /\ keepalive_sending' = TRUE
  /\ UNCHANGED <<connections, next_conid, sending, output, socks, lost>>

\* The next flow sends; PacketPassConnector passes its packet on if it has an output.
input_handler_send ==
  /\ sending = Idle
  /\ \E flow \in Waiting \union (IF keepalive_sending THEN {KeepaliveFlow} ELSE {}) : sending' = flow
  /\ output' = (socks = "up")
  /\ UNCHANGED <<connections, next_conid, keepalive_sending, socks, lost>>

\* Faulty variant: a packet that has been sent stays in its buffer.
Sent_Kept(con) == con

Sent(con) == [con EXCEPT !.buf = Tail(@)]

\* The packet p has been written to the link as a whole.
output_handler_done(p) ==
  /\ socks = "up" /\ output
  /\ IF sending = KeepaliveFlow
       THEN p = Keepalive /\ keepalive_sending' = FALSE /\ UNCHANGED connections
       ELSE \E i \in WithConid(sending) :
              /\ p = Head(connections[i].buf)
              /\ connections' = [connections EXCEPT ![i] = Sent(@)]
              /\ UNCHANGED keepalive_sending
  /\ sending' = Idle /\ output' = FALSE
  /\ UNCHANGED <<next_conid, socks, lost>>

\* PacketPassConnector_ConnectOutput: a packet it has kept is sent from its start.
ConnectOutput == output' = (sending # Idle)

\* UP.  UdpGwClient_ConnectServer may fail, which frees the SOCKS client again.
SocksUp(connected) ==
  /\ socks = "connecting"
  /\ IF connected THEN socks' = "up" /\ ConnectOutput
                  ELSE socks' = "waiting" /\ UNCHANGED output
  /\ UNCHANGED <<connections, next_conid, keepalive_sending, sending, lost>>

\* ERROR and ERROR_CLOSED of the SOCKS client, and udpgw_handler_servererror.
\* free_socks disconnects the connector, which keeps its packet.
free_socks ==
  /\ socks \in {"connecting", "up"}
  /\ socks' = "waiting" /\ output' = FALSE
  /\ UNCHANGED <<connections, next_conid, keepalive_sending, sending, lost>>

\* try_connect; when BSocksClient_Init fails the timer is set again.
reconnect_timer_handler(initialized) ==
  /\ socks = "waiting"
  /\ socks' = IF initialized THEN "connecting" ELSE "waiting"
  /\ UNCHANGED <<connections, next_conid, keepalive_sending, sending, output, lost>>
=============================================================================
