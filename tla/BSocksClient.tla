---------------------------- MODULE BSocksClient ----------------------------
(***************************************************************************)
(* The SOCKS5 handshake of socksclient/BSocksClient.c over a connection    *)
(* that sends and receives any number of bytes at a time, with a server    *)
(* that may answer anything.  Jobs of the sender and the receiver run as   *)
(* separate steps, so the owner may free the client between any two.       *)
(***************************************************************************)
EXTENDS Integers, Sequences

CONSTANT AuthInfos  \* the lists of authentication methods a client may be given

\* Lengths on the wire.
HelloHeader == 2
HelloMethod == 1
ServerHello == 2
PasswordReply == 2
RequestHeader == 4
ReplyHeader == 4
AddrSize == [IPV4 |-> 6, IPV6 |-> 18]

AddrTypes == {"IPV4", "IPV6"}
Methods == {"none", "password"}

ASSUME AuthInfosAssumption ==
  \A list \in AuthInfos :
    list \in Seq([type : Methods, username_len : Nat, password_len : Nat])

VARIABLES
  state, auth_info, dest,
  con,        \* I/O objects that exist on the connection
  buffer,     \* size of o->buffer, 0 for NULL
  out,        \* bytes of the packet still to be sent, -1 when there is no packet
  in,         \* receive in progress: offset into the buffer, recv_len, recv_total
  event,      \* the event reported last
  consumed,   \* history: bytes read from the server
  answered,   \* history: length of the answers the server has given so far
  granted     \* history: what the server has agreed to

vars == <<state, auth_info, dest, con, buffer, out, in, event, consumed, answered, granted>>

Sending == {"SENDING_HELLO", "SENDING_PASSWORD", "SENDING_REQUEST"}
Receiving == {"SENT_HELLO", "SENT_PASSWORD", "SENT_REQUEST", "RECEIVED_REPLY_HEADER"}
States == {"none", "CONNECTING", "UP"} \union Sending \union Receiving
NoRecv == [off |-> 0, len |-> 0, total |-> 0]

HelloSize(list) == HelloHeader + Len(list) * HelloMethod
PasswordSize(ai) == 1 + 1 + ai.username_len + 1 + ai.password_len
RequestSize == RequestHeader + AddrSize[dest]

\* Faulty variant: room for the smaller of the two kinds of address only.
ReplySize_Smallest == ReplyHeader + AddrSize.IPV4

\* The larger of the two kinds of address has to fit.
ReplySize == ReplyHeader + AddrSize.IPV6

Init ==
  /\ state = "none" /\ auth_info = <<>> /\ dest = "IPV4"
  /\ con = "none" /\ buffer = 0 /\ out = -1 /\ in = NoRecv
  /\ event = "none" /\ consumed = 0 /\ answered = 0 /\ granted = {}

TypeOK ==
  /\ state \in States /\ con \in {"none", "control", "up"}
  /\ auth_info \in AuthInfos \union {<<>>} /\ dest \in AddrTypes
  /\ buffer \in Nat /\ out \in Nat \union {-1}
  /\ in \in [off : Nat, len : Nat, total : Nat]
  /\ event \in {"none", "UP", "ERROR", "ERROR_CLOSED"}
  /\ consumed \in Nat /\ answered \in Nat
  /\ granted \subseteq {"none", "password", "login", "connect"}

-----------------------------------------------------------------------------
\* BSocksClient_Init
BSocksClient_Init(list, to) ==
  /\ state = "none"
  /\ state' = "CONNECTING" /\ auth_info' = list /\ dest' = to
  /\ event' = "none" /\ consumed' = 0 /\ answered' = 0 /\ granted' = {}
  /\ UNCHANGED <<con, buffer, out, in>>

\* What BSocksClient_Free, which goes by the state, leaves of the I/O objects c.
IoLeft(st, c) ==
  CASE st = "CONNECTING" -> c
    [] st = "UP" -> IF c = "up" THEN "none" ELSE "broken"
    [] OTHER -> IF c = "control" THEN "none" ELSE "broken"

\* BSocksClient_Free, the I/O objects being c.
Free(c) ==
  /\ con' = IoLeft(state, c)
  /\ state' = "none" /\ buffer' = 0 /\ out' = -1 /\ in' = NoRecv
  /\ UNCHANGED <<auth_info, dest, answered, granted>>

\* report_error: the handler of the owner frees the client.
report_error(e, c) == Free(c) /\ event' = e

\* The owner has no more use for the connection.
BSocksClient_Free == state # "none" /\ Free(con) /\ UNCHANGED <<event, consumed>>

-----------------------------------------------------------------------------
\* PacketPassInterface_Sender_Send of n bytes of the buffer, which has been
\* reallocated to hold just them.
StartSend(st, n) ==
  /\ state' = st /\ buffer' = n /\ out' = n /\ in' = NoRecv
  /\ UNCHANGED <<auth_info, dest, event>>

\* start_receive of n bytes into the buffer of the given size.
StartReceive(st, size, off, n) ==
  /\ state' = st /\ buffer' = size
  /\ in' = [off |-> off, len |-> 0, total |-> n]
  /\ out' = -1
  /\ UNCHANGED <<auth_info, dest, con, event>>

\* Faulty variant: the control I/O is left behind.
connector_handler_Leak ==
  /\ state = "CONNECTING"
  /\ \/ report_error("ERROR", "control") /\ UNCHANGED consumed
     \/ /\ Len(auth_info) \in 1..255 /\ con' = "control"
        /\ StartSend("SENDING_HELLO", HelloSize(auth_info))
        /\ UNCHANGED <<consumed, answered, granted>>

\* The connection has been made, or not.  Without methods to offer, or without
\* memory for the hello, the control I/O is freed again.
connector_handler ==
  /\ state = "CONNECTING"
  /\ \/ report_error("ERROR", con) /\ UNCHANGED consumed
     \/ /\ Len(auth_info) \in 1..255 /\ con' = "control"
        /\ StartSend("SENDING_HELLO", HelloSize(auth_info))
        /\ UNCHANGED <<consumed, answered, granted>>

\* PacketStreamSender: the connection has taken n more bytes of the packet.
output_handler_done(n) ==
  /\ out > 0 /\ n \in 1..out
  /\ out' = out - n
  /\ UNCHANGED <<state, auth_info, dest, con, buffer, in, event, consumed, answered, granted>>

\* The packet is sent: receive the answer, if there is memory for it.
send_handler_done ==
  /\ out = 0
  /\ \/ report_error("ERROR", con) /\ UNCHANGED consumed
     \/ /\ \/ state = "SENDING_HELLO" /\ StartReceive("SENT_HELLO", ServerHello, 0, ServerHello)
           \/ /\ state = "SENDING_PASSWORD"
              /\ StartReceive("SENT_PASSWORD", PasswordReply, 0, PasswordReply)
           \/ /\ state = "SENDING_REQUEST"
              /\ StartReceive("SENT_REQUEST", ReplySize, 0, ReplyHeader)
        /\ UNCHANGED <<consumed, answered, granted>>

\* What the server may answer to an offer: one of the methods, or something else.
Accepted(list, m) == \E i \in DOMAIN list : list[i].type = m

\* The first entry of the list with the method the server has chosen.
Entry(list, m) ==
  list[CHOOSE i \in DOMAIN list : list[i].type = m /\ \A j \in 1..(i - 1) : list[j].type # m]

\* Faulty variant: a method that needs a password is taken for one that does not.
AfterHello_NoLogin(m) == StartSend("SENDING_REQUEST", RequestSize)

\* The server has chosen the method m.
AfterHello(m) ==
  \/ m = "none" /\ StartSend("SENDING_REQUEST", RequestSize)
  \/ LET ai == Entry(auth_info, m) IN
     /\ m = "password" /\ ai.username_len \in 1..255 /\ ai.password_len \in 1..255
     /\ StartSend("SENDING_PASSWORD", PasswordSize(ai))

\* Faulty variant: the length of the other kind of address is read.
AddrLength_Swapped(atyp) == IF atyp = "IPV4" THEN AddrSize.IPV6 ELSE AddrSize.IPV4

AddrLength(atyp) == AddrSize[atyp]

\* recv_handler_done, the answer being complete: it is taken for what it says, or
\* refused, or there is no memory to go on.  The rest of the reply is not looked at.
Answer ==
  \/ state # "RECEIVED_REPLY_HEADER" /\ report_error("ERROR", con)
  \/ /\ state = "SENT_HELLO" /\ answered' = answered + ServerHello
     /\ \E m \in Methods :
          /\ Accepted(auth_info, m) /\ AfterHello(m) /\ granted' = granted \union {m}
     /\ UNCHANGED con
  \/ /\ state = "SENT_PASSWORD" /\ answered' = answered + PasswordReply
     /\ StartSend("SENDING_REQUEST", RequestSize)
     /\ granted' = granted \union {"login"}
     /\ UNCHANGED con
  \/ /\ state = "SENT_REQUEST"
     /\ \E atyp \in AddrTypes :
          /\ StartReceive("RECEIVED_REPLY_HEADER", buffer, ReplyHeader, AddrLength(atyp))
          /\ answered' = answered + ReplyHeader + AddrSize[atyp]
     /\ granted' = granted \union {"connect"}
  \/ /\ state = "RECEIVED_REPLY_HEADER"
     /\ state' = "UP" /\ con' = "up" /\ buffer' = 0 /\ in' = NoRecv /\ event' = "UP"
     /\ UNCHANGED <<auth_info, dest, out, answered, granted>>

\* Faulty variant: the count of what has been received is not kept.
MoreToCome_Forgetful(n) == n < in.total

MoreToCome(n) == in.len + n < in.total

\* n bytes have come in; a part of the answer is not enough.
recv_handler_done(n) ==
  /\ in.total > 0 /\ n \in 1..(in.total - in.len)
  /\ \/ /\ MoreToCome(n)
        /\ in' = [in EXCEPT !.len = @ + n]
        /\ consumed' = consumed + n
        /\ UNCHANGED <<state, auth_info, dest, con, buffer, out, event, answered, granted>>
     \/ /\ ~MoreToCome(n)
        /\ consumed' = consumed + n
        /\ Answer

-----------------------------------------------------------------------------
\* Faulty variant: every end of the stream is reported as an orderly close.
connection_handler_Closed == con # "none" /\ report_error("ERROR_CLOSED", con) /\ UNCHANGED consumed

\* connection_handler: a read or write fails, or the server closes its side.
connection_handler ==
  /\ con # "none" /\ UNCHANGED consumed
  /\ \/ report_error("ERROR", con)
     \/ state = "UP" /\ report_error("ERROR_CLOSED", con)

Sent == \E n \in 1..out : output_handler_done(n)
Received == \E n \in 1..in.total : recv_handler_done(n)

Next ==
  \/ \E list \in AuthInfos, to \in AddrTypes : BSocksClient_Init(list, to)
  \/ BSocksClient_Free
  \/ connector_handler
  \/ Sent
  \/ send_handler_done
  \/ Received
  \/ connection_handler

Spec == Init /\ [][Next]_vars

\* The reactor runs the handlers it owes, and the network and the server answer
\* what they are sent.  The owner need never free the client.
Fairness ==
  /\ WF_vars(connector_handler) /\ WF_vars(Sent)
  /\ WF_vars(send_handler_done) /\ WF_vars(Received)

FairSpec == Spec /\ Fairness

-----------------------------------------------------------------------------
\* BSocksClient_Free frees I/O by the state, never by what exists, so on every
\* path - the errors of connector_handler between init_control_io and the change
\* of state, the change from control to up I/O - the two must agree, and a client
\* that is gone leaves no I/O on the connection.
IoMatchesState ==
  /\ con = "control" <=> state \in Sending \union Receiving
  /\ con = "up" <=> state = "UP"

\* The buffer is reallocated for each message in turn: whatever is being sent or
\* received lies within it, and never both at once.
BufferFits ==
  /\ out > 0 => out <= buffer
  /\ out >= 0 => state \in Sending /\ in = NoRecv
  /\ in.off + in.total <= buffer
  /\ in.total > 0 => in.len < in.total /\ state \in Receiving

\* The owner hears UP only after the server has accepted a method that was
\* offered, the password too where that method asks for one, and the request.
UpIsEarned ==
  state = "UP" =>
    /\ "connect" \in granted
    /\ granted \intersect Methods # {}
    /\ \A m \in granted \intersect Methods : Accepted(auth_info, m)
    /\ "password" \in granted => "login" \in granted

\* However the bytes are split, the handshake has read exactly the answers of the
\* server when the session comes up: the owner gets the stream from its first byte.
NothingLost == state = "UP" => consumed = answered

\* A client that has been opened comes up, fails or is freed, as long as the other
\* side goes on: no state of the handshake waits for a handler nobody owes it.
HandshakeEnds == state = "CONNECTING" ~> state \in {"none", "UP"}

\* The handshake implements the session an owner is promised.
phase == CASE state = "none" -> "none" [] state = "UP" -> "up" [] OTHER -> "connecting"
Session == INSTANCE SocksSession
SessionSpec == Session!Spec
=============================================================================
