------------------------ MODULE BSocksClient_proofs ------------------------
(***************************************************************************)
(* Proofs about the SOCKS5 handshake, for any lists of authentication      *)
(* methods.  The invariants the run checks become inductive together with  *)
(* two facts about each state: where in the server's answers the client    *)
(* stands (Counted), and what the server has agreed to by then (Earned).   *)
(***************************************************************************)
EXTENDS BSocksClient, TLAPS

\* The length of the answer awaited in each of these states.
AnswerSize == [SENT_HELLO |-> ServerHello, SENT_PASSWORD |-> PasswordReply,
               SENT_REQUEST |-> ReplyHeader]

\* All that the server has answered has been read, but for what is still awaited.
Counted ==
  /\ state \in {"CONNECTING", "UP"} \union Sending => consumed = answered
  /\ state \in DOMAIN AnswerSize =>
       consumed = answered + in.len /\ in.total = AnswerSize[state]
  /\ state = "SENT_REQUEST" => buffer = ReplySize
  /\ state = "RECEIVED_REPLY_HEADER" => consumed + in.total = answered + in.len

\* A method has been agreed on, and it was one of those offered.
MethodAgreed ==
  /\ granted \intersect Methods # {}
  /\ \A m \in granted \intersect Methods : Accepted(auth_info, m)

\* What the server has agreed to in each state.
Earned ==
  /\ state \in {"CONNECTING", "SENDING_HELLO", "SENT_HELLO"} => granted = {}
  /\ state \in {"SENDING_PASSWORD", "SENT_PASSWORD", "SENDING_REQUEST", "SENT_REQUEST",
                "RECEIVED_REPLY_HEADER", "UP"} => MethodAgreed
  /\ state \in {"SENDING_REQUEST", "SENT_REQUEST", "RECEIVED_REPLY_HEADER", "UP"} =>
       ("password" \in granted => "login" \in granted)
  /\ state \in {"RECEIVED_REPLY_HEADER", "UP"} => "connect" \in granted

IInv == TypeOK /\ IoMatchesState /\ BufferFits /\ Counted /\ Earned

\* A client that is gone satisfies the invariant.
LEMMA GoneIsFine ==
  ASSUME IInv, state # "none", Free(con), consumed' \in Nat,
         event' \in {"none", "UP", "ERROR", "ERROR_CLOSED"}
  PROVE  IInv'
<1>1. con' = "none"
  BY DEF IInv, TypeOK, IoMatchesState, Free, IoLeft, States, Sending, Receiving
<1>2. /\ state' = "none" /\ buffer' = 0 /\ out' = -1 /\ in' = NoRecv
      /\ UNCHANGED <<auth_info, dest, answered, granted>>
  BY DEF Free
<1>3. TypeOK'
  BY <1>1, <1>2 DEF IInv, TypeOK, States, NoRecv
<1>4. IoMatchesState' /\ Counted' /\ Earned'
  BY <1>1, <1>2 DEF IoMatchesState, Counted, Earned, Sending, Receiving, AnswerSize
<1>5. BufferFits'
  BY <1>2 DEF BufferFits, NoRecv
<1> QED
  BY <1>3, <1>4, <1>5 DEF IInv

\* The sizes of all messages are positive numbers.
LEMMA Sizes ==
  /\ dest \in AddrTypes => RequestSize \in Nat /\ RequestSize > 0
  /\ ReplySize = 22
  /\ \A atyp \in AddrTypes :
       AddrSize[atyp] \in Nat /\ AddrSize[atyp] > 0 /\ ReplyHeader + AddrSize[atyp] <= ReplySize
BY DEF RequestSize, AddrTypes, AddrSize, RequestHeader, ReplySize, ReplyHeader

THEOREM InitIInv == Init => IInv
BY DEF Init, IInv, TypeOK, IoMatchesState, BufferFits, Counted, Earned, States, Sending,
       Receiving, AddrTypes, NoRecv, AnswerSize

\* What starting to send a message of the next state leaves.
LEMMA SendingIsFine ==
  ASSUME IInv, NEW st \in Sending, NEW n \in Nat, n > 0, StartSend(st, n),
         con' = "control", consumed' = answered', consumed' \in Nat,
         granted' \subseteq {"none", "password", "login", "connect"}, Earned'
  PROVE  IInv'
<1>1. /\ state' = st /\ buffer' = n /\ out' = n /\ in' = NoRecv
      /\ UNCHANGED <<auth_info, dest, event>>
  BY DEF StartSend
<1>2. TypeOK'
  BY <1>1 DEF IInv, TypeOK, States, NoRecv
<1>3. IoMatchesState' /\ Counted'
  BY <1>1 DEF IoMatchesState, Counted, Sending, Receiving, AnswerSize
<1>4. BufferFits'
  BY <1>1 DEF BufferFits, NoRecv
<1> QED
  BY <1>2, <1>3, <1>4 DEF IInv

\* What starting to receive an answer leaves.
LEMMA ReceivingIsFine ==
  ASSUME IInv, NEW st \in Receiving, NEW size \in Nat, NEW off \in Nat, NEW n \in Nat,
         n > 0, off + n <= size, StartReceive(st, size, off, n),
         con = "control", consumed' \in Nat, answered' \in Nat,
         granted' \subseteq {"none", "password", "login", "connect"}, Counted', Earned'
  PROVE  IInv'
<1>1. /\ state' = st /\ buffer' = size /\ out' = -1
      /\ in' = [off |-> off, len |-> 0, total |-> n]
      /\ UNCHANGED <<auth_info, dest, con, event>>
  BY DEF StartReceive
<1>2. TypeOK'
  BY <1>1 DEF IInv, TypeOK, States
<1>3. IoMatchesState'
  BY <1>1 DEF IoMatchesState, Sending, Receiving
<1>4. BufferFits'
  BY <1>1 DEF BufferFits
<1> QED
  BY <1>2, <1>3, <1>4 DEF IInv
-----------------------------------------------------------------------------
LEMMA InitStep ==
  ASSUME IInv, NEW list \in AuthInfos, NEW to \in AddrTypes, BSocksClient_Init(list, to)
  PROVE  IInv'
<1>1. /\ state = "none" /\ state' = "CONNECTING" /\ auth_info' = list /\ dest' = to
      /\ event' = "none" /\ consumed' = 0 /\ answered' = 0 /\ granted' = {}
      /\ UNCHANGED <<con, buffer, out, in>>
  BY DEF BSocksClient_Init
<1>2. con = "none" /\ out < 0 /\ in.total = 0 /\ in.off + in.total <= buffer
  BY <1>1 DEF IInv, TypeOK, IoMatchesState, BufferFits, States, Sending, Receiving
<1>3. TypeOK'
  BY <1>1 DEF IInv, TypeOK, States
<1>4. IoMatchesState' /\ Counted' /\ Earned'
  BY <1>1, <1>2 DEF IoMatchesState, Counted, Earned, Sending, Receiving, AnswerSize
<1>5. BufferFits'
  BY <1>1, <1>2 DEF BufferFits, IInv, TypeOK
<1> QED
  BY <1>3, <1>4, <1>5 DEF IInv

LEMMA ConnectorStep ==
  ASSUME IInv, connector_handler
  PROVE  IInv'
<1>1. state = "CONNECTING" /\ consumed \in Nat /\ answered \in Nat
  BY DEF connector_handler, IInv, TypeOK
<1>2. CASE report_error("ERROR", con) /\ UNCHANGED consumed
  BY <1>1, <1>2, GoneIsFine DEF report_error
<1>3. CASE /\ Len(auth_info) \in 1..255 /\ con' = "control"
           /\ StartSend("SENDING_HELLO", HelloSize(auth_info))
           /\ UNCHANGED <<consumed, answered, granted>>
  <2>1. HelloSize(auth_info) \in Nat /\ HelloSize(auth_info) > 0
    BY <1>3 DEF HelloSize, HelloHeader, HelloMethod
  <2>2. state' = "SENDING_HELLO"
    BY <1>3 DEF StartSend
  <2>3. Earned'
    BY <1>1, <1>3, <2>2 DEF IInv, Earned
  <2>4. consumed' = answered'
    BY <1>1, <1>3 DEF IInv, Counted
  <2>5. "SENDING_HELLO" \in Sending
    BY DEF Sending
  <2>6. granted' \subseteq {"none", "password", "login", "connect"}
    BY <1>3 DEF IInv, TypeOK
  <2>7. consumed' \in Nat
    BY <1>1, <1>3
  <2>8. StartSend("SENDING_HELLO", HelloSize(auth_info)) /\ con' = "control"
    BY <1>3
  <2> QED
    BY <2>1, <2>3, <2>4, <2>5, <2>6, <2>7, <2>8, SendingIsFine
<1> QED
  BY <1>2, <1>3 DEF connector_handler

LEMMA OutputStep ==
  ASSUME IInv, NEW n \in 1..out, output_handler_done(n)
  PROVE  IInv'
<1>1. /\ out \in Nat /\ out > 0 /\ out' = out - n
      /\ UNCHANGED <<state, auth_info, dest, con, buffer, in, event, consumed, answered, granted>>
  BY DEF output_handler_done, IInv, TypeOK
<1>2. TypeOK' /\ BufferFits'
  BY <1>1 DEF IInv, TypeOK, BufferFits
<1>3. IoMatchesState' /\ Counted' /\ Earned'
  BY <1>1 DEF IInv, IoMatchesState, Counted, Earned, MethodAgreed, Accepted
<1> QED
  BY <1>2, <1>3 DEF IInv

LEMMA SentStep ==
  ASSUME IInv, send_handler_done
  PROVE  IInv'
<1>1. out = 0 /\ state \in Sending /\ con = "control" /\ consumed = answered
  BY DEF send_handler_done, IInv, BufferFits, IoMatchesState, Counted
<1>2. consumed \in Nat /\ answered \in Nat /\ granted \subseteq {"none", "password", "login", "connect"}
  BY DEF IInv, TypeOK
<1>3. CASE report_error("ERROR", con) /\ UNCHANGED consumed
  <2>1. state # "none"
    BY <1>1 DEF Sending
  <2> QED
    BY <1>2, <1>3, <2>1, GoneIsFine DEF report_error
<1> DEFINE Go(st, next, size, n) ==
      /\ state = st /\ StartReceive(next, size, 0, n) /\ UNCHANGED <<consumed, answered, granted>>
<1>4. ASSUME NEW next \in Receiving, NEW size \in Nat, NEW n \in Nat, n > 0, n <= size,
             StartReceive(next, size, 0, n), UNCHANGED <<consumed, answered, granted>>,
             next # "RECEIVED_REPLY_HEADER" /\ n = AnswerSize[next],
             next = "SENT_REQUEST" => size = ReplySize,
             Earned'
      PROVE  IInv'
  <2>1. /\ state' = next /\ buffer' = size
        /\ in' = [off |-> 0, len |-> 0, total |-> n]
    BY <1>4 DEF StartReceive
  <2>2. Counted'
    BY <1>1, <1>2, <1>4, <2>1 DEF Counted, Receiving, Sending
  <2>3. consumed' \in Nat /\ answered' \in Nat
        /\ granted' \subseteq {"none", "password", "login", "connect"}
    BY <1>2, <1>4
  <2> QED
    BY <1>1, <1>4, <2>2, <2>3, ReceivingIsFine
<1>5. CASE Go("SENDING_HELLO", "SENT_HELLO", ServerHello, ServerHello)
  <2>1. state' = "SENT_HELLO"
    BY <1>5 DEF StartReceive
  <2>2. Earned'
    BY <1>5, <2>1 DEF IInv, Earned
  <2> QED
    BY <1>4, <1>5, <2>2 DEF Receiving, AnswerSize, ServerHello
<1>6. CASE Go("SENDING_PASSWORD", "SENT_PASSWORD", PasswordReply, PasswordReply)
  <2>1. state' = "SENT_PASSWORD" /\ auth_info' = auth_info
    BY <1>6 DEF StartReceive
  <2>2. Earned'
    BY <1>6, <2>1 DEF IInv, Earned, MethodAgreed, Accepted
  <2> QED
    BY <1>4, <1>6, <2>2 DEF Receiving, AnswerSize, PasswordReply
<1>7. CASE Go("SENDING_REQUEST", "SENT_REQUEST", ReplySize, ReplyHeader)
  <2>1. state' = "SENT_REQUEST" /\ auth_info' = auth_info
    BY <1>7 DEF StartReceive
  <2>2. Earned'
    BY <1>7, <2>1 DEF IInv, Earned, MethodAgreed, Accepted
  <2>3. ReplySize \in Nat /\ ReplyHeader <= ReplySize
    BY Sizes DEF ReplyHeader
  <2> QED
    BY <1>4, <1>7, <2>2, <2>3 DEF Receiving, AnswerSize, ReplyHeader
<1> QED
  BY <1>3, <1>5, <1>6, <1>7 DEF send_handler_done
-----------------------------------------------------------------------------
\* A part of the answer has come in.
LEMMA PartStep ==
  ASSUME IInv, NEW n \in 1..(in.total - in.len), in.total > 0, MoreToCome(n),
         in' = [in EXCEPT !.len = @ + n], consumed' = consumed + n,
         UNCHANGED <<state, auth_info, dest, con, buffer, out, event, answered, granted>>
  PROVE  IInv'
<1>1. /\ in \in [off : Nat, len : Nat, total : Nat] /\ consumed \in Nat /\ answered \in Nat
      /\ state \in Receiving /\ out = -1 /\ in # NoRecv
  BY DEF IInv, TypeOK, BufferFits, Sending, Receiving, NoRecv
<1>2. in'.off = in.off /\ in'.len = in.len + n /\ in'.total = in.total
  BY <1>1
<1>3. TypeOK'
  BY <1>1 DEF IInv, TypeOK
<1>4. BufferFits'
  BY <1>1, <1>2 DEF IInv, BufferFits, MoreToCome
<1>5. Counted'
  BY <1>1, <1>2 DEF IInv, Counted, Sending, Receiving, AnswerSize
<1>6. IoMatchesState' /\ Earned'
  BY DEF IInv, IoMatchesState, Earned, MethodAgreed, Accepted
<1> QED
  BY <1>3, <1>4, <1>5, <1>6 DEF IInv

\* The answer is complete.
LEMMA AnswerStep ==
  ASSUME IInv, NEW n \in 1..(in.total - in.len), in.total > 0, ~MoreToCome(n),
         consumed' = consumed + n, Answer
  PROVE  IInv'
<1>1. /\ in.len \in Nat /\ in.total \in Nat /\ consumed \in Nat /\ answered \in Nat
      /\ dest \in AddrTypes /\ buffer \in Nat
      /\ granted \subseteq {"none", "password", "login", "connect"}
  BY DEF IInv, TypeOK
<1>2. state \in Receiving /\ con = "control" /\ out = -1
  BY DEF IInv, TypeOK, BufferFits, IoMatchesState, Sending, Receiving, NoRecv
<1>3. in.len + n = in.total
  BY <1>1 DEF MoreToCome
<1>4. consumed' \in Nat
  BY <1>1
<1>5. \A st \in DOMAIN AnswerSize : state = st => consumed' = answered + AnswerSize[st]
  BY <1>1, <1>3 DEF IInv, Counted, AnswerSize
<1>6. RequestSize \in Nat /\ RequestSize > 0 /\ "SENDING_REQUEST" \in Sending
  BY <1>1, Sizes DEF Sending
<1>7. CASE state # "RECEIVED_REPLY_HEADER" /\ report_error("ERROR", con)
  <2>1. state # "none"
    BY <1>2 DEF Receiving
  <2> QED
    BY <1>4, <1>7, <2>1, GoneIsFine DEF report_error
<1>8. ASSUME state = "SENT_HELLO", answered' = answered + ServerHello,
             NEW m \in Methods, Accepted(auth_info, m), AfterHello(m),
             granted' = granted \union {m}, UNCHANGED con
      PROVE  IInv'
  <2>1. consumed' = answered'
    BY <1>5, <1>8 DEF AnswerSize
  <2>2. granted = {}
    BY <1>8 DEF IInv, Earned
  <2>3. granted' \subseteq {"none", "password", "login", "connect"}
        /\ granted' \intersect Methods = {m}
    BY <1>8, <2>2 DEF Methods
  <2>4. auth_info' = auth_info => MethodAgreed'
    BY <1>8, <2>3 DEF MethodAgreed, Accepted
  <2>5. CASE m = "none" /\ StartSend("SENDING_REQUEST", RequestSize)
    <3>1. state' = "SENDING_REQUEST" /\ auth_info' = auth_info
      BY <2>5 DEF StartSend
    <3>2. Earned'
      BY <1>8, <2>2, <2>4, <2>5, <3>1 DEF Earned
    <3> QED
      BY <1>2, <1>4, <1>6, <1>8, <2>1, <2>3, <2>5, <3>2, SendingIsFine
  <2>6. ASSUME NEW ai, m = "password", ai.username_len \in 1..255, ai.password_len \in 1..255,
               StartSend("SENDING_PASSWORD", PasswordSize(ai))
        PROVE  IInv'
    <3>1. state' = "SENDING_PASSWORD" /\ auth_info' = auth_info
      BY <2>6 DEF StartSend
    <3>2. Earned'
      BY <2>4, <3>1 DEF Earned
    <3>3. PasswordSize(ai) \in Nat /\ PasswordSize(ai) > 0
      <4>1. \A u, p \in 1..255 : 1 + 1 + u + 1 + p \in Nat /\ 1 + 1 + u + 1 + p > 0
        OBVIOUS
      <4> QED
        BY <2>6, <4>1, Zenon DEF PasswordSize
    <3>4. "SENDING_PASSWORD" \in Sending
      BY DEF Sending
    <3> QED
      BY <1>2, <1>4, <1>8, <2>1, <2>3, <2>6, <3>2, <3>3, <3>4, SendingIsFine
  <2> QED
    BY <1>8, <2>5, <2>6 DEF AfterHello
<1>9. CASE /\ state = "SENT_PASSWORD" /\ answered' = answered + PasswordReply
           /\ StartSend("SENDING_REQUEST", RequestSize)
           /\ granted' = granted \union {"login"}
           /\ UNCHANGED con
  <2>1. consumed' = answered'
    BY <1>5, <1>9 DEF AnswerSize
  <2>2. state' = "SENDING_REQUEST" /\ auth_info' = auth_info
    BY <1>9 DEF StartSend
  <2>3. granted' \intersect Methods = granted \intersect Methods
    BY <1>9 DEF Methods
  <2>4. Earned'
    BY <1>9, <2>2, <2>3 DEF IInv, Earned, MethodAgreed, Accepted
  <2>5. granted' \subseteq {"none", "password", "login", "connect"}
    BY <1>1, <1>9
  <2> QED
    BY <1>2, <1>4, <1>6, <1>9, <2>1, <2>4, <2>5, SendingIsFine
<1>10. ASSUME state = "SENT_REQUEST", granted' = granted \union {"connect"},
              NEW atyp \in AddrTypes,
              StartReceive("RECEIVED_REPLY_HEADER", buffer, ReplyHeader, AddrLength(atyp)),
              answered' = answered + ReplyHeader + AddrSize[atyp]
       PROVE  IInv'
  <2>1. buffer = ReplySize
    BY <1>10 DEF IInv, Counted
  <2>2. /\ AddrLength(atyp) \in Nat /\ AddrLength(atyp) > 0
        /\ ReplyHeader + AddrLength(atyp) <= buffer
    BY <2>1, Sizes DEF AddrLength
  <2>3. /\ state' = "RECEIVED_REPLY_HEADER" /\ auth_info' = auth_info
        /\ in' = [off |-> ReplyHeader, len |-> 0, total |-> AddrLength(atyp)]
    BY <1>10 DEF StartReceive
  <2>4. consumed' = answered + ReplyHeader
    BY <1>5, <1>10 DEF AnswerSize
  <2>5. Counted' /\ answered' \in Nat
    BY <1>1, <1>10, <2>2, <2>3, <2>4 DEF Counted, AnswerSize, Sending, AddrLength, ReplyHeader
  <2>6. granted' \intersect Methods = granted \intersect Methods
    BY <1>10 DEF Methods
  <2>7. Earned'
    BY <1>10, <2>3, <2>6 DEF IInv, Earned, MethodAgreed, Accepted
  <2>8. granted' \subseteq {"none", "password", "login", "connect"}
        /\ "RECEIVED_REPLY_HEADER" \in Receiving /\ ReplyHeader \in Nat
    BY <1>1, <1>10 DEF Receiving, ReplyHeader
  <2> QED
    BY <1>1, <1>2, <1>4, <1>10, <2>2, <2>5, <2>7, <2>8, ReceivingIsFine
<1>11. CASE /\ state = "RECEIVED_REPLY_HEADER"
            /\ state' = "UP" /\ con' = "up" /\ buffer' = 0 /\ in' = NoRecv /\ event' = "UP"
            /\ UNCHANGED <<auth_info, dest, out, answered, granted>>
  <2>1. consumed' = answered'
    BY <1>1, <1>3, <1>11 DEF IInv, Counted
  <2>2. TypeOK'
    BY <1>4, <1>11 DEF IInv, TypeOK, States, NoRecv
  <2>3. IoMatchesState' /\ BufferFits'
    BY <1>2, <1>11 DEF IoMatchesState, BufferFits, Sending, Receiving, NoRecv
  <2>4. Counted'
    BY <1>11, <2>1 DEF Counted, AnswerSize
  <2>5. Earned'
    BY <1>11 DEF IInv, Earned, MethodAgreed, Accepted
  <2> QED
    BY <2>2, <2>3, <2>4, <2>5 DEF IInv
<1> QED
  BY <1>7, <1>8, <1>9, <1>10, <1>11 DEF Answer
-----------------------------------------------------------------------------
\* Every step keeps the invariant.
THEOREM NextIInv == IInv /\ [Next]_vars => IInv'
<1> SUFFICES ASSUME IInv, [Next]_vars PROVE IInv'
  OBVIOUS
<1>1. ASSUME NEW list \in AuthInfos, NEW to \in AddrTypes, BSocksClient_Init(list, to)
      PROVE  IInv'
  BY <1>1, InitStep
<1>2. CASE BSocksClient_Free
  <2>1. consumed' \in Nat /\ event' \in {"none", "UP", "ERROR", "ERROR_CLOSED"}
    BY <1>2 DEF BSocksClient_Free, IInv, TypeOK
  <2> QED
    BY <1>2, <2>1, GoneIsFine DEF BSocksClient_Free
<1>3. CASE connector_handler
  BY <1>3, ConnectorStep
<1>4. CASE Sent
  BY <1>4, OutputStep DEF Sent
<1>5. CASE send_handler_done
  BY <1>5, SentStep
<1>6. CASE Received
  <2>1. PICK n : recv_handler_done(n)
    BY <1>6 DEF Received
  <2> QED
    BY <2>1, PartStep, AnswerStep DEF recv_handler_done
<1>7. CASE connection_handler
  <2>1. state # "none" /\ consumed' \in Nat
    BY <1>7 DEF connection_handler, IInv, TypeOK, IoMatchesState, Sending, Receiving
  <2> QED
    BY <1>7, <2>1, GoneIsFine DEF connection_handler, report_error
<1>8. CASE UNCHANGED vars
  BY <1>8 DEF vars, IInv, TypeOK, IoMatchesState, BufferFits, Counted, Earned, MethodAgreed, Accepted
<1> QED
  BY <1>1, <1>2, <1>3, <1>4, <1>5, <1>6, <1>7, <1>8 DEF Next

\* The inductive invariant holds in every state of the handshake.
THEOREM Inductive == Spec => []IInv
BY InitIInv, NextIInv, PTL DEF Spec

\* Type correctness, for any lists of authentication methods.
THEOREM TypeCorrect == Spec => []TypeOK
<1>1. IInv => TypeOK
  BY DEF IInv
<1> QED
  BY <1>1, Inductive, PTL

\* BSocksClient_Free, which goes by the state alone, frees the I/O objects that
\* exist, whenever it is called.
THEOREM FreeFreesWhatExists == Spec => []IoMatchesState
<1>1. IInv => IoMatchesState
  BY DEF IInv
<1> QED
  BY <1>1, Inductive, PTL

\* No message sent or received reaches past the end of the buffer that was
\* allocated for it.
THEOREM BufferAlwaysFits == Spec => []BufferFits
<1>1. IInv => BufferFits
  BY DEF IInv
<1> QED
  BY <1>1, Inductive, PTL

\* The owner hears UP only after every agreement the handshake asks for.
THEOREM UpAlwaysEarned == Spec => []UpIsEarned
<1>1. IInv => UpIsEarned
  BY DEF IInv, Earned, MethodAgreed, UpIsEarned
<1> QED
  BY <1>1, Inductive, PTL

\* When the session comes up the client has read the answers of the server and
\* nothing of the stream that follows.
THEOREM StreamStartsWhole == Spec => []NothingLost
<1>1. IInv => NothingLost
  BY DEF IInv, Counted, NothingLost
<1> QED
  BY <1>1, Inductive, PTL
-----------------------------------------------------------------------------
(* The handshake implements the session of SocksSession.                     *)

LEMMA FailStep ==
  ASSUME state # "none", Free(con), event' = "ERROR"
  PROVE  Session!Fail
BY DEF Free, phase, Session!Fail

\* Every step of the handshake is a step of the session, or none.
LEMMA SessionStep == IInv /\ [Next]_vars => [Session!Next]_<<phase, event>>
<1> SUFFICES ASSUME IInv, [Next]_vars PROVE Session!Next \/ UNCHANGED <<phase, event>>
  OBVIOUS
<1>1. ASSUME NEW list \in AuthInfos, NEW to \in AddrTypes, BSocksClient_Init(list, to)
      PROVE  Session!Open
  BY <1>1 DEF BSocksClient_Init, phase, Session!Open
<1>2. CASE BSocksClient_Free
  BY <1>2 DEF BSocksClient_Free, Free, phase, Session!Next, Session!Freed
<1>3. CASE connector_handler
  <2>1. CASE report_error("ERROR", con)
    BY <1>3, <2>1, FailStep DEF connector_handler, report_error, Session!Next
  <2>2. CASE StartSend("SENDING_HELLO", HelloSize(auth_info))
    BY <1>3, <2>2 DEF connector_handler, StartSend, phase
  <2> QED
    BY <1>3, <2>1, <2>2 DEF connector_handler
<1>4. CASE Sent
  BY <1>4 DEF Sent, output_handler_done, phase
<1>5. CASE send_handler_done
  <2>1. state \in Sending
    BY <1>5 DEF send_handler_done, IInv, BufferFits
  <2>2. CASE report_error("ERROR", con)
    BY <2>1, <2>2, FailStep DEF report_error, Session!Next, Sending
  <2>3. CASE ~report_error("ERROR", con)
    BY <1>5, <2>1, <2>3 DEF send_handler_done, StartReceive, phase, Sending
  <2> QED
    BY <2>2, <2>3
<1>6. CASE Received
  <2>1. PICK n : recv_handler_done(n)
    BY <1>6 DEF Received
  <2>2. state \in Receiving
    BY <2>1 DEF recv_handler_done, IInv, BufferFits
  <2>3. CASE UNCHANGED <<state, event>>
    BY <2>3 DEF phase
  <2>4. CASE report_error("ERROR", con)
    BY <2>2, <2>4, FailStep DEF report_error, Session!Next, Receiving
  <2>5. ASSUME NEW st \in Sending \union Receiving, state' = st, event' = event
        PROVE  UNCHANGED <<phase, event>>
    BY <2>2, <2>5 DEF phase, Sending, Receiving
  <2>6. CASE state' = "UP" /\ event' = "UP"
    BY <2>2, <2>6 DEF phase, Receiving, Session!Next, Session!Up
  <2>7. Answer => \/ report_error("ERROR", con)
                  \/ state' \in Sending \union Receiving /\ event' = event
                  \/ state' = "UP" /\ event' = "UP"
    BY DEF Answer, AfterHello, StartSend, StartReceive, Sending, Receiving
  <2> QED
    BY <2>1, <2>3, <2>4, <2>5, <2>6, <2>7 DEF recv_handler_done
<1>7. CASE connection_handler
  <2>1. state # "none"
    BY <1>7 DEF connection_handler, IInv, TypeOK, IoMatchesState, Sending, Receiving
  <2>2. CASE report_error("ERROR", con)
    BY <2>1, <2>2, FailStep DEF report_error, Session!Next
  <2>3. CASE state = "UP" /\ report_error("ERROR_CLOSED", con)
    BY <2>3 DEF report_error, Free, phase, Session!Next, Session!Closed
  <2> QED
    BY <1>7, <2>2, <2>3 DEF connection_handler
<1>8. CASE UNCHANGED vars
  BY <1>8 DEF vars, phase
<1> QED
  BY <1>1, <1>2, <1>3, <1>4, <1>5, <1>6, <1>7, <1>8 DEF Next, Session!Next

\* What the owner of a SOCKS client is told, whatever server and network do, is
\* what a session allows: up at most once, one failure or close, then silence.
THEOREM ImplementsSession == Spec => SessionSpec
<1>1. Init => Session!Init
  BY DEF Init, phase, Session!Init
<1>2. IInv /\ [Next]_vars => [Session!Next]_(Session!vars)
  BY SessionStep DEF Session!vars
<1> QED
  BY <1>1, <1>2, Inductive, PTL DEF Spec, SessionSpec, Session!Spec
=============================================================================
