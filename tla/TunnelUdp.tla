------------------------------ MODULE TunnelUdp ------------------------------
(***************************************************************************)
(* UDP in TunnelInterface.m: every datagram leaves through one socket, and *)
(* _udpSession remembers, for each remote endpoint, the local one that has *)
(* sent to it last.  The entry is made by a barrier block on a concurrent  *)
(* queue while packets are being handled on another; the delegate of the   *)
(* socket looks it up in a block on the same queue, on a third.            *)
(***************************************************************************)
EXTENDS Naturals, Sequences

CONSTANTS
  Locals,      \* local endpoints
  Remotes,     \* remote endpoints
  MaxAnswers,  \* bound on the datagrams that arrive
  Nobody       \* what a lookup without entry yields: 0.0.0.0:0

ASSUME TunnelUdpAssumption == Nobody \notin Locals /\ MaxAnswers \in Nat

VARIABLES
  session,    \* _udpSession
  blocks,     \* blocks on _readWriteQuene that have not run, in their order
  waiting,    \* the delegate is in dispatch_sync
  main,       \* packets on the main queue
  delivered,  \* packets delivered to the tunnel
  sent,       \* history: the local endpoints that have sent, by remote, in order
  answers     \* history: answers that have arrived

udpVars == <<session, blocks, waiting, main, delivered, sent, answers>>

\* A block that makes an entry, and one that looks an answer up; of the answer,
\* `known` is history: how many datagrams had been sent to its remote endpoint when
\* it arrived.
Set(r, l) == [op |-> "set", remote |-> r, local |-> l, known |-> 0]
Get(r) == [op |-> "get", remote |-> r, local |-> Nobody, known |-> Len(sent[r])]

UdpInit ==
  /\ session = [r \in Remotes |-> Nobody] /\ blocks = <<>>
  /\ waiting = FALSE /\ main = <<>> /\ delivered = <<>>
  /\ sent = [r \in Remotes |-> <<>>] /\ answers = 0

-----------------------------------------------------------------------------
\* handleUdpPacket: dispatch_barrier_async, then the socket sends the datagram.
handleUdpPacket(l, r) ==
  /\ blocks' = Append(blocks, Set(r, l))
  /\ sent' = [sent EXCEPT ![r] = Append(@, l)]
  /\ UNCHANGED <<session, waiting, main, delivered, answers>>

\* Faulty variants: the delegate reads the dictionary itself; it waits on
\* the queue it runs on.
Looked_Directly(r) ==
  /\ UNCHANGED <<blocks, waiting>>
  /\ main' = Append(main, [Get(r) EXCEPT !.local = session[r]])
Looked_OwnQueue(r) == waiting' = TRUE /\ UNCHANGED <<blocks, main>>

\* dispatch_sync of the lookup: it comes after the blocks that are there.
Looked(r) ==
  /\ blocks' = Append(blocks, Get(r)) /\ waiting' = TRUE
  /\ UNCHANGED main

\* A datagram arrives at the socket: an answer, or one nobody has asked for.
didReceiveData(r) ==
  /\ ~waiting /\ answers < MaxAnswers /\ answers' = answers + 1
  /\ Looked(r)
  /\ UNCHANGED <<session, delivered, sent>>

\* The next block runs.  The lookup lets the delegate go on to writePacket, which
\* puts the packet on the main queue.
RunBlock ==
  /\ blocks # <<>> /\ blocks' = Tail(blocks)
  /\ LET b == Head(blocks) IN
     \/ /\ b.op = "set" /\ session' = [session EXCEPT ![b.remote] = b.local]
        /\ UNCHANGED <<waiting, main>>
     \/ /\ b.op = "get" /\ waiting' = FALSE
        /\ main' = Append(main, [b EXCEPT !.local = session[b.remote]])
        /\ UNCHANGED session
  /\ UNCHANGED <<delivered, sent, answers>>

\* writePacket's block on the main queue.
writePacket ==
  /\ main # <<>> /\ main' = Tail(main) /\ delivered' = Append(delivered, Head(main))
  /\ UNCHANGED <<session, blocks, waiting, sent, answers>>

\* Queues run their blocks.
QueueFairness == WF_udpVars(RunBlock) /\ WF_udpVars(writePacket)

-----------------------------------------------------------------------------
\* An answer goes to the endpoint that had sent to its remote last when it arrived,
\* or to one that has sent since: never to one that had been superseded by then,
\* and to nobody only if nobody had sent, although the entry is made later than the
\* datagram is handed over and read on another thread.
AnswerToLastSender ==
  \A i \in DOMAIN delivered :
    LET a == delivered[i] IN
    IF a.known = 0
      THEN a.local = Nobody \/ \E k \in DOMAIN sent[a.remote] : sent[a.remote][k] = a.local
      ELSE \E k \in a.known..Len(sent[a.remote]) : sent[a.remote][k] = a.local
=============================================================================
