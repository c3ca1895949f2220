--------------------------- MODULE TunnelInterface ---------------------------
(***************************************************************************)
(* TunnelInterface.m as a whole: processPackets reads batches of packets   *)
(* from the system and handles them one after the other on one queue, TCP  *)
(* by writing to the pipe of TunnelPipe, which blocks while the pipe is    *)
(* full, UDP by TunnelUdp.  Only when a batch is done does it ask for the  *)
(* next one.                                                               *)
(***************************************************************************)
EXTENDS TunnelPipe, TunnelUdp

CONSTANTS
  Traffic,   \* the packets from the system, in order
  MaxBatch   \* bound on the packets of one batch

\* What processPackets tells apart: the length of a TCP packet, the endpoints of a datagram.
Packets == ({"tcp"} \X (1..MTU)) \union ({"udp"} \X Locals \X Remotes) \union {<<"other">>}

TcpPackets == SelectSeq(Traffic, LAMBDA p : p[1] = "tcp")

ASSUME TunnelInterfaceAssumption ==
  /\ Lengths = [i \in DOMAIN TcpPackets |-> TcpPackets[i][2]]
  /\ Traffic \in Seq(Packets)
  /\ MaxBatch \in Nat \ {0}

VARIABLES
  handled,  \* packets of the traffic that have been handled
  batch     \* packets of the traffic that have been read

loopVars == <<handled, batch>>
vars == <<pipeVars, udpVars, loopVars>>

Init == PipeInit /\ UdpInit /\ handled = 0 /\ batch = 0

-----------------------------------------------------------------------------
\* readPackets completes with what the system has, once processPackets has asked again.
ReadPackets ==
  /\ handled = batch
  /\ \E n \in 1..MaxBatch : batch + n <= Len(Traffic) /\ batch' = batch + n
  /\ UNCHANGED <<handled, pipeVars, udpVars>>

Current == Traffic[handled + 1]
Handled == handled' = handled + 1 /\ batch' = batch

\* write() has not returned.
Blocked == written' # 0

\* The loop of processPackets, one packet or one part of its frame at a time.
HandleTcp ==
  /\ handled < batch /\ Current[1] = "tcp" /\ handleTcpPacket
  /\ IF Blocked THEN UNCHANGED loopVars ELSE Handled
  /\ UNCHANGED udpVars

HandleUdp ==
  /\ handled < batch /\ Current[1] = "udp"
  /\ handleUdpPacket(Current[2], Current[3])
  /\ Handled /\ UNCHANGED pipeVars

\* Packets of any other protocol are dropped, and so is UDP over IPv6.
Drop ==
  /\ handled < batch /\ Current[1] = "other"
  /\ Handled /\ UNCHANGED <<pipeVars, udpVars>>

processPackets == HandleTcp \/ HandleUdp \/ Drop

Reactor == (ReadHeader \/ ReadBody \/ device_read_handler_send) /\ UNCHANGED <<udpVars, loopVars>>

Queues ==
  /\ RunBlock \/ writePacket \/ \E r \in Remotes : didReceiveData(r)
  /\ UNCHANGED <<pipeVars, loopVars>>

\* All is done, or tun2socks has ended and nobody reads the pipe that processPackets
\* is blocked on; the process is about to exit then.
Done ==
  /\ quitting \/ (handled = Len(Traffic) /\ pipe = <<>> /\ reader = "waiting")
  /\ UNCHANGED vars

Next == ReadPackets \/ processPackets \/ Reactor \/ Queues \/ Done

Spec == Init /\ [][Next]_vars

\* All threads run: the queue of processPackets, the reactor's, the concurrent one and
\* the main one.
FairSpec ==
  /\ Spec /\ WF_vars(ReadPackets) /\ WF_vars(processPackets)
  /\ ReaderFairness /\ QueueFairness

-----------------------------------------------------------------------------
\* Nothing is left behind: as long as the kernel splits no write every TCP packet
\* reaches lwIP.
AllReceived == <>(split \/ Len(received) = Len(Lengths))

\* Whatever the kernel does with the writes, every packet of a batch is handled and the
\* next batch asked for, unless the tunnel ends: the loop, which also carries UDP, may
\* be stopped by a full pipe, and is not for ever.
LoopGoesOn == []<>(handled = batch \/ quitting)

\* Every answer that has arrived is written to the tunnel, even while processPackets
\* is blocked on the pipe.
AnswersAreWritten == []<>(Len(delivered) = answers)
=============================================================================
