--------------------------- MODULE TcpClient_proofs ---------------------------
(***************************************************************************)
(* Proofs about TcpClient for every buffer size: type correctness, the     *)
(* ownership of the lwIP block, the receive window and the count of        *)
(* unconfirmed bytes.  None of them is inductive alone; IInv is.           *)
(***************************************************************************)
EXTENDS TcpClient, SequenceTheorems, TLAPS

\* The SOCKS connection exists while the client has it open, and socks_up
\* follows its phase.
SocksOwned ==
  /\ socks.phase # "none" <=> alive /\ ~socks_closed
  /\ alive /\ ~socks_closed => (socks_up <=> socks.phase = "up")
  /\ socks.phase # "up" => socks.send = "none"
  /\ socks.phase = "none" => socks.recv = "none"

\* Until the reactor is told to quit, jobs are pending only in a suspended callback
\* or with no segment in progress; a suspended callback, and a client that is gone,
\* have no acknowledgement left to report.
JobsInFrame ==
  /\ input # NoInput /\ frame = "none" => alive /\ ~client_closed /\ (HasJobs => quitting)
  /\ frame # "none" => input.acked = 0
  /\ frame # "none" => (killed <=> ~(alive /\ ~client_closed))
  /\ frame = "none" => ~killed

\* The sent callback is installed when SOCKS comes up, and nothing is queued, let
\* alone reported, before.
SentInstalled ==
  alive /\ ~client_closed =>
    /\ socks_up <=> pcb.sent
    /\ ~pcb.sent => pcb.unacked = 0 /\ pcb.acked = 0 /\ input.acked = 0 /\ repeated = 0

\* A read has room for its data, and what waits was cut off by the send buffer.
RecvBufBounded ==
  /\ Len(socks_recv_buf) <= RECV_BUF
  /\ socks.phase = "up" /\ ~client_closed =>
       (socks.recv # "none" <=> socks_recv_buf = <<>>)
  /\ pcb.sent /\ socks_recv_buf # <<>> => socks_recv_buf_sent < Len(socks_recv_buf)

IInv ==
  /\ TypeOK /\ PcbOwned /\ WindowFits /\ PendingIsUnacked
  /\ SocksOwned /\ JobsInFrame /\ SentInstalled /\ RecvBufBounded

Sizes == TCP_WND \in Nat /\ TCP_WND > 0 /\ TCP_SND_BUF \in Nat /\ TCP_SND_BUF > 0
         /\ RECV_BUF \in Nat /\ RECV_BUF > 0

LEMMA SizesAreNat == Sizes
  BY WindowAssumption, BufferAssumption DEF Sizes

-----------------------------------------------------------------------------
(* Sequences. *)

\* A run of numbered bytes is a sequence of its length.
LEMMA NumberedBytes ==
  ASSUME NEW m \in Nat, NEW n \in Nat
  PROVE  /\ [i \in 1..n |-> m + i] \in Seq(Nat)
         /\ Len([i \in 1..n |-> m + i]) = n
  OBVIOUS

\* What is left after the first n elements.
LEMMA TailOf ==
  ASSUME NEW s \in Seq(Nat), NEW n \in 1..Len(s)
  PROVE  /\ SubSeq(s, n + 1, Len(s)) \in Seq(Nat)
         /\ Len(SubSeq(s, n + 1, Len(s))) = Len(s) - n
         /\ SubSeq(s, 1, n) \in Seq(Nat)
  OBVIOUS

-----------------------------------------------------------------------------
(* The operations on a pcb: the result is a pcb, and what it keeps. *)

LEMMA NoInputOK == NoInput \in Segments
  BY SizesAreNat DEF NoInput, Segments, Sizes

LEMMA NoSocksOK ==
  NoSocks \in [phase : {"none", "connecting", "up"}, send : OpStates, recv : OpStates]
  BY DEF NoSocks, OpStates

\* Two blocks that differ at most in their state and callbacks.
SameData(q, p) ==
  /\ q.rcv_wnd = p.rcv_wnd /\ q.unacked = p.unacked /\ q.acked = p.acked
  /\ q.refused <=> p.refused

SameCallbacks(q, p) ==
  (q.recv <=> p.recv) /\ (q.sent <=> p.sent) /\ (q.err <=> p.err)

\* A block that has been closed or aborted without its callbacks.
Released(q, p) ==
  q \in Pcb /\ SameData(q, p) /\ ~q.recv /\ ~q.sent /\ ~q.err /\ ~Open(q)

LEMMA ReleasedOK ==
  ASSUME NEW p \in Pcb
  PROVE  /\ Released(tcp_close(NoCallbacks(p)), p)
         /\ Released(tcp_abort(NoCallbacks(p)), p)
  <1>1. PICK c : c = NoCallbacks(p)
    OBVIOUS
  <1>2. c \in Pcb /\ SameData(c, p) /\ ~c.recv /\ ~c.sent /\ ~c.err
    BY <1>1 DEF Pcb, NoCallbacks, SameData
  <1>3. tcp_close(c) \in Pcb /\ tcp_abort(c) \in Pcb
    BY <1>2 DEF Pcb, PcbStates, tcp_close, tcp_abort
  <1>4. SameData(tcp_close(c), p) /\ SameData(tcp_abort(c), p)
    BY <1>2 DEF Pcb, SameData, tcp_close, tcp_abort
  <1>5. /\ ~tcp_close(c).recv /\ ~tcp_close(c).sent /\ ~tcp_close(c).err
        /\ ~tcp_abort(c).recv /\ ~tcp_abort(c).sent /\ ~tcp_abort(c).err
    BY <1>2 DEF Pcb, tcp_close, tcp_abort
  <1>6. ~Open(tcp_close(c)) /\ ~Open(tcp_abort(c))
    BY <1>2 DEF Pcb, tcp_close, tcp_abort, Open
  <1> QED
    BY <1>1, <1>3, <1>4, <1>5, <1>6 DEF Released

LEMMA RecvedOK ==
  ASSUME NEW p \in Pcb, NEW n \in Nat
  PROVE  /\ tcp_recved(p, n) \in Pcb /\ SameCallbacks(tcp_recved(p, n), p)
         /\ tcp_recved(p, n).state = p.state /\ tcp_recved(p, n).unacked = p.unacked
         /\ tcp_recved(p, n).acked = p.acked
         /\ tcp_recved(p, n).refused <=> p.refused
         /\ p.rcv_wnd + n <= TCP_WND => tcp_recved(p, n).rcv_wnd = p.rcv_wnd + n
  BY SizesAreNat DEF Pcb, tcp_recved, Sizes, SameCallbacks

LEMMA ReturnFinOK ==
  ASSUME NEW p \in Pcb
  PROVE  /\ ReturnFin(p) \in Pcb /\ SameCallbacks(ReturnFin(p), p)
         /\ ReturnFin(p).unacked = p.unacked /\ ReturnFin(p).acked = p.acked
         /\ ReturnFin(p).refused <=> p.refused
         /\ ReturnFin(p).state = p.state
  BY SizesAreNat DEF Pcb, ReturnFin, Sizes, SameCallbacks

LEMMA ReceiveOK ==
  ASSUME NEW p \in Pcb, NEW acked \in Nat, NEW len \in Nat, NEW fin \in BOOLEAN,
         acked <= p.unacked, len + (IF fin THEN 1 ELSE 0) <= p.rcv_wnd
  PROVE  /\ tcp_receive(p, acked, len, fin) \in Pcb
         /\ SameCallbacks(tcp_receive(p, acked, len, fin), p)
         /\ tcp_receive(p, acked, len, fin).refused <=> p.refused
         /\ tcp_receive(p, acked, len, fin).unacked = p.unacked - acked
         /\ tcp_receive(p, acked, len, fin).acked = acked
         /\ tcp_receive(p, acked, len, fin).rcv_wnd = p.rcv_wnd - len - (IF fin THEN 1 ELSE 0)
         /\ Open(p) => Open(tcp_receive(p, acked, len, fin))
  <1> USE SizesAreNat DEF Pcb, tcp_receive, Sizes, PcbStates
  <1>1. (IF fin THEN 1 ELSE 0) \in {0, 1}
    BY Zenon
  <1>2. (IF fin THEN "CLOSE_WAIT" ELSE p.state) \in PcbStates
    OBVIOUS
  <1>3. p.unacked - acked \in 0..TCP_SND_BUF /\ acked \in 0..TCP_SND_BUF
    OBVIOUS
  <1>4. p.rcv_wnd - len - (IF fin THEN 1 ELSE 0) \in 0..TCP_WND
    BY <1>1
  <1>5. tcp_receive(p, acked, len, fin) \in Pcb
    BY <1>2, <1>3, <1>4
  <1>6. SameCallbacks(tcp_receive(p, acked, len, fin), p)
    BY DEF SameCallbacks
  <1>7. Open(p) => Open(tcp_receive(p, acked, len, fin))
    BY DEF Open
  <1> QED
    BY <1>5, <1>6, <1>7

LEMMA ReceiveNoAckOK ==
  ASSUME NEW p \in Pcb, NEW len \in Nat, NEW fin \in BOOLEAN,
         len + (IF fin THEN 1 ELSE 0) <= p.rcv_wnd
  PROVE  /\ tcp_receive_NoAck(p, len, fin) \in Pcb
         /\ SameCallbacks(tcp_receive_NoAck(p, len, fin), p)
         /\ tcp_receive_NoAck(p, len, fin).refused <=> p.refused
         /\ tcp_receive_NoAck(p, len, fin).unacked = p.unacked
         /\ tcp_receive_NoAck(p, len, fin).acked = p.acked
         /\ tcp_receive_NoAck(p, len, fin).rcv_wnd = p.rcv_wnd - len - (IF fin THEN 1 ELSE 0)
         /\ Open(p) => Open(tcp_receive_NoAck(p, len, fin))
  <1>1. PICK q : q = tcp_receive(p, 0, len, fin)
    OBVIOUS
  <1>2. p.unacked \in Nat /\ p.acked \in 0..TCP_SND_BUF
    BY SizesAreNat DEF Pcb, Sizes
  <1>3. /\ q \in Pcb /\ SameCallbacks(q, p) /\ (q.refused <=> p.refused)
        /\ q.unacked = p.unacked /\ q.rcv_wnd = p.rcv_wnd - len - (IF fin THEN 1 ELSE 0)
        /\ Open(p) => Open(q)
    BY <1>1, <1>2, ReceiveOK
  <1>4. tcp_receive_NoAck(p, len, fin) = [q EXCEPT !.acked = p.acked]
    BY <1>1 DEF tcp_receive_NoAck
  <1> QED
    BY <1>2, <1>3, <1>4 DEF Pcb, SameCallbacks, Open

LEMMA WriteOK ==
  ASSUME NEW p \in Pcb, NEW n \in 0..tcp_sndbuf(p)
  PROVE  /\ tcp_write(p, n) \in Pcb /\ SameCallbacks(tcp_write(p, n), p)
         /\ tcp_write(p, n).state = p.state /\ tcp_write(p, n).rcv_wnd = p.rcv_wnd
         /\ tcp_write(p, n).refused <=> p.refused
         /\ tcp_write(p, n).unacked = p.unacked + n /\ tcp_write(p, n).acked = p.acked
  BY SizesAreNat DEF Pcb, tcp_write, tcp_sndbuf, Sizes, SameCallbacks

\* The types of the parts of the state that are counted with.
LEMMA Counts ==
  ASSUME TypeOK
  PROVE  /\ pcb.rcv_wnd \in Nat /\ pcb.unacked \in Nat
         /\ input.acked \in Nat /\ input.len \in Nat /\ input.fin \in BOOLEAN
         /\ (IF input.fin THEN 1 ELSE 0) \in {0, 1}
         /\ Len(buf) \in Nat /\ Len(socks_recv_buf) \in Nat
  <1>1. (IF input.fin THEN 1 ELSE 0) \in {0, 1}
    BY Zenon
  <1>2. pcb.rcv_wnd \in Nat /\ pcb.unacked \in Nat
    BY SizesAreNat DEF TypeOK, DataOK, Pcb, Sizes
  <1>3. input.acked \in Nat /\ input.len \in Nat /\ input.fin \in BOOLEAN
    BY SizesAreNat DEF TypeOK, DataOK, Segments, Sizes
  <1> QED
    BY <1>1, <1>2, <1>3 DEF TypeOK, DataOK

-----------------------------------------------------------------------------
(* What the functions that take a client down have in common. *)

\* client_free_socks keeps the client and its block, or releases both.
LEMMA FreeSocksEffect ==
  ASSUME TypeOK, client_free_socks
  PROVE  /\ pcb' \in Pcb /\ SameData(pcb', pcb) /\ socks' = NoSocks /\ socks_closed' = TRUE
         /\ \/ /\ DataForApp /\ ~pcb'.recv /\ pcb'.state = pcb.state
               /\ (pcb'.sent <=> pcb.sent) /\ (pcb'.err <=> pcb.err)
               /\ UNCHANGED <<alive, client_closed, killed>>
            \/ /\ alive' = FALSE /\ client_closed' = TRUE
               /\ IF client_closed
                  THEN pcb' = pcb /\ killed' = killed
                  ELSE Released(pcb', pcb) /\ KillDeadVar
  <1> USE DEF TypeOK, DataOK, client_free_socks
  <1>1. CASE DataForApp
    <2>1. pcb' = [pcb EXCEPT !.recv = FALSE]
      BY <1>1
    <2>2. /\ pcb' \in Pcb /\ SameData(pcb', pcb) /\ ~pcb'.recv /\ pcb'.state = pcb.state
          /\ (pcb'.sent <=> pcb.sent) /\ (pcb'.err <=> pcb.err)
      BY <2>1 DEF Pcb, SameData
    <2> QED
      BY <2>2, <1>1
  <1>2. CASE ~DataForApp
    <2>1. SameData(pcb, pcb)
      BY DEF SameData
    <2>2. Released(tcp_close(NoCallbacks(pcb)), pcb) /\ Released(tcp_abort(NoCallbacks(pcb)), pcb)
      BY ReleasedOK
    <2>3. ~client_closed => Released(pcb', pcb)
      BY <1>2, <2>2
    <2> QED
      BY <1>2, <2>1, <2>3 DEF Released
  <1> QED
    BY <1>1, <1>2

-----------------------------------------------------------------------------
(* The invariant, one lemma for each action. *)

LEMMA InitIInv == Init => IInv
  <1> SUFFICES ASSUME Init PROVE IInv
    OBVIOUS
  <1> USE SizesAreNat DEF Sizes
  <1>0. FlagsOK
    BY Zenon DEF Init, FlagsOK
  <1>1. DataOK
    BY DEF Init, DataOK, Pcb, PcbStates, NoPcb, NoSocks, OpStates, Segments, NoInput
  <1>2. PcbOwned /\ WindowFits /\ PendingIsUnacked
    BY DEF Init, PcbOwned, WindowFits, PendingIsUnacked, NoPcb, NoInput, Open
  <1>3. SocksOwned /\ JobsInFrame /\ SentInstalled /\ RecvBufBounded
    BY DEF Init, SocksOwned, JobsInFrame, SentInstalled, RecvBufBounded, NoSocks, NoPcb, NoInput
  <1> QED
    BY <1>0, <1>1, <1>2, <1>3 DEF IInv, TypeOK

LEMMA AcceptIInv ==
  ASSUME IInv, NEW op \in {"job", "wait"}, listener_accept_func(op)
  PROVE  IInv'
  <1> USE SizesAreNat DEF Sizes
  <1>0. FlagsOK'
    BY Zenon DEF IInv, TypeOK, FlagsOK, listener_accept_func
  <1>1. DataOK'
    BY DEF IInv, listener_accept_func, TypeOK, DataOK, Pcb, PcbStates, NewPcb, OpStates, Segments
  <1>2. PcbOwned' /\ WindowFits' /\ PendingIsUnacked'
    BY DEF IInv, TypeOK, DataOK, FlagsOK, listener_accept_func, Quiet, NoInput, PcbOwned, WindowFits,
           PendingIsUnacked, NewPcb, Open
  <1>3. SocksOwned' /\ JobsInFrame'
    BY DEF IInv, TypeOK, DataOK, FlagsOK, listener_accept_func, Quiet, SocksOwned, JobsInFrame, NoInput
  <1>4. SentInstalled' /\ RecvBufBounded'
    BY DEF IInv, TypeOK, DataOK, FlagsOK, listener_accept_func, Quiet, SentInstalled, RecvBufBounded, NewPcb, NoInput
  <1> QED
    BY <1>0, <1>1, <1>2, <1>3, <1>4 DEF IInv, TypeOK

LEMMA AcceptFailsIInv == IInv /\ listener_accept_func_fails => IInv'
  <1> SUFFICES ASSUME IInv, listener_accept_func_fails PROVE IInv'
    OBVIOUS
  <1> USE SizesAreNat DEF Sizes, IInv, listener_accept_func_fails, client, upward, downward
  <1>0. FlagsOK'
    BY Zenon DEF TypeOK, FlagsOK
  <1>1. DataOK'
    BY DEF TypeOK, DataOK, Pcb, PcbStates, NoPcb
  <1>2. PcbOwned' /\ WindowFits' /\ PendingIsUnacked'
    BY DEF PcbOwned, WindowFits, PendingIsUnacked, NoPcb, Open
  <1>3. SocksOwned' /\ JobsInFrame'
    BY DEF Quiet, SocksOwned, JobsInFrame, HasJobs
  <1>4. SentInstalled' /\ RecvBufBounded'
    BY DEF SentInstalled, RecvBufBounded, NoPcb
  <1> QED
    BY <1>0, <1>1, <1>2, <1>3, <1>4 DEF TypeOK

LEMMA SyncReturnIInv == IInv /\ SyncReturn => IInv'
  <1> SUFFICES ASSUME IInv, SyncReturn PROVE IInv'
    OBVIOUS
  <1> USE SizesAreNat DEF Sizes, IInv, SyncReturn, client, upward, downward
  <1>0. FlagsOK'
    BY Zenon DEF TypeOK, FlagsOK
  <1>1. DataOK'
    <2>1. input' \in Segments
      BY NoInputOK DEF TypeOK, DataOK
    <2> QED
      BY <2>1 DEF TypeOK, DataOK
  <1>2. PcbOwned' /\ WindowFits' /\ PendingIsUnacked'
    BY DEF TypeOK, DataOK, FlagsOK, Pcb, Segments, JobsInFrame, PcbOwned, WindowFits,
           PendingIsUnacked, NoInput
  <1>3. SocksOwned'
    BY DEF SocksOwned
  <1>4. JobsInFrame'
    BY DEF TypeOK, DataOK, FlagsOK, JobsInFrame, HasJobs, NoInput
  <1>5. SentInstalled' /\ RecvBufBounded'
    BY DEF NoInput, TypeOK, DataOK, FlagsOK, JobsInFrame, SentInstalled, RecvBufBounded, PcbOwned
  <1> QED
    BY <1>0, <1>1, <1>2, <1>3, <1>4, <1>5 DEF TypeOK

\* client_handle_freed_client keeps the client and its SOCKS side, or neither.
LEMMA FreedClientEffect ==
  ASSUME NEW k, client_handle_freed_client(k)
  PROVE  /\ client_closed' = TRUE /\ KillDeadVar
         /\ \/ socks' = k /\ buf # <<>> /\ ~socks_closed /\ UNCHANGED <<socks_closed, alive>>
            \/ socks' = NoSocks /\ socks_closed' = TRUE /\ alive' = FALSE
  BY DEF client_handle_freed_client

\* SocksOwned survives a step that keeps the SOCKS side, or one that drops it.
LEMMA SocksOwnedKept ==
  ASSUME SocksOwned, UNCHANGED <<alive, socks_closed, socks_up, socks>>
  PROVE  SocksOwned'
  BY DEF SocksOwned

LEMMA SocksOwnedDropped ==
  ASSUME socks' = NoSocks, socks_closed' = TRUE, alive' = FALSE
  PROVE  SocksOwned'
  BY DEF SocksOwned, NoSocks

LEMMA SocksWaitIInv == IInv /\ SocksWait => IInv'
  <1> SUFFICES ASSUME IInv, SocksWait PROVE IInv'
    OBVIOUS
  <1> USE SizesAreNat DEF Sizes, IInv, SocksWait, client, upward, downward, sync, HasJobs
  <1>0. FlagsOK'
    BY Zenon DEF TypeOK, FlagsOK
  <1>1. DataOK'
    BY NoInputOK DEF TypeOK, DataOK, OpStates
  <1>2. PcbOwned'
    BY NoInputOK DEF TypeOK, DataOK, FlagsOK, Pcb, PcbOwned, SocksOwned, JobsInFrame, SameData, SameCallbacks, Open
  <1>3. WindowFits' /\ PendingIsUnacked'
    BY NoInputOK DEF TypeOK, DataOK, FlagsOK, Pcb, Segments, PcbOwned, WindowFits,
           PendingIsUnacked, SentInstalled, SocksOwned, JobsInFrame, SameData, SameCallbacks, NoInput
  <1>4. SocksOwned' /\ JobsInFrame'
    BY NoInputOK DEF TypeOK, DataOK, FlagsOK, OpStates, Pcb, SocksOwned, JobsInFrame, PcbOwned, SameCallbacks, NoInput
  <1>5. SentInstalled' /\ RecvBufBounded'
    BY NoInputOK DEF TypeOK, DataOK, FlagsOK, Pcb, OpStates, Segments, SentInstalled, RecvBufBounded,
           PcbOwned, SocksOwned, JobsInFrame, SameData, SameCallbacks, NoInput
  <1> QED
    BY <1>0, <1>1, <1>2, <1>3, <1>4, <1>5 DEF TypeOK

LEMMA SocksUpIInv == IInv /\ SocksUp => IInv'
  <1> SUFFICES ASSUME IInv, SocksUp PROVE IInv'
    OBVIOUS
  <1> USE SizesAreNat DEF Sizes, IInv, SocksUp, upward, sync, Runs, Quiet, HasJobs, StartSend
  <1>0. FlagsOK'
    BY Zenon DEF TypeOK, FlagsOK
  <1>1. DataOK'
    <2>1. pcb' \in Pcb
      BY DEF TypeOK, DataOK, Pcb
    <2> QED
      BY <2>1 DEF TypeOK, DataOK, OpStates
  <1>2. PcbOwned'
    BY NoInputOK DEF TypeOK, DataOK, FlagsOK, Pcb, PcbOwned, SocksOwned, JobsInFrame, SameData, SameCallbacks, Open
  <1>3. WindowFits' /\ PendingIsUnacked'
    BY NoInputOK DEF TypeOK, DataOK, FlagsOK, Pcb, Segments, PcbOwned, WindowFits,
           PendingIsUnacked, SentInstalled, SocksOwned, JobsInFrame, SameData, SameCallbacks, NoInput
  <1>4. SocksOwned' /\ JobsInFrame'
    BY NoInputOK DEF TypeOK, DataOK, FlagsOK, OpStates, Pcb, SocksOwned, JobsInFrame, PcbOwned, SameCallbacks, NoInput
  <1>5. SentInstalled' /\ RecvBufBounded'
    BY NoInputOK DEF TypeOK, DataOK, FlagsOK, Pcb, OpStates, Segments, SentInstalled, RecvBufBounded,
           PcbOwned, SocksOwned, JobsInFrame, SameData, SameCallbacks, NoInput
  <1> QED
    BY <1>0, <1>1, <1>2, <1>3, <1>4, <1>5 DEF TypeOK

LEMMA SocksDownIInv == IInv /\ SocksDown => IInv'
  <1> SUFFICES ASSUME IInv, SocksDown PROVE IInv'
    OBVIOUS
  <1> USE SizesAreNat DEF Sizes, IInv, SocksDown, upward, downward, Runs, Quiet, HasJobs,
          NoSocks, KillDeadVar
  <1>a. /\ pcb' \in Pcb /\ SameData(pcb', pcb) /\ socks' = NoSocks /\ socks_closed' = TRUE
        /\ \/ /\ DataForApp /\ ~pcb'.recv /\ pcb'.state = pcb.state
              /\ (pcb'.sent <=> pcb.sent) /\ (pcb'.err <=> pcb.err)
              /\ UNCHANGED <<alive, client_closed, killed>>
           \/ /\ alive' = FALSE /\ client_closed' = TRUE
              /\ IF client_closed
                 THEN pcb' = pcb /\ killed' = killed
                 ELSE Released(pcb', pcb) /\ KillDeadVar
    BY FreeSocksEffect
  <1>0. FlagsOK'
    BY Zenon DEF TypeOK, FlagsOK, client_free_socks
  <1>1. DataOK'
    BY <1>a DEF TypeOK, DataOK, OpStates
  <1>2. PcbOwned'
    BY <1>a DEF TypeOK, DataOK, FlagsOK, Pcb, PcbOwned, SocksOwned, JobsInFrame, SameData, SameCallbacks, Open, Released
  <1>3. WindowFits' /\ PendingIsUnacked'
    BY <1>a DEF TypeOK, DataOK, FlagsOK, Pcb, Segments, PcbOwned, WindowFits, PendingIsUnacked,
           SentInstalled, SocksOwned, JobsInFrame, SameData, SameCallbacks, NoInput, Released
  <1>4. SocksOwned' /\ JobsInFrame'
    BY <1>a DEF TypeOK, DataOK, FlagsOK, OpStates, Pcb, SocksOwned, JobsInFrame, PcbOwned,
           SameCallbacks, NoInput, Released
  <1>5. SentInstalled' /\ RecvBufBounded'
    BY <1>a DEF TypeOK, DataOK, FlagsOK, Pcb, OpStates, Segments, SentInstalled, RecvBufBounded,
           PcbOwned, SocksOwned, JobsInFrame, SameData, SameCallbacks, NoInput, Released
  <1> QED
    BY <1>0, <1>1, <1>2, <1>3, <1>4, <1>5 DEF TypeOK

LEMMA SendDoneIInv ==
  ASSUME IInv, NEW n \in 1..TCP_WND, client_socks_send_handler_done(n)
  PROVE  IInv'
  <1> USE SizesAreNat DEF Sizes, IInv, client_socks_send_handler_done, downward, Runs, Quiet,
          HasJobs, NoSocks, KillDeadVar
  <1>0. FlagsOK'
    BY Zenon DEF TypeOK, FlagsOK, client_free_socks
  <1>a. n \in 1..Len(buf) /\ buf' \in Seq(Nat) /\ Len(buf') = Len(buf) - n
        /\ toSocks' \in Seq(Nat)
    <2>1. n \in 1..Len(buf) /\ buf \in Seq(Nat) /\ toSocks \in Seq(Nat)
      BY DEF TypeOK, DataOK
    <2>2. /\ SubSeq(buf, n + 1, Len(buf)) \in Seq(Nat)
          /\ Len(SubSeq(buf, n + 1, Len(buf))) = Len(buf) - n
          /\ SubSeq(buf, 1, n) \in Seq(Nat)
      BY <2>1, TailOf
    <2>3. toSocks' \in Seq(Nat)
      BY <2>1, <2>2
    <2>4. buf' = SubSeq(buf, n + 1, Len(buf))
      BY DEF Unsent
    <2> QED
      BY <2>1, <2>2, <2>3, <2>4
  <1>b. CASE n = Len(buf) /\ client_closed
    <2>1. /\ pcb' = pcb /\ socks' = NoSocks /\ socks_closed' = TRUE
          /\ alive' = FALSE /\ client_closed' = TRUE /\ killed' = killed
      BY <1>b DEF client_free_socks, DataForApp
    <2>2. DataOK'
      BY <1>a, <2>1 DEF TypeOK, DataOK, OpStates
    <2>3. PcbOwned' /\ WindowFits' /\ PendingIsUnacked'
      BY <1>b, <2>1 DEF PcbOwned, WindowFits, PendingIsUnacked
    <2>4. SocksOwned' /\ JobsInFrame' /\ SentInstalled' /\ RecvBufBounded'
      BY <1>b, <2>1 DEF TypeOK, DataOK, FlagsOK, SocksOwned, JobsInFrame, SentInstalled,
             RecvBufBounded, NoInput, PcbOwned
    <2> QED
      BY <1>0, <2>2, <2>3, <2>4 DEF TypeOK
  <1>c. CASE ~(n = Len(buf) /\ client_closed)
    <2>1. /\ pcb' = IF client_closed THEN pcb ELSE tcp_recved(pcb, n)
          /\ socks' = [socks EXCEPT !.send = StartSend(Unsent(n))]
          /\ UNCHANGED <<alive, client_closed, socks_closed, killed>>
      BY <1>c
    <2>2. /\ tcp_recved(pcb, n) \in Pcb /\ SameCallbacks(tcp_recved(pcb, n), pcb)
          /\ tcp_recved(pcb, n).state = pcb.state /\ tcp_recved(pcb, n).unacked = pcb.unacked
          /\ tcp_recved(pcb, n).acked = pcb.acked
          /\ tcp_recved(pcb, n).refused <=> pcb.refused
          /\ pcb.rcv_wnd + n <= TCP_WND => tcp_recved(pcb, n).rcv_wnd = pcb.rcv_wnd + n
      <3>1. pcb \in Pcb /\ n \in Nat
        BY DEF TypeOK, DataOK
      <3> QED
        BY <3>1, RecvedOK
    <2>3. StartSend(Unsent(n)) \in {"none", "job"}
      BY DEF StartSend
    <2>4. DataOK'
      BY <1>a, <2>1, <2>2, <2>3 DEF TypeOK, DataOK, OpStates
    <2>5. PcbOwned'
      BY <2>1, <2>2 DEF PcbOwned, SameCallbacks, Open
    <2>6. WindowFits' /\ PendingIsUnacked'
      <3>1. CASE client_closed
        BY <1>a, <2>1, <3>1 DEF WindowFits, PendingIsUnacked, PcbOwned
      <3>2. CASE ~client_closed
        <4>1. /\ Len(buf') = Len(buf) - n /\ n \in 1..Len(buf) /\ input' = input
              /\ pcb' = tcp_recved(pcb, n)
          BY <1>a, <2>1, <3>2
        <4>2. WindowFits /\ TypeOK
          OBVIOUS
        <4>3. WindowFits'
          <5> HIDE DEF client_socks_send_handler_done, IInv
          <5>1. (pcb'.recv <=> pcb.recv) /\ (pcb'.refused <=> pcb.refused)
            BY <2>2, <4>1 DEF SameCallbacks
          <5>2. ASSUME pcb.recv
                PROVE  pcb.rcv_wnd + input.len + (IF input.fin THEN 1 ELSE 0) + Len(buf) = TCP_WND
            BY <4>2, <5>2 DEF WindowFits
          <5>3. ASSUME pcb.recv
                PROVE  pcb'.rcv_wnd = pcb.rcv_wnd + n
            BY <2>2, <4>1, <4>2, <5>2, <5>3, Counts
          <5>4. ASSUME pcb.recv
                PROVE  pcb'.rcv_wnd + input.len + (IF input.fin THEN 1 ELSE 0) + Len(buf') = TCP_WND
            BY <4>1, <4>2, <5>2, <5>3, <5>4, Counts
          <5> QED
            BY <4>1, <4>2, <5>1, <5>4 DEF WindowFits
        <4>4. PendingIsUnacked'
          BY <2>1, <2>2, <3>2 DEF PendingIsUnacked, SameCallbacks
        <4> QED
          BY <4>3, <4>4
      <3> QED
        BY <3>1, <3>2
    <2>7. SocksOwned' /\ JobsInFrame'
      BY <2>1, <2>3 DEF TypeOK, DataOK, SocksOwned, JobsInFrame, OpStates
    <2>8. SentInstalled' /\ RecvBufBounded'
      BY <2>1, <2>2 DEF TypeOK, DataOK, SentInstalled, RecvBufBounded, SameCallbacks, PcbOwned
    <2> QED
      BY <1>0, <2>4, <2>5, <2>6, <2>7, <2>8 DEF TypeOK
  <1> QED
    BY <1>b, <1>c

LEMMA TcpInputIInv ==
  ASSUME IInv, NEW seg \in Segments, TcpInput(seg) \/ TcpInputNoAck(seg)
  PROVE  IInv'
  <1> USE SizesAreNat DEF Sizes, IInv, client, upward, downward, Quiet
  <1>c. /\ MayArrive(seg) /\ input' = seg
        /\ UNCHANGED <<client, upward, downward, socks, frame, killed, ret, quitting>>
    BY DEF TcpInput, TcpInputNoAck
  <1>d. /\ Quiet /\ alive /\ Open(pcb) /\ ~pcb.refused
        /\ seg.len + (IF seg.fin THEN 1 ELSE 0) <= pcb.rcv_wnd
    BY <1>c DEF MayArrive
  <1>0. FlagsOK'
    BY <1>c, Zenon DEF TypeOK, FlagsOK
  <1>a. /\ seg.acked \in Nat /\ seg.len \in Nat /\ seg.fin \in BOOLEAN
    BY DEF Segments
  <1>e. pcb \in Pcb /\ pcb.unacked \in Nat /\ repeated \in Nat
    BY DEF TypeOK, DataOK, Pcb
  <1>b. /\ pcb' \in Pcb /\ SameCallbacks(pcb', pcb) /\ (pcb'.refused <=> pcb.refused)
        /\ repeated' \in Nat
        /\ pcb'.unacked + seg.acked - repeated' = pcb.unacked - repeated
        /\ pcb.unacked = 0 /\ pcb.acked = 0 => pcb'.unacked = 0 /\ pcb'.acked = 0
                                              /\ seg.acked = 0 /\ repeated' = repeated
        /\ pcb'.rcv_wnd = pcb.rcv_wnd - seg.len - (IF seg.fin THEN 1 ELSE 0)
        /\ Open(pcb')
    <2>1. CASE TcpInput(seg)
      <3>1. pcb' = tcp_receive(pcb, seg.acked, seg.len, seg.fin) /\ seg.acked <= pcb.unacked
            /\ repeated' = repeated
        BY <2>1 DEF TcpInput
      <3> QED
        BY <1>a, <1>d, <1>e, <3>1, ReceiveOK
    <2>2. CASE TcpInputNoAck(seg)
      <3>1. pcb' = tcp_receive_NoAck(pcb, seg.len, seg.fin) /\ seg.acked = pcb.acked
            /\ repeated' = repeated + seg.acked
        BY <2>2 DEF TcpInputNoAck
      <3> QED
        BY <1>a, <1>d, <1>e, <3>1, ReceiveNoAckOK
    <2> QED
      BY <2>1, <2>2
  <1>1. DataOK'
    BY <1>b, <1>c DEF TypeOK, DataOK
  <1>2. PcbOwned'
    BY <1>b, <1>c, <1>d DEF PcbOwned, SameCallbacks
  <1>3. WindowFits' /\ PendingIsUnacked'
    <2>1. WindowFits'
      <3>1. (IF seg.fin THEN 1 ELSE 0) \in {0, 1}
        BY Zenon
      <3>2. input = NoInput /\ input' = seg /\ Len(buf) \in Nat /\ pcb.rcv_wnd \in Nat
        BY <1>c, <1>d DEF TypeOK, DataOK, Pcb
      <3> QED
        BY <1>a, <1>b, <1>c, <3>1, <3>2 DEF WindowFits, SameCallbacks, NoInput
    <2>2. PendingIsUnacked'
      <3>1. pcb.sent => socks_recv_tcp_pending = pcb.unacked - repeated
        BY <1>d, <1>e DEF PendingIsUnacked, NoInput
      <3>2. pcb'.unacked \in Nat /\ (pcb'.sent <=> pcb.sent) /\ input'.acked = seg.acked
            /\ socks_recv_tcp_pending' = socks_recv_tcp_pending
        BY <1>b, <1>c DEF Pcb, SameCallbacks
      <3>3. pcb'.sent => socks_recv_tcp_pending' = pcb'.unacked + seg.acked - repeated'
        BY <1>b, <3>1, <3>2
      <3> QED
        BY <3>2, <3>3 DEF PendingIsUnacked
    <2> QED
      BY <2>1, <2>2
  <1>4. SocksOwned' /\ JobsInFrame'
    BY <1>c, <1>d DEF SocksOwned, JobsInFrame, HasJobs, PcbOwned
  <1>5. SentInstalled' /\ RecvBufBounded'
    <2>1. (pcb.sent <=> pcb'.sent) /\ (~pcb'.sent => pcb'.unacked = 0 /\ pcb'.acked = 0 /\ seg.acked = 0 /\ repeated' = 0)
      BY <1>a, <1>b, <1>d DEF SentInstalled, SameCallbacks, TypeOK, DataOK, Pcb, PcbOwned
    <2> QED
      BY <1>b, <1>c, <2>1 DEF SentInstalled, RecvBufBounded, SameCallbacks
  <1> QED
    BY <1>0, <1>1, <1>2, <1>3, <1>4, <1>5 DEF TypeOK

LEMMA RecvFuncIInv == IInv /\ client_recv_func => IInv'
  <1> SUFFICES ASSUME IInv, client_recv_func PROVE IInv'
    OBVIOUS
  <1> USE SizesAreNat DEF Sizes, IInv, client, downward
  <1>0. FlagsOK'
    BY Zenon DEF TypeOK, FlagsOK, client_recv_func
  <1>a. TypeOK /\ DataOK /\ frame = "none" /\ input.acked = 0 /\ input.len > 0
    BY DEF client_recv_func, TypeOK
  <1>b. /\ [input EXCEPT !.len = 0] \in Segments
        /\ [input EXCEPT !.len = 0].acked = 0 /\ [input EXCEPT !.len = 0].len = 0
        /\ [input EXCEPT !.len = 0].fin = input.fin
    <2>1. input \in Segments /\ input.acked = 0
      BY <1>a DEF DataOK
    <2>2. [input EXCEPT !.len = 0] \in Segments
      BY <2>1 DEF Segments
    <2>3. [input EXCEPT !.len = 0].acked = 0 /\ [input EXCEPT !.len = 0].len = 0
      BY <2>1 DEF Segments
    <2>4. [input EXCEPT !.len = 0].fin = input.fin
      BY <2>1 DEF Segments
    <2> QED
      BY <2>2, <2>3, <2>4
  <1>c. alive /\ ~client_closed /\ (HasJobs => quitting)
    BY <1>a, Counts DEF JobsInFrame, NoInput
  <1>1. CASE ~pcb.recv
    <2>1. /\ pcb' = tcp_recved(pcb, input.len) /\ input' \in Segments /\ ret' \in {"ERR_OK", "ERR_ABRT", "ERR_MEM"}
          /\ input'.acked = 0
          /\ UNCHANGED <<buf, appRcvd, socks, frame, alive, client_closed, socks_up,
                         socks_closed, toSocks, downward, killed, repeated, quitting>>
      <3>1. pcb' = tcp_recved(pcb, input.len) /\ Returned(ret, [input EXCEPT !.len = 0])
        BY <1>a, <1>1 DEF client_recv_func
      <3>2. /\ UNCHANGED <<buf, appRcvd, socks, frame, alive, client_closed, socks_up,
                           socks_closed, toSocks, downward, killed, repeated, quitting>>
        BY <1>a, <1>1 DEF client_recv_func
      <3>3. NoInput.acked = 0
        BY DEF NoInput
      <3>4. input' \in Segments /\ input'.acked = 0
        BY <3>1, <3>3, <1>b, NoInputOK DEF Returned
      <3>5. ret' \in {"ERR_OK", "ERR_ABRT", "ERR_MEM"}
        BY <3>1, <1>a DEF Returned, DataOK
      <3> QED
        BY <3>1, <3>2, <3>4, <3>5
    <2>2. /\ pcb' \in Pcb /\ SameCallbacks(pcb', pcb) /\ pcb'.state = pcb.state
          /\ pcb'.unacked = pcb.unacked /\ pcb'.acked = pcb.acked
          /\ (pcb'.refused <=> pcb.refused)
      BY <1>a, <2>1, Counts, RecvedOK DEF DataOK
    <2>3. DataOK'
      BY <1>a, <2>1, <2>2 DEF DataOK
    <2>4. PcbOwned' /\ WindowFits' /\ PendingIsUnacked'
      BY <1>1, <1>a, <2>1, <2>2 DEF PcbOwned, WindowFits, PendingIsUnacked, SameCallbacks, Open
    <2>5. SocksOwned' /\ JobsInFrame'
      BY <1>a, <1>c, <2>1 DEF SocksOwned, JobsInFrame, HasJobs
    <2>6. SentInstalled' /\ RecvBufBounded'
      BY <1>a, <2>1, <2>2 DEF SentInstalled, RecvBufBounded, SameCallbacks
    <2> QED
      BY <1>0, <2>3, <2>4, <2>5, <2>6 DEF TypeOK
  <1>2. CASE pcb.recv
    <2>1. input.len <= TCP_WND - Len(buf)
      BY <1>2, <1>a, Counts DEF WindowFits
    <2>2. /\ pcb' = pcb /\ buf' = buf \o [i \in 1..input.len |-> appRcvd + i]
          /\ appRcvd' = appRcvd + input.len
          /\ UNCHANGED <<alive, client_closed, socks_up, socks_closed, toSocks, downward,
                         killed, repeated, quitting>>
      <3>1. ~(input.len > TCP_WND - Len(buf))
        BY <2>1, Counts, <1>a
      <3> QED
        BY <1>2, <3>1, <1>a DEF client_recv_func
    <2>3. \/ /\ buf = <<>> /\ socks_up /\ socks' = [socks EXCEPT !.send = "job"]
             /\ frame' = "recv" /\ ret' = ret
          \/ /\ ~(buf = <<>> /\ socks_up) /\ ret' = "ERR_OK" /\ UNCHANGED <<socks, frame>>
      BY <1>2, <2>1, Counts, <1>a DEF client_recv_func, Returned
    <2>4. input' = [input EXCEPT !.len = 0]
      BY <1>2, <2>1, Counts, <1>a DEF client_recv_func, Returned
    <2>12. input'.acked = 0 /\ input'.len = 0 /\ input'.fin = input.fin /\ input' \in Segments
      BY <1>b, <2>4
    <2>13. socks' \in [phase : {"none", "connecting", "up"}, send : OpStates, recv : OpStates]
           /\ socks'.phase = socks.phase /\ socks'.recv = socks.recv
           /\ frame' \in {"none", "recv"} /\ ret' \in {"ERR_OK", "ERR_ABRT", "ERR_MEM"}
      BY <1>a, <2>3 DEF DataOK, OpStates
    <2>5. buf' \in Seq(Nat) /\ Len(buf') = Len(buf) + input.len
      <3>1. appRcvd \in Nat /\ input.len \in Nat /\ buf \in Seq(Nat)
        BY <1>a, Counts DEF DataOK
      <3>2. /\ [i \in 1..input.len |-> appRcvd + i] \in Seq(Nat)
            /\ Len([i \in 1..input.len |-> appRcvd + i]) = input.len
        BY <3>1, NumberedBytes
      <3> QED
        BY <2>2, <3>1, <3>2
    <2>6. DataOK'
      <3>1. appRcvd' \in Nat
        BY <1>a, <2>2, Counts DEF DataOK
      <3> QED
        BY <1>a, <2>2, <2>12, <2>13, <2>5, <3>1 DEF DataOK
    <2>7. PcbOwned' /\ PendingIsUnacked'
      BY <1>a, <1>b, <2>2, <2>4 DEF PcbOwned, PendingIsUnacked, Open
    <2>8. WindowFits'
      <3>1. pcb.rcv_wnd + input.len + (IF input.fin THEN 1 ELSE 0) + Len(buf) = TCP_WND /\ ~pcb.refused
        BY <1>2 DEF WindowFits
      <3>2. pcb.rcv_wnd + input'.len + (IF input'.fin THEN 1 ELSE 0) + Len(buf') = TCP_WND
        BY <1>a, <2>5, <2>12, <3>1, Counts
      <3> QED
        BY <2>2, <3>1, <3>2 DEF WindowFits
    <2>9. SocksOwned'
      <3>1. CASE buf = <<>> /\ socks_up
        <4>1. socks.phase = "up"
          BY <1>c, <1>2, <3>1 DEF SocksOwned, PcbOwned
        <4> QED
          BY <1>c, <2>2, <2>13, <3>1, <4>1 DEF SocksOwned
      <3>2. CASE ~(buf = <<>> /\ socks_up)
        BY <2>2, <2>3, <3>2, SocksOwnedKept
      <3> QED
        BY <3>1, <3>2
    <2>10. JobsInFrame'
      BY <1>a, <1>b, <1>c, <2>2, <2>3, <2>4 DEF JobsInFrame, HasJobs
    <2>11. SentInstalled' /\ RecvBufBounded'
      BY <1>a, <1>b, <2>2, <2>3, <2>4 DEF SentInstalled, RecvBufBounded, DataOK
    <2> QED
      BY <1>0, <2>6, <2>7, <2>8, <2>9, <2>10, <2>11 DEF TypeOK
  <1> QED
    BY <1>1, <1>2

LEMMA RecvClosedIInv == IInv /\ client_recv_func_closed => IInv'
  <1> SUFFICES ASSUME IInv, client_recv_func_closed PROVE IInv'
    OBVIOUS
  <1> USE SizesAreNat DEF Sizes, IInv, upward, downward
  <1>0. FlagsOK'
    BY Zenon DEF TypeOK, FlagsOK, client_recv_func_closed, client_free_client,
                 client_handle_freed_client, KillDeadVar
  <1>a. /\ TypeOK /\ DataOK /\ frame = "none" /\ input.acked = 0 /\ input' = NoInput
        /\ ret' \in {"ERR_OK", "ERR_ABRT", "ERR_MEM"}
        /\ UNCHANGED <<socks_up, upward, downward, frame, repeated, quitting>>
    BY DEF client_recv_func_closed, TypeOK, Returned, DataOK
  <1>b. alive /\ ~client_closed /\ (HasJobs => quitting)
    BY <1>a DEF client_recv_func_closed, JobsInFrame, NoInput
  <1>c. /\ ReturnFin(pcb) \in Pcb /\ SameCallbacks(ReturnFin(pcb), pcb)
        /\ ReturnFin(pcb).unacked = pcb.unacked /\ ReturnFin(pcb).acked = pcb.acked
        /\ (ReturnFin(pcb).refused <=> pcb.refused)
        /\ ReturnFin(pcb).state = pcb.state
    BY <1>a, ReturnFinOK DEF DataOK
  <1>1. CASE pcb.recv
    <2>1. Released(pcb', ReturnFin(pcb)) /\ client_handle_freed_client(socks)
      BY <1>1, <1>c, ReleasedOK DEF client_recv_func_closed, client_free_client
    <2>2. /\ pcb' \in Pcb /\ ~pcb'.recv /\ ~pcb'.sent /\ ~pcb'.err /\ ~Open(pcb')
          /\ ~pcb'.refused
      BY <1>a, <1>c, <2>1 DEF Released, SameData, WindowFits
    <2>3. /\ client_closed' = TRUE /\ KillDeadVar
          /\ \/ socks' = socks /\ buf # <<>> /\ ~socks_closed /\ UNCHANGED <<socks_closed, alive>>
             \/ socks' = NoSocks /\ socks_closed' = TRUE /\ alive' = FALSE
      BY <2>1, FreedClientEffect
    <2>4. DataOK'
      BY <1>a, <2>2, <2>3, NoInputOK DEF DataOK, NoSocks, OpStates
    <2>5. PcbOwned' /\ WindowFits' /\ PendingIsUnacked'
      BY <2>2, <2>3 DEF PcbOwned, WindowFits, PendingIsUnacked
    <2>6. SocksOwned' /\ JobsInFrame'
      <3>1. ~killed'
        BY <1>a, <2>3, Zenon DEF KillDeadVar, JobsInFrame
      <3>2. SocksOwned'
        BY <1>a, <2>3, SocksOwnedKept, SocksOwnedDropped
      <3> QED
        BY <1>a, <1>b, <2>3, <3>1, <3>2 DEF JobsInFrame, HasJobs, NoSocks
    <2>7. SentInstalled' /\ RecvBufBounded'
      BY <1>a, <2>2, <2>3 DEF SentInstalled, RecvBufBounded
    <2> QED
      BY <1>0, <2>4, <2>5, <2>6, <2>7 DEF TypeOK
  <1>2. CASE ~pcb.recv
    <2>1. /\ pcb' = ReturnFin(pcb)
          /\ UNCHANGED <<alive, client_closed, socks_closed, socks, killed>>
      BY <1>2 DEF client_recv_func_closed
    <2>2. DataOK'
      BY <1>a, <1>c, <2>1, NoInputOK DEF DataOK
    <2>3. PcbOwned' /\ WindowFits' /\ PendingIsUnacked'
      BY <1>2, <1>a, <1>c, <2>1
         DEF PcbOwned, WindowFits, PendingIsUnacked, SameCallbacks, Open, NoInput
    <2>4. SocksOwned' /\ JobsInFrame'
      BY <1>a, <1>b, <2>1 DEF SocksOwned, JobsInFrame, HasJobs, NoInput
    <2>5. SentInstalled' /\ RecvBufBounded'
      BY <1>a, <1>c, <2>1 DEF SentInstalled, RecvBufBounded, SameCallbacks, NoInput
    <2> QED
      BY <1>0, <2>2, <2>3, <2>4, <2>5 DEF TypeOK
  <1> QED
    BY <1>1, <1>2

LEMMA ErrFuncIInv == IInv /\ client_err_func => IInv'
  <1> SUFFICES ASSUME IInv, client_err_func PROVE IInv'
    OBVIOUS
  <1> USE SizesAreNat DEF Sizes, IInv, upward, downward
  <1>0. FlagsOK'
    BY Zenon DEF TypeOK, FlagsOK, client_err_func, client_handle_freed_client, KillDeadVar
  <1>a. /\ TypeOK /\ DataOK /\ frame = "none" /\ input = NoInput /\ ~HasJobs
        /\ UNCHANGED <<socks_up, upward, downward, frame, input, ret, repeated, quitting>>
    BY DEF client_err_func, TypeOK, Quiet
  <1>1. Released(pcb', pcb) /\ client_handle_freed_client(socks)
    BY <1>a, ReleasedOK DEF client_err_func, DataOK
  <1>2. /\ pcb' \in Pcb /\ ~pcb'.recv /\ ~pcb'.sent /\ ~pcb'.err /\ ~Open(pcb')
        /\ ~pcb'.refused
    BY <1>1 DEF Released, SameData, WindowFits
  <1>3. /\ client_closed' = TRUE /\ KillDeadVar
        /\ \/ socks' = socks /\ buf # <<>> /\ ~socks_closed /\ UNCHANGED <<socks_closed, alive>>
           \/ socks' = NoSocks /\ socks_closed' = TRUE /\ alive' = FALSE
    BY <1>1, FreedClientEffect
  <1>4. alive
    BY DEF client_err_func
  <1>5. DataOK'
    BY <1>a, <1>2, <1>3 DEF DataOK, NoSocks, OpStates
  <1>6. PcbOwned' /\ WindowFits' /\ PendingIsUnacked'
    BY <1>2, <1>3 DEF PcbOwned, WindowFits, PendingIsUnacked
  <1>7. SocksOwned' /\ JobsInFrame'
    <2>1. ~killed'
      BY <1>a, <1>3, Zenon DEF KillDeadVar, JobsInFrame
    <2>2. SocksOwned'
      BY <1>a, <1>3, SocksOwnedKept, SocksOwnedDropped
    <2> QED
      BY <1>a, <1>3, <2>1, <2>2 DEF JobsInFrame, HasJobs, NoSocks
  <1>8. SentInstalled' /\ RecvBufBounded'
    BY <1>a, <1>2, <1>3 DEF SentInstalled, RecvBufBounded
  <1> QED
    BY <1>0, <1>5, <1>6, <1>7, <1>8 DEF TypeOK

LEMMA TerminateIInv == IInv /\ terminate => IInv'
  <1> SUFFICES ASSUME IInv, terminate PROVE IInv'
    OBVIOUS
  <1> USE DEF IInv, terminate, client, upward, downward, sync
  <1>1. TypeOK'
    <2>1. FlagsOK'
      BY Zenon DEF TypeOK, FlagsOK
    <2> QED
      BY <2>1 DEF TypeOK, DataOK
  <1>2. PcbOwned' /\ WindowFits' /\ PendingIsUnacked'
    BY DEF PcbOwned, WindowFits, PendingIsUnacked
  <1>3. SocksOwned' /\ JobsInFrame'
    BY DEF SocksOwned, JobsInFrame, HasJobs
  <1>4. SentInstalled' /\ RecvBufBounded'
    BY DEF SentInstalled, RecvBufBounded
  <1> QED
    BY <1>1, <1>2, <1>3, <1>4

LEMMA MurderIInv == IInv /\ client_murder => IInv'
  <1> SUFFICES ASSUME IInv, client_murder PROVE IInv'
    OBVIOUS
  <1> USE SizesAreNat DEF Sizes, IInv, upward, downward, sync
  <1>0. FlagsOK'
    BY Zenon DEF TypeOK, FlagsOK, client_murder
  <1>a. /\ TypeOK /\ DataOK /\ frame = "none" /\ input = NoInput
        /\ socks' = NoSocks /\ alive' = FALSE /\ socks_closed' = TRUE
        /\ UNCHANGED <<socks_up, upward, downward, sync, repeated>>
    BY DEF client_murder, TypeOK
  <1>1. /\ pcb' \in Pcb /\ ~pcb'.recv /\ ~pcb'.sent /\ ~pcb'.err /\ ~Open(pcb')
        /\ ~pcb'.refused
    <2>1. CASE ~client_closed
      BY <2>1, <1>a, ReleasedOK DEF client_murder, DataOK, Released, SameData, WindowFits
    <2>2. CASE client_closed
      BY <2>2, <1>a DEF client_murder, DataOK, PcbOwned, WindowFits
    <2> QED
      BY <2>1, <2>2
  <1>2. DataOK'
    BY <1>a, <1>1, NoSocksOK DEF DataOK
  <1>3. PcbOwned' /\ WindowFits' /\ PendingIsUnacked'
    BY <1>a, <1>1 DEF PcbOwned, WindowFits, PendingIsUnacked
  <1>4. SocksOwned' /\ JobsInFrame'
    BY <1>a, SocksOwnedDropped DEF JobsInFrame
  <1>5. SentInstalled' /\ RecvBufBounded'
    BY <1>a, <1>1 DEF SentInstalled, RecvBufBounded, NoSocks
  <1> QED
    BY <1>0, <1>2, <1>3, <1>4, <1>5 DEF TypeOK

LEMMA StutterIInv == IInv /\ UNCHANGED vars => IInv'
  <1> SUFFICES ASSUME IInv, UNCHANGED vars PROVE IInv'
    OBVIOUS
  <1> USE DEF IInv, vars, client, upward, downward, sync
  <1>1. TypeOK'
    BY DEF TypeOK, FlagsOK, DataOK
  <1>2. PcbOwned' /\ WindowFits' /\ PendingIsUnacked'
    BY DEF PcbOwned, WindowFits, PendingIsUnacked
  <1>3. SocksOwned' /\ JobsInFrame'
    BY DEF SocksOwned, JobsInFrame, HasJobs
  <1>4. SentInstalled' /\ RecvBufBounded'
    BY DEF SentInstalled, RecvBufBounded
  <1> QED
    BY <1>1, <1>2, <1>3, <1>4

-----------------------------------------------------------------------------
(* Queueing data for the application. *)

\* client_socks_recv_send_out queues a part of the data, all of it or not, and goes
\* on, or releases the pcb and gives the client up.
LEMMA SendOutEffect ==
  ASSUME TypeOK, NEW data \in Seq(Nat), Len(data) <= RECV_BUF,
         NEW sent \in Nat, sent < Len(data),
         NEW pending \in Int, pending = pcb.unacked - repeated, NEW resume,
         client_socks_recv_send_out(data, sent, pending, resume)
  PROVE  /\ socks_recv_buf' \in Seq(Nat) /\ Len(socks_recv_buf') <= RECV_BUF
         /\ socks_recv_buf_sent' \in 0..RECV_BUF /\ socks_recv_tcp_pending' \in Int
         /\ toApp' \in Seq(Nat) /\ socks_recv_waiting' \in BOOLEAN /\ pcb' \in Pcb
         /\ \/ /\ SameCallbacks(pcb', pcb) /\ pcb'.state = pcb.state
               /\ pcb'.rcv_wnd = pcb.rcv_wnd /\ (pcb'.refused <=> pcb.refused)
               /\ pcb'.unacked = socks_recv_tcp_pending' + repeated
               /\ UNCHANGED <<alive, client_closed, socks_up, socks_closed, killed>>
               /\ \/ socks_recv_buf' = <<>> /\ socks' = resume
                  \/ /\ socks_recv_buf' # <<>> /\ socks_recv_buf_sent' < Len(socks_recv_buf')
                     /\ socks' = [socks EXCEPT !.recv = "none"]
            \/ /\ ~pcb'.recv /\ ~pcb'.sent /\ ~pcb'.err /\ ~Open(pcb')
               /\ (pcb'.refused <=> pcb.refused)
               /\ client_handle_freed_client([socks EXCEPT !.recv = "none"])
  <1> USE SizesAreNat DEF Sizes
  <1>1. PICK w \in {0, Least(Len(data) - sent, tcp_sndbuf(pcb))} :
          /\ socks_recv_tcp_pending' = pending + w
          /\ \/ /\ sent + w = Len(data)
                /\ pcb' = tcp_write(pcb, w)
                /\ toApp' = toApp \o SubSeq(data, sent + 1, sent + w)
                /\ socks_recv_buf' = <<>>
                /\ socks_recv_buf_sent' = sent + w /\ socks_recv_waiting' = FALSE
                /\ socks' = resume
                /\ UNCHANGED <<client, killed>>
             \/ /\ sent + w # Len(data)
                /\ pcb' = tcp_write(pcb, w)
                /\ toApp' = toApp \o SubSeq(data, sent + 1, sent + w)
                /\ socks_recv_buf' = data
                /\ socks_recv_buf_sent' = sent + w /\ socks_recv_waiting' = TRUE
                /\ socks' = [socks EXCEPT !.recv = "none"]
                /\ UNCHANGED <<client, killed>>
             \/ /\ client_abort_client(tcp_write(pcb, w), [socks EXCEPT !.recv = "none"])
                /\ socks_recv_buf' = data
                /\ socks_recv_buf_sent' = sent + w /\ socks_recv_waiting' = FALSE
                /\ UNCHANGED toApp
    BY Zenon DEF client_socks_recv_send_out
  <1>2. pcb \in Pcb /\ pcb.unacked \in 0..TCP_SND_BUF /\ toApp \in Seq(Nat) /\ repeated \in Nat
    BY DEF TypeOK, DataOK, Pcb
  <1>3. w \in 0..tcp_sndbuf(pcb) /\ sent + w <= Len(data) /\ w \in Nat
    <2>1. tcp_sndbuf(pcb) \in Nat
      BY <1>2 DEF tcp_sndbuf
    <2>2. Len(data) - sent \in Nat
      OBVIOUS
    <2> QED
      BY <2>1, <2>2 DEF Least
  <1>4. pending + w \in Int /\ sent + w \in 0..RECV_BUF
    BY <1>2, <1>3
  <1>5. /\ tcp_write(pcb, w) \in Pcb /\ SameCallbacks(tcp_write(pcb, w), pcb)
        /\ tcp_write(pcb, w).state = pcb.state /\ tcp_write(pcb, w).rcv_wnd = pcb.rcv_wnd
        /\ tcp_write(pcb, w).refused <=> pcb.refused
        /\ tcp_write(pcb, w).unacked = pcb.unacked + w
    BY <1>2, <1>3, WriteOK
  <1>6. SubSeq(data, sent + 1, sent + w) \in Seq(Nat)
    BY <1>3
  <1>7. toApp \o SubSeq(data, sent + 1, sent + w) \in Seq(Nat)
    BY <1>2, <1>6
  <1>8. socks_recv_waiting' \in BOOLEAN
    BY <1>1, Zenon
  <1>9. socks_recv_buf' \in Seq(Nat) /\ Len(socks_recv_buf') <= RECV_BUF
    <2>1. socks_recv_buf' = <<>> \/ socks_recv_buf' = data
      BY <1>1
    <2>2. <<>> \in Seq(Nat) /\ Len(<<>>) <= RECV_BUF
      OBVIOUS
    <2> QED
      BY <2>1, <2>2
  <1>10. /\ socks_recv_buf_sent' \in 0..RECV_BUF /\ socks_recv_tcp_pending' \in Int
         /\ toApp' \in Seq(Nat)
    BY <1>1, <1>2, <1>4, <1>7
  <1>11. CASE client_abort_client(tcp_write(pcb, w), [socks EXCEPT !.recv = "none"])
    <2>1. /\ Released(pcb', tcp_write(pcb, w))
          /\ client_handle_freed_client([socks EXCEPT !.recv = "none"])
      BY <1>5, <1>11, ReleasedOK DEF client_abort_client
    <2> QED
      BY <1>5, <1>8, <1>9, <1>10, <2>1 DEF Released, SameData
  <1>12. CASE ~client_abort_client(tcp_write(pcb, w), [socks EXCEPT !.recv = "none"])
    <2>1. /\ pcb' = tcp_write(pcb, w)
          /\ UNCHANGED <<alive, client_closed, socks_up, socks_closed, killed>>
      BY <1>1, <1>12 DEF client
    <2>2. pcb'.unacked = socks_recv_tcp_pending' + repeated
      BY <1>1, <1>2, <1>3, <1>5, <2>1
    <2>3. data # <<>> /\ (sent + w # Len(data) => sent + w < Len(data))
      BY <1>3
    <2>4. \/ socks_recv_buf' = <<>> /\ socks' = resume
          \/ /\ socks_recv_buf' = data /\ socks_recv_buf_sent' < Len(data)
             /\ socks' = [socks EXCEPT !.recv = "none"]
      BY <1>1, <1>12, <2>3
    <2> QED
      BY <1>5, <1>8, <1>9, <1>10, <2>1, <2>2, <2>3, <2>4
  <1> QED
    BY <1>11, <1>12

\* With nothing left to report, the counter is what is in flight less what has been
\* reported twice.
LEMMA PendingCounted ==
  ASSUME socks_recv_tcp_pending' \in Int, repeated' \in Nat, input'.acked = 0,
         pcb'.unacked = socks_recv_tcp_pending' + repeated'
  PROVE  PendingIsUnacked'
  <1>1. ASSUME NEW m \in Int, NEW n \in Nat, NEW u, u = m + n PROVE m = u + 0 - n
    BY <1>1
  <1>2. socks_recv_tcp_pending' = pcb'.unacked + 0 - repeated'
    BY <1>1
  <1> QED
    BY <1>2 DEF PendingIsUnacked

LEMMA RecvDoneIInv ==
  ASSUME IInv, NEW n \in 1..RECV_BUF, client_socks_recv_handler_done(n)
  PROVE  IInv'
  <1> USE SizesAreNat DEF Sizes, IInv
  <1>a. /\ TypeOK /\ DataOK /\ socks.phase = "up" /\ serverRead' = serverRead + n
        /\ UNCHANGED <<socks_up, buf, appRcvd, toSocks, frame, input, ret, repeated, quitting>>
    BY DEF client_socks_recv_handler_done, TypeOK, upward
  <1>b. /\ input.acked = 0 /\ (input # NoInput => frame # "none")
    BY <1>a DEF client_socks_recv_handler_done, Runs, Quiet, NoInput, JobsInFrame, HasJobs
  <1>c. alive /\ ~socks_closed /\ socks_up
    BY <1>a DEF SocksOwned
  <1>d. serverRead' \in Nat
    BY <1>a DEF DataOK
  <1>1. CASE client_closed
    <2>1. /\ socks' = [socks EXCEPT !.recv = "none"]
          /\ UNCHANGED <<pcb, alive, client_closed, socks_closed, killed, toApp,
                         socks_recv_buf, socks_recv_buf_sent, socks_recv_waiting,
                         socks_recv_tcp_pending>>
      BY <1>1 DEF client_socks_recv_handler_done
    <2>2. FlagsOK'
      BY <1>a, <2>1, Zenon DEF TypeOK, FlagsOK
    <2>3. DataOK'
      BY <1>a, <1>d, <2>1 DEF DataOK, OpStates
    <2>4. PcbOwned' /\ WindowFits' /\ PendingIsUnacked'
      BY <1>a, <2>1 DEF PcbOwned, WindowFits, PendingIsUnacked, Open
    <2>5. SocksOwned' /\ JobsInFrame'
      BY <1>a, <1>b, <1>c, <2>1 DEF SocksOwned, JobsInFrame, DataOK
    <2>6. SentInstalled' /\ RecvBufBounded'
      BY <1>1, <1>a, <2>1 DEF SentInstalled, RecvBufBounded, DataOK, PcbOwned
    <2> QED
      BY <2>2, <2>3, <2>4, <2>5, <2>6 DEF TypeOK
  <1>2. CASE ~client_closed
    <2> DEFINE data == [i \in 1..n |-> serverRead + i]
               idle == [socks EXCEPT !.recv = "none"]
    <2>1. data \in Seq(Nat) /\ Len(data) = n
      BY <1>a, NumberedBytes DEF DataOK
    <2>2. socks_recv_tcp_pending \in Int /\ socks_recv_tcp_pending = pcb.unacked - repeated
      BY <1>2, <1>a, <1>b, <1>c, Counts DEF PendingIsUnacked, SentInstalled, DataOK
    <2>3. client_socks_recv_send_out(data, 0, socks_recv_tcp_pending, StartRead(socks))
      BY <1>2 DEF client_socks_recv_handler_done
    <2> HIDE DEF data
    <2>4. /\ socks_recv_buf' \in Seq(Nat) /\ Len(socks_recv_buf') <= RECV_BUF
          /\ socks_recv_buf_sent' \in 0..RECV_BUF /\ socks_recv_tcp_pending' \in Int
          /\ toApp' \in Seq(Nat) /\ socks_recv_waiting' \in BOOLEAN /\ pcb' \in Pcb
          /\ \/ /\ SameCallbacks(pcb', pcb) /\ pcb'.state = pcb.state
                /\ pcb'.rcv_wnd = pcb.rcv_wnd /\ (pcb'.refused <=> pcb.refused)
                /\ pcb'.unacked = socks_recv_tcp_pending' + repeated
                /\ UNCHANGED <<alive, client_closed, socks_up, socks_closed, killed>>
                /\ \/ socks_recv_buf' = <<>> /\ socks' = StartRead(socks)
                   \/ /\ socks_recv_buf' # <<>> /\ socks_recv_buf_sent' < Len(socks_recv_buf')
                      /\ socks' = idle
             \/ /\ ~pcb'.recv /\ ~pcb'.sent /\ ~pcb'.err /\ ~Open(pcb')
                /\ (pcb'.refused <=> pcb.refused)
                /\ client_handle_freed_client(idle)
      <3>1. Len(data) <= RECV_BUF /\ 0 < Len(data)
        BY <2>1
      <3> HIDE DEF IInv
      <3> QED
        BY <1>a, <2>1, <2>2, <2>3, <3>1, SendOutEffect
    <2>5. /\ socks' \in [phase : {"none", "connecting", "up"}, send : OpStates, recv : OpStates]
          /\ socks'.phase \in {"up", "none"}
      <3>1. socks' = StartRead(socks) \/ socks' = idle \/ socks' = NoSocks
        BY <2>4 DEF client_handle_freed_client
      <3>2. socks \in [phase : {"none", "connecting", "up"}, send : OpStates, recv : OpStates]
        BY <1>a DEF DataOK
      <3>3. CASE socks' = StartRead(socks)
        BY <1>a, <3>2, <3>3 DEF StartRead, OpStates
      <3>4. CASE socks' = idle
        BY <1>a, <3>2, <3>4 DEF OpStates
      <3>5. CASE socks' = NoSocks
        BY <3>5 DEF NoSocks, OpStates
      <3> QED
        BY <3>1, <3>3, <3>4, <3>5
    <2>6. DataOK'
      BY <1>a, <1>d, <2>4, <2>5 DEF DataOK
    <2>7. CASE client_handle_freed_client(idle) /\ ~pcb'.recv /\ ~pcb'.sent /\ ~pcb'.err
               /\ ~Open(pcb')  /\ (pcb'.refused <=> pcb.refused)
      <3>1. /\ client_closed' = TRUE /\ KillDeadVar
            /\ \/ socks' = idle /\ UNCHANGED <<socks_closed, alive>>
               \/ socks' = NoSocks /\ socks_closed' = TRUE /\ alive' = FALSE
        BY <2>7, FreedClientEffect
      <3>2. FlagsOK'
        BY <1>a, <2>4, <3>1, Zenon DEF TypeOK, FlagsOK, KillDeadVar
      <3>3. PcbOwned' /\ WindowFits' /\ PendingIsUnacked'
        BY <2>7, <3>1 DEF PcbOwned, WindowFits, PendingIsUnacked
      <3>4. SocksOwned'
        <4>1. CASE socks' = idle /\ UNCHANGED <<socks_closed, alive>>
          BY <1>a, <1>c, <4>1 DEF SocksOwned, DataOK
        <4> QED
          BY <3>1, <4>1, SocksOwnedDropped
      <3>5. JobsInFrame'
        <4>1. killed' <=> (killed \/ frame # "none")
          BY <3>1, Zenon DEF KillDeadVar
        <4> QED
          BY <1>a, <1>b, <3>1, <4>1 DEF JobsInFrame
      <3>6. SentInstalled' /\ RecvBufBounded'
        BY <2>4, <2>7, <3>1 DEF SentInstalled, RecvBufBounded
      <3> QED
        BY <2>6, <3>2, <3>3, <3>4, <3>5, <3>6 DEF TypeOK
    <2>8. CASE /\ SameCallbacks(pcb', pcb) /\ pcb'.state = pcb.state
               /\ pcb'.rcv_wnd = pcb.rcv_wnd /\ (pcb'.refused <=> pcb.refused)
               /\ pcb'.unacked = socks_recv_tcp_pending' + repeated
               /\ UNCHANGED <<alive, client_closed, socks_up, socks_closed, killed>>
               /\ \/ socks_recv_buf' = <<>> /\ socks' = StartRead(socks)
                  \/ /\ socks_recv_buf' # <<>> /\ socks_recv_buf_sent' < Len(socks_recv_buf')
                     /\ socks' = idle
      <3>1. FlagsOK'
        BY <1>a, <2>4, <2>8, Zenon DEF TypeOK, FlagsOK
      <3>2. PcbOwned'
        BY <2>8 DEF PcbOwned, SameCallbacks, Open
      <3>3. WindowFits'
        BY <1>a, <2>8 DEF WindowFits, SameCallbacks
      <3>4. PendingIsUnacked'
        <4>1. pcb'.unacked = socks_recv_tcp_pending' + repeated' /\ input'.acked = 0
          BY <1>a, <1>b, <2>8
        <4>2. socks_recv_tcp_pending' \in Int /\ repeated' \in Nat
          BY <2>6 DEF DataOK
        <4> QED
          BY <4>1, <4>2, PendingCounted
      <3>5. SocksOwned'
        <4>1. socks'.phase = "up"
          BY <1>a, <2>8 DEF StartRead, DataOK
        <4> QED
          BY <1>a, <1>c, <2>8, <4>1 DEF SocksOwned
      <3>6. JobsInFrame'
        BY <1>a, <1>b, <2>8 DEF JobsInFrame
      <3>7. SentInstalled'
        BY <1>a, <1>b, <1>c, <2>8 DEF SentInstalled, SameCallbacks
      <3>8. RecvBufBounded'
        BY <1>a, <2>4, <2>8 DEF RecvBufBounded, StartRead, DataOK
      <3> QED
        BY <2>6, <3>1, <3>2, <3>3, <3>4, <3>5, <3>6, <3>7, <3>8 DEF TypeOK
    <2> QED
      BY <2>4, <2>7, <2>8
  <1> QED
    BY <1>1, <1>2

LEMMA SentFuncIInv == IInv /\ client_sent_func => IInv'
  <1> SUFFICES ASSUME IInv, client_sent_func PROVE IInv'
    OBVIOUS
  <1> DEFINE pending == StillPending(input.acked)
             rest == [input EXCEPT !.acked = 0]
             resume == IF ~socks_closed THEN StartRead(socks) ELSE socks
             idle == [socks EXCEPT !.recv = "none"]
  <1> USE SizesAreNat DEF Sizes, IInv
  <1>a. /\ TypeOK /\ DataOK /\ frame = "none" /\ input.acked > 0 /\ pcb.sent
        /\ UNCHANGED <<socks_up, buf, appRcvd, toSocks, serverRead, repeated, quitting>>
    BY DEF client_sent_func, TypeOK, upward
  <1>b. alive /\ ~client_closed /\ socks_up /\ ~killed /\ (HasJobs => quitting)
    BY <1>a, Counts DEF JobsInFrame, PcbOwned, SentInstalled, NoInput
  <1>c. /\ rest \in Segments /\ rest.acked = 0 /\ rest.len = input.len /\ rest.fin = input.fin
    <2>1. input \in Segments
      BY <1>a DEF DataOK
    <2>2. rest \in Segments
      BY <2>1 DEF Segments
    <2>3. rest.acked = 0 /\ rest.len = input.len
      BY <2>1 DEF Segments
    <2>4. rest.fin = input.fin
      BY <2>1 DEF Segments
    <2> QED
      BY <2>2, <2>3, <2>4
  <1>d. pending \in Int /\ pending = pcb.unacked - repeated
    BY <1>a, Counts DEF PendingIsUnacked, StillPending, DataOK, Pcb
  <1> HIDE DEF pending
  <1>1. CASE socks_recv_buf # <<>>
    <2>1. client_socks_recv_send_out(socks_recv_buf, socks_recv_buf_sent, pending, resume)
      BY <1>1 DEF client_sent_func, pending
    <2>2. /\ client_closed' => Returned("ERR_ABRT", rest) /\ UNCHANGED frame
          /\ ~client_closed' /\ socks_recv_buf' = <<>> /\ ~socks_closed =>
               frame' = "sent" /\ input' = rest /\ ret' = ret
          /\ ~client_closed' /\ ~(socks_recv_buf' = <<>> /\ ~socks_closed) =>
               Returned("ERR_OK", rest) /\ UNCHANGED frame
      BY <1>1 DEF client_sent_func
    <2>3. /\ input' = rest \/ (input' = NoInput /\ client_closed' /\ frame' = "none")
          /\ frame' \in {"none", "sent"}
          /\ frame' = "sent" => ~client_closed'
          /\ ret' \in {"ERR_OK", "ERR_ABRT", "ERR_MEM"}
      <3> HIDE DEF IInv, rest
      <3>1. CASE client_closed'
        BY <1>a, <2>2, <3>1 DEF Returned
      <3>2. CASE ~client_closed' /\ socks_recv_buf' = <<>> /\ ~socks_closed
        BY <1>a, <2>2, <3>2 DEF DataOK
      <3>3. CASE ~client_closed' /\ ~(socks_recv_buf' = <<>> /\ ~socks_closed)
        BY <1>a, <2>2, <3>3 DEF Returned
      <3> QED
        BY <3>1, <3>2, <3>3
    <2>4. input' \in Segments /\ input'.acked = 0
      <3>1. NoInput.acked = 0
        BY DEF NoInput
      <3>2. input' = rest \/ input' = NoInput
        BY <2>3
      <3> HIDE DEF rest, IInv
      <3> QED
        BY <1>c, <3>1, <3>2, NoInputOK
    <2>5. /\ socks_recv_buf' \in Seq(Nat) /\ Len(socks_recv_buf') <= RECV_BUF
          /\ socks_recv_buf_sent' \in 0..RECV_BUF /\ socks_recv_tcp_pending' \in Int
          /\ toApp' \in Seq(Nat) /\ socks_recv_waiting' \in BOOLEAN /\ pcb' \in Pcb
          /\ \/ /\ SameCallbacks(pcb', pcb) /\ pcb'.state = pcb.state
                /\ pcb'.rcv_wnd = pcb.rcv_wnd /\ (pcb'.refused <=> pcb.refused)
                /\ pcb'.unacked = socks_recv_tcp_pending' + repeated
                /\ UNCHANGED <<alive, client_closed, socks_up, socks_closed, killed>>
                /\ \/ socks_recv_buf' = <<>> /\ socks' = resume
                   \/ /\ socks_recv_buf' # <<>> /\ socks_recv_buf_sent' < Len(socks_recv_buf')
                      /\ socks' = idle
             \/ /\ ~pcb'.recv /\ ~pcb'.sent /\ ~pcb'.err /\ ~Open(pcb')
                /\ (pcb'.refused <=> pcb.refused)
                /\ client_handle_freed_client(idle)
      <3>1. /\ socks_recv_buf \in Seq(Nat) /\ Len(socks_recv_buf) <= RECV_BUF
            /\ socks_recv_buf_sent \in Nat /\ socks_recv_buf_sent < Len(socks_recv_buf)
        BY <1>1, <1>a DEF RecvBufBounded, DataOK
      <3> HIDE DEF IInv, resume
      <3> QED
        BY <1>a, <1>d, <2>1, <3>1, SendOutEffect
    <2>6. /\ socks' \in [phase : {"none", "connecting", "up"}, send : OpStates, recv : OpStates]
          /\ socks' = NoSocks \/ (socks'.phase = socks.phase /\ socks'.send = socks.send)
      <3>1. socks' = StartRead(socks) \/ socks' = socks \/ socks' = idle \/ socks' = NoSocks
        BY <2>5 DEF client_handle_freed_client
      <3>2. socks \in [phase : {"none", "connecting", "up"}, send : OpStates, recv : OpStates]
        BY <1>a DEF DataOK
      <3>3. CASE socks' = StartRead(socks)
        BY <1>a, <3>2, <3>3 DEF StartRead, OpStates
      <3>4. CASE socks' = idle
        BY <1>a, <3>2, <3>4 DEF OpStates
      <3>5. CASE socks' = socks
        BY <3>2, <3>5
      <3>6. CASE socks' = NoSocks
        BY <3>6, NoSocksOK
      <3> QED
        BY <3>1, <3>3, <3>4, <3>5, <3>6
    <2>7. DataOK'
      BY <1>a, <2>3, <2>4, <2>5, <2>6 DEF DataOK
    <2>8. CASE client_handle_freed_client(idle) /\ ~pcb'.recv /\ ~pcb'.sent /\ ~pcb'.err
               /\ ~Open(pcb')  /\ (pcb'.refused <=> pcb.refused)
      <3>1. /\ client_closed' = TRUE /\ KillDeadVar
            /\ \/ socks' = idle /\ buf # <<>> /\ ~socks_closed /\ UNCHANGED <<socks_closed, alive>>
               \/ socks' = NoSocks /\ socks_closed' = TRUE /\ alive' = FALSE
        BY <2>8, FreedClientEffect
      <3>2. FlagsOK'
        BY <1>a, <2>5, <3>1, Zenon DEF TypeOK, FlagsOK, KillDeadVar
      <3>3. PcbOwned' /\ WindowFits' /\ PendingIsUnacked'
        BY <2>8, <3>1 DEF PcbOwned, WindowFits, PendingIsUnacked
      <3>4. SocksOwned'
        <4>1. CASE socks' = idle /\ ~socks_closed /\ UNCHANGED <<socks_closed, alive>>
          BY <1>a, <1>b, <4>1 DEF SocksOwned, DataOK
        <4> QED
          BY <3>1, <4>1, SocksOwnedDropped
      <3>5. JobsInFrame'
        <4>1. ~killed'
          BY <1>a, <1>b, <3>1, Zenon DEF KillDeadVar
        <4>2. frame' = "none" /\ input' = NoInput
          BY <1>a, <2>2, <3>1 DEF Returned
        <4> QED
          BY <4>1, <4>2 DEF JobsInFrame
      <3>6. SentInstalled' /\ RecvBufBounded'
        BY <2>5, <2>8, <3>1 DEF SentInstalled, RecvBufBounded
      <3> QED
        BY <2>7, <3>2, <3>3, <3>4, <3>5, <3>6 DEF TypeOK
    <2>9. CASE /\ SameCallbacks(pcb', pcb) /\ pcb'.state = pcb.state
               /\ pcb'.rcv_wnd = pcb.rcv_wnd /\ (pcb'.refused <=> pcb.refused)
               /\ pcb'.unacked = socks_recv_tcp_pending' + repeated
               /\ UNCHANGED <<alive, client_closed, socks_up, socks_closed, killed>>
               /\ \/ socks_recv_buf' = <<>> /\ socks' = resume
                  \/ /\ socks_recv_buf' # <<>> /\ socks_recv_buf_sent' < Len(socks_recv_buf')
                     /\ socks' = idle
      <3>0. input' = rest /\ input'.len = input.len /\ input'.fin = input.fin
        BY <1>b, <1>c, <2>3, <2>9
      <3>1. FlagsOK'
        BY <1>a, <2>5, <2>9, Zenon DEF TypeOK, FlagsOK
      <3>2. PcbOwned'
        BY <2>9 DEF PcbOwned, SameCallbacks, Open
      <3>3. WindowFits'
        BY <1>a, <2>9, <3>0 DEF WindowFits, SameCallbacks
      <3>4. PendingIsUnacked'
        <4>1. pcb'.unacked = socks_recv_tcp_pending' + repeated' /\ input'.acked = 0
          BY <1>a, <2>4, <2>9
        <4>2. socks_recv_tcp_pending' \in Int /\ repeated' \in Nat
          BY <2>7 DEF DataOK
        <4> QED
          BY <4>1, <4>2, PendingCounted
      <3>5. SocksOwned'
        <4>1. CASE socks_closed
          <5>1. socks = NoSocks
            BY <1>a, <4>1 DEF SocksOwned, DataOK, NoSocks, OpStates
          <5>2. socks' = socks \/ socks' = idle
            BY <4>1, <2>9
          <5> QED
            BY <1>a, <2>9, <4>1, <5>1, <5>2 DEF SocksOwned, NoSocks
        <4>2. CASE ~socks_closed
          <5>1. socks.phase = "up" /\ (socks' = StartRead(socks) \/ socks' = idle)
            BY <1>b, <2>9, <4>2 DEF SocksOwned
          <5>2. socks'.phase = "up"
            BY <1>a, <5>1 DEF StartRead, DataOK
          <5> QED
            BY <1>a, <1>b, <2>9, <4>2, <5>2 DEF SocksOwned
        <4> QED
          BY <4>1, <4>2
      <3>6. JobsInFrame'
        <4>1. frame' = "none" => (HasJobs' => quitting')
          <5>1. frame' = "none" => socks' = socks \/ socks' = idle
            BY <1>b, <2>2, <2>9
          <5>2. HasJobs => quitting
            BY <1>b
          <5> QED
            BY <1>a, <5>1, <5>2 DEF HasJobs, DataOK
        <4> QED
          BY <1>a, <1>b, <2>3, <2>4, <2>9, <4>1 DEF JobsInFrame
      <3>7. SentInstalled'
        BY <1>a, <1>b, <2>4, <2>9 DEF SentInstalled, SameCallbacks
      <3>8. RecvBufBounded'
        <4>1. CASE socks_closed
          <5>1. socks = NoSocks
            BY <1>a, <4>1 DEF SocksOwned, DataOK, NoSocks, OpStates
          <5>2. socks'.phase = "none"
            BY <4>1, <2>9, <5>1 DEF NoSocks
          <5> QED
            BY <2>5, <2>9, <5>2 DEF RecvBufBounded
        <4>2. CASE ~socks_closed
          BY <1>a, <2>5, <2>9, <4>2 DEF RecvBufBounded, StartRead, DataOK
        <4> QED
          BY <4>1, <4>2
      <3> QED
        BY <2>7, <3>1, <3>2, <3>3, <3>4, <3>5, <3>6, <3>7, <3>8 DEF TypeOK
    <2> QED
      BY <2>5, <2>8, <2>9
  <1>2. CASE socks_recv_buf = <<>>
    <2>1. /\ socks_recv_tcp_pending' = pending
          /\ UNCHANGED <<socks_recv_buf, socks_recv_buf_sent, socks_recv_waiting, toApp, frame>>
      BY <1>2 DEF client_sent_func, pending
    <2>2. CASE Drained(pending)
      <3>1. client_free_client(pcb) /\ Returned("ERR_ABRT", rest)
        BY <1>2, <2>2 DEF client_sent_func, pending
      <3>2. Released(pcb', pcb) /\ client_handle_freed_client(socks)
        BY <1>a, <3>1, ReleasedOK DEF client_free_client, DataOK
      <3>3. /\ pcb' \in Pcb /\ ~pcb'.recv /\ ~pcb'.sent /\ ~pcb'.err /\ ~Open(pcb')
            /\ ~pcb'.refused /\ input' = NoInput /\ ret' = "ERR_ABRT"
        BY <3>1, <3>2 DEF Released, SameData, WindowFits, Returned
      <3>4. /\ client_closed' = TRUE /\ KillDeadVar
            /\ socks' = NoSocks /\ socks_closed' = TRUE /\ alive' = FALSE
        BY <2>2, <3>2, FreedClientEffect DEF Drained
      <3>5. FlagsOK'
        BY <1>a, <2>1, <3>4, Zenon DEF TypeOK, FlagsOK, KillDeadVar
      <3>6. DataOK'
        BY <1>a, <1>d, <2>1, <3>3, <3>4, NoInputOK DEF DataOK, NoSocks, OpStates
      <3>7. PcbOwned' /\ WindowFits' /\ PendingIsUnacked'
        BY <3>3, <3>4 DEF PcbOwned, WindowFits, PendingIsUnacked
      <3>8. SocksOwned' /\ JobsInFrame'
        <4>1. ~killed'
          BY <1>a, <1>b, <3>4, Zenon DEF KillDeadVar
        <4> QED
          BY <1>a, <2>1, <3>3, <3>4, <4>1, SocksOwnedDropped DEF JobsInFrame
      <3>9. SentInstalled' /\ RecvBufBounded'
        BY <2>1, <3>3, <3>4 DEF SentInstalled, RecvBufBounded
      <3> QED
        BY <3>5, <3>6, <3>7, <3>8, <3>9 DEF TypeOK
    <2>3. CASE ~Drained(pending)
      <3>1. /\ input' = rest /\ ret' = "ERR_OK"
            /\ UNCHANGED <<pcb, alive, client_closed, socks_closed, socks, killed>>
        BY <1>2, <2>3 DEF client_sent_func, pending, Returned
      <3>2. FlagsOK'
        BY <1>a, <2>1, <3>1, Zenon DEF TypeOK, FlagsOK
      <3>3. DataOK'
        BY <1>a, <1>c, <1>d, <2>1, <3>1 DEF DataOK
      <3>4. PcbOwned' /\ WindowFits' /\ PendingIsUnacked'
        <4>1. PcbOwned' /\ WindowFits'
          BY <1>a, <1>c, <2>1, <3>1 DEF PcbOwned, WindowFits, Open
        <4>2. pcb.unacked \in Nat /\ repeated \in Nat
          BY <1>a, Counts DEF DataOK
        <4> QED
          BY <1>a, <1>c, <1>d, <2>1, <3>1, <4>1, <4>2 DEF PendingIsUnacked
      <3>5. SocksOwned' /\ JobsInFrame'
        BY <1>a, <1>b, <1>c, <2>1, <3>1, SocksOwnedKept DEF JobsInFrame, HasJobs
      <3>6. SentInstalled' /\ RecvBufBounded'
        BY <1>a, <1>c, <2>1, <3>1 DEF SentInstalled, RecvBufBounded
      <3> QED
        BY <3>2, <3>3, <3>4, <3>5, <3>6 DEF TypeOK
    <2> QED
      BY <2>2, <2>3
  <1> QED
    BY <1>1, <1>2

-----------------------------------------------------------------------------
(* The theorems. *)

LEMMA NextIInv == IInv /\ [Next]_vars => IInv'
  <1> SUFFICES ASSUME IInv, [Next]_vars PROVE IInv'
    OBVIOUS
  <1>1. CASE \E op \in {"job", "wait"} : listener_accept_func(op)
    BY <1>1, AcceptIInv
  <1>2. CASE SocksNext
    BY <1>2, SocksWaitIInv, SocksUpIInv, SocksDownIInv, SendDoneIInv, RecvDoneIInv DEF SocksNext
  <1>3. CASE \E seg \in Segments : TcpInput(seg) \/ TcpInputNoAck(seg)
    BY <1>3, TcpInputIInv
  <1>4. CASE CallbackNext
    BY <1>4, SyncReturnIInv, SentFuncIInv, RecvFuncIInv, RecvClosedIInv DEF CallbackNext
  <1>5. CASE client_err_func \/ terminate \/ client_murder
    BY <1>5, ErrFuncIInv, TerminateIInv, MurderIInv
  <1>6. CASE Terminated \/ UNCHANGED vars
    BY <1>6, StutterIInv DEF Terminated
  <1>7. CASE listener_accept_func_fails
    BY <1>7, AcceptFailsIInv
  <1> QED
    BY <1>1, <1>2, <1>3, <1>4, <1>5, <1>6, <1>7 DEF Next

LEMMA SpecIInv == Spec => []IInv
  BY InitIInv, NextIInv, PTL DEF Spec

\* The bytes queued in lwIP and the part of socks_recv_buf already sent stay within
\* their buffers; socks_recv_tcp_pending is an integer, and may become negative.
THEOREM TypeCorrect == Spec => []TypeOK
  <1>1. IInv => TypeOK
    BY DEF IInv
  <1> QED
    BY SpecIInv, <1>1, PTL

\* lwIP never calls back into a client that is gone, and no open pcb is left behind.
THEOREM PcbAlwaysOwned == Spec => []PcbOwned
  <1>1. IInv => PcbOwned
    BY DEF IInv
  <1> QED
    BY SpecIInv, <1>1, PTL

\* client_recv_func always has room for what the receive window admits.
THEOREM WindowAlwaysFits == Spec => []WindowFits
  <1>1. IInv => WindowFits
    BY DEF IInv
  <1> QED
    BY SpecIInv, <1>1, PTL

\* socks_recv_tcp_pending is what lwIP still has in flight or is about to report, less
\* what it has reported a second time: the counter is exact as long as every segment
\* that tcp_process accepts goes through the ACK code, and too low by that much after.
THEOREM PendingAlwaysUnacked == Spec => []PendingIsUnacked
  <1>1. IInv => PendingIsUnacked
    BY DEF IInv
  <1> QED
    BY SpecIInv, <1>1, PTL

-----------------------------------------------------------------------------
(***************************************************************************)
(* The relay forgets no work and leaves no client behind.  IInv says what  *)
(* the counters stand for; with it NoForgottenWork and NoLimbo, which need *)
(* each other nowhere, are inductive together.                             *)
(***************************************************************************)
WInv == WaitingIsWoken /\ SendInProgress /\ NoLimbo

\* The part of the state WInv is about.
WorkVars == <<alive, client_closed, socks_closed, socks_up, buf, socks_recv_buf,
              socks_recv_buf_sent, socks_recv_waiting>>

\* The bytes that lwIP has yet to report, or is about to, for the first time.
InFlight == pcb.unacked + input.acked

\* Their number is kept, or is no longer relied on.
FlightKept == repeated' = 0 => repeated = 0 /\ InFlight' = InFlight

-----------------------------------------------------------------------------
(* What the functions that several actions call do to it. *)

\* Nothing has changed but an operation that goes on or the pcb's data.
LEMMA SameWork ==
  ASSUME WInv, UNCHANGED WorkVars, FlightKept, pcb.sent => pcb'.sent,
         socks'.phase = socks.phase, socks'.send # "none" <=> socks.send # "none"
  PROVE  WInv'
  <1>1. WaitingIsWoken'
    BY DEF WInv, WaitingIsWoken, WorkVars, FlightKept, InFlight
  <1>2. SendInProgress'
    BY DEF WInv, SendInProgress, WorkVars
  <1>3. NoLimbo'
    BY DEF WInv, NoLimbo, WorkVars, FlightKept, InFlight
  <1> QED
    BY <1>1, <1>2, <1>3 DEF WInv

\* A client that is gone has no work.
LEMMA GoneWork == alive' = FALSE => WInv'
  BY DEF WInv, WaitingIsWoken, SendInProgress, NoLimbo

\* client_handle_freed_client keeps the client only for the data in buf.
LEMMA FreedWork ==
  ASSUME WInv, NEW k, k.phase = socks.phase, k.send = socks.send,
         client_handle_freed_client(k), buf' = buf
  PROVE  WInv'
  <1>1. /\ client_closed' = TRUE
        /\ \/ socks' = k /\ buf # <<>> /\ ~socks_closed /\ UNCHANGED <<socks_closed, alive>>
           \/ alive' = FALSE
    BY FreedClientEffect
  <1>2. CASE alive' = FALSE
    BY <1>2, GoneWork
  <1>3. CASE socks' = k /\ buf # <<>> /\ ~socks_closed /\ UNCHANGED <<socks_closed, alive>>
    BY <1>1, <1>3 DEF WInv, WaitingIsWoken, SendInProgress, NoLimbo
  <1> QED
    BY <1>1, <1>2, <1>3

\* client_free_socks keeps it only for data on its way to the application.
LEMMA FreeSocksWork ==
  ASSUME WInv, IInv, client_free_socks, UNCHANGED <<socks_up, downward, input, repeated>>
  PROVE  WInv'
  <1>1. /\ socks' = NoSocks /\ pcb'.unacked = pcb.unacked
        /\ \/ DataForApp /\ (pcb'.sent <=> pcb.sent) /\ UNCHANGED <<alive, client_closed>>
           \/ alive' = FALSE
    BY FreeSocksEffect DEF SameData, IInv
  <1>2. CASE alive' = FALSE
    BY <1>2, GoneWork
  <1>3. CASE /\ DataForApp /\ (pcb'.sent <=> pcb.sent) /\ UNCHANGED <<alive, client_closed>>
             /\ alive
    <2>1. repeated = 0 => socks_recv_buf # <<>> \/ InFlight > 0
      <3>1. pcb.sent /\ (socks_recv_buf # <<>> \/ socks_recv_tcp_pending > 0)
        BY <1>3, Zenon DEF DataForApp, IInv, SentInstalled
      <3>2. pcb.unacked \in Nat /\ input.acked \in Nat /\ socks_recv_tcp_pending \in Int
        BY Counts DEF IInv, TypeOK, DataOK
      <3>3. repeated = 0 => socks_recv_tcp_pending = InFlight
        BY <3>1, <3>2 DEF IInv, PendingIsUnacked, InFlight
      <3> QED
        BY <3>1, <3>2, <3>3 DEF InFlight
    <2>2. InFlight' = InFlight
      BY <1>1 DEF InFlight
    <2>3. WaitingIsWoken' /\ SendInProgress'
      BY <1>1, <1>3, <2>2 DEF WInv, WaitingIsWoken, SendInProgress, DataForApp, NoSocks, downward, InFlight
    <2>4. NoLimbo'
      BY <1>1, <1>3, <2>1, <2>2 DEF WInv, NoLimbo, DataForApp, downward, InFlight
    <2> QED
      BY <2>3, <2>4 DEF WInv
  <1> QED
    BY <1>1, <1>2, <1>3, GoneWork

\* client_socks_recv_send_out leaves something in flight, or gives the client up.
LEMMA SendOutWork ==
  ASSUME TypeOK, NEW data \in Seq(Nat), NEW sent \in Nat, sent < Len(data),
         NEW pending \in Int, pending = pcb.unacked - repeated, NEW resume,
         client_socks_recv_send_out(data, sent, pending, resume)
  PROVE  \/ client_handle_freed_client([socks EXCEPT !.recv = "none"])
         \/ /\ UNCHANGED client /\ (pcb'.sent <=> pcb.sent) /\ (repeated = 0 => pcb'.unacked > 0)
            /\ \/ socks_recv_buf' = <<>> /\ socks' = resume
               \/ /\ socks_recv_waiting' /\ socks_recv_buf_sent' < Len(socks_recv_buf')
                  /\ socks' = [socks EXCEPT !.recv = "none"]
  <1> DEFINE idle == [socks EXCEPT !.recv = "none"]
  <1>1. PICK w \in {0, Least(Len(data) - sent, tcp_sndbuf(pcb))} :
             \/ /\ sent + w = Len(data) /\ pcb' = tcp_write(pcb, w)
                /\ socks_recv_buf' = <<>> /\ socks' = resume /\ UNCHANGED client
             \/ /\ sent + w # Len(data) /\ pending + w # 0 /\ pcb' = tcp_write(pcb, w)
                /\ socks_recv_buf' = data /\ socks_recv_buf_sent' = sent + w
                /\ socks_recv_waiting' /\ socks' = idle /\ UNCHANGED client
             \/ client_abort_client(tcp_write(pcb, w), idle)
    BY Zenon DEF client_socks_recv_send_out, SentWillCome
  <1>2. pcb \in Pcb /\ pcb.unacked \in 0..TCP_SND_BUF /\ repeated \in Nat
    BY DEF TypeOK, DataOK, Pcb
  <1>3. w \in Nat /\ sent + w <= Len(data)
    <2>1. tcp_sndbuf(pcb) \in Nat
      BY <1>2, SizesAreNat DEF tcp_sndbuf, Sizes
    <2>2. Len(data) - sent \in Nat
      OBVIOUS
    <2> QED
      BY <2>1, <2>2 DEF Least
  <1>4. (tcp_write(pcb, w).sent <=> pcb.sent) /\ tcp_write(pcb, w).unacked = pcb.unacked + w
    BY <1>2 DEF tcp_write, Pcb
  <1>5. CASE sent + w = Len(data) /\ pcb' = tcp_write(pcb, w)
             /\ socks_recv_buf' = <<>> /\ socks' = resume /\ UNCHANGED client
    <2>1. pcb'.unacked > 0
      BY <1>2, <1>3, <1>4, <1>5
    <2> QED
      BY <1>4, <1>5, <2>1
  <1>6. CASE /\ sent + w # Len(data) /\ pending + w # 0 /\ pcb' = tcp_write(pcb, w)
             /\ socks_recv_buf' = data /\ socks_recv_buf_sent' = sent + w
             /\ socks_recv_waiting' /\ socks' = idle /\ UNCHANGED client
    <2>1. repeated = 0 => pcb'.unacked > 0
      BY <1>2, <1>3, <1>4, <1>6
    <2>2. sent + w < Len(data)
      BY <1>3, <1>6
    <2> QED
      BY <1>4, <1>6, <2>1, <2>2
  <1>7. CASE client_abort_client(tcp_write(pcb, w), idle)
    BY <1>7 DEF client_abort_client
  <1> QED
    BY <1>1, <1>5, <1>6, <1>7

\* Whoever has called it, WInv holds again, if the send has not been touched.
LEMMA SentOutWork ==
  ASSUME IInv, WInv, alive, ~client_closed, socks_up, UNCHANGED <<buf, repeated>>,
         input'.acked = 0,
         NEW data \in Seq(Nat), NEW sent \in Nat, sent < Len(data),
         NEW pending \in Int, pending = pcb.unacked - repeated,
         NEW resume, resume.phase = socks.phase, resume.send = socks.send,
         client_socks_recv_send_out(data, sent, pending, resume)
  PROVE  WInv'
  <1> DEFINE idle == [socks EXCEPT !.recv = "none"]
  <1>a. TypeOK
    BY DEF IInv
  <1>1. idle.phase = socks.phase /\ idle.send = socks.send
    BY <1>a DEF TypeOK, DataOK
  <1>2. \/ client_handle_freed_client(idle)
        \/ /\ UNCHANGED client /\ (pcb'.sent <=> pcb.sent) /\ (repeated = 0 => pcb'.unacked > 0)
           /\ \/ socks_recv_buf' = <<>> /\ socks' = resume
              \/ /\ socks_recv_waiting' /\ socks_recv_buf_sent' < Len(socks_recv_buf')
                 /\ socks' = idle
    BY <1>a, SendOutWork
  <1>b. pcb' \in Pcb
    <2>1. PICK w \in {0, Least(Len(data) - sent, tcp_sndbuf(pcb))} :
            pcb' = tcp_write(pcb, w) \/ client_abort_client(tcp_write(pcb, w), idle)
      BY Zenon DEF client_socks_recv_send_out
    <2>2. pcb \in Pcb /\ pcb.unacked \in 0..TCP_SND_BUF
      BY <1>a DEF TypeOK, DataOK, Pcb
    <2>3. w \in 0..tcp_sndbuf(pcb)
      <3>1. tcp_sndbuf(pcb) \in Nat
        BY <2>2, SizesAreNat DEF tcp_sndbuf, Sizes
      <3>2. Len(data) - sent \in Nat
        OBVIOUS
      <3> QED
        BY <3>1, <3>2 DEF Least
    <2>4. tcp_write(pcb, w) \in Pcb
      BY <2>2, <2>3, WriteOK
    <2> QED
      BY <2>1, <2>4, ReleasedOK DEF client_abort_client, Released
  <1>3. CASE client_handle_freed_client(idle)
    BY <1>1, <1>3, FreedWork
  <1>4. CASE /\ UNCHANGED client /\ (pcb'.sent <=> pcb.sent) /\ (repeated = 0 => pcb'.unacked > 0)
             /\ \/ socks_recv_buf' = <<>> /\ socks' = resume
                \/ /\ socks_recv_waiting' /\ socks_recv_buf_sent' < Len(socks_recv_buf')
                   /\ socks' = idle
    <2>1. socks'.phase = socks.phase /\ socks'.send = socks.send
      BY <1>1, <1>4
    <2>2. SendInProgress'
      BY <1>4, <2>1 DEF WInv, SendInProgress, client
    <2>3. repeated' = 0 => pcb'.unacked + input'.acked > 0
      BY <1>4, <1>b DEF Pcb
    <2>4. WaitingIsWoken'
      <3>1. socks_recv_buf' # <<>> =>
              socks_recv_waiting' /\ socks_recv_buf_sent' < Len(socks_recv_buf')
        BY <1>4
      <3>2. pcb.sent
        BY DEF IInv, SentInstalled
      <3> QED
        BY <1>4, <2>3, <3>1, <3>2 DEF WaitingIsWoken
    <2>5. NoLimbo'
      BY <1>4, <2>3 DEF WInv, NoLimbo, client
    <2> QED
      BY <2>2, <2>4, <2>5 DEF WInv
  <1> QED
    BY <1>2, <1>3, <1>4

-----------------------------------------------------------------------------
(* One lemma for each action that does more than to pass an operation on. *)

LEMMA SocksUpWork == IInv /\ WInv /\ SocksUp => WInv'
  <1> SUFFICES ASSUME IInv, WInv, SocksUp PROVE WInv'
    OBVIOUS
  <1>1. ~socks_closed
    BY DEF IInv, SocksOwned, SocksUp
  <1> QED
    BY <1>1 DEF SocksUp, WInv, WaitingIsWoken, SendInProgress, NoLimbo, StartSend, upward

LEMMA SendDoneWork ==
  ASSUME IInv, WInv, NEW n \in 1..TCP_WND, client_socks_send_handler_done(n)
  PROVE  WInv'
  <1>a. TypeOK
    BY DEF IInv
  <1>b. UNCHANGED <<socks_up, downward, input, repeated>>
    BY DEF client_socks_send_handler_done
  <1>1. CASE n = Len(buf) /\ client_closed
    BY <1>1, <1>a, <1>b, FreeSocksWork DEF client_socks_send_handler_done
  <1>2. CASE ~(n = Len(buf) /\ client_closed)
    <2>1. /\ pcb' = IF client_closed THEN pcb ELSE tcp_recved(pcb, n)
          /\ socks' = [socks EXCEPT !.send = StartSend(buf')]
          /\ UNCHANGED <<alive, client_closed, socks_closed>>
      BY <1>2 DEF client_socks_send_handler_done
    <2>2. (pcb'.sent <=> pcb.sent) /\ pcb'.unacked = pcb.unacked
      <3>1. pcb \in Pcb /\ n \in Nat
        BY <1>a DEF TypeOK, DataOK
      <3> QED
        BY <2>1, <3>1, RecvedOK DEF SameCallbacks
    <2>3. SendInProgress'
      BY <1>a, <2>1 DEF StartSend, SendInProgress, TypeOK, DataOK
    <2>4. client_closed => buf' # <<>>
      <3>1. n \in 1..Len(buf) /\ buf \in Seq(Nat) /\ buf' = SubSeq(buf, n + 1, Len(buf))
        BY <1>a DEF client_socks_send_handler_done, Unsent, TypeOK, DataOK
      <3>2. Len(buf') = Len(buf) - n
        BY <3>1, TailOf
      <3>3. client_closed => Len(buf') > 0
        BY <1>2, <3>1, <3>2
      <3> QED
        BY <3>3
    <2> QED
      BY <1>b, <2>1, <2>2, <2>3, <2>4 DEF WInv, WaitingIsWoken, NoLimbo, downward
  <1> QED
    BY <1>1, <1>2

LEMMA RecvDoneWork ==
  ASSUME IInv, WInv, NEW n \in 1..RECV_BUF, client_socks_recv_handler_done(n)
  PROVE  WInv'
  <1>a. /\ TypeOK /\ socks.phase = "up" /\ UNCHANGED <<socks_up, upward, input, repeated>>
        /\ serverRead \in Nat
    BY DEF client_socks_recv_handler_done, IInv, TypeOK, DataOK
  <1>b. input.acked = 0
    BY DEF client_socks_recv_handler_done, Runs, Quiet, NoInput, HasJobs, IInv, JobsInFrame
  <1>1. CASE client_closed
    <2>1. FlightKept
      BY <1>1, <1>a DEF client_socks_recv_handler_done, FlightKept, InFlight
    <2> QED
      BY <1>1, <1>a, <2>1, SameWork
         DEF client_socks_recv_handler_done, WorkVars, upward, TypeOK, DataOK
  <1>2. CASE ~client_closed
    <2> DEFINE data == [i \in 1..n |-> serverRead + i]
    <2>1. data \in Seq(Nat) /\ Len(data) = n
      BY <1>a, NumberedBytes
    <2>2. client_socks_recv_send_out(data, 0, socks_recv_tcp_pending, StartRead(socks))
      BY <1>2 DEF client_socks_recv_handler_done
    <2> HIDE DEF data
    <2>3. alive /\ socks_up
      BY <1>a DEF IInv, SocksOwned
    <2>4. StartRead(socks).phase = socks.phase /\ StartRead(socks).send = socks.send
      BY <1>a DEF StartRead, TypeOK, DataOK
    <2>5. socks_recv_tcp_pending \in Int /\ 0 < Len(data)
      BY <1>a, <2>1, SizesAreNat DEF TypeOK, DataOK, Sizes
    <2>6. socks_recv_tcp_pending = pcb.unacked - repeated
      BY <1>2, <1>a, <1>b, <2>3, Counts DEF IInv, PendingIsUnacked, SentInstalled, DataOK, TypeOK
    <2> QED
      BY <1>2, <1>a, <1>b, <2>1, <2>2, <2>3, <2>4, <2>5, <2>6, SentOutWork DEF upward
  <1> QED
    BY <1>1, <1>2

LEMMA RecvFuncWork == IInv /\ WInv /\ client_recv_func => WInv'
  <1> SUFFICES ASSUME IInv, WInv, client_recv_func PROVE WInv'
    OBVIOUS
  <1>a. /\ TypeOK /\ frame = "none" /\ input.len > 0
        /\ UNCHANGED <<alive, client_closed, socks_up, socks_closed, downward, repeated>>
        /\ input' \in {NoInput, [input EXCEPT !.len = 0]} /\ input.acked = 0
    BY DEF client_recv_func, client, IInv, Returned
  <1>b. alive
    BY <1>a, Counts DEF IInv, JobsInFrame, NoInput
  <1>c. (pcb'.sent <=> pcb.sent) /\ pcb'.unacked = pcb.unacked
    <2>1. pcb \in Pcb /\ input.len \in Nat
      BY <1>a, Counts DEF TypeOK, DataOK
    <2>2. pcb' \in {pcb, tcp_recved(pcb, input.len), [pcb EXCEPT !.refused = TRUE]}
      BY DEF client_recv_func
    <2> QED
      BY <2>1, <2>2, RecvedOK DEF SameCallbacks, Pcb
  <1>d. input'.acked = input.acked
    <2>1. input \in Segments
      BY <1>a DEF TypeOK, DataOK
    <2> QED
      BY <1>a, <2>1 DEF NoInput, Segments
  <1>1. CASE buf' = buf /\ socks' = socks
    BY <1>1, <1>a, <1>c, <1>d, SameWork DEF WorkVars, downward, FlightKept, InFlight
  <1>2. CASE ~(buf' = buf /\ socks' = socks)
    <2>1. /\ buf' = buf \o [i \in 1..input.len |-> appRcvd + i]
          /\ IF buf = <<>> /\ socks_up THEN socks' = [socks EXCEPT !.send = "job"] ELSE socks' = socks
      BY <1>2 DEF client_recv_func
    <2>2. buf' # <<>>
      <3>1. buf \in Seq(Nat) /\ input.len \in Nat /\ appRcvd \in Nat
        BY <1>a, Counts DEF TypeOK, DataOK
      <3>2. [i \in 1..input.len |-> appRcvd + i] \in Seq(Nat) /\ Len([i \in 1..input.len |-> appRcvd + i]) = input.len
        BY <3>1, NumberedBytes
      <3>3. Len(buf') = Len(buf) + input.len
        BY <2>1, <3>1, <3>2
      <3> QED
        BY <1>a, <3>1, <3>3
    <2>3. SendInProgress'
      <3>1. socks.phase = "up" => socks_up
        BY <1>b DEF IInv, SocksOwned
      <3>2. CASE buf = <<>> /\ socks_up
        BY <1>a, <2>1, <2>2, <3>2 DEF SendInProgress, TypeOK, DataOK
      <3>3. CASE ~(buf = <<>> /\ socks_up)
        BY <1>a, <1>b, <2>1, <2>2, <3>1, <3>3 DEF WInv, SendInProgress
      <3> QED
        BY <3>2, <3>3
    <2> QED
      BY <1>a, <1>c, <1>d, <2>2, <2>3 DEF WInv, WaitingIsWoken, NoLimbo, downward
  <1> QED
    BY <1>1, <1>2

LEMMA SentFuncWork == IInv /\ WInv /\ client_sent_func => WInv'
  <1> SUFFICES ASSUME IInv, WInv, client_sent_func PROVE WInv'
    OBVIOUS
  <1> DEFINE pending == StillPending(input.acked)
             resume == IF ~socks_closed THEN StartRead(socks) ELSE socks
  <1>a. /\ TypeOK /\ frame = "none" /\ input.acked > 0 /\ pcb.sent
        /\ UNCHANGED <<socks_up, upward, repeated>>
    BY DEF client_sent_func, IInv
  <1>b. alive /\ ~client_closed /\ socks_up
    BY <1>a, Counts DEF IInv, PcbOwned, SentInstalled
  <1>c. pending \in Int /\ pending = pcb.unacked - repeated /\ pcb.unacked \in Nat
    BY <1>a, Counts DEF IInv, PendingIsUnacked, StillPending, TypeOK, DataOK
  <1>d. input'.acked = 0
    <2>1. input \in Segments
      BY <1>a DEF TypeOK, DataOK
    <2>2. input' \in {NoInput, [input EXCEPT !.acked = 0]}
      BY Zenon DEF client_sent_func, Returned
    <2> QED
      BY <2>1, <2>2 DEF NoInput, Segments
  <1> HIDE DEF pending
  <1>1. CASE socks_recv_buf # <<>>
    <2>1. client_socks_recv_send_out(socks_recv_buf, socks_recv_buf_sent, pending, resume)
      BY <1>1 DEF client_sent_func, pending
    <2>2. resume.phase = socks.phase /\ resume.send = socks.send
      BY <1>a DEF StartRead, TypeOK, DataOK
    <2>3. socks_recv_buf \in Seq(Nat) /\ socks_recv_buf_sent \in Nat
      BY <1>a DEF TypeOK, DataOK
    <2>4. socks_recv_buf_sent < Len(socks_recv_buf)
      BY <1>1, <1>b DEF WInv, WaitingIsWoken
    <2> HIDE DEF resume
    <2> QED
      BY <1>a, <1>b, <1>c, <1>d, <2>1, <2>2, <2>3, <2>4, SentOutWork DEF upward
  <1>2. CASE socks_recv_buf = <<>>
    <2>1. socks_recv_tcp_pending' = pending /\ socks_recv_buf' = socks_recv_buf
      BY <1>2 DEF client_sent_func, pending
    <2>2. CASE Drained(pending)
      BY <1>2, <1>a, <2>2, FreedWork DEF client_sent_func, client_free_client, pending, upward
    <2>3. CASE ~Drained(pending)
      <3>1. UNCHANGED <<pcb, alive, client_closed, socks_closed, socks>>
        BY <1>2, <2>3 DEF client_sent_func, pending
      <3>2. socks_closed /\ repeated = 0 => pcb'.unacked + input'.acked > 0
        BY <1>c, <1>d, <2>3, <3>1 DEF Drained
      <3> QED
        BY <1>2, <1>a, <1>b, <2>1, <3>1, <3>2 DEF WInv, WaitingIsWoken, SendInProgress, NoLimbo, upward
    <2> QED
      BY <2>2, <2>3
  <1> QED
    BY <1>1, <1>2

\* The other callbacks of lwIP, which give the client up or leave it as it is.
LEMMA CloseWork == IInv /\ WInv /\ (client_recv_func_closed \/ client_err_func) => WInv'
  <1> SUFFICES ASSUME IInv, WInv, client_recv_func_closed \/ client_err_func PROVE WInv'
    OBVIOUS
  <1>1. UNCHANGED <<socks_up, upward, downward, repeated>> /\ TypeOK
    BY DEF client_recv_func_closed, client_err_func, IInv
  <1>2. CASE client_handle_freed_client(socks)
    BY <1>1, <1>2, FreedWork DEF upward
  <1>3. CASE ~client_handle_freed_client(socks)
    <2>1. pcb' = ReturnFin(pcb) /\ UNCHANGED <<alive, client_closed, socks_closed, socks>>
      BY <1>3 DEF client_recv_func_closed, client_err_func, client_free_client
    <2>2. (pcb'.sent <=> pcb.sent) /\ pcb'.unacked = pcb.unacked
      BY <1>1, <2>1, ReturnFinOK DEF SameCallbacks, TypeOK, DataOK
    <2>3. input'.acked = input.acked
      BY <1>3 DEF client_recv_func_closed, client_err_func, Returned, NoInput
    <2> QED
      BY <1>1, <2>1, <2>2, <2>3, SameWork DEF WorkVars, upward, downward, FlightKept, InFlight
  <1> QED
    BY <1>2, <1>3

\* The actions that leave the client and its data alone.
LEMMA QuietWork ==
  ASSUME IInv, WInv,
         \/ SyncReturn \/ SocksWait \/ terminate \/ UNCHANGED vars
         \/ \E seg \in Segments : TcpInput(seg) \/ TcpInputNoAck(seg)
  PROVE  WInv'
  <1>1. TypeOK /\ UNCHANGED WorkVars
    BY DEF SyncReturn, SocksWait, terminate, TcpInput, TcpInputNoAck, WorkVars, vars, client,
           upward, downward, IInv
  <1>2. (pcb'.sent <=> pcb.sent) /\ FlightKept
    <2>1. pcb \in Pcb /\ pcb.unacked \in Nat /\ repeated \in Nat
      BY <1>1 DEF TypeOK, DataOK, Pcb
    <2>2. CASE SyncReturn
      BY <2>2 DEF SyncReturn, IInv, JobsInFrame, FlightKept, InFlight, NoInput
    <2>3. CASE SocksWait \/ terminate \/ UNCHANGED vars
      BY <2>3 DEF SocksWait, terminate, vars, sync, FlightKept, InFlight
    <2>4. ASSUME NEW seg \in Segments, TcpInput(seg)
          PROVE  (pcb'.sent <=> pcb.sent) /\ FlightKept
      <3>1. /\ pcb' = tcp_receive(pcb, seg.acked, seg.len, seg.fin)
            /\ input.acked = 0 /\ input' = seg /\ repeated' = repeated /\ seg.acked \in Nat
        BY <2>4 DEF TcpInput, MayArrive, Quiet, NoInput, Segments
      <3>2. (pcb'.sent <=> pcb.sent) /\ pcb'.unacked = pcb.unacked - seg.acked
        BY <2>1, <3>1 DEF tcp_receive, Pcb
      <3> QED
        BY <2>1, <3>1, <3>2 DEF FlightKept, InFlight
    <2>5. ASSUME NEW seg \in Segments, TcpInputNoAck(seg)
          PROVE  (pcb'.sent <=> pcb.sent) /\ FlightKept
      <3>1. /\ pcb' = tcp_receive_NoAck(pcb, seg.len, seg.fin) /\ seg.acked \in Nat
            /\ input.acked = 0 /\ input' = seg /\ repeated' = repeated + seg.acked
        BY <2>5 DEF TcpInputNoAck, MayArrive, Quiet, NoInput, Segments
      <3>2. (pcb'.sent <=> pcb.sent) /\ pcb'.unacked = pcb.unacked
        BY <2>1, <3>1 DEF tcp_receive_NoAck, tcp_receive, Pcb
      <3> QED
        BY <2>1, <3>1, <3>2 DEF FlightKept, InFlight
    <2> QED
      BY <2>2, <2>3, <2>4, <2>5
  <1>3. socks'.phase = socks.phase /\ (socks'.send # "none" <=> socks.send # "none")
    BY <1>1 DEF SyncReturn, SocksWait, terminate, TcpInput, TcpInputNoAck, vars, TypeOK, DataOK
  <1> QED
    BY <1>1, <1>2, <1>3, SameWork

-----------------------------------------------------------------------------
LEMMA InitWork == Init => WInv
  BY DEF Init, WInv, WaitingIsWoken, SendInProgress, NoLimbo

LEMMA NextWork == IInv /\ WInv /\ [Next]_vars => WInv'
  <1> SUFFICES ASSUME IInv, WInv, [Next]_vars PROVE WInv'
    OBVIOUS
  <1>1. ASSUME NEW op \in {"job", "wait"}, listener_accept_func(op) PROVE WInv'
    BY <1>1 DEF listener_accept_func, WInv, WaitingIsWoken, SendInProgress, NoLimbo
  <1>9. CASE listener_accept_func_fails
    BY <1>9, GoneWork DEF listener_accept_func_fails, client, IInv, TypeOK, FlagsOK
  <1>2. CASE SocksDown
    BY <1>2, FreeSocksWork DEF SocksDown
  <1>3. CASE SocksUp \/ \E n \in 1..TCP_WND : client_socks_send_handler_done(n)
    BY <1>3, SocksUpWork, SendDoneWork
  <1>4. CASE \E n \in 1..RECV_BUF : client_socks_recv_handler_done(n)
    BY <1>4, RecvDoneWork
  <1>5. CASE client_sent_func \/ client_recv_func
    BY <1>5, SentFuncWork, RecvFuncWork
  <1>6. CASE client_recv_func_closed \/ client_err_func
    BY <1>6, CloseWork
  <1>7. CASE client_murder
    BY <1>7, GoneWork DEF client_murder
  <1>8. CASE \/ SyncReturn \/ SocksWait \/ terminate \/ Terminated \/ UNCHANGED vars
             \/ \E seg \in Segments : TcpInput(seg) \/ TcpInputNoAck(seg)
    BY <1>8, QuietWork DEF Terminated
  <1> QED
    BY <1>1, <1>2, <1>3, <1>4, <1>5, <1>6, <1>7, <1>8, <1>9 DEF Next, SocksNext, CallbackNext

LEMMA SpecWork == Spec => [](IInv /\ WInv)
  <1>1. Init => IInv /\ WInv
    BY InitIInv, InitWork
  <1>2. (IInv /\ WInv) /\ [Next]_vars => (IInv /\ WInv)'
    BY NextIInv, NextWork
  <1> QED
    BY <1>1, <1>2, PTL DEF Spec

\* Neither direction stands still because somebody forgot to go on: buffered data is
\* being sent or waits for a sent callback that comes, a free buffer is being read into.
\* The callback comes as long as lwIP has reported nothing twice.
THEOREM WorkNeverForgotten == Spec => []NoForgottenWork
  <1>1. IInv /\ WInv => NoForgottenWork
    <2> SUFFICES ASSUME IInv, WInv PROVE NoForgottenWork
      OBVIOUS
    <2>1. ReadInProgress
      BY DEF IInv, RecvBufBounded, ReadInProgress
    <2> QED
      BY <2>1 DEF WInv, NoForgottenWork
  <1> QED
    BY SpecWork, <1>1, PTL

\* A client with one side closed has data for the other: none is left that nobody
\* would free.
THEOREM NeverInLimbo == Spec => []NoLimbo
  <1>1. IInv /\ WInv => NoLimbo
    BY DEF WInv
  <1> QED
    BY SpecWork, <1>1, PTL

-----------------------------------------------------------------------------
(* The orderly close of a client whose SOCKS side is gone. *)

\* A close that leaves the block to lwIP comes from client_sent_func.
LEMMA StepDrains ==
  ASSUME IInv, [Next]_vars, alive, socks_closed, ~client_closed, client_closed',
         pcb'.state = "CLOSING"
  PROVE  socks_recv_buf = <<>> /\ (repeated = 0 => pcb.unacked = 0)
  <1>a. TypeOK /\ socks = NoSocks /\ ~pcb.recv /\ Open(pcb)
    <2>1. socks.phase = "none" /\ socks.send = "none" /\ socks.recv = "none"
      BY DEF IInv, SocksOwned
    <2>2. socks = NoSocks
      BY <2>1 DEF IInv, TypeOK, DataOK, NoSocks
    <2> QED
      BY <2>2 DEF IInv, PcbOwned
  <1>b. \A q \in Pcb : tcp_abort(q).state = "FREED"
    BY DEF tcp_abort, Pcb
  <1>c. \A q \in Pcb : NoCallbacks(q) \in Pcb
    BY DEF NoCallbacks, Pcb
  <1>d. pcb \in Pcb
    BY <1>a DEF TypeOK, DataOK
  <1>1. ~SocksNext
    BY <1>a, Zenon DEF SocksNext, SocksWait, SocksUp, SocksDown, client_socks_send_handler_done,
      client_socks_recv_handler_done, Runs, NoSocks
  <1>2. ~client_err_func /\ ~client_murder
    BY <1>b, <1>c, <1>d DEF client_err_func, client_murder
  <1>3. ~client_recv_func_closed
    BY <1>a DEF client_recv_func_closed
  <1>4. client_sent_func
    BY <1>1, <1>2, <1>3, <1>a DEF Next, listener_accept_func, listener_accept_func_fails,
      TcpInput, TcpInputNoAck, CallbackNext, SyncReturn, client_recv_func, terminate,
      Terminated, vars, client
  <1>5. socks_recv_buf = <<>>
    <2> SUFFICES ASSUME socks_recv_buf # <<>> PROVE FALSE
      OBVIOUS
    <2> DEFINE pending == StillPending(input.acked)
    <2>1. client_socks_recv_send_out(socks_recv_buf, socks_recv_buf_sent, pending, socks)
      BY <1>4 DEF client_sent_func
    <2>2. PICK w \in {0, Least(Len(socks_recv_buf) - socks_recv_buf_sent, tcp_sndbuf(pcb))} :
            UNCHANGED client \/ client_abort_client(tcp_write(pcb, w), [socks EXCEPT !.recv = "none"])
      BY <2>1, Zenon DEF client_socks_recv_send_out
    <2>3. client_abort_client(tcp_write(pcb, w), [socks EXCEPT !.recv = "none"])
      BY <2>2 DEF client
    <2>4. w \in 0..tcp_sndbuf(pcb)
      <3>1. socks_recv_buf \in Seq(Nat) /\ socks_recv_buf_sent < Len(socks_recv_buf)
            /\ socks_recv_buf_sent \in Nat
        BY <1>a, <1>4 DEF IInv, RecvBufBounded, TypeOK, DataOK, client_sent_func
      <3>2. pcb.unacked \in 0..TCP_SND_BUF
        BY <1>d DEF Pcb
      <3> QED
        BY <3>1, <3>2, SizesAreNat DEF Least, tcp_sndbuf, Sizes
    <2>5. tcp_write(pcb, w) \in Pcb
      BY <1>d, <2>4, WriteOK
    <2> QED
      BY <1>b, <1>c, <2>3, <2>5 DEF client_abort_client
  <1>6. Drained(StillPending(input.acked)) /\ pcb.sent
    BY <1>4, <1>5 DEF client_sent_func
  <1>7. StillPending(input.acked) = pcb.unacked - repeated /\ pcb.unacked \in Nat
    BY <1>6, <1>a, Counts DEF IInv, PendingIsUnacked, StillPending, TypeOK, DataOK
  <1> QED
    BY <1>5, <1>6, <1>7 DEF Drained

\* No FIN overtakes data for the application: the connection of a client whose SOCKS
\* side is gone is closed in order only after lwIP has had every byte acknowledged, if
\* it has reported none twice.
THEOREM DrainAlwaysComplete == Spec => DrainComplete
  <1>1. IInv /\ [Next]_vars =>
          [alive /\ socks_closed /\ ~client_closed /\ client_closed' /\ pcb'.state = "CLOSING" =>
             socks_recv_buf = <<>> /\ (repeated = 0 => pcb.unacked = 0)]_vars
    BY StepDrains
  <1> QED
    BY SpecIInv, <1>1, PTL DEF Spec, DrainComplete

-----------------------------------------------------------------------------
(***************************************************************************)
(* Both directions of the relay implement ByteChannel.  Most steps do no   *)
(* more to a direction than to close one of its ends or both (UpEnds,      *)
(* DownEnds); the others move bytes, and for those the numbers of the bytes *)
(* have to be known: what has been taken in is what has been passed on and *)
(* what is held.                                                           *)
(***************************************************************************)
UpCounted ==
  /\ Len(buf) <= TCP_WND
  /\ alive /\ ~socks_closed => appRcvd = Len(toSocks) + Len(buf)

\* What the downward channel holds.
DownHeld ==
  IF alive /\ ~client_closed /\ socks_up
  THEN SubSeq(socks_recv_buf, socks_recv_buf_sent + 1, Len(socks_recv_buf))
  ELSE <<>>

DownCounted == alive /\ ~client_closed => serverRead = Len(toApp) + Len(DownHeld)

CInv == IInv /\ UpCounted /\ DownCounted

UpOK == [Upward!Next]_(Upward!vars) /\ UpCounted'
DownOK == [Downward!Next]_(Downward!vars) /\ DownCounted'

\* The ends of a connection are only ever closed.
Closing ==
  /\ alive' => alive
  /\ client_closed => client_closed'
  /\ socks_closed => socks_closed'

-----------------------------------------------------------------------------
(* Steps of the channels. *)

LEMMA UpEnds ==
  ASSUME FlagsOK, FlagsOK', Closing, UNCHANGED <<buf, toSocks>>
  PROVE  [Upward!Next]_(Upward!vars)
  <1> USE DEF Closing, Status, Upward!vars, Upward!Next
  <1>1. CASE ~alive \/ socks_closed
    BY <1>1
  <1>2. CASE alive /\ ~socks_closed /\ (~alive' \/ socks_closed')
    <2>1. Upward!Cut
      BY <1>2 DEF Upward!Cut
    <2> QED
      BY <2>1
  <1>3. CASE alive /\ ~socks_closed /\ alive' /\ ~socks_closed' /\ ~client_closed /\ client_closed'
    <2>1. Upward!SourceGone
      BY <1>3 DEF Upward!SourceGone
    <2> QED
      BY <2>1
  <1>4. CASE alive /\ ~socks_closed /\ alive' /\ ~socks_closed' /\ (client_closed \/ ~client_closed')
    <2>1. Status(client_closed, socks_closed)' = Status(client_closed, socks_closed)
      BY <1>4
    <2> QED
      BY <1>4, <2>1
  <1> QED
    BY <1>1, <1>2, <1>3, <1>4

\* The queue of the downward channel survives a step that moves no byte.
LEMMA DownHeldKept ==
  ASSUME alive, ~client_closed, alive', ~client_closed',
         socks_up => socks_up' /\ UNCHANGED <<socks_recv_buf, socks_recv_buf_sent>>,
         ~socks_up /\ socks_up' => socks_recv_buf' = <<>> /\ socks_recv_buf_sent' \in Nat
  PROVE  DownHeld' = DownHeld
  <1>1. CASE socks_up
    BY <1>1 DEF DownHeld
  <1>2. CASE ~socks_up /\ ~socks_up'
    BY <1>2 DEF DownHeld
  <1>3. CASE ~socks_up /\ socks_up'
    <2>1. SubSeq(socks_recv_buf', socks_recv_buf_sent' + 1, Len(socks_recv_buf')) = <<>>
      BY <1>3, SubSeqEmpty
    <2> QED
      BY <1>3, <2>1 DEF DownHeld
  <1> QED
    BY <1>1, <1>2, <1>3

LEMMA DownEnds ==
  ASSUME FlagsOK, FlagsOK', Closing, DownCounted, UNCHANGED <<toApp, serverRead>>,
         alive' /\ ~client_closed' =>
           /\ socks_up => socks_up' /\ UNCHANGED <<socks_recv_buf, socks_recv_buf_sent>>
           /\ ~socks_up /\ socks_up' => socks_recv_buf' = <<>> /\ socks_recv_buf_sent' \in Nat
  PROVE  [Downward!Next]_(Downward!vars) /\ DownCounted'
  <1> USE DEF Closing, Downward!vars, Downward!Next
  <1>1. CASE ~alive \/ client_closed
    <2>1. Status(socks_closed, client_closed) = "closed" /\ Status(socks_closed, client_closed)' = "closed"
      BY <1>1 DEF Status
    <2>2. UNCHANGED Downward!vars
      BY <1>1, <2>1
    <2>3. DownCounted'
      BY <1>1 DEF DownCounted
    <2> QED
      BY <2>2, <2>3
  <1>2. CASE alive /\ ~client_closed /\ (~alive' \/ client_closed')
    <2>1. Downward!Cut
      BY <1>2 DEF Downward!Cut, Status
    <2> QED
      BY <1>2, <2>1 DEF DownCounted
  <1>3. CASE alive /\ ~client_closed /\ alive' /\ ~client_closed'
    <2>1. DownHeld' = DownHeld
      BY <1>3, DownHeldKept
    <2>2. DownCounted'
      BY <1>3, <2>1 DEF DownCounted
    <2>3. CASE ~socks_closed /\ socks_closed'
      <3>1. Downward!SourceGone
        BY <1>3, <2>1, <2>3 DEF Downward!SourceGone, Status, DownHeld
      <3> QED
        BY <2>2, <3>1
    <2>4. CASE ~(~socks_closed /\ socks_closed')
      <3>1. Status(socks_closed, client_closed)' = Status(socks_closed, client_closed)
        BY <1>3, <2>4 DEF Status
      <3> QED
        BY <2>1, <2>2, <3>1 DEF DownHeld
    <2> QED
      BY <2>3, <2>4
  <1> QED
    BY <1>1, <1>2, <1>3

\* e, divided after w elements, is a part of s from after the first k elements.
Parts(e, s, k, w) ==
  /\ SubSeq(e, 1, w) \in Seq(Nat) /\ Len(SubSeq(e, 1, w)) = w
  /\ Len(SubSeq(e, w + 1, Len(e))) = Len(e) - w
  /\ SubSeq(e, 1, w) = SubSeq(s, k + 1, k + w)
  /\ SubSeq(e, w + 1, Len(e)) = SubSeq(s, k + w + 1, Len(s))

LEMMA Divided ==
  ASSUME NEW s \in Seq(Nat), NEW k \in Nat, k < Len(s), NEW w \in 0..(Len(s) - k)
  PROVE  Parts(SubSeq(s, k + 1, Len(s)), s, k, w)
  <1> SUFFICES ASSUME NEW e, e = SubSeq(s, k + 1, Len(s)) PROVE Parts(e, s, k, w)
    OBVIOUS
  <1>1. Len(s) \in Nat /\ w \in Nat /\ k + w <= Len(s)
    OBVIOUS
  <1>2. e \in Seq(Nat) /\ Len(e) = Len(s) - k /\ \A i \in 1..(Len(s) - k) : e[i] = s[k + i]
    <2>1. \A i \in k + 1 .. Len(s) : s[i] \in Nat
      OBVIOUS
    <2>2. /\ e \in Seq(Nat) /\ Len(e) = Len(s) - k
      BY <1>1
    <2>3. \A i \in 1..(Len(s) - k) : e[i] = s[k + i]
      BY <1>1
    <2> QED
      BY <2>2, <2>3
  <1>3. SubSeq(e, 1, w) \in Seq(Nat) /\ Len(SubSeq(e, 1, w)) = w
    BY <1>1, <1>2
  <1>4. SubSeq(s, k + 1, k + w) \in Seq(Nat) /\ Len(SubSeq(s, k + 1, k + w)) = w
    BY <1>1
  <1>5. SubSeq(e, w + 1, Len(e)) \in Seq(Nat) /\ Len(SubSeq(e, w + 1, Len(e))) = Len(e) - w
    <2>1. w <= Len(e) /\ Len(e) \in Nat
      BY <1>1, <1>2
    <2> QED
      BY <1>1, <1>2, <2>1
  <1>6. SubSeq(s, k + w + 1, Len(s)) \in Seq(Nat) /\ Len(SubSeq(s, k + w + 1, Len(s))) = Len(s) - (k + w)
    BY <1>1
  <1>7. SubSeq(e, 1, w) = SubSeq(s, k + 1, k + w)
    <2>1. \A i \in 1..w : SubSeq(e, 1, w)[i] = SubSeq(s, k + 1, k + w)[i]
      BY <1>1, <1>2
    <2> QED
      BY <1>3, <1>4, <2>1, SeqEqual
  <1>8. SubSeq(e, w + 1, Len(e)) = SubSeq(s, k + w + 1, Len(s))
    <2>1. \A i \in 1..(Len(s) - (k + w)) : SubSeq(e, w + 1, Len(e))[i] = SubSeq(s, k + w + 1, Len(s))[i]
      BY <1>1, <1>2
    <2>2. Len(e) - w = Len(s) - (k + w)
      BY <1>1, <1>2
    <2> QED
      BY <1>5, <1>6, <2>1, <2>2, SeqEqual
  <1> QED
    BY <1>3, <1>5, <1>7, <1>8 DEF Parts

LEMMA Balance ==
  ASSUME NEW a \in Nat, NEW b \in Nat, NEW n \in Nat, NEW w \in Nat, NEW c, c = a + b
  PROVE  c + n = (a + w) + ((b + n) - w)
  OBVIOUS

\* A step of a living client that takes in n bytes, and passes on w of what it then holds.
LEMMA DownMoves ==
  ASSUME FlagsOK, alive, ~client_closed, socks_up, DownCounted,
         UNCHANGED client,
         NEW n \in 0..RECV_BUF, NEW w \in 0..RECV_BUF,
         n = 0 \/ ~socks_closed,
         Len(DownHeld) + n <= RECV_BUF, w <= Len(DownHeld) + n,
         Len(DownHeld) \in Nat, Len(toApp) \in Nat,
         serverRead' = serverRead + n,
         NEW ext \in Seq(Nat),
         ext = DownHeld \o [i \in 1..n |-> Len(toApp) + Len(DownHeld) + i],
         Len(ext) = Len(DownHeld) + n,
         toApp' = toApp \o SubSeq(ext, 1, w), Len(toApp') = Len(toApp) + w,
         DownHeld' = SubSeq(ext, w + 1, Len(ext)), Len(DownHeld') = Len(ext) - w
  PROVE  Downward!Next /\ DownCounted'
  <1>1. Status(socks_closed, client_closed)' = Status(socks_closed, client_closed)
    BY DEF Status, client
  <1>2. Downward!Extended(n) = ext
    BY DEF Downward!Extended, DownHeld
  <1>3. Status(socks_closed, client_closed) = "open" \/ (Status(socks_closed, client_closed) = "draining" /\ n = 0)
    BY DEF Status
  <1>4. Downward!Move(n, w)
    BY <1>1, <1>2, <1>3 DEF Downward!Move, DownHeld
  <1>5. DownCounted'
    <2>1. n \in Nat /\ w \in Nat
      BY SizesAreNat DEF Sizes
    <2>2. serverRead = Len(toApp) + Len(DownHeld)
      BY DEF DownCounted
    <2>3. serverRead + n = (Len(toApp) + w) + ((Len(DownHeld) + n) - w)
      BY <2>1, <2>2, Balance
    <2>4. serverRead' = serverRead + n /\ Len(toApp') = Len(toApp) + w
          /\ Len(DownHeld') = (Len(DownHeld) + n) - w
      OBVIOUS
    <2>5. serverRead' = Len(toApp') + Len(DownHeld')
      BY <2>3, <2>4, Zenon
    <2> QED
      BY <2>5 DEF DownCounted
  <1> QED
    BY <1>4, <1>5 DEF Downward!Next

-----------------------------------------------------------------------------
(* Steps of the client. *)

LEMMA FreedCloses ==
  ASSUME NEW k, client_handle_freed_client(k), UNCHANGED socks_up
  PROVE  Closing /\ client_closed'
  BY Zenon DEF client_handle_freed_client, Closing

LEMMA FreeSocksCloses ==
  ASSUME client_free_socks, UNCHANGED socks_up
  PROVE  Closing
  BY Zenon DEF client_free_socks, Closing

\* A step that only closes ends of the connection is a step of both channels.
LEMMA EndsOnly ==
  ASSUME CInv, IInv', Closing, UNCHANGED <<upward, downward, socks_up>>
  PROVE  UpOK /\ DownOK
  <1>1. FlagsOK /\ FlagsOK'
    BY DEF CInv, IInv, TypeOK
  <1>2. UpCounted'
    BY DEF CInv, UpCounted, Closing, upward
  <1>3. [Upward!Next]_(Upward!vars)
    BY <1>1, UpEnds DEF upward
  <1>4. DownOK
    BY <1>1, DownEnds DEF CInv, downward, DownOK
  <1> QED
    BY <1>2, <1>3, <1>4 DEF UpOK

\* The upward half of it.
LEMMA UpEndsOnly ==
  ASSUME CInv, IInv', Closing, UNCHANGED upward
  PROVE  UpOK
  <1>1. FlagsOK /\ FlagsOK'
    BY DEF CInv, IInv, TypeOK
  <1>2. UpCounted'
    BY DEF CInv, UpCounted, Closing, upward
  <1>3. [Upward!Next]_(Upward!vars)
    BY <1>1, UpEnds DEF upward
  <1> QED
    BY <1>2, <1>3 DEF UpOK

\* The downward half of it.
LEMMA DownEndsOnly ==
  ASSUME CInv, IInv', Closing, UNCHANGED <<downward, socks_up>>
  PROVE  DownOK
  <1>1. FlagsOK /\ FlagsOK'
    BY DEF CInv, IInv, TypeOK
  <1> QED
    BY <1>1, DownEnds DEF CInv, downward, DownOK

LEMMA AcceptChannels ==
  ASSUME CInv, IInv', NEW op \in {"job", "wait"}, listener_accept_func(op)
  PROVE  UpOK /\ DownOK
  <1> USE DEF listener_accept_func
  <1>1. Status(client_closed, socks_closed) = "closed" /\ Status(socks_closed, client_closed) = "closed"
    BY DEF Status
  <1>2. Status(client_closed, socks_closed)' = "open" /\ Status(socks_closed, client_closed)' = "open"
    BY DEF Status
  <1>3. Upward!Start /\ Downward!Start
    BY <1>1, <1>2 DEF Upward!Start, Downward!Start
  <1>4. UpCounted' /\ DownCounted'
    BY SizesAreNat DEF UpCounted, DownCounted, DownHeld, Sizes
  <1> QED
    BY <1>3, <1>4 DEF UpOK, DownOK, Upward!Next, Downward!Next

LEMMA SocksUpChannels == CInv /\ IInv' /\ SocksUp => UpOK /\ DownOK
  <1> SUFFICES ASSUME CInv, IInv', SocksUp PROVE UpOK /\ DownOK
    OBVIOUS
  <1>1. FlagsOK /\ FlagsOK' /\ socks_recv_buf_sent \in Nat
    BY SizesAreNat DEF CInv, IInv, TypeOK, DataOK, Sizes
  <1>2. Closing /\ UNCHANGED <<upward, toApp, serverRead, socks_recv_buf_sent>>
        /\ socks_recv_buf' = <<>> /\ socks_up' = TRUE
    BY DEF SocksUp, Closing
  <1>3. alive => ~socks_up
    BY DEF CInv, IInv, SocksOwned, SocksUp
  <1>4. UpOK
    BY <1>2, UpEndsOnly
  <1>5. DownOK
    BY <1>1, <1>2, <1>3, DownEnds DEF CInv, DownOK, Closing
  <1> QED
    BY <1>4, <1>5

LEMMA SendDoneChannels ==
  ASSUME CInv, IInv', NEW n \in 1..TCP_WND, client_socks_send_handler_done(n)
  PROVE  UpOK /\ DownOK
  <1>1. /\ n \in 1..Len(buf) /\ buf' = SubSeq(buf, n + 1, Len(buf))
        /\ toSocks' = toSocks \o SubSeq(buf, 1, n)
        /\ UNCHANGED <<socks_up, appRcvd, downward>>
    BY DEF client_socks_send_handler_done, Unsent
  <1>2. alive /\ ~socks_closed
    BY DEF client_socks_send_handler_done, CInv, IInv, SocksOwned
  <1>3. buf \in Seq(Nat) /\ toSocks \in Seq(Nat) /\ client_closed \in BOOLEAN
    BY DEF CInv, IInv, TypeOK, DataOK, FlagsOK
  <1>4. Closing
    BY <1>1, FreeSocksCloses DEF client_socks_send_handler_done, Closing
  <1>5. DownOK
    BY <1>1, <1>4, DownEndsOnly
  <1>6. /\ SubSeq(buf, 1, n) \in Seq(Nat) /\ Len(SubSeq(buf, 1, n)) = n
        /\ Len(SubSeq(buf, n + 1, Len(buf))) = Len(buf) - n
    BY <1>1, <1>3
  <1>7. Len(toSocks') = Len(toSocks) + n /\ Len(buf') = Len(buf) - n
    BY <1>1, <1>3, <1>6
  <1>8. UpCounted'
    <2>1. appRcvd = Len(toSocks) + Len(buf)
      BY <1>2 DEF CInv, UpCounted
    <2>2. appRcvd' = Len(toSocks') + Len(buf')
      <3>1. Len(toSocks) \in Nat /\ Len(buf) \in Nat /\ n \in Nat
        BY <1>3
      <3> HIDE <1>1
      <3>2. appRcvd' = appRcvd
        BY <1>1
      <3> QED
        BY <1>7, <2>1, <3>1, <3>2
    <2>3. Len(buf') <= TCP_WND
      <3>1. Len(buf) \in Nat /\ Len(buf) <= TCP_WND /\ n \in Nat
        BY <1>3 DEF CInv, UpCounted
      <3>2. Len(buf) - n <= TCP_WND
        BY <3>1, SizesAreNat DEF Sizes
      <3> QED
        BY <1>7, <3>2
    <2> QED
      BY <2>2, <2>3 DEF UpCounted
  <1>9. CASE n = Len(buf) /\ client_closed
    <2>1. alive' = FALSE
      BY <1>9 DEF client_socks_send_handler_done, client_free_socks, DataForApp
    <2>2. SubSeq(buf, 1, n) = buf
      BY <1>3, <1>9, SubSeqFull
    <2>3. Upward!Finish
      BY <1>1, <1>2, <1>9, <2>1, <2>2 DEF Upward!Finish, Status
    <2> QED
      BY <1>5, <1>8, <2>3 DEF UpOK, Upward!Next
  <1>10. CASE ~(n = Len(buf) /\ client_closed)
    <2>1. UNCHANGED <<alive, client_closed, socks_closed>>
      BY <1>10 DEF client_socks_send_handler_done
    <2>2. Upward!Extended(0) = buf
      <3>1. Upward!Extended(0) = buf \o [i \in 1..0 |-> Len(toSocks) + Len(buf) + i]
        BY <1>2 DEF Upward!Extended
      <3>2. [i \in 1..0 |-> Len(toSocks) + Len(buf) + i] = <<>>
        OBVIOUS
      <3> QED
        BY <1>3, <3>1, <3>2, ConcatEmptySeq
    <2>3. Len(buf) <= TCP_WND /\ n \in Nat /\ Len(buf) \in Nat
      BY <1>3 DEF CInv, UpCounted
    <2>4. Upward!Move(0, n)
      BY <1>1, <1>2, <2>1, <2>2, <2>3 DEF Upward!Move, Status
    <2> QED
      BY <1>5, <1>8, <2>4, SizesAreNat DEF UpOK, Upward!Next, Sizes
  <1> QED
    BY <1>9, <1>10

LEMMA RecvFuncChannels == CInv /\ IInv' /\ client_recv_func => UpOK /\ DownOK
  <1> SUFFICES ASSUME CInv, IInv', client_recv_func PROVE UpOK /\ DownOK
    OBVIOUS
  <1> DEFINE new == [i \in 1..input.len |-> appRcvd + i]
  <1>1. UNCHANGED <<client, toSocks, downward>> /\ Closing
    BY DEF client_recv_func, Closing, client
  <1>2. DownOK
    BY <1>1, DownEndsOnly DEF client
  <1>3. \/ UNCHANGED <<buf, appRcvd>>
        \/ /\ pcb.recv /\ input.len <= TCP_WND - Len(buf) /\ buf' = buf \o new
           /\ appRcvd' = appRcvd + input.len
    <2>1. input.len \in Nat /\ Len(buf) \in Nat
      BY Counts DEF CInv, IInv
    <2>2. input.len > TCP_WND - Len(buf) \/ input.len <= TCP_WND - Len(buf)
      BY <2>1, SizesAreNat DEF Sizes
    <2> QED
      BY <2>2, Zenon DEF client_recv_func
  <1>4. CASE UNCHANGED <<buf, appRcvd>>
    BY <1>1, <1>2, <1>4, UpEndsOnly DEF upward
  <1>5. CASE /\ pcb.recv /\ input.len <= TCP_WND - Len(buf) /\ buf' = buf \o new
             /\ appRcvd' = appRcvd + input.len
    <2>1. alive /\ ~client_closed /\ ~socks_closed
      BY <1>5 DEF CInv, IInv, PcbOwned
    <2>2. UNCHANGED <<alive, client_closed, socks_closed>>
      BY <1>1 DEF client
    <2>3. /\ buf \in Seq(Nat) /\ toSocks \in Seq(Nat) /\ appRcvd \in Nat
          /\ Len(buf) \in Nat /\ Len(toSocks) \in Nat /\ input.len \in Nat
      BY Counts DEF CInv, IInv, TypeOK, DataOK
    <2>4. new \in Seq(Nat) /\ Len(new) = input.len
      BY <2>3, NumberedBytes
    <2>5. appRcvd = Len(toSocks) + Len(buf)
      BY <2>1 DEF CInv, UpCounted
    <2> HIDE DEF new
    <2>6. buf \o new \in Seq(Nat) /\ Len(buf \o new) = Len(buf) + input.len
      <3>1. buf \in Seq(Nat) /\ new \in Seq(Nat)
        BY <2>3, <2>4
      <3>2. buf \o new \in Seq(Nat) /\ Len(buf \o new) = Len(buf) + Len(new)
        BY <3>1, ConcatProperties
      <3> QED
        BY <2>4, <3>2
    <2>7. SubSeq(buf \o new, 1, Len(buf) + input.len) = buf \o new
      BY <2>6, SubSeqFull
    <2>8. SubSeq(buf \o new, 1, 0) = <<>>
      BY SubSeqEmpty
    <2>9. Upward!Extended(input.len) = buf \o new
      BY <2>1, <2>5 DEF Upward!Extended, new
    <2>10. toSocks' = toSocks \o SubSeq(buf \o new, 1, 0)
      BY <1>1, <2>3, <2>8, ConcatEmptySeq
    <2>11. Status(client_closed, socks_closed) = "open" /\ UNCHANGED Status(client_closed, socks_closed)
      BY <2>1, <2>2 DEF Status
    <2>12. Len(buf) + input.len <= TCP_WND /\ 0 <= Len(buf) + input.len /\ 0 + 1 = 1
      BY <1>5, <2>3, SizesAreNat DEF Sizes
    <2>13. Upward!Move(input.len, 0)
      <3>1. (IF alive /\ ~socks_closed THEN buf ELSE <<>>) = buf
            /\ (IF alive /\ ~socks_closed THEN buf ELSE <<>>)' = buf \o new
        BY <1>5, <2>1, <2>2
      <3> QED
        BY <2>7, <2>9, <2>10, <2>11, <2>12, <3>1 DEF Upward!Move
    <2>14. input.len \in 0..TCP_WND /\ 0 \in 0..TCP_WND
      BY <2>3, <2>12, SizesAreNat DEF Sizes
    <2>15. UpCounted'
      <3>1. Len(buf') <= TCP_WND
        BY <1>5, <2>6, <2>12
      <3>2. appRcvd' = Len(toSocks) + Len(buf')
        BY <1>5, <2>3, <2>5, <2>6
      <3> QED
        BY <1>1, <3>1, <3>2 DEF UpCounted
    <2> QED
      BY <1>2, <2>13, <2>14, <2>15 DEF UpOK, Upward!Next
  <1> QED
    BY <1>3, <1>4, <1>5

\* What is to be sent of data is what the channel holds and the next n bytes.
Follows(data, sent, n) ==
  SubSeq(data, sent + 1, Len(data)) = DownHeld \o [i \in 1..n |-> Len(toApp) + Len(DownHeld) + i]

\* client_socks_recv_send_out passes on what it queues and holds the rest, or cuts
\* the channel; n of the bytes have just been read.
LEMMA SendOutChannels ==
  ASSUME CInv, IInv', alive, ~client_closed, socks_up, UNCHANGED socks_up,
         NEW n \in 0..RECV_BUF, n = 0 \/ ~socks_closed,
         NEW data \in Seq(Nat), Len(data) <= RECV_BUF,
         NEW sent \in Nat, sent < Len(data), NEW pending, NEW resume,
         DownHeld \in Seq(Nat), serverRead' = serverRead + n,
         Follows(data, sent, n),
         Len(DownHeld) + n = Len(data) - sent,
         client_socks_recv_send_out(data, sent, pending, resume)
  PROVE  Closing /\ DownOK
  <1> DEFINE ext == SubSeq(data, sent + 1, Len(data))
  <1>1. PICK w \in {0, Least(Len(data) - sent, tcp_sndbuf(pcb))} :
          \/ /\ sent + w = Len(data)
             /\ toApp' = toApp \o SubSeq(data, sent + 1, sent + w)
             /\ socks_recv_buf' = <<>> /\ socks_recv_buf_sent' = sent + w
             /\ UNCHANGED client
          \/ /\ sent + w # Len(data)
             /\ toApp' = toApp \o SubSeq(data, sent + 1, sent + w)
             /\ socks_recv_buf' = data /\ socks_recv_buf_sent' = sent + w
             /\ UNCHANGED client
          \/ /\ client_abort_client(tcp_write(pcb, w), [socks EXCEPT !.recv = "none"])
             /\ UNCHANGED toApp
    BY Zenon DEF client_socks_recv_send_out
  <1>2. toApp \in Seq(Nat) /\ pcb.unacked \in 0..TCP_SND_BUF /\ FlagsOK
    BY DEF CInv, IInv, TypeOK, DataOK, Pcb
  <1>3. w \in 0..(Len(data) - sent)
    <2>1. Len(data) - sent \in Nat /\ tcp_sndbuf(pcb) \in Nat
      <3>1. Len(data) \in Nat
        OBVIOUS
      <3> QED
        BY <1>2, <3>1, SizesAreNat DEF tcp_sndbuf, Sizes
    <2> QED
      BY <2>1 DEF Least
  <1>4. ext \in Seq(Nat) /\ Len(ext) = Len(data) - sent
    OBVIOUS
  <1>5. CASE /\ client_abort_client(tcp_write(pcb, w), [socks EXCEPT !.recv = "none"])
             /\ UNCHANGED toApp
    <2>1. Closing /\ client_closed'
      BY <1>5, FreedCloses DEF client_abort_client
    <2>2. Downward!Cut
      BY <1>5, <2>1 DEF Downward!Cut, Status
    <2>3. DownCounted'
      BY <2>1 DEF DownCounted
    <2> QED
      BY <2>1, <2>2, <2>3 DEF DownOK, Downward!Next
  <1>6. CASE /\ toApp' = toApp \o SubSeq(data, sent + 1, sent + w)
             /\ \/ sent + w = Len(data) /\ socks_recv_buf' = <<>>
                \/ sent + w # Len(data) /\ socks_recv_buf' = data
             /\ socks_recv_buf_sent' = sent + w
             /\ UNCHANGED client
    <2>1. Closing /\ UNCHANGED <<alive, client_closed, socks_up, socks_closed>>
      BY <1>6 DEF client, Closing
    <2>2. Len(data) \in Nat /\ w \in Nat /\ sent + w <= Len(data)
      BY <1>3
    <2>3. /\ SubSeq(ext, 1, w) \in Seq(Nat) /\ Len(SubSeq(ext, 1, w)) = w
          /\ Len(SubSeq(ext, w + 1, Len(ext))) = Len(ext) - w
          /\ SubSeq(ext, 1, w) = SubSeq(data, sent + 1, sent + w)
          /\ SubSeq(ext, w + 1, Len(ext)) = SubSeq(data, sent + w + 1, Len(data))
      <3>1. Parts(ext, data, sent, w)
        BY <1>3, Divided
      <3> HIDE DEF ext
      <3> QED
        BY <3>1 DEF Parts
    <2>4. DownHeld' = SubSeq(ext, w + 1, Len(ext))
      <3>1. DownHeld' = SubSeq(socks_recv_buf', sent + w + 1, Len(socks_recv_buf'))
        BY <1>6, <2>1 DEF DownHeld
      <3>2. CASE sent + w = Len(data)
        <4>1. DownHeld' = <<>>
          BY <1>6, <2>2, <3>1, <3>2, SubSeqEmpty
        <4>2. SubSeq(data, sent + w + 1, Len(data)) = <<>>
          BY <2>2, <3>2, SubSeqEmpty
        <4> QED
          BY <2>3, <4>1, <4>2
      <3>3. CASE sent + w # Len(data)
        BY <1>6, <2>3, <3>1, <3>3
      <3> QED
        BY <3>2, <3>3
    <2> HIDE DEF ext
    <2>6. toApp' = toApp \o SubSeq(ext, 1, w) /\ Len(toApp') = Len(toApp) + w
      <3>1. toApp' = toApp \o SubSeq(ext, 1, w)
        BY <1>6, <2>3
      <3>2. Len(toApp \o SubSeq(ext, 1, w)) = Len(toApp) + Len(SubSeq(ext, 1, w))
        BY <1>2, <2>3, ConcatProperties
      <3> QED
        BY <2>3, <3>1, <3>2
    <2>7. Len(DownHeld) \in Nat /\ Len(toApp) \in Nat
      BY <1>2
    <2>8. Len(DownHeld) + n <= RECV_BUF /\ w <= Len(DownHeld) + n /\ Len(ext) = Len(DownHeld) + n
      BY <1>4, <2>2, <2>7, SizesAreNat DEF Sizes
    <2>5. w \in 0..RECV_BUF
      <3>1. RECV_BUF \in Nat /\ Len(data) <= RECV_BUF
        BY SizesAreNat DEF Sizes
      <3>2. w <= Len(data)
        BY <2>2
      <3> QED
        BY <2>2, <3>1, <3>2
    <2>9. ext = DownHeld \o [i \in 1..n |-> Len(toApp) + Len(DownHeld) + i]
      BY DEF ext, Follows
    <2>10. Downward!Next /\ DownCounted'
      BY <1>2, <1>4, <1>6, <2>3, <2>4, <2>6, <2>7, <2>8, <2>5, <2>9, DownMoves DEF CInv
    <2> QED
      BY <2>1, <2>10 DEF DownOK
  <1> QED
    BY <1>1, <1>5, <1>6

LEMMA OtherChannels ==
  ASSUME CInv, IInv',
         \/ SyncReturn \/ SocksWait \/ SocksDown \/ client_recv_func_closed
         \/ client_err_func \/ terminate \/ client_murder \/ listener_accept_func_fails
         \/ (\E seg \in Segments : TcpInput(seg) \/ TcpInputNoAck(seg)) \/ UNCHANGED vars
  PROVE  UpOK /\ DownOK
  <1>1. CASE SyncReturn \/ SocksWait \/ terminate \/ client_murder \/ listener_accept_func_fails
             \/ (\E seg \in Segments : TcpInput(seg) \/ TcpInputNoAck(seg)) \/ UNCHANGED vars
    <2>1. Closing /\ UNCHANGED <<upward, downward, socks_up>>
      BY <1>1 DEF SyncReturn, SocksWait, terminate, client_murder, listener_accept_func_fails,
             TcpInput, TcpInputNoAck, vars, client, Closing
    <2> QED
      BY <2>1, EndsOnly
  <1>2. CASE SocksDown
    <2>1. client_free_socks /\ UNCHANGED <<upward, downward, socks_up>>
      BY <1>2 DEF SocksDown
    <2> QED
      BY <2>1, FreeSocksCloses, EndsOnly
  <1>3. CASE client_err_func
    <2>1. client_handle_freed_client(socks) /\ UNCHANGED <<upward, downward, socks_up>>
      BY <1>3 DEF client_err_func
    <2> QED
      BY <2>1, FreedCloses, EndsOnly
  <1>4. CASE client_recv_func_closed
    <2>1. UNCHANGED <<upward, downward, socks_up>>
      BY <1>4 DEF client_recv_func_closed
    <2>2. client_handle_freed_client(socks) \/ UNCHANGED <<alive, client_closed, socks_closed>>
      BY <1>4, Zenon DEF client_recv_func_closed, client_free_client
    <2>3. Closing
      BY <2>1, <2>2, FreedCloses DEF Closing
    <2> QED
      BY <2>1, <2>3, EndsOnly
  <1> QED
    BY <1>1, <1>2, <1>3, <1>4

LEMMA RecvDoneChannels ==
  ASSUME CInv, IInv', NEW n \in 1..RECV_BUF, client_socks_recv_handler_done(n)
  PROVE  UpOK /\ DownOK
  <1>1. /\ alive /\ ~socks_closed /\ socks_up /\ serverRead' = serverRead + n
        /\ UNCHANGED <<socks_up, upward>>
    BY DEF client_socks_recv_handler_done, CInv, IInv, SocksOwned
  <1>2. CASE client_closed
    <2>1. Closing /\ UNCHANGED <<alive, client_closed, toApp>>
      BY <1>2 DEF client_socks_recv_handler_done, Closing
    <2>2. UpOK
      BY <1>1, <2>1, UpEndsOnly
    <2>3. Status(socks_closed, client_closed) = "closed" /\ Status(socks_closed, client_closed)' = "closed"
      BY <1>2, <2>1 DEF Status
    <2>4. UNCHANGED Downward!vars
      BY <1>2, <2>1, <2>3 DEF Downward!vars
    <2>5. DownCounted'
      BY <1>2, <2>1 DEF DownCounted
    <2> QED
      BY <2>2, <2>4, <2>5 DEF DownOK
  <1>3. CASE ~client_closed
    <2> DEFINE data == [i \in 1..n |-> serverRead + i]
    <2>1. client_socks_recv_send_out(data, 0, socks_recv_tcp_pending, StartRead(socks))
      BY <1>3 DEF client_socks_recv_handler_done
    <2>2. serverRead \in Nat /\ socks_recv_buf_sent \in Nat /\ n \in Nat /\ n > 0 /\ n \in 0..RECV_BUF
      BY SizesAreNat DEF CInv, IInv, TypeOK, DataOK, Sizes
    <2>3. socks_recv_buf = <<>>
      BY <1>3 DEF client_socks_recv_handler_done, Runs, CInv, IInv, RecvBufBounded
    <2>4. DownHeld = <<>>
      BY <2>2, <2>3, SubSeqEmpty DEF DownHeld
    <2>5. data \in Seq(Nat) /\ Len(data) = n
      BY <2>2, NumberedBytes
    <2>6. DownHeld \in Seq(Nat) /\ Len(DownHeld) = 0
      BY <2>4
    <2>7. serverRead = Len(toApp) + Len(DownHeld)
      BY <1>1, <1>3 DEF CInv, DownCounted
    <2> HIDE DEF data
    <2>8. SubSeq(data, 0 + 1, Len(data)) = data
      BY <2>5, SubSeqFull
    <2>9. DownHeld \o [i \in 1..n |-> Len(toApp) + Len(DownHeld) + i] = data
      <3>1. [i \in 1..n |-> Len(toApp) + Len(DownHeld) + i] = data
        BY <2>7 DEF data
      <3> QED
        BY <2>4, <2>5, <3>1, ConcatEmptySeq
    <2>10. Len(DownHeld) + n = Len(data) - 0 /\ Len(data) <= RECV_BUF /\ 0 < Len(data) /\ 0 \in Nat
      BY <2>2, <2>5, <2>6, SizesAreNat DEF Sizes
    <2>11. Follows(data, 0, n)
      BY <2>8, <2>9 DEF Follows
    <2>12. Closing /\ DownOK
      BY <1>1, <1>3, <2>1, <2>2, <2>5, <2>6, <2>10, <2>11, SendOutChannels
    <2> QED
      BY <1>1, <2>12, UpEndsOnly
  <1> QED
    BY <1>2, <1>3

LEMMA SentFuncChannels == CInv /\ IInv' /\ client_sent_func => UpOK /\ DownOK
  <1> SUFFICES ASSUME CInv, IInv', client_sent_func PROVE UpOK /\ DownOK
    OBVIOUS
  <1> DEFINE pending == StillPending(input.acked)
             resume == IF ~socks_closed THEN StartRead(socks) ELSE socks
  <1>1. pcb.sent /\ UNCHANGED <<socks_up, upward, serverRead>>
    BY DEF client_sent_func
  <1>2. alive /\ ~client_closed /\ socks_up
    BY <1>1 DEF CInv, IInv, PcbOwned, SentInstalled
  <1>3. CASE socks_recv_buf # <<>>
    <2>1. client_socks_recv_send_out(socks_recv_buf, socks_recv_buf_sent, pending, resume)
      BY <1>3 DEF client_sent_func
    <2> HIDE DEF pending, resume
    <2>2. /\ socks_recv_buf \in Seq(Nat) /\ Len(socks_recv_buf) <= RECV_BUF
          /\ socks_recv_buf_sent \in Nat /\ socks_recv_buf_sent < Len(socks_recv_buf)
          /\ serverRead \in Nat /\ toApp \in Seq(Nat)
      BY <1>1, <1>3, SizesAreNat DEF CInv, IInv, TypeOK, DataOK, RecvBufBounded, Sizes
    <2>3. DownHeld = SubSeq(socks_recv_buf, socks_recv_buf_sent + 1, Len(socks_recv_buf))
      BY <1>2 DEF DownHeld
    <2>4. DownHeld \in Seq(Nat) /\ Len(DownHeld) + 0 = Len(socks_recv_buf) - socks_recv_buf_sent
      BY <2>2, <2>3
    <2>5. DownHeld \o [i \in 1..0 |-> Len(toApp) + Len(DownHeld) + i] = DownHeld
      <3>1. [i \in 1..0 |-> Len(toApp) + Len(DownHeld) + i] = <<>>
        OBVIOUS
      <3> QED
        BY <2>4, <3>1, ConcatEmptySeq
    <2>6. 0 \in 0..RECV_BUF /\ serverRead' = serverRead + 0
      BY <1>1, <2>2, SizesAreNat DEF Sizes
    <2>7. Follows(socks_recv_buf, socks_recv_buf_sent, 0)
      BY <2>3, <2>5 DEF Follows
    <2>8. Closing /\ DownOK
      BY <1>1, <1>2, <2>1, <2>2, <2>4, <2>6, <2>7, SendOutChannels
    <2> QED
      BY <1>1, <2>8, UpEndsOnly
  <1>4. CASE socks_recv_buf = <<>>
    <2>1. UNCHANGED <<socks_recv_buf, socks_recv_buf_sent, toApp>>
      BY <1>4 DEF client_sent_func
    <2>2. client_handle_freed_client(socks) \/ UNCHANGED <<alive, client_closed, socks_closed>>
      BY <1>4, Zenon DEF client_sent_func, client_free_client
    <2>3. Closing
      BY <1>1, <2>2, FreedCloses DEF Closing
    <2>4. FlagsOK /\ FlagsOK'
      BY DEF CInv, IInv, TypeOK
    <2>5. DownOK
      BY <1>1, <2>1, <2>3, <2>4, DownEnds DEF CInv, DownOK
    <2> QED
      BY <1>1, <2>3, <2>5, UpEndsOnly
  <1> QED
    BY <1>3, <1>4

LEMMA NextChannels == CInv /\ [Next]_vars => CInv' /\ UpOK /\ DownOK
  <1> SUFFICES ASSUME CInv, [Next]_vars PROVE CInv' /\ UpOK /\ DownOK
    OBVIOUS
  <1>0. IInv'
    BY NextIInv DEF CInv
  <1>1. UpOK /\ DownOK
    <2>1. CASE \E op \in {"job", "wait"} : listener_accept_func(op)
      BY <1>0, <2>1, AcceptChannels
    <2>2. CASE SocksNext
      BY <1>0, <2>2, OtherChannels, SocksUpChannels, SendDoneChannels, RecvDoneChannels DEF SocksNext
    <2>3. CASE CallbackNext
      BY <1>0, <2>3, OtherChannels, RecvFuncChannels, SentFuncChannels DEF CallbackNext
    <2>4. CASE \/ (\E seg \in Segments : TcpInput(seg) \/ TcpInputNoAck(seg)) \/ client_err_func \/ terminate
               \/ client_murder \/ listener_accept_func_fails \/ Terminated \/ UNCHANGED vars
      BY <1>0, <2>4, OtherChannels DEF Terminated
    <2> QED
      BY <2>1, <2>2, <2>3, <2>4 DEF Next
  <1> QED
    BY <1>0, <1>1 DEF CInv, UpOK, DownOK

\* For all sizes of the buffers and whatever the order of the events: the SOCKS
\* connection is sent what the application sent, the application what the server
\* sent, in order, without gap or repetition, and nothing is lost while both ends
\* live or while a closed end still has data to pass on.
THEOREM RelayImplementsChannels == Spec => Channels
  <1>1. Init => CInv /\ Upward!Init /\ Downward!Init
    <2>1. Init => UpCounted /\ DownCounted
      BY SizesAreNat DEF Init, UpCounted, DownCounted, Sizes
    <2>2. Init => Upward!Init /\ Downward!Init
      BY DEF Init, Upward!Init, Downward!Init, Status
    <2> QED
      BY <2>1, <2>2, InitIInv DEF CInv
  <1>2. CInv /\ [Next]_vars => CInv' /\ [Upward!Next]_(Upward!vars) /\ [Downward!Next]_(Downward!vars)
    BY NextChannels DEF UpOK, DownOK
  <1> QED
    BY <1>1, <1>2, PTL DEF Spec, Channels, UpwardChannel, DownwardChannel, Upward!Spec, Downward!Spec
=============================================================================
