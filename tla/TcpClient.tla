------------------------------ MODULE TcpClient ------------------------------
(***************************************************************************)
(* One TCP client of tun2socks: the relay between a TCP connection that    *)
(* lwIP terminates and a connection through the SOCKS proxy                *)
(* (tun2socks/tun2socks.c, listener_accept_func to client_sent_func).      *)
(*                                                                         *)
(* Everything runs on the reactor's thread.  The interleaving comes from   *)
(* the order of the events, and from SYNC_COMMIT: accept, recv and sent    *)
(* callbacks run the pending jobs before they return to lwIP, so the SOCKS *)
(* side may close the client, and free it, under the feet of the callback. *)
(* The variable frame is the callback that is suspended in SYNC_COMMIT and *)
(* input is what lwIP still has to do for the segment it is processing.    *)
(***************************************************************************)
EXTENDS LwipPcb

CONSTANTS
  RECV_BUF,   \* CLIENT_SOCKS_RECV_BUF_SIZE, in bytes
  MaxApp,     \* bound: bytes the application sends on one connection
  MaxServer,  \* bound: bytes the server sends on one connection
  MaxRepeated \* bound: bytes lwIP reports as acknowledged a second time

ASSUME BufferAssumption ==
  RECV_BUF \in Nat \ {0} /\ MaxApp \in Nat /\ MaxServer \in Nat /\ MaxRepeated \in Nat

VARIABLES
  pcb,            \* the lwIP block
  alive,          \* struct tcp_client is allocated and in the list tcp_clients
  client_closed, socks_up, socks_closed,
  buf,            \* client->buf[0 .. buf_used)
  socks_recv_buf, \* contents of socks_recv_buf; empty when socks_recv_buf_used is -1
  socks_recv_buf_sent, socks_recv_waiting, socks_recv_tcp_pending,
  socks,          \* BSocksClient: phase, and its send and receive operations
  frame,          \* callback suspended in SYNC_COMMIT
  killed,         \* DEAD_KILLED of that callback
  input,          \* callbacks lwIP still has to make for the current segment
  ret,            \* what the last callback returned to lwIP
  repeated,       \* history: bytes lwIP has reported as acknowledged a second time
  quitting,       \* BReactor_Quit: the reactor dispatches nothing more
  appRcvd,        \* history: bytes lwIP has accepted from the application
  toSocks,        \* history: bytes written to the SOCKS connection
  serverRead,     \* history: bytes read from the SOCKS connection
  toApp           \* history: bytes queued with tcp_write on a pcb that lives on

client == <<alive, client_closed, socks_up, socks_closed>>
upward == <<buf, appRcvd, toSocks>>
downward == <<socks_recv_buf, socks_recv_buf_sent, socks_recv_waiting,
              socks_recv_tcp_pending, serverRead, toApp>>
sync == <<frame, killed, input, ret>>
vars == <<pcb, client, upward, downward, socks, sync, repeated, quitting>>

NoInput == [acked |-> 0, len |-> 0, fin |-> FALSE]
NoSocks == [phase |-> "none", send |-> "none", recv |-> "none"]

\* An operation of the SOCKS connection: not started, a pending job, or a busy
\* operation that waits for the file descriptor.
OpStates == {"none", "job", "wait"}
Segments == [acked : 0..TCP_SND_BUF, len : 0..TCP_WND, fin : BOOLEAN]

\* The Boolean state.
FlagsOK ==
  /\ alive \in BOOLEAN /\ client_closed \in BOOLEAN
  /\ socks_up \in BOOLEAN /\ socks_closed \in BOOLEAN
  /\ socks_recv_waiting \in BOOLEAN
  /\ killed \in BOOLEAN /\ quitting \in BOOLEAN

\* The rest of it.
DataOK ==
  /\ pcb \in Pcb
  /\ buf \in Seq(Nat) /\ socks_recv_buf \in Seq(Nat)
  /\ socks_recv_buf_sent \in 0..RECV_BUF
  /\ socks_recv_tcp_pending \in Int
  /\ socks \in [phase : {"none", "connecting", "up"}, send : OpStates, recv : OpStates]
  /\ frame \in {"none", "accept", "recv", "sent"}
  /\ input \in Segments
  /\ ret \in {"ERR_OK", "ERR_ABRT", "ERR_MEM"}
  /\ appRcvd \in Nat /\ serverRead \in Nat /\ repeated \in Nat
  /\ toSocks \in Seq(Nat) /\ toApp \in Seq(Nat)

\* Every counter stays within the buffer it counts, but for socks_recv_tcp_pending,
\* an int that may become negative (PendingIsUnacked).
TypeOK == FlagsOK /\ DataOK

Init ==
  /\ pcb = NoPcb
  /\ alive = FALSE /\ client_closed = FALSE /\ socks_up = FALSE /\ socks_closed = FALSE
  /\ buf = <<>> /\ socks_recv_buf = <<>>
  /\ socks_recv_buf_sent = 0 /\ socks_recv_waiting = FALSE /\ socks_recv_tcp_pending = 0
  /\ socks = NoSocks
  /\ frame = "none" /\ killed = FALSE /\ input = NoInput /\ ret = "ERR_OK"
  /\ repeated = 0 /\ quitting = FALSE
  /\ appRcvd = 0 /\ toSocks = <<>> /\ serverRead = 0 /\ toApp = <<>>

-----------------------------------------------------------------------------
(***************************************************************************)
(* Scheduling.  The reactor dispatches an event only when no job is        *)
(* pending; inside SYNC_COMMIT only jobs run.  Nothing is dispatched after *)
(* BReactor_Quit, not even the jobs that SYNC_COMMIT waits for.            *)
(***************************************************************************)
HasJobs == socks.send = "job" \/ socks.recv = "job"
Quiet == frame = "none" /\ input = NoInput /\ ~HasJobs /\ ~quitting

\* The operation op of the SOCKS connection may run now.
Runs(op) == (op = "job" /\ ~quitting) \/ (op = "wait" /\ Quiet)

-----------------------------------------------------------------------------
(***************************************************************************)
(* Taking a client down.                                                   *)
(***************************************************************************)
\* DEAD_KILL(client->dead_client): seen by the callback suspended in SYNC_COMMIT.
KillDeadVar == killed' = (killed \/ frame # "none")

\* client_handle_freed_client, the pcb being gone: keep the SOCKS side (in the
\* state k) while there is data for it, otherwise free it and the client.
client_handle_freed_client(k) ==
  /\ KillDeadVar
  /\ client_closed' = TRUE
  /\ IF buf # <<>> /\ ~socks_closed
     THEN socks' = k /\ UNCHANGED <<socks_closed, alive>>
     ELSE socks' = NoSocks /\ socks_closed' = TRUE /\ alive' = FALSE

\* Faulty variant: the callbacks stay in the block that lwIP goes on using.
client_free_client_KeepCallbacks(p) ==
  /\ pcb' \in {tcp_close(p), tcp_abort(p)}
  /\ client_handle_freed_client(socks)

\* client_free_client. A tcp_close that cannot queue its FIN becomes tcp_abort.
client_free_client(p) ==
  /\ pcb' \in {tcp_close(NoCallbacks(p)), tcp_abort(NoCallbacks(p))}
  /\ client_handle_freed_client(socks)

client_abort_client(p, k) ==
  /\ pcb' = tcp_abort(NoCallbacks(p))
  /\ client_handle_freed_client(k)

\* Faulty variant: fields are read that are set only when SOCKS comes up.
DataForApp_NoUp ==
  ~client_closed /\ (socks_recv_buf # <<>> \/ socks_recv_tcp_pending > 0)

\* There is data for the application, and it can be sent.
DataForApp ==
  socks_up /\ ~client_closed /\ (socks_recv_buf # <<>> \/ socks_recv_tcp_pending > 0)

\* client_free_socks: with data still on its way to the application only the
\* receive callback is removed and the client stays; otherwise all of it goes.
client_free_socks ==
  /\ socks' = NoSocks
  /\ socks_closed' = TRUE
  /\ IF DataForApp
     THEN /\ pcb' = [pcb EXCEPT !.recv = FALSE]
          /\ UNCHANGED <<alive, client_closed, killed>>
     ELSE /\ alive' = FALSE
          /\ client_closed' = TRUE
          /\ IF client_closed
             THEN UNCHANGED <<pcb, killed>>
             ELSE /\ pcb' \in {tcp_close(NoCallbacks(pcb)), tcp_abort(NoCallbacks(pcb))}
                  /\ KillDeadVar

-----------------------------------------------------------------------------
(***************************************************************************)
(* Accepting a connection.  malloc leaves the fields that accept does not  *)
(* set with whatever the memory held.                                      *)
(***************************************************************************)
listener_accept_func(op) ==
  /\ Quiet /\ ~alive
  /\ alive' = TRUE
  /\ pcb' = NewPcb
  /\ client_closed' = FALSE /\ socks_up' = FALSE /\ socks_closed' = FALSE
  /\ buf' = <<>>
  /\ socks' = [phase |-> "connecting", send |-> "none", recv |-> op]
  /\ frame' = "accept" /\ killed' = FALSE
  /\ appRcvd' = 0 /\ toSocks' = <<>> /\ serverRead' = 0 /\ toApp' = <<>>
  /\ repeated' = 0
  /\ UNCHANGED <<socks_recv_buf, socks_recv_buf_sent, socks_recv_waiting,
                 socks_recv_tcp_pending, input, ret, quitting>>

\* There is no memory for the client, its user name or the SOCKS client: all is
\* given back, SYNC_BREAK, and lwIP aborts the pcb.
listener_accept_func_fails ==
  /\ Quiet /\ ~alive
  /\ pcb' = NoPcb /\ ret' = "ERR_MEM"
  /\ UNCHANGED <<client, upward, downward, socks, frame, killed, input, repeated, quitting>>

\* SYNC_COMMIT has no more jobs to run, or the reactor has been told to quit: the
\* callback returns to lwIP, which gives up the rest of the segment when it is
\* told that the pcb was aborted.
SyncReturn ==
  /\ frame # "none"
  /\ ~HasJobs \/ quitting
  /\ frame' = "none" /\ killed' = FALSE
  /\ IF killed
     THEN input' = NoInput /\ ret' = "ERR_ABRT"
     ELSE input' = input /\ ret' = "ERR_OK"
  /\ UNCHANGED <<pcb, client, upward, downward, socks, repeated, quitting>>

-----------------------------------------------------------------------------
(***************************************************************************)
(* Towards the application.  client_socks_recv_send_out queues what        *)
(* tcp_sndbuf allows of data[sent + 1 ..], of which tcp_write may queue    *)
(* nothing for want of memory, and gives up the connection when tcp_write  *)
(* or tcp_output fails or when nothing is in flight that would call        *)
(* client_sent_func again.  resume is the SOCKS side once all of the data  *)
(* is queued and the next read is started.                                 *)
(***************************************************************************)
Least(m, n) == IF m < n THEN m ELSE n

\* Faulty variant: waits for a sent callback although nothing is in flight.
SentWillCome_Assumed(pending) == TRUE

\* Something is in flight, so lwIP will call client_sent_func.
SentWillCome(pending) == pending # 0

\* client_socks_recv_initiate
StartRead(k) == [k EXCEPT !.recv = "job"]

client_socks_recv_send_out(data, sent, pending, resume) ==
  \E w \in {0, Least(Len(data) - sent, tcp_sndbuf(pcb))} :
    LET all == sent + w = Len(data)
        idle == [socks EXCEPT !.recv = "none"]
    IN /\ socks_recv_tcp_pending' = pending + w
       /\ \/ /\ all
             /\ pcb' = tcp_write(pcb, w)
             /\ toApp' = toApp \o SubSeq(data, sent + 1, sent + w)
             /\ socks_recv_buf' = <<>>
             /\ socks_recv_buf_sent' = sent + w /\ socks_recv_waiting' = FALSE
             /\ socks' = resume
             /\ UNCHANGED <<client, killed>>
          \/ /\ ~all /\ SentWillCome(pending + w)
             /\ pcb' = tcp_write(pcb, w)
             /\ toApp' = toApp \o SubSeq(data, sent + 1, sent + w)
             /\ socks_recv_buf' = data
             /\ socks_recv_buf_sent' = sent + w /\ socks_recv_waiting' = TRUE
             /\ socks' = idle
             /\ UNCHANGED <<client, killed>>
          \/ /\ client_abort_client(tcp_write(pcb, w), idle)
             /\ socks_recv_buf' = data
             /\ socks_recv_buf_sent' = sent + w /\ socks_recv_waiting' = FALSE
             /\ UNCHANGED toApp

-----------------------------------------------------------------------------
(***************************************************************************)
(* Events of the SOCKS connection.                                         *)
(***************************************************************************)
\* A job that finds the descriptor not ready, or the reactor's limit reached.
SocksWait ==
  /\ ~quitting
  /\ \/ socks.send = "job" /\ socks' = [socks EXCEPT !.send = "wait"]
     \/ socks.recv = "job" /\ socks' = [socks EXCEPT !.recv = "wait"]
  /\ UNCHANGED <<pcb, client, upward, downward, sync, repeated, quitting>>

\* client_send_to_socks, when there is something to send.
StartSend(rest) == IF rest # <<>> THEN "job" ELSE "none"

\* BSOCKSCLIENT_EVENT_UP: data that came in meanwhile is sent, and reading
\* starts unless the application is gone.
SocksUp ==
  /\ socks.phase = "connecting" /\ Runs(socks.recv)
  /\ socks' = [phase |-> "up",
               send  |-> StartSend(buf),
               recv  |-> IF client_closed THEN "none" ELSE "job"]
  /\ socks_up' = TRUE
  /\ socks_recv_buf' = <<>> /\ socks_recv_tcp_pending' = 0
  /\ pcb' = IF client_closed THEN pcb ELSE [pcb EXCEPT !.sent = TRUE]
  /\ UNCHANGED <<alive, client_closed, socks_closed, upward, socks_recv_buf_sent,
                 socks_recv_waiting, serverRead, toApp, sync, repeated, quitting>>

\* BSOCKSCLIENT_EVENT_ERROR and BSOCKSCLIENT_EVENT_ERROR_CLOSED: the handshake
\* failed, a read or write failed, or the server closed its side.
SocksDown ==
  /\ Runs(socks.send) \/ Runs(socks.recv)
  /\ client_free_socks
  /\ UNCHANGED <<socks_up, upward, downward, frame, input, ret, repeated, quitting>>

\* Faulty variant: the bytes sent are cut off at the wrong end.
Unsent_WrongEnd(n) == SubSeq(buf, 1, Len(buf) - n)

\* What the memmove leaves in client->buf.
Unsent(n) == SubSeq(buf, n + 1, Len(buf))

\* The connection has taken n bytes: client_socks_send_handler_done confirms
\* them to lwIP and goes on, or frees a client that only waited for this.
client_socks_send_handler_done(n) ==
  /\ socks.phase = "up" /\ Runs(socks.send)
  /\ n \in 1..Len(buf)
  /\ buf' = Unsent(n)
  /\ toSocks' = toSocks \o SubSeq(buf, 1, n)
  /\ IF n = Len(buf) /\ client_closed
     THEN client_free_socks
     ELSE /\ pcb' = IF client_closed THEN pcb ELSE tcp_recved(pcb, n)
          /\ socks' = [socks EXCEPT !.send = StartSend(Unsent(n))]
          /\ UNCHANGED <<alive, client_closed, socks_closed, killed>>
  /\ UNCHANGED <<socks_up, appRcvd, downward, frame, input, ret, repeated, quitting>>

\* The connection has delivered n bytes; they are for nobody once the
\* application is gone, and reading stops.
client_socks_recv_handler_done(n) ==
  /\ socks.phase = "up" /\ Runs(socks.recv)
  /\ n \in 1..RECV_BUF /\ serverRead + n <= MaxServer
  /\ serverRead' = serverRead + n
  /\ IF client_closed
     THEN /\ socks' = [socks EXCEPT !.recv = "none"]
          /\ UNCHANGED <<pcb, alive, client_closed, socks_closed, killed, toApp,
                         socks_recv_buf, socks_recv_buf_sent, socks_recv_waiting,
                         socks_recv_tcp_pending>>
     ELSE client_socks_recv_send_out([i \in 1..n |-> serverRead + i], 0,
                                     socks_recv_tcp_pending,
                                     StartRead(socks))
  /\ UNCHANGED <<socks_up, upward, frame, input, ret, repeated, quitting>>

-----------------------------------------------------------------------------
(***************************************************************************)
(* Events of lwIP.                                                         *)
(***************************************************************************)
\* An in-order segment that fits, for a block with no refused data.
MayArrive(seg) ==
  /\ Quiet /\ alive /\ Open(pcb) /\ ~pcb.refused
  /\ seg.len + (IF seg.fin THEN 1 ELSE 0) <= pcb.rcv_wnd
  /\ seg.len > 0 \/ seg.fin => pcb.state = "ESTABLISHED"
  /\ appRcvd + seg.len <= MaxApp

\* tcp_input has accepted a segment with ACK; the callbacks follow.
TcpInput(seg) ==
  /\ MayArrive(seg)
  /\ seg.acked <= pcb.unacked
  /\ pcb' = tcp_receive(pcb, seg.acked, seg.len, seg.fin)
  /\ input' = seg
  /\ UNCHANGED <<client, upward, downward, socks, frame, killed, ret, repeated, quitting>>

\* A segment that tcp_process leaves before the ACK is looked at: a reset out of the
\* window, a SYN, or a segment without ACK.  pcb->acked still is what the last
\* segment has set, and tcp_input reports it again.
TcpInputNoAck(seg) ==
  /\ MayArrive(seg)
  /\ seg.acked = pcb.acked /\ repeated + seg.acked <= MaxRepeated
  /\ pcb' = tcp_receive_NoAck(pcb, seg.len, seg.fin)
  /\ input' = seg /\ repeated' = repeated + seg.acked
  /\ UNCHANGED <<client, upward, downward, socks, frame, killed, ret, quitting>>

\* What lwIP does with the result of a callback that returned at once.
Returned(r, rest) ==
  /\ ret' = r
  /\ input' = IF r = "ERR_ABRT" THEN NoInput ELSE rest

\* Faulty variant: the counter is not decremented.
StillPending_Undiminished(acked) == socks_recv_tcp_pending

StillPending(acked) == socks_recv_tcp_pending - acked

\* Faulty variants: closing before everything is confirmed, and never closing.
Drained_Early(pending) == socks_closed
Drained_Never(pending) == FALSE

\* Everything has been sent after SOCKS was closed.
Drained(pending) == socks_closed /\ pending = 0

\* TCP_EVENT_SENT
client_sent_func ==
  LET pending == StillPending(input.acked)
      rest == [input EXCEPT !.acked = 0]
      initiate == ~socks_closed
  IN /\ frame = "none" /\ input.acked > 0 /\ pcb.sent
     /\ IF socks_recv_buf # <<>>
        THEN /\ client_socks_recv_send_out(socks_recv_buf, socks_recv_buf_sent, pending,
                   IF initiate THEN StartRead(socks) ELSE socks)
             /\ IF client_closed'
                THEN Returned("ERR_ABRT", rest) /\ UNCHANGED frame
                ELSE IF socks_recv_buf' = <<>> /\ initiate
                     THEN frame' = "sent" /\ input' = rest /\ UNCHANGED ret
                     ELSE Returned("ERR_OK", rest) /\ UNCHANGED frame
        ELSE /\ socks_recv_tcp_pending' = pending
             /\ UNCHANGED <<socks_recv_buf, socks_recv_buf_sent, socks_recv_waiting,
                            toApp, frame>>
             /\ IF Drained(pending)
                THEN client_free_client(pcb) /\ Returned("ERR_ABRT", rest)
                ELSE /\ Returned("ERR_OK", rest)
                     /\ UNCHANGED <<pcb, alive, client_closed, socks_closed, socks, killed>>
     /\ UNCHANGED <<socks_up, upward, serverRead, repeated, quitting>>

\* TCP_EVENT_RECV with data.  Without a callback lwIP takes the data itself.
client_recv_func ==
  LET rest == [input EXCEPT !.len = 0]
  IN /\ frame = "none" /\ input.acked = 0 /\ input.len > 0
     /\ \/ /\ ~pcb.recv
           /\ pcb' = tcp_recved(pcb, input.len)
           /\ Returned(ret, rest)
           /\ UNCHANGED <<buf, appRcvd, socks, frame>>
        \/ /\ pcb.recv
           /\ IF input.len > TCP_WND - Len(buf)
              THEN /\ pcb' = [pcb EXCEPT !.refused = TRUE]
                   /\ Returned("ERR_MEM", rest)
                   /\ UNCHANGED <<buf, appRcvd, socks, frame>>
              ELSE /\ buf' = buf \o [i \in 1..input.len |-> appRcvd + i]
                   /\ appRcvd' = appRcvd + input.len
                   /\ IF buf = <<>> /\ socks_up
                      THEN /\ socks' = [socks EXCEPT !.send = "job"]
                           /\ frame' = "recv" /\ input' = rest /\ UNCHANGED ret
                      ELSE Returned("ERR_OK", rest) /\ UNCHANGED <<socks, frame>>
                   /\ UNCHANGED pcb
     /\ UNCHANGED <<client, toSocks, downward, killed, repeated, quitting>>

\* TCP_EVENT_CLOSED: client_recv_func without data closes the client.
client_recv_func_closed ==
  /\ frame = "none" /\ input.acked = 0 /\ input.len = 0 /\ input.fin
  /\ IF pcb.recv
     THEN /\ client_free_client(ReturnFin(pcb))
          /\ Returned("ERR_ABRT", NoInput)
     ELSE /\ pcb' = ReturnFin(pcb)
          /\ Returned(ret, NoInput)
          /\ UNCHANGED <<alive, client_closed, socks_closed, socks, killed>>
  /\ UNCHANGED <<socks_up, upward, downward, frame, repeated, quitting>>

\* A reset from the application, a retransmission limit or a lack of blocks:
\* lwIP disposes of the pcb and calls the error callback.
client_err_func ==
  /\ Quiet /\ alive /\ pcb.err
  /\ pcb' = tcp_abort(NoCallbacks(pcb))
  /\ client_handle_freed_client(socks)
  /\ UNCHANGED <<socks_up, upward, downward, frame, input, ret, repeated, quitting>>

-----------------------------------------------------------------------------
\* stop_tun2socks, from another thread, or a device error: the reactor is told to
\* quit, whatever it is doing.
terminate ==
  /\ ~quitting /\ quitting' = TRUE
  /\ UNCHANGED <<pcb, client, upward, downward, socks, sync, repeated>>

\* The event loop has been left, with jobs pending or not: client_murder takes
\* down the client.
client_murder ==
  /\ quitting /\ frame = "none" /\ input = NoInput /\ alive
  /\ pcb' = IF client_closed THEN pcb ELSE tcp_abort(NoCallbacks(pcb))
  /\ socks' = NoSocks
  /\ alive' = FALSE /\ client_closed' = TRUE /\ socks_closed' = TRUE
  /\ UNCHANGED <<socks_up, upward, downward, sync, repeated, quitting>>

SocksNext ==
  \/ SocksWait \/ SocksUp \/ SocksDown
  \/ \E n \in 1..TCP_WND : client_socks_send_handler_done(n)
  \/ \E n \in 1..RECV_BUF : client_socks_recv_handler_done(n)

CallbackNext == SyncReturn \/ client_sent_func \/ client_recv_func \/ client_recv_func_closed

\* The program ends with the reactor.
Terminated ==
  /\ quitting /\ frame = "none" /\ input = NoInput /\ ~alive
  /\ UNCHANGED vars

Next ==
  \/ \E op \in {"job", "wait"} : listener_accept_func(op)
  \/ listener_accept_func_fails
  \/ SocksNext
  \/ \E seg \in Segments : TcpInput(seg) \/ TcpInputNoAck(seg)
  \/ CallbackNext
  \/ client_err_func
  \/ terminate
  \/ client_murder
  \/ Terminated

Spec == Init /\ [][Next]_vars

(***************************************************************************)
(* The reactor runs every pending job and finishes every callback, and     *)
(* what is left is taken down when its loop has been left.  That           *)
(* the handshake ends, that a busy send or read of the SOCKS connection    *)
(* ends or fails, and that the application acknowledges what it is sent is *)
(* assumed of the peers: each is retried or timed out by a kernel, so it   *)
(* happens if it stays possible again and again.                           *)
(***************************************************************************)
Fairness ==
  /\ WF_vars(CallbackNext)
  /\ WF_vars(HasJobs /\ SocksNext)
  /\ WF_vars(client_murder)
  /\ SF_vars(SocksUp)
  /\ SF_vars(\E n \in 1..TCP_WND : client_socks_send_handler_done(n))
  /\ SF_vars(\E seg \in Segments : seg.acked > 0 /\ TcpInput(seg))

FairSpec == Spec /\ Fairness

-----------------------------------------------------------------------------
(***************************************************************************)
(* Safety.                                                                 *)
(***************************************************************************)
\* lwIP never calls back into a client that is gone: a pcb holds callbacks only
\* of an allocated client whose own side is open.  Such a client never holds a pcb
\* that lwIP has closed or freed, no open pcb is left without its client, and no
\* data is taken from the application once the SOCKS side is gone, which
\* client_recv_func asserts (client_free_client, client_err_func, client_free_socks).
PcbOwned ==
  /\ pcb.recv \/ pcb.sent \/ pcb.err => alive /\ ~client_closed
  /\ Open(pcb) <=> alive /\ ~client_closed
  /\ Open(pcb) => pcb.err
  /\ pcb.recv => ~socks_closed

\* The comment "no buffer for data !?!" of client_recv_func: the window that lwIP
\* still offers, what it is about to hand over and what is buffered for the SOCKS
\* side fit in client->buf together, so no data is ever refused.
WindowFits ==
  /\ ~pcb.refused
  /\ pcb.recv => pcb.rcv_wnd + input.len + (IF input.fin THEN 1 ELSE 0) + Len(buf) = TCP_WND

\* socks_recv_tcp_pending is what lwIP has in flight or is about to report, less what
\* it has reported a second time: the reason why "all data was confirmed" can be
\* read off the counter, and how far it is wrong when it cannot (client_sent_func).
PendingIsUnacked ==
  pcb.sent => socks_recv_tcp_pending = pcb.unacked + input.acked - repeated

\* ASSERT(len <= client->socks_recv_tcp_pending) of client_sent_func, which only
\* prints: lwIP never reports more than has been queued.
ReportedIsPending ==
  pcb.sent => input.acked <= socks_recv_tcp_pending

\* A client with data that did not fit in lwIP's send buffer waits for a sent
\* callback.  That one is going to come, there being data in flight, unless the
\* counter has been wrong (client_socks_recv_send_out, client_sent_func).
WaitingIsWoken ==
  alive /\ ~client_closed /\ socks_up /\ socks_recv_buf # <<>> =>
    /\ socks_recv_waiting /\ pcb.sent
    /\ socks_recv_buf_sent < Len(socks_recv_buf)
    /\ repeated = 0 => pcb.unacked + input.acked > 0

\* Data in client->buf is always being sent and a send never runs dry: nobody
\* forgets to start a send, or starts a second one (client_recv_func,
\* client_socks_handler, client_socks_send_handler_done).
SendInProgress ==
  alive /\ socks.phase = "up" => (buf # <<>> <=> socks.send # "none")

\* A read of the SOCKS connection is in progress exactly when socks_recv_buf is
\* free (client_socks_recv_initiate), and only while the client can take the data.
ReadInProgress ==
  alive /\ ~client_closed /\ socks.phase = "up" => (socks_recv_buf = <<>> <=> socks.recv # "none")

\* No direction stands still because somebody forgot to go on: whatever the order
\* in which data, room and the SOCKS side arrive, buffered data is being sent or
\* waits for a callback that comes, and a free buffer is being read into.
NoForgottenWork == WaitingIsWoken /\ SendInProgress /\ ReadInProgress

\* A client with one side closed exists only because the other side still has
\* data to deliver; there is no client that nobody will ever free
\* (client_handle_freed_client, client_free_socks).  Only a counter that is wrong may
\* leave one that waits for an acknowledgement it has had.
NoLimbo ==
  alive =>
    /\ ~(client_closed /\ socks_closed)
    /\ client_closed => buf # <<>>
    /\ socks_closed => socks_up
    /\ socks_closed /\ repeated = 0 => socks_recv_buf # <<>> \/ pcb.unacked + input.acked > 0

\* A client whose SOCKS side is gone closes its connection in an orderly way only
\* after lwIP has reported every byte as acknowledged (client_sent_func, "have we
\* sent everything after SOCKS was closed?"): no FIN overtakes the data, as long as
\* lwIP has reported nothing twice.
DrainComplete ==
  [][alive /\ socks_closed /\ ~client_closed /\ client_closed' /\ pcb'.state = "CLOSING" =>
       socks_recv_buf = <<>> /\ (repeated = 0 => pcb.unacked = 0)]_vars

(***************************************************************************)
(* Each direction is a byte channel.  The upward one is drained when the   *)
(* application is gone and the SOCKS side is not; the downward one the     *)
(* other way round.                                                        *)
(***************************************************************************)
Status(sourceClosed, sinkClosed) ==
  IF ~alive \/ sinkClosed THEN "closed" ELSE IF sourceClosed THEN "draining" ELSE "open"

Upward == INSTANCE ByteChannel WITH
  Capacity <- TCP_WND,
  status <- Status(client_closed, socks_closed),
  queue <- IF alive /\ ~socks_closed THEN buf ELSE <<>>,
  delivered <- toSocks

Downward == INSTANCE ByteChannel WITH
  Capacity <- RECV_BUF,
  status <- Status(socks_closed, client_closed),
  queue <- IF alive /\ ~client_closed /\ socks_up
           THEN SubSeq(socks_recv_buf, socks_recv_buf_sent + 1, Len(socks_recv_buf))
           ELSE <<>>,
  delivered <- toApp

\* What reaches the SOCKS connection is what the application sent, in order and
\* without loss as long as the SOCKS connection lives (client_recv_func,
\* client_socks_send_handler_done).
UpwardChannel == Upward!Spec

\* What reaches the application is what the server sent, in order and without loss
\* as long as the application lives (client_socks_recv_handler_done,
\* client_socks_recv_send_out, client_sent_func).
DownwardChannel == Downward!Spec

\* Both directions of a connection implement the abstract byte channel.
Channels == UpwardChannel /\ DownwardChannel

\* A client that has lost one of its sides is freed in the end: the data it still
\* holds is delivered or the other side goes down too.  One that has lost its SOCKS
\* side counts on the reports of lwIP not being repeated.
HalfClosedIsFreed ==
  /\ alive /\ client_closed ~> ~alive
  /\ alive /\ socks_closed ~> ~alive \/ repeated > 0

\* lwIP's rule for callbacks (tcp_abort): ERR_ABRT is returned only when the pcb
\* has been aborted, or lwIP forgets the rest of the segment of a live pcb.
AbrtMeansAborted == [][ret' = "ERR_ABRT" /\ ret # "ERR_ABRT" => pcb'.state = "FREED"]_vars
=============================================================================
