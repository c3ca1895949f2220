------------------------------- MODULE LwipPcb -------------------------------
(***************************************************************************)
(* The part of an lwIP TCP protocol control block that tun2socks relies    *)
(* on: the connection state, the three callbacks the application has       *)
(* installed, the receive window, the bytes queued for sending and the     *)
(* number of them that the last ACK was for.  Every operator is one        *)
(* function of lwip/src/core/tcp.c as a map from a pcb to a pcb.  The      *)
(* states a closed connection goes through on its own (FIN_WAIT_1,         *)
(* LAST_ACK, TIME_WAIT ...) are collapsed into CLOSING: the block still    *)
(* exists, but no callback of the application is left in it.               *)
(***************************************************************************)
EXTENDS Integers, Sequences

CONSTANTS
  TCP_WND,      \* receive window, and sizeof(client->buf), in bytes
  TCP_SND_BUF   \* send buffer, in bytes

ASSUME WindowAssumption == TCP_WND \in Nat \ {0} /\ TCP_SND_BUF \in Nat \ {0}

PcbStates == {"ESTABLISHED", "CLOSE_WAIT", "CLOSING", "FREED"}

Pcb == [state : PcbStates, recv : BOOLEAN, sent : BOOLEAN, err : BOOLEAN,
        rcv_wnd : 0..TCP_WND, unacked : 0..TCP_SND_BUF, acked : 0..TCP_SND_BUF,
        refused : BOOLEAN]

\* The states in which the application may still use the block.
Open(p) == p.state \in {"ESTABLISHED", "CLOSE_WAIT"}

\* A block as the accept callback leaves it: the receive and error callbacks are set.
NewPcb == [state |-> "ESTABLISHED", recv |-> TRUE, sent |-> FALSE, err |-> TRUE,
           rcv_wnd |-> TCP_WND, unacked |-> 0, acked |-> 0, refused |-> FALSE]

NoPcb == [state |-> "FREED", recv |-> FALSE, sent |-> FALSE, err |-> FALSE,
          rcv_wnd |-> TCP_WND, unacked |-> 0, acked |-> 0, refused |-> FALSE]

\* tcp_err(pcb, NULL); tcp_recv(pcb, NULL); tcp_sent(pcb, NULL)
NoCallbacks(p) == [p EXCEPT !.recv = FALSE, !.sent = FALSE, !.err = FALSE]

\* tcp_abort: RST to the peer, the block is deallocated at once.
tcp_abort(p) == [p EXCEPT !.state = "FREED"]

(***************************************************************************)
(* tcp_close.  Data the application has not confirmed turns the close into *)
(* a reset: the block is freed in CLOSE_WAIT and parked in TIME_WAIT       *)
(* otherwise.  With everything confirmed the block lives on until the FIN  *)
(* handshake is over.                                                      *)
(***************************************************************************)
tcp_close(p) ==
  IF (p.refused \/ p.rcv_wnd # TCP_WND) /\ p.state = "CLOSE_WAIT"
  THEN [p EXCEPT !.state = "FREED"]
  ELSE [p EXCEPT !.state = "CLOSING"]

\* Faulty variant: the whole window is reopened whatever has been confirmed.
tcp_recved_Whole(p, len) == [p EXCEPT !.rcv_wnd = TCP_WND]

\* tcp_recved: reopen the window, never beyond its full size.
tcp_recved(p, len) ==
  [p EXCEPT !.rcv_wnd = IF @ + len > TCP_WND THEN TCP_WND ELSE @ + len]

\* tcp_sndbuf: the room left in the send buffer.
tcp_sndbuf(p) == TCP_SND_BUF - p.unacked

\* tcp_write with TCP_WRITE_FLAG_COPY, accepted.
tcp_write(p, len) == [p EXCEPT !.unacked = @ + len]

\* tcp_receive: the segment acknowledges, and takes window.  The number of bytes
\* acknowledged is kept in the block, where only the next segment with an ACK
\* changes it.
tcp_receive(p, acked, len, fin) ==
  [p EXCEPT !.unacked = @ - acked,
            !.acked   = acked,
            !.rcv_wnd = @ - len - (IF fin THEN 1 ELSE 0),
            !.state   = IF fin THEN "CLOSE_WAIT" ELSE @]

\* tcp_receive of a segment without ACK, which takes window only.
tcp_receive_NoAck(p, len, fin) == [tcp_receive(p, 0, len, fin) EXCEPT !.acked = p.acked]

\* The window taken by the FIN is given back before the closed callback.
ReturnFin(p) == [p EXCEPT !.rcv_wnd = IF @ # TCP_WND THEN @ + 1 ELSE @]
=============================================================================
