----------------------------- MODULE TunnelPipe -----------------------------
(***************************************************************************)
(* The way of a TCP packet from the app extension to lwIP: handleTcpPacket *)
(* of TunnelInterface.m writes a length of two bytes and the packet into a *)
(* pipe, the reactor's thread reads them back in fd_handler of BTap.m, and *)
(* SinglePacketBuffer hands the packet to tun2socks.c.  The writer blocks; *)
(* the reader does not (O_NONBLOCK), and the two run in different threads. *)
(***************************************************************************)
EXTENDS Naturals, Sequences, SequencesExt

CONSTANTS
  Lengths,    \* the lengths of the packets the system hands over, in order
  Capacity,   \* bytes the pipe holds
  PipeBuf,    \* largest write the kernel does not split (PIPE_BUF)
  MTU         \* TunnelMTU, the size of the buffer fd_handler reads into

ASSUME TunnelPipeAssumption ==
  /\ Lengths \in Seq(1..MTU) /\ MTU \in Nat
  /\ Capacity \in Nat /\ PipeBuf \in 1..Capacity

VARIABLES
  packet,      \* the packet being written or to be written next
  written,     \* bytes of it that are in the pipe or have been read
  pipe,        \* the bytes in the pipe: <<packet, position in its frame>>
  reader,      \* of fd_handler: waiting, between its two reads, or with a packet
  data_len,    \* the length read, of which MTU + 1 stands for any that is too large
  received,    \* the packets given to lwIP, each as the bytes it consists of
  quitting,    \* device_error_handler has been called
  split        \* history: the kernel has split a write for want of space

pipeVars == <<packet, written, pipe, reader, data_len, received, quitting, split>>

Header == 2
Frame(p) == [i \in 1..(Header + Lengths[p]) |-> <<p, i>>]
Body(p) == SubSeq(Frame(p), Header + 1, Header + Lengths[p])

PipeInit ==
  /\ packet = 1 /\ written = 0 /\ pipe = <<>>
  /\ reader = "waiting" /\ data_len = 0 /\ received = <<>>
  /\ quitting = FALSE /\ split = FALSE

-----------------------------------------------------------------------------
\* The next n bytes of the frame go into the pipe.
Put(n) ==
  LET frame == Frame(packet) IN
  /\ pipe' = pipe \o SubSeq(frame, written + 1, written + n)
  /\ IF written + n = Len(frame)
       THEN packet' = packet + 1 /\ written' = 0
       ELSE packet' = packet /\ written' = written + n

\* handleTcpPacket: write() blocks until all is written, and puts in what fits; a
\* frame of at most PIPE_BUF bytes goes in at once.
handleTcpPacket ==
  /\ packet <= Len(Lengths) /\ Len(pipe) < Capacity
  /\ LET rest == Len(Frame(packet)) - written
         room == Capacity - Len(pipe) IN
     \/ rest <= room /\ Put(rest) /\ UNCHANGED split
     \/ rest > room /\ Len(Frame(packet)) > PipeBuf /\ Put(room) /\ split' = TRUE
  /\ UNCHANGED <<reader, data_len, received, quitting>>

\* What the two bytes mean: the length of their packet, if they are its header; if
\* the reader has lost its place, whatever the bytes of a packet may say.
Decoded(bytes) ==
  IF bytes[1][2] = 1 /\ bytes[2] = <<bytes[1][1], 2>>
    THEN {Lengths[bytes[1][1]]} ELSE 0..(MTU + 1)

Take(n) == pipe' = SubSeq(pipe, n + 1, Len(pipe))

\* The first read asks for two bytes.
HeaderRead == Header

\* fd_handler, the first read.  A single byte is thrown away.
ReadHeader ==
  /\ reader = "waiting" /\ ~quitting /\ pipe # <<>>
  /\ \/ Len(pipe) < Header /\ Take(Len(pipe)) /\ UNCHANGED <<reader, data_len>>
     \/ /\ Len(pipe) >= Header /\ Take(HeaderRead)
        /\ data_len' \in Decoded(pipe) /\ reader' = "body"
  /\ UNCHANGED <<packet, written, received, quitting, split>>

\* Faulty variant: the read is expected to fill the buffer.
ShortRead_Full(n) == n # MTU

ShortRead(n) == n # data_len

\* SinglePacketBuffer sends the packet on, and fd_handler is not called until ...
input_handler_done == reader' = "packet"

\* Faulty variant: BTap does not poll for input again.
output_handler_recv_Unpolled == reader' = "packet"

\* ... it asks for the next one, which makes BTap poll for input again.
output_handler_recv == reader' = "waiting"

\* fd_handler, the second read.  A short one, or none, is a fatal error, which ends
\* in terminate(); an empty packet is ignored.
ReadBody ==
  LET n == IF data_len <= Len(pipe) THEN data_len ELSE Len(pipe) IN
  /\ reader = "body" /\ Take(n)
  /\ \/ ShortRead(n) /\ quitting' = TRUE /\ reader' = "waiting" /\ UNCHANGED received
     \/ ~ShortRead(n) /\ n = 0 /\ reader' = "waiting" /\ UNCHANGED <<received, quitting>>
     \/ /\ ~ShortRead(n) /\ n > 0 /\ input_handler_done
        /\ received' = Append(received, SubSeq(pipe, 1, n))
        /\ UNCHANGED quitting
  /\ UNCHANGED <<packet, written, data_len, split>>

\* device_read_handler_send takes the packet.
device_read_handler_send ==
  /\ reader = "packet" /\ output_handler_recv
  /\ UNCHANGED <<packet, written, pipe, data_len, received, quitting, split>>

\* Both threads run; fd_handler is called as long as the pipe can be read.
ReaderFairness ==
  WF_pipeVars(ReadHeader) /\ WF_pipeVars(ReadBody) /\ WF_pipeVars(device_read_handler_send)

-----------------------------------------------------------------------------
\* While the kernel has split no write, lwIP has been given whole packets in the
\* order they were handed over, none left out, the length never exceeds the buffer,
\* and the device does not fail: the reader may find several frames, or none, and
\* never a part of one.
FramesIntact ==
  ~split =>
    /\ \A i \in DOMAIN received : i < packet /\ received[i] = Body(i)
    /\ data_len <= MTU /\ ~quitting

\* BTap.h: the handler is "called when an error occurs on the device".  The pipe
\* never fails here, so it must not be called.
ErrorIsReal == ~quitting
=============================================================================
