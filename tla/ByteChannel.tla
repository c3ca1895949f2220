----------------------------- MODULE ByteChannel -----------------------------
(***************************************************************************)
(* What one direction of a relayed connection promises.  The bytes of a    *)
(* connection are numbered 1, 2, 3 ...  While the channel is open the      *)
(* source adds bytes to a bounded queue; the sink receives them in order,  *)
(* without gaps or repetition.  A source that is gone leaves the channel   *)
(* draining: what is queued may still be delivered, nothing is added.  A   *)
(* channel may be cut at any time, and then delivers nothing more.         *)
(***************************************************************************)
EXTENDS Integers, Sequences

CONSTANT Capacity

VARIABLES status, queue, delivered

vars == <<status, queue, delivered>>

Init == status = "closed" /\ queue = <<>> /\ delivered = <<>>

\* A new connection: nothing queued, nothing delivered.
Start ==
  /\ status = "closed" /\ status' = "open"
  /\ queue' = <<>> /\ delivered' = <<>>

\* What the channel holds once the next n bytes of the stream have been added.
Extended(n) == queue \o [i \in 1..n |-> Len(delivered) + Len(queue) + i]

\* The source adds n bytes and m of what is then queued go on to the sink.
Move(n, m) ==
  /\ status = "open" \/ (status = "draining" /\ n = 0)
  /\ Len(queue) + n <= Capacity
  /\ m <= Len(queue) + n
  /\ delivered' = delivered \o SubSeq(Extended(n), 1, m)
  /\ queue' = SubSeq(Extended(n), m + 1, Len(queue) + n)
  /\ UNCHANGED status

\* A channel that was only draining is closed with its last byte.
Finish ==
  /\ status = "draining" /\ status' = "closed"
  /\ delivered' = delivered \o queue /\ queue' = <<>>

SourceGone ==
  /\ status = "open" /\ status' = "draining"
  /\ UNCHANGED <<queue, delivered>>

Cut ==
  /\ status # "closed" /\ status' = "closed"
  /\ queue' = <<>> /\ UNCHANGED delivered

Next ==
  \/ Start \/ SourceGone \/ Finish \/ Cut
  \/ \E n, m \in 0..Capacity : Move(n, m)

Spec == Init /\ [][Next]_vars
=============================================================================
