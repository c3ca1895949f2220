---------------------------- MODULE SocksSession ----------------------------
(***************************************************************************)
(* What a SOCKS client promises its owner: after it has been opened it     *)
(* either comes up, once, or fails, once; a session that is up may fail or *)
(* be closed by the server; after a failure, or when the owner frees it,   *)
(* nothing more is reported.                                               *)
(***************************************************************************)
VARIABLES phase, event

vars == <<phase, event>>

Init == phase = "none" /\ event = "none"

Open == phase = "none" /\ phase' = "connecting" /\ event' = "none"
Up == phase = "connecting" /\ phase' = "up" /\ event' = "UP"
Fail == phase # "none" /\ phase' = "none" /\ event' = "ERROR"
Closed == phase = "up" /\ phase' = "none" /\ event' = "ERROR_CLOSED"
Freed == phase # "none" /\ phase' = "none" /\ UNCHANGED event

Next == Open \/ Up \/ Fail \/ Closed \/ Freed

Spec == Init /\ [][Next]_vars
=============================================================================
