----------------------------- MODULE MCTcpClient -----------------------------
(* TcpClient for TLC; the sizes are given in the configurations. *)
EXTENDS TcpClient
=============================================================================
