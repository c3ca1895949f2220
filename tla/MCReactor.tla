------------------------------ MODULE MCReactor ------------------------------
EXTENDS Reactor

CONSTANTS t1, t2

MCInterval == (t1 :> 1) @@ (t2 :> 2)
=============================================================================
