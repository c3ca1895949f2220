----------------------------- MODULE MCGateway -----------------------------
EXTENDS Gateway

CONSTANTS l1, l2, r1, r2

MCConaddrs == {<<l1, r1>>, <<l2, r1>>, <<l1, r2>>}
=============================================================================
