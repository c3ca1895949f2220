------------------------- MODULE MCTunnelInterface -------------------------
EXTENDS TunnelInterface

CONSTANTS l1, l2, r1, r2

MCTraffic == <<
  <<"tcp", 3>>, <<"udp", l1, r1>>, <<"tcp", 2>>, <<"other">>, <<"udp", l2, r1>>,
  <<"tcp", 3>>, <<"tcp", 1>> >>
MCLengths == <<3, 2, 3, 1>>
=============================================================================
