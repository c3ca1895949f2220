----------------------- MODULE MCPacketPassFairQueue -----------------------
EXTENDS PacketPassFairQueue
=============================================================================
