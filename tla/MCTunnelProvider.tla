-------------------------- MODULE MCTunnelProvider --------------------------
EXTENDS TunnelProvider
=============================================================================
