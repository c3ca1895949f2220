---------------------------- MODULE MCBConnection ----------------------------
EXTENDS BConnection
=============================================================================
