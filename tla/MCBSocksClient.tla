--------------------------- MODULE MCBSocksClient ---------------------------
EXTENDS BSocksClient

Method(t, u, p) == [type |-> t, username_len |-> u, password_len |-> p]
NoAuth == Method("none", 0, 0)

MCAuthInfos == {
  <<>>, <<NoAuth>>, <<NoAuth, Method("password", 1, 2)>>,
  <<Method("password", 0, 1)>>, <<Method("password", 1, 256), NoAuth>>}
=============================================================================
