SPECIFICATION FairSpec
CONSTANTS
  l1 = l1
  l2 = l2
  r1 = r1
  r2 = r2
  Conaddrs <- MCConaddrs
  MaxConnections = 2
  BufferSize = 1
  Clients = {s1}
  MaxForClient = 1
  ClientBufferSize = 1
  NoLink = none
  LinkSize = 1
  MaxSubmits = 3
  MaxAnswers = 1
  MaxFailures = 2
INVARIANTS NumbersDistinct SocketsOwned PacketOutlivesConnection
PROPERTIES LinkComesBack BuffersDrain
