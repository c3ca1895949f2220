SPECIFICATION FairSpec
CONSTANT AuthInfos <- MCAuthInfos
INVARIANTS IoMatchesState BufferFits UpIsEarned NothingLost
PROPERTIES SessionSpec HandshakeEnds
