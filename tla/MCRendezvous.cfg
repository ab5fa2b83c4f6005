CONSTANT MaxSessions = 3
SPECIFICATION FairSpec
INVARIANTS TypeOK OnePeerPerSide NoLostWakeup
PROPERTIES EndpointsAreCurrent AcceptNoticesTeardown PeersMeet
