SPECIFICATION ExpFairSpec
CONSTANTS
  N = 2
  Count = 0
  c1 = c1
  c2 = c2
  Conns <- MCConns
  MaxConnections = 1
  None = None
  MaxSeq = 1
  MaxTime = 2
  MaxScrapes = 2
INVARIANTS BodiesCoherent ShutdownDrains
PROPERTIES ScrapesAdvance ConnectionsEnd CtrlCEnds
CHECK_DEADLOCK FALSE
