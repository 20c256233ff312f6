SPECIFICATION CliFairSpec
CONSTANTS
  N = 2
  Count = 0
  Capacity = 1
  Interval = 0
  pass = pass
  expectFail = expectFail
  netFail = netFail
  Outcomes <- MCOutcomes
  NoOutcome = NoOutcome
  MaxSeq = 2
  Pass = pass
  ExpectFail = expectFail
  NetFail = netFail
  NoResult = NoResult
INVARIANTS AllCounted ExitAgrees OneStall
PROPERTIES CtrlCEnds
CHECK_DEADLOCK FALSE
