SPECIFICATION SignalSpec
CONSTANTS
  N = 1
  Count = 0
  Capacity = 1
  Interval = 0
  pass = pass
  expectFail = expectFail
  netFail = netFail
  Outcomes <- MCOutcomes
  NoOutcome = NoOutcome
  MaxSeq = 1
  Pass = pass
  ExpectFail = expectFail
  NetFail = netFail
  NoResult = NoResult
INVARIANT CtrlCHeard
CHECK_DEADLOCK FALSE
