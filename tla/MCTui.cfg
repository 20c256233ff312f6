SPECIFICATION TuiSpec
CONSTANTS
  N = 2
  Count = 2
  Capacity = 1
  Interval = 0
  pass = pass
  expectFail = expectFail
  netFail = netFail
  Outcomes <- MCOutcomes
  NoOutcome = NoOutcome
  MaxSeq = 2
  Pass = pass
  ExpectFail = expectFail
  NetFail = netFail
  HistoryCap = 2
INVARIANTS ViewsAgree FinishedIsFinal
CHECK_DEADLOCK FALSE
