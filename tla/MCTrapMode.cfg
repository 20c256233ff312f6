SPECIFICATION TrapFairSpec
CONSTANTS
  N = 2
  Count = 0
  Capacity = 1
  Interval = 0
  pass = pass
  fail = fail
  Outcomes <- MCOutcomes
  NoOutcome = NoOutcome
  MaxSeq = 2
  Pass = pass
  NoResult = NoResult
INVARIANTS SessionIsWhole
PROPERTIES TrapEnds
CHECK_DEADLOCK FALSE
