SPECIFICATION FairSpec
CONSTANTS
  N = 2
  Count = 2
  Capacity = 1
  Interval = 2
  pass = pass
  Outcomes <- MCOutcomes
  NoOutcome = NoOutcome
  MaxSeq = 3
INVARIANTS PauseSlip
PROPERTIES NoBurst StreamSpec TasksEnd
