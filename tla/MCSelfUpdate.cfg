SPECIFICATION UpdateSpec
CONSTANTS
  Latest = 3
  MaxRuns = 3
INVARIANTS TargetRunnable
PROPERTIES ExitTellsTruth NoDowngrade
CHECK_DEADLOCK FALSE
