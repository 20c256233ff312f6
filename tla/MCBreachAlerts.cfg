SPECIFICATION AlertSpec
CONSTANTS
  BreachAfter = 2
  Cooldown = 2
  OnRecover = TRUE
  MaxResults = 5
INVARIANTS AlertsEarned
PROPERTIES CooldownKept LongOutageAlerts AlertsAccounted
CHECK_DEADLOCK FALSE
