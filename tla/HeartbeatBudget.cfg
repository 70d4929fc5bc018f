CONSTANTS
  port = port runtime = runtime silent = silent canary = canary Never = Never
  Checks <- FourChecks
  Gateway = port
  SilentKill = silent
  Fixable = {port, runtime}
  Canary = {canary}
  RestartBudget = 1
  MaxRestartDeferrals = 1
  CanaryPageAfter = 3
  Realert = 1
  Hour = 2
  IncidentTtl = 2
  LastDay = 2
  MaxLines = 2
SPECIFICATION HeartbeatSpec
INVARIANT BudgetHolds
CHECK_DEADLOCK FALSE
