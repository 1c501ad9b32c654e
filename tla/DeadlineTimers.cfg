SPECIFICATION TimerFairSpec
CONSTANTS
  CommandWorkers = 1
  Commands = {"renew", "submit", "release", "finish_close"}
  TTLs = {1, 2}
  Budgets = {2, 3}
  MaxDeadlineRetries = 2
  RetryDelay = 1
  RetryCap = 2
  MaxLag = 1
  MaxDeadline = 3
  MaxFailures = 3
  MaxCrashes = 1
INVARIANTS DeadlineIsCovered
PROPERTIES RenewalBeatsOldTimer DeadlineIsEnforced
CHECK_DEADLOCK FALSE
