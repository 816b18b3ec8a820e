SPECIFICATION Spec
CONSTANTS
  Document = {1, 2}
  Interval <- DeployedInterval
  MaxRun = 60
  MinReplicas = 0
  CooldownPeriod = 24
  PollingInterval = 3
  ActivationListLength = 1
  Grace = 6
  NoDoc = 0
PROPERTY
  ScheduledRetryRuns
