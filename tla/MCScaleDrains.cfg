SPECIFICATION Spec
CONSTANTS
  Document = {1, 2, 3, 4}
  Interval <- ShortInterval
  MaxRun = 4
  MinReplicas = 0
  CooldownPeriod = 2
  PollingInterval = 1
  ActivationListLength = 1
  Grace = 1
  NoDoc = 0
PROPERTY
  ImplementsJobLife
  BacklogIsDrained
