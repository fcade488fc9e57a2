SPECIFICATION FairCooldownSpec
CONSTANTS
  a = a
  b = b
  c = c
  NoFuture = NoFuture
  Senders <- MCSenders
  Items <- MCItems
  Workloads <- MCWorkloads
  MaxConcurrentSenders = 2
  MaxRetries = 1
INVARIANTS
  StallNeedsLimits
PROPERTIES
  OthersFinish
