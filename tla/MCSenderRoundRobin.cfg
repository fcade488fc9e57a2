SPECIFICATION FairSpec
CONSTANTS
  a = a
  b = b
  c = c
  NoFuture = NoFuture
  Senders <- MCSenders
  Items <- MCItems
  Workloads <- MCWorkloads
  MaxConcurrentSenders = 2
INVARIANTS
  TypeOK
  Conservation
  SerialPerSender
  NoSenderStranded
  FullyUsed
  WorkLeftAtExit
PROPERTIES
  TurnOrder
  ImplementsDispatch
  Termination
