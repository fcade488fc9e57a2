SPECIFICATION FairSpec
CONSTANTS
  TokenCount = 3
  MaxRetries = 2
INVARIANTS
  TypeOK
  SuccessMeansRedacted
  DuplicatesNeedRefusals
  FailureIsEarned
  TokensInOrder
PROPERTIES
  Termination
