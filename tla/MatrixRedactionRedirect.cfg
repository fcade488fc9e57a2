SPECIFICATION Spec
CONSTANTS
  TokenCount = 1
  MaxRetries = 1
INVARIANTS
  SuccessIsARedaction
