SPECIFICATION Spec
CONSTANTS
  Runs = {r1, r2}
  NoRun = NoRun
  MaxErrors = 0
  MaxInterrupts = 2
INVARIANTS
  WorkOnlyUnderLock
