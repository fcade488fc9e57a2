SPECIFICATION FairSpec
CONSTANTS
  Runs = {r1, r2}
  NoRun = NoRun
  MaxErrors = 2
  MaxInterrupts = 2
INVARIANTS
  TypeOK
  OneRunAtATime
  WorkUnderLock
  ExitMatchesRow
  SingleErrorIsRecorded
  JournalHasTables
PROPERTIES
  JournalUnderLock
  Termination
