SPECIFICATION Spec
CONSTANTS
  a = a
  b = b
  x = x
  Null = Null
  EventRows <- MCEventRows
  Persisted <- MCPersisted
  LocalUsers <- MCLocalUsers
  Senders <- MCSenders
  Rooms <- MCRooms
  Addresses = {"home", "office"}
  Cutoff = 5
  Now = 9
  EVENT_TYPE_ALLOWLIST <- MCAllowlist
  ROOM_ID_EXCLUDELIST <- MCExcludelist
  MaxWrites = 3
INVARIANTS
  CandidatesAreDue
  PreflightMatchesRule
  TokensByRecency
PROPERTIES
  ImplementsState
