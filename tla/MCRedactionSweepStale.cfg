SPECIFICATION Spec
CONSTANTS
  a = a
  b = b
  x = x
  Events <- MCEvents
  Senders <- MCSenders
  Rooms <- MCRooms
  SenderOf <- MCSenderOf
  RoomOf <- MCRoomOf
  TsOf <- MCTsOf
  InitialCandidates <- MCInitialCandidates
  InitialProfile <- MCInitialProfile
  InitialRights <- MCInitialRights
  BatchSize = 2
  MaxConcurrentSenders = 2
  MaxChanges = 1
PROPERTIES
  PermittedAtRequest
