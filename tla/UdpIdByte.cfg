SPECIFICATION Spec
CONSTANTS
  IdMod = 8
  ByteMod = 2
  MaxRetries = 1
  Timeout = 0
  Names <- MCNames
  GarbageIds = {}
  EofIsReadable = TRUE
  MaxSent = 6
  MaxInbox = 3
  ServerTypes <- PoliteServer
  ServerFirstId = 0
  MaxServer = 2
PROPERTY
  ConfirmDeletesWaiter
