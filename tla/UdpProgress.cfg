SPECIFICATION FairSpec
CONSTANTS
  IdMod <- MCUint16
  ByteMod <- MCByte
  MaxRetries = 2
  Timeout = 1
  Names <- MCNames
  GarbageIds = {}
  EofIsReadable = TRUE
  MaxSent = 4
  MaxInbox = 3
  ServerTypes <- SilentServer
  ServerFirstId = 0
  MaxServer = 2
INVARIANT
  RetryAccounting
PROPERTIES
  SigintEnds
  EveryMessageResolved
  EofEnds
