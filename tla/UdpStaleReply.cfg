SPECIFICATION Spec
CONSTANTS
  IdMod <- MCUint16
  ByteMod <- MCByte
  MaxRetries = 1
  Timeout = 0
  Names <- MCNames
  GarbageIds = {}
  EofIsReadable = TRUE
  MaxSent = 5
  MaxInbox = 4
  ServerTypes <- SilentServer
  ServerFirstId = 0
  MaxServer = 2
INVARIANT
  ForwardedOnce
