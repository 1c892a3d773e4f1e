SPECIFICATION Spec
CONSTANTS
  IdMod <- MCUint16
  ByteMod <- MCByte
  MaxRetries = 1
  Timeout = 0
  Names <- MCNames
  GarbageIds = {}
  EofIsReadable = TRUE
  MaxSent = 5
  MaxInbox = 3
  ServerTypes <- AnyServer
  ServerFirstId = 0
  MaxServer = 2
PROPERTY
  ImplementsSession
INVARIANTS
  TypeOK
  ConfirmedWasReceived
  OneUserMessageOutstanding
  RequestsAnsweredFirst
  OpenMeansGranted
  DataGoesToSession
  NoMessageShownTwice
  ExitCodeHonest
  LockHasKey
  NothingAfterBye
  LeavesProperly
