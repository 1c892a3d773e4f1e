SPECIFICATION Spec
CONSTANTS
  TcpNames <- MCNames
  Coalesces = TRUE
  Splits = TRUE
  MaxLines = 3
  MaxInbox = 4
  ServerLines <- AnyLines
  ReplyQuotes <- QuotesErr
  Resets = TRUE
  MaxServer = 3
INVARIANTS
  TypeOK
  HeardInOrder
  LostOnlyByFraming
  LockedOutByFraming
PROPERTY
  ImplementsSession
