SPECIFICATION FairSpec
CONSTANTS
  TcpNames <- MCNames
  Coalesces = FALSE
  Splits = FALSE
  MaxLines = 2
  MaxInbox = 3
  ServerLines <- AnyLines
  ReplyQuotes <- NoQuotes
  Resets = TRUE
  MaxServer = 2
INVARIANT
  EveryLineHeard
PROPERTIES
  AnswerUnlocks
  SigintEnds
