SPECIFICATION Spec
CONSTANTS
  TcpNames <- MCNames
  Coalesces = TRUE
  Splits = FALSE
  MaxLines = 2
  MaxInbox = 3
  ServerLines <- TalkLines
  ReplyQuotes <- NoQuotes
  Resets = FALSE
  MaxServer = 2
INVARIANT
  DelimiterSeparates
