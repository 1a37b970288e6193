SPECIFICATION Spec
CONSTANTS
  Rows = {1, 2, 3, 4, 5}
  Key <- MCKey
  OrderRank <- MCKey
  OrRows = {1}
  ChunkSize = 2
  BaseOffset = 0
  Calls <- MCOddCalls
  ReadsMayBreak = FALSE
  NoRow = NoRow
INVARIANTS NoRepeat NoSkip
PROPERTIES CursorAdvances RunsDown
