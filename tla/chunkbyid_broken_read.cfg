SPECIFICATION Spec
CONSTANTS
  Rows = {1, 2, 3, 4, 5}
  Key <- MCKey
  OrderRank <- MCKey
  OrRows = {}
  ChunkSize = 2
  BaseOffset = 0
  Calls <- MCPlainCalls
  ReadsMayBreak = TRUE
  NoRow = NoRow
INVARIANT NoSkip
