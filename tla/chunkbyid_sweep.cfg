SPECIFICATION FairSpec
CONSTANTS
  Rows = {1, 2, 3, 4, 5}
  Key <- MCKey
  OrderRank <- MCKey
  OrRows = {}
  ChunkSize = 2
  BaseOffset = 0
  Calls <- MCPlainCalls
  ReadsMayBreak = FALSE
  NoRow = NoRow
INVARIANTS TypeOK NoSkip
PROPERTIES ImplementsSweep Terminates
