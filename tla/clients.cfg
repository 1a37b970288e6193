SPECIFICATION MCSpec
CONSTANTS
  w1 = w1
  w2 = w2
  k1 = k1
  k2 = k2
  k3 = k3
  Writers = {w1, w2}
  Reader = reader
  Clients = {w1, w2, reader}
  Names = {default, reports}
  Default = default
  Types = {user}
  Keys = {k1, k2, k3}
  Sizes = {1, 2}
  MaxRows = 4
  MaxAsks = 4
  MaxCalls = 3
  MaxChanges = 2
  MaxReads = 1
SYMMETRY MCSymmetry
INVARIANTS TypeOK OpenedOnce MadeOnceEach  ReportHolds MissBound RepeatBound 
PROPERTIES OwnKeysOnly
CHECK_DEADLOCK FALSE
