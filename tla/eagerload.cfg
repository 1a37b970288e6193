SPECIFICATION Spec
CONSTANTS
  a = a
  b = b
  Rows = {a, b}
  Requests <- MCRequests
  MaxDepth = 3
  MaxLinks = 2
  MaxWrites = 1
SYMMETRY MCSymmetry
INVARIANTS TypeOK OwnRows  NeverTrashed OrderlySucceeds 
CHECK_DEADLOCK FALSE
