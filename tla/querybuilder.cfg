SPECIFICATION Spec
CONSTANTS
  b1 = b1
  b2 = b2
  Builders = {b1, b2}
  MaxCalls = 4
  Lapses = {}
SYMMETRY MCSymmetry
INVARIANTS TypeOK ValuesFit TotalFitsPages
CHECK_DEADLOCK FALSE
