SPECIFICATION Spec
CONSTANTS
  b1 = b1
  b2 = b2
  Builders = {b1, b2}
  MaxCalls = 3
  Lapses = {"struct"}
SYMMETRY MCSymmetry
INVARIANTS ValuesFit
CHECK_DEADLOCK FALSE
