SPECIFICATION Spec
CONSTANTS
  Row = {x1, x2, x3, x4, x5}
  Key <- MCKey
  PageSize = 2
SYMMETRY MCSymmetry
PROPERTIES NothingSkipped NothingRepeated
CHECK_DEADLOCK FALSE
