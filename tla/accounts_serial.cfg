SPECIFICATION Spec
CONSTANTS
  Id = {i1, i2}
  Login = {l1, l2}
  Email = {e1, e2}
  Code = {c1, c2, c3, c4}
  Req = {r1}
  None = None
  CodeTTL = 1
  MaxTime = 2
  Crashes = TRUE
SYMMETRY MCSymmetry
PROPERTIES ConfirmsPresentedCode RecoveryCodeOnce
CHECK_DEADLOCK FALSE
