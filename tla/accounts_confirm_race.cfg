SPECIFICATION Spec
CONSTANTS
  Id = {i1}
  Login = {l1}
  Email = {e1}
  Code = {c1, c2}
  Req = {r1, r2}
  None = None
  CodeTTL = 1
  MaxTime = 0
  Crashes = FALSE
SYMMETRY MCSymmetry
PROPERTIES ConfirmsPresentedCode
CHECK_DEADLOCK FALSE
