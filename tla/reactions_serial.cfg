SPECIFICATION Spec
CONSTANTS
  User = {u1, u2}
  Post = {p1}
  Comment = {c1}
  Reaction = {x1, x2, x3}
  Req = {r1}
  None = None
  Take = 1
SYMMETRY MCSymmetry
INVARIANTS ViewExact
CHECK_DEADLOCK FALSE
