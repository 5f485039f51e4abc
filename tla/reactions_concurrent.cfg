SPECIFICATION Spec
CONSTANTS
  User = {u1}
  Post = {p1}
  Comment = {c1}
  Reaction = {x1, x2}
  Req = {r1, r2}
  None = None
  Take = 1
SYMMETRY MCSymmetry
INVARIANTS TypeOK NoOrphans DuplicatesBounded LastReactionKept
CHECK_DEADLOCK FALSE
