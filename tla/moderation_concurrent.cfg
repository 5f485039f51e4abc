SPECIFICATION Spec
CONSTANTS
  User = {u1, u2}
  Blog = {b1, b2}
  Post = {p1}
  Comment = {c1}
  Ban = {x1, x2}
  Req = {r1, r2}
  None = None
SYMMETRY MCSymmetry
INVARIANTS TypeOK NoOrphans WrittenByOwner BansAreTheOwners BanRowsBounded
PROPERTIES GoesByRight NoPostWhileBlogBanned NoCommentWhileBanned
CHECK_DEADLOCK FALSE
