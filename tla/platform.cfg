SPECIFICATION PSpec
CONSTANTS
  User = {u1}
  Device = {d1, d2}
  Req = {r1, r2}
  None = None
  AccessTTL = 1
  RefreshTTL = 2
  MaxTime = 1
  Crashes = FALSE
  Blog = {b1}
  Post = {}
  Comment = {}
  Ban = {}
SYMMETRY MCSymmetry
INVARIANTS BanEndsSessions OldPairsRefused NoLockout
PROPERTIES Moderates BannedWriteNothing
CHECK_DEADLOCK FALSE
