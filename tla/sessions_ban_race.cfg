SPECIFICATION Spec
CONSTANTS
  User = {u1}
  Device = {d1}
  Req = {r1, r2}
  None = None
  AccessTTL = 1
  RefreshTTL = 1
  MaxTime = 1
  Crashes = FALSE
INVARIANTS BannedLockedOut
CHECK_DEADLOCK FALSE
