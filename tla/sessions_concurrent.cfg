SPECIFICATION Spec
CONSTANTS
  User = {u1, u2}
  Device = {d1, d2}
  Req = {r1, r2}
  None = None
  AccessTTL = 1
  RefreshTTL = 2
  MaxTime = 1
  Crashes = TRUE
SYMMETRY MCSymmetry
INVARIANTS TypeOK SessionOwnerExists TokensNameTheirOwner HoldersKnow
PROPERTIES SessionsEndByRight NeverReopened
CHECK_DEADLOCK FALSE
