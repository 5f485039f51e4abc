SPECIFICATION Spec
CONSTANTS
  Id = {i1, i2}
  Login = {l1, l2}
  Email = {e1, e2}
  Code = {c1, c2, c3, c4}
  Req = {r1, r2}
  None = None
  CodeTTL = 1
  MaxTime = 0
  Crashes = TRUE
SYMMETRY MCSymmetry
INVARIANTS TypeOK UniqueIdentity MailsReachTheOwner ConfirmedOwnsMailbox PasswordChangedByMail UsedCodesAreDead
PROPERTIES WritesAreRight OnlyUsedCodesCleared
CHECK_DEADLOCK FALSE
