SPECIFICATION Spec
CONSTANTS
  Bounds <- MCBounds
  MaxRows = 3
  PageSize = 1
INVARIANTS TypeOK ListsAgree
PROPERTIES Walks
CHECK_DEADLOCK FALSE
