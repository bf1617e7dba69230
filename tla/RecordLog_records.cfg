SPECIFICATION Spec
CONSTANTS
  Keys = {k1, k2}
  KeyZero = k1
  MAPPING_MAX_RANGE = 2
  STATE_PAGES = 1
  SLOTS = 2
  LAST_PAGE = 4
  MAX_OPENED = 2
  MAX_MOVED = 1
INVARIANT TypeOK
INVARIANT CursorErased
INVARIANT NewestIsLast
INVARIANT OpenedBounded
INVARIANT RecursionBounded
PROPERTY SuccessLeavesNoneBehind
PROPERTY WindowHoldsRecords
PROPERTY OnlyPlacingLosesRecords
PROPERTY MovesEnd
CHECK_DEADLOCK FALSE
