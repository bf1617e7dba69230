SPECIFICATION Spec
CONSTANTS
  MAPPING_MAX_RANGE = 2
  MAP_PRE_PADDING = 1
  MAP_POST_PADDING = 3
  STATE_PAGES = 1
  TOTAL_PAGES = 11
  PAGE_SIZE = 4
  RecordsPerPage = 2
  Sizes = {1, 3, 4}
  OverflowChecks = TRUE
  Relocation = TRUE
  MaxMoves = 1
  MaxLag = 4
  MaxStart = 12
INVARIANT TypeOK
INVARIANT RecordInWindow
INVARIANT PanicsOnlyAtWrap
INVARIANT NeverSpins
PROPERTY StartAdvancesWithRecords
PROPERTY SkippingEnds
PROPERTY PrepareTerminates
CHECK_DEADLOCK FALSE
