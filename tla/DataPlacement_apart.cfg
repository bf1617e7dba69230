SPECIFICATION PlacementSpec
CONSTANTS
  Keys = {k1, k2, k3}
  MAPPING_MAX_RANGE = 2
  MAP_PRE_PADDING = 1
  MAP_POST_PADDING = 3
  STATE_PAGES = 1
  TOTAL_PAGES = 10
  PAGE_SIZE = 4
  RecordsPerPage = 2
  Sizes = {1}
  OverflowChecks = TRUE
  Relocation = FALSE
  MaxMoves = 1
  MaxLag = 4
  MaxStart = 12
INVARIANT DataApart
CHECK_DEADLOCK FALSE
