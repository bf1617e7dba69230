SPECIFICATION Spec
CONSTANTS
  TOTAL_PAGES = 4
  PAGE_SIZE = 3
  MAX_COLD_COUNT = 2
INVARIANT TypeOK
INVARIANT NeverUnwraps
INVARIANT MissesOnlyOverflow
CHECK_DEADLOCK FALSE
