SPECIFICATION Spec
CONSTANTS
  KEY_COUNT = 3
  TOTAL_PAGES = 4
  PAGE_SIZE = 2
  Sizes = {1, 2}
  RecordAddresses = {1}
  OverflowChecks = TRUE
INVARIANT TypeOK
INVARIANT ReadsInsideList
INVARIANT KeysApart
INVARIANT HeldPageListed
CHECK_DEADLOCK FALSE
