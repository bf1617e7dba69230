SPECIFICATION Spec
CONSTANTS
  TOTAL_PAGES = 4
  PAGE_SIZE = 3
  MAX_COLD_COUNT = 2
PROPERTY MoveCopiesEntry
CHECK_DEADLOCK FALSE
