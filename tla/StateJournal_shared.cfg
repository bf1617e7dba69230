SPECIFICATION Spec
CONSTANTS
  STATE_PAGES = 2
  Slots = 3
  Bits = {0, 1}
  RECORD_SLOTS = 2
PROPERTY NewValueWritten
