SPECIFICATION Spec
CONSTANTS
  STATE_PAGES = 2
  Slots = 3
  Bits = {0, 1}
  RECORD_SLOTS = 1
INVARIANT TypeOK
INVARIANT Recoverable
INVARIANT NextSlotsErased
PROPERTY NewValueWritten
PROPERTY ImplementsDurableValue
