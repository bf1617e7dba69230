SPECIFICATION QueueSpec
CONSTANTS
  Keys = {k1, k2}
  Values <- MCValues
  Gone <- MCGone
  NotCached = NotCached
  NoKey = NoKey
  NotQueued = NotQueued
  FIRST_PAGE = 1
  LAST_PAGE = 3
SYMMETRY AnyKey
INVARIANT QueueTypeOK
INVARIANT DataKept
INVARIANT ClearedIsForced
PROPERTY SuccessRepairs
PROPERTY DrainedReadsBack
PROPERTY ImplementsKeyStore
CHECK_DEADLOCK FALSE
