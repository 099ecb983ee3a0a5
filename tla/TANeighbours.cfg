SPECIFICATION Spec
CONSTANTS
  NUM_TAS = 4
  NUM_LINES = 1
  STUDENTS_PER_LINE = 4
  NUM_ROUNDS = 1
  MAX_RETRIES = 1
  MIN_BACKOFF_TIME = 1
  MAX_BACKOFF_TIME = 10
  INT_MAX = 2147483647
  FailingFiles = {0}
INVARIANTS
  SemaphoreBalance
  NeighbourExclusion
  CleanupAfterAll
