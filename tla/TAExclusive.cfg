SPECIFICATION Spec
CONSTANTS
  NUM_TAS = 3
  NUM_LINES = 2
  STUDENTS_PER_LINE = 3
  NUM_ROUNDS = 1
  MAX_RETRIES = 2
  MIN_BACKOFF_TIME = 1
  MAX_BACKOFF_TIME = 10
  INT_MAX = 2147483647
  FailingFiles = {}
INVARIANTS
  TypeOK
  MutualExclusion
  RoundsComplete
  MarksRecorded
PROPERTIES
  ImplementsDispenser
  AllFinish
