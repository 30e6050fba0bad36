\* Two runs over a book of two units; two threads, two keys, two calls; four
\* chapters of two or three chunks.
SPECIFICATION PartsSpec
CONSTANTS
  Parts = {"book", "pool", "chapter"}
  Engine = {g1}
  Units = 2
  Length = 2
  Setting = {plain, reflecting}
  Reflects = {reflecting}
  Concurrency = 2
  RunBound = 2
  Faults = {"source", "ratelimit", "error", "io"}
  MayDie = TRUE
  MayEdit = TRUE
  None = None
  Keys = 2
  Caller = {t1, t2}
  MaxAttempts = 2
  MaxWait = 2
  RetryAfter = {1, 3}
  CallBound = 2
  Gram = 4
  UnitMin = 2
  Distance = 6
  TextLength = 10
  RegionLength = 2
  Chapters <- MCChapters
  MaxTokens = 3
  AnswerRetries = 1
  AnswerLength = 4
INVARIANTS ReportIsTrue EngineOK ProgressIsDurable
PROPERTIES BookIsTranslated PaidWorkKept WorkEnds CallsAreRight
CHECK_DEADLOCK FALSE
