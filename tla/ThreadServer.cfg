\* Two application threads that keep the rules of use, up to three threads,
\* fair scheduling.
CONSTANTS
  c1 = c1
  c2 = c2
  h1 = h1
  h2 = h2
  Callers = {c1, c2}
  Handles = {h1, h2}
  Null = Null
  Junk = Junk
  MAX_THREADS = 3
  Cores = 3
  MaxTasks = 3
  Requests = {0, 2, 5}
  Rules <- AllRules
  CreateFails = {"init"}
  SpuriousWakeups = FALSE
SPECIFICATION FairSpec
INVARIANTS
  TypeOK
  SlotsExclusive
  SlotsBacked
  WorkersMatchCount
  ReductionCoversBatch
  ShutdownJoinsAll
PROPERTIES
  BatchCompletes
  ConfigCompletes
