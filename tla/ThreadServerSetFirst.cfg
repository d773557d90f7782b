\* cblas_set_num_threads after cblas_init(1) or cblas_shutdown.
CONSTANTS
  c1 = c1
  c2 = c2
  h1 = h1
  h2 = h2
  h3 = h3
  Callers = {c1}
  Handles = {h1}
  Null = Null
  Junk = Junk
  MAX_THREADS = 2
  Cores = 2
  MaxTasks = 2
  Requests = {1, 2}
  Rules <- WithoutSetAlive
  CreateFails = {}
  SpuriousWakeups = FALSE
SPECIFICATION FairSpec
PROPERTY BatchCompletes
CHECK_DEADLOCK FALSE
