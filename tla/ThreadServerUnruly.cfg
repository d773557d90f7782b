\* Applications that call BLAS and configure the server at the same time,
\* before, during and after cblas_init, with cblas_set_num_threads calls that
\* overlap; thread creation may fail, and waiting workers may wake unprompted.
CONSTANTS
  c1 = c1
  c2 = c2
  h1 = h1
  h2 = h2
  Callers = {c1, c2}
  Handles = {h1, h2}
  Null = Null
  Junk = Junk
  MAX_THREADS = 2
  Cores = 2
  MaxTasks = 3
  Requests = {0, 2}
  Rules = {"config_alone"}
  CreateFails = {"init", "grow"}
  SpuriousWakeups = TRUE
SYMMETRY Symmetry
SPECIFICATION Spec
INVARIANTS
  NoDanglingItem
  NoTaskLost
PROPERTY ImplementsBatch
CHECK_DEADLOCK FALSE
