\* Two threads that record and reset, shutdowns, a table for two of the three
\* routines; searches over lengths 3 to 20 (probes of 4, 8, 16 and 20) from
\* defaults below, between and above the crossovers, on two cores.
CONSTANTS
  t1 = t1
  t2 = t2
  none = none
  Callers = {t1, t2}
  NoName = none
  Operations = {"sdot", "scopy", "saxpy"}
  STATS_TABLE_SIZE = 2
  COUNT_MOD = 2
  Crossovers = {5, 9, 17, 21}
  ThreadCounts = {1, 2, 3}
  Cores = 2
  AUTOTUNE_MIN_SIZE = 3
  AUTOTUNE_MAX_SIZE = 20
  BenchmarkCalls = 7
  MT_DEFAULT <- TunedDefaults
  MT_GER_DEFAULT = 4
  Tuned <- TunedRoutines
SPECIFICATION AutotuneSpec
INVARIANTS
  StatsExact
  ThresholdIsCrossover
  ThreadsRestored
