CONSTANTS
  Routines <- MCRoutines
  Cpus <- MCCpus
  Systems <- MCSystems
  Rounds = 2
  Threads = {1, 2, 3}
  Strides = {1, 2}
SPECIFICATION Spec
INVARIANTS
  InBounds
  EachElementOnce
  SumsEverything
  KernelRuns
