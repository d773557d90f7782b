CONSTANTS
  Routines <- MCAll
  Cpus <- MCCpus
  Systems <- MCSystems
  Ms = {1, 7, 13}
  Ns = {1, 7, 27}
  Pads = {0, 1}
  Strides = {1, 2}
  Threads = {1, 3}
  GEMV_T_BLOCK = 20
  GER_BLOCK_SIZE = 3
  CBLAS_GEMV_T_MT_MIN_COLS = 20
SPECIFICATION Spec
INVARIANTS
  GemvExact
  BetaOnce
  BetaZeroClears
  GerExact
