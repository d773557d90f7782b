CONSTANTS
  Routines = {"sgemm", "dgemm"}
  Cpus <- MCCpus
  Systems <- MCSystems
  Shapes <- MCShapes
  ScarceShapes <- MCScarceShapes
  Pads = {1}
  Threads = {1, 3}
  cblas_gemm_mc = 9
  cblas_gemm_kc = 5
  cblas_gemm_nb = 18
  CBLAS_MT_GEMM = 15
  TILED_MIN = 8
  MIN_TILE = 6
SPECIFICATION Spec
INVARIANTS
  ProductExact
  NoStalePanel
  BlocksWhole
  TasksDisjoint
