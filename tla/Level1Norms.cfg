CONSTANTS
  Routines <- MCNorms
  Cpus <- MCCpus
  Systems <- MCSystems
  Rounds = 1
  Threads = {1, 2}
  Strides = {1}
SPECIFICATION Spec
INVARIANT NormIsRootOfSum
