\* Every length up to 52 (four granules of packed panels and a tail), up to
\* five threads, each routine.
CONSTANTS
  MaxLength = 52
  MaxThreads = 5
SPECIFICATION Spec
INVARIANTS
  TypeOK
  ExactCover
  TasksFit
  WholePanels
  Balanced
