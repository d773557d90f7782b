\* Three threads for two caller slots, so that a call finds none free.
CONSTANTS
  t1 = t1
  t2 = t2
  t3 = t3
  Threads = {t1, t2, t3}
  MAX_THREADS = 3
  CallerSlots = 2
  Blocks <- TwoBlocks
  MR = 2
  Shapes <- OneShape
  AllocFails = {1, 3, 4}
  Rules <- AllRules
SYMMETRY Symmetry
SPECIFICATION Spec
INVARIANTS
  TypeOK
  SlotsHeldOnce
  BusyIffHeld
  PanelsFit
PROPERTY CleanupFreesAll
