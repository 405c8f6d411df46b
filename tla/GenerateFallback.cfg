SPECIFICATION Spec
CONSTANTS
  Thread = {t1, t2}
  Threshold = 2
  OpenSeconds = 1
  MaxTime = 1
  Modes = {"off"}
  Faults = {"stream"}
  Limit = 8
  MaxDeltas = 1
  MaxSlices = 1
INVARIANT FallbackNeverHardFails
SYMMETRY Symmetry
