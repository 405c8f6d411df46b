SPECIFICATION Spec
CONSTANTS
  Thread = {t1, t2, t3}
  Threshold = 2
  OpenSeconds = 2
  MaxTime = 4
  MaxLog = 4
SYMMETRY Symmetry
INVARIANTS TypeOK WindowBounded CountBelowThreshold
PROPERTIES AdmitsOnlyWhenClosed KeepsPromise
