SPECIFICATION Spec
CONSTANTS
  Thread = {t1, t2}
  Threshold = 2
  OpenSeconds = 1
  MaxTime = 1
  Modes = {"background", "blocking"}
  Faults = {"show", "generate", "chat", "stream"}
  Limit = 2
  MaxDeltas = 1
  MaxSlices = 1
INVARIANTS TypeOK NoUseBeforeReady AnswerWellFormed BreakerHearsEachOnce PaysForEachCall
INVARIANT ReportAlwaysDelivered
PROPERTY EveryRpcEnds
