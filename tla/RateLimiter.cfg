SPECIFICATION Spec
CONSTANTS
  Thread = {t1, t2}
  Method = {Generate, ReviewContent}
  Limit = 2
  Window = 1
  MaxTime = 2
  MaxCalls = 4
  Configured = {TRUE, FALSE}
  Outages = {TRUE}
INVARIANTS TypeOK BucketLengthBounded ExactUnlessOverlapped ImmortalOnlyByError
PROPERTY KeepsBudget
SYMMETRY Symmetry
