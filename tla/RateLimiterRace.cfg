SPECIFICATION Spec
CONSTANTS
  Thread = {t1, t2}
  Method = {Generate}
  Limit = 1
  Window = 1
  MaxTime = 2
  MaxCalls = 3
  Configured = {FALSE}
  Outages = {FALSE}
INVARIANT BucketRespectsLimit
SYMMETRY Symmetry
