SPECIFICATION Spec
CONSTANTS
  Thread = {t1}
  Method = {Generate}
  Limit = 2
  Window = 2
  MaxTime = 2
  MaxCalls = 5
  Configured = {TRUE}
  Outages = {TRUE}
INVARIANT OutageFallsBack
