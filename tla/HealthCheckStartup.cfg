SPECIFICATION Spec
CONSTANTS
  Checker = {c1}
  Modes = {"background"}
  Faults = {"generate"}
INVARIANT ReadyOnlyAfterGeneration
