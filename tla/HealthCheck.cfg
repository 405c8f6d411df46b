SPECIFICATION StartupSpec
CONSTANTS
  Checker = {c1}
  Modes = {"background", "blocking", "off"}
  Faults = {"show", "absent", "generate"}
  MaxRestarts = 1
INVARIANTS StartupTypeOK ReadyPayloadCoherent UnavailablePayloadCoherent
INVARIANTS HardenedNeverExposed EntrypointPullSuffices
PROPERTIES WarmupDecides EveryCheckAnswered StartupEnds
