SPECIFICATION Spec
CONSTANTS
  TextFlags = {"spam", "hate"}
  LlmFlags = {"hate", "scam"}
  LlmConfidences <- Numbers
  Thresholds = {88, 90}
  MinConfidences = {85, 95}
INVARIANT BadAnswerFallsBack
