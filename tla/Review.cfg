SPECIFICATION StatelessSpec
CONSTANTS
  TextFlags = {"spam", "hate"}
  LlmFlags = {"hate", "scam"}
  LlmConfidences <- Numbers
  Thresholds = {88, 90}
  MinConfidences = {85, 95}
  ChatFlags = {"spam", "hate", "harassment", "low_quality"}
  TurnTexts = {"", "a", "b"}
  Embeddable = {"a", "b"}
  BatchMax = 2
  MaxTexts = 3
  MaxTurns = 2
INVARIANTS TypeOK HighRiskStaysRejected FailsClosed ApprovalHasAuthor NothingForgotten
INVARIANTS UnseenMediaNeverEligible PromptReadBack StatsPrecedeQuestion EmbedAnswersWhole RiskMonotone
