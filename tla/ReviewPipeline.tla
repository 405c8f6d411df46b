--------------------------- MODULE ReviewPipeline ---------------------------
(***************************************************************************)
(* ReviewContent: rules over text and media, the media URL pass, and an    *)
(* optional LLM whose answer replaces the rules' (review_orchestrator.py,  *)
(* content_review_classifier.py, llm_content_review_classifier.py).  One   *)
(* request after another; requests share nothing but the settings.         *)
(*                                                                         *)
(* Flags stand for the texts that raise them.  Confidences are percents.   *)
(***************************************************************************)
EXTENDS Integers

CONSTANTS TextFlags,      \* what the text rules may find: TEXT_POLICY_TERMS, low_quality
          LlmFlags,       \* what the LLM may add
          LlmConfidences, \* numbers the LLM may give, in percent, also out of range
          Thresholds,     \* values of MODERATION_RULES_AUTO_THRESHOLD
          MinConfidences  \* values of AUTO_APPROVE_MIN_CONFIDENCE

HighRisk == {"hate", "adult", "violence", "self_harm", "unsafe_link"}
Boundary == {"image_analysis_boundary", "video_analysis_boundary"}

ASSUME ReviewAssumption ==
  /\ TextFlags \cap Boundary = {}
  /\ LlmConfidences \subseteq Int /\ Thresholds \subseteq Int /\ MinConfidences \subseteq Int

Decisions == {"approve", "reject", "needs_human_review"}
Risks == {"low", "medium", "high"}

(* A media URL: what classify_media_signals and media_url_flags say of it  *)
(* (the policy's reason, which comes with "suspicious_media_url", is left out). *)
Media == {[rules |-> {}, pass |-> {}],                                             \* none, or a public picture
          [rules |-> {}, pass |-> {"suspicious_media_url"}],                       \* a private host
          [rules |-> {"unsupported_media"}, pass |-> {}],                          \* no known extension
          [rules |-> {"unsupported_media"}, pass |-> {"unknown_content_type"}],    \* an archive
          [rules |-> {"unsupported_media"}, pass |-> {"suspicious_media_url"}],    \* both
          [rules |-> {"unsafe_link"}, pass |-> {"suspicious_media_url"}],          \* not http(s)
          [rules |-> {"unsafe_link", "unsupported_media"}, pass |-> {"suspicious_media_url"}]}

Request == [text : SUBSET TextFlags, media : Media, type : {"Blog", "Album", "Reel"}]

NoRequest == [text |-> {}, media |-> [rules |-> {}, pass |-> {}], type |-> "Blog"]

BoundaryOf(type) == CASE type = "Album" -> {"image_analysis_boundary"}
                      [] type = "Reel" -> {"video_analysis_boundary"}
                      [] OTHER -> {}

PolicyFlags(r) == r.text \cup r.media.rules
OwnFlags(r) == PolicyFlags(r) \cup r.media.pass \cup BoundaryOf(r.type)

AllFlags == TextFlags \cup LlmFlags \cup Boundary
              \cup {"suspicious_media_url", "unsupported_media", "unknown_content_type",
                    "unsafe_link", "llm_parse_fail", "rate_limit"}

(* json.loads takes NaN for a number, and float() the text "nan". *)
Confidence == [kind : {"number"}, value : LlmConfidences]
                \cup [kind : {"nan", "text"}, value : {0}]

(* An object with a decision in it; "complete" when the other keys are     *)
(* there too, with values that can be hashed, sorted and converted.        *)
Answer == [decision : Decisions \cup {"other"}, confidence : Confidence,
           risk : Risks \cup {"other"}, flags : SUBSET LlmFlags, complete : BOOLEAN]

Settings == [llm : BOOLEAN, skipBoundary : BOOLEAN, service : BOOLEAN,
             threshold : Thresholds, minConfidence : MinConfidences]

VARIABLES settings, \* the environment, and whether the worker has an AIModelService
          pc,
          request,
          result,   \* the ContentReviewResult so far
          path,     \* decision_path
          eligible, \* auto_approve_eligible
          said      \* history: "nothing", "failed" or the decision the LLM gave

vars == <<settings, pc, request, result, path, eligible, said>>

Result == [decision : Decisions, confidence : 0..100, risk : Risks, flags : SUBSET AllFlags]

(* The result of a review that could not be made. *)
Undecided(flags) == [decision |-> "needs_human_review", confidence |-> 50, risk |-> "medium",
                     flags |-> flags]

Init == /\ settings \in Settings
        /\ pc = "idle" /\ request = NoRequest /\ result = Undecided({})
        /\ path = "rules" /\ eligible = FALSE /\ said = "nothing"

-----------------------------------------------------------------------------

Receive == /\ pc = "idle"
           /\ request' \in Request
           /\ pc' = "rules"
           /\ UNCHANGED <<settings, result, path, eligible, said>>

(* The rate limiter refuses: the answer is made without a review. *)
Limited == /\ pc = "idle"
           /\ result' = Undecided({"rate_limit"})
           /\ pc' = "limited"
           /\ UNCHANGED <<settings, request, path, eligible, said>>

-----------------------------------------------------------------------------
(* The rules.                                                              *)

Verdict(policyFlags) ==
  CASE policyFlags = {} -> [decision |-> "approve", confidence |-> 86, risk |-> "low"]
    [] policyFlags \cap HighRisk # {} -> [decision |-> "reject", confidence |-> 88, risk |-> "high"]
    [] OTHER -> [decision |-> "needs_human_review", confidence |-> 72, risk |-> "medium"]

(* The media pass adds its flags to the result and has no say in the verdict. *)
Classified(r) ==
  LET verdict == Verdict(PolicyFlags(r))
  IN  [decision |-> verdict.decision, confidence |-> verdict.confidence, risk |-> verdict.risk,
       flags |-> OwnFlags(r)]

BoundaryOnly(flags) == flags # {} /\ flags \subseteq Boundary

(* Mutant: only the threshold keeps a reject from the LLM. *)
InvokeUnlessApproved(base) ==
  /\ settings.llm
  /\ ~(base.decision = "reject" /\ base.confidence >= settings.threshold)
  /\ base.decision # "approve" \/ BoundaryOnly(base.flags)

ShouldInvokeLlm(base) ==
  /\ settings.llm
  /\ ~(base.decision = "reject" /\ base.confidence >= settings.threshold)
  /\ base.decision = "needs_human_review" \/ BoundaryOnly(base.flags)

Rules ==
  /\ pc = "rules"
  /\ result' = Classified(request)
  /\ pc' = IF ShouldInvokeLlm(result') /\ settings.service
              /\ ~(settings.skipBoundary /\ BoundaryOnly(result'.flags))
           THEN "llm" ELSE "hint"
  /\ UNCHANGED <<settings, request, path, eligible, said>>

-----------------------------------------------------------------------------
(* The LLM.                                                                *)

(* Mutant: a failed call leaves the rules' result as it is. *)
RulesStandWhenLlmFails ==
  /\ pc = "llm"
  /\ said' = "failed"
  /\ pc' = "hint"
  /\ UNCHANGED <<settings, request, result, path, eligible>>

(* The call raises; or its text holds no object with a decision, which is  *)
(* also what the empty text of a swallowed error comes to.                 *)
LlmFails ==
  /\ pc = "llm"
  /\ \/ result' = Undecided(result.flags)
     \/ result' = Undecided(result.flags \cup {"llm_parse_fail"})
  /\ said' = "failed" /\ path' = "llm"
  /\ pc' = "hint"
  /\ UNCHANGED <<settings, request, eligible>>

(* Mutant: no bounds. *)
Unbounded(c) == CASE c.kind = "text" -> 50
                  [] c.kind = "nan" -> 100
                  [] OTHER -> c.value

(* float(), then max(0.0, min(1.0, x)): min(1.0, nan) is 1.0. *)
Bounded(c) == CASE c.kind = "text" -> 50
                [] c.kind = "nan" -> 100
                [] OTHER -> IF c.value < 0 THEN 0 ELSE IF c.value > 100 THEN 100 ELSE c.value

(* Mutants: an unknown decision passes for an approval; the LLM's flags    *)
(* replace the worker's.                                                   *)
UnknownApproves(a, own) ==
  [decision |-> IF a.decision \in Decisions THEN a.decision ELSE "approve",
   confidence |-> Bounded(a.confidence),
   risk |-> IF a.risk \in Risks THEN a.risk ELSE "medium",
   flags |-> own \cup a.flags]

FlagsReplaced(a, own) ==
  [decision |-> IF a.decision \in Decisions THEN a.decision ELSE "needs_human_review",
   confidence |-> Bounded(a.confidence),
   risk |-> IF a.risk \in Risks THEN a.risk ELSE "medium",
   flags |-> a.flags]

Normalised(a, own) ==
  [decision |-> IF a.decision \in Decisions THEN a.decision ELSE "needs_human_review",
   confidence |-> Bounded(a.confidence),
   risk |-> IF a.risk \in Risks THEN a.risk ELSE "medium",
   flags |-> own \cup a.flags]

LlmAnswers ==
  /\ pc = "llm"
  /\ \E a \in Answer :
       /\ said' = a.decision
       /\ IF a.complete
          THEN pc' = "hint" /\ result' = Normalised(a, result.flags) /\ path' = "llm"
          ELSE pc' = "raised" /\ UNCHANGED <<result, path>>
  /\ UNCHANGED <<settings, request, eligible>>

-----------------------------------------------------------------------------

(* Mutant: media nobody looked at counts only when nothing else was found. *)
HintBoundaryOnly ==
  /\ pc = "hint"
  /\ eligible' = /\ result.decision = "approve"
                 /\ OwnFlags(request) \cap HighRisk = {} /\ ~BoundaryOnly(OwnFlags(request))
                 /\ result.confidence >= settings.minConfidence
  /\ pc' = "done"
  /\ UNCHANGED <<settings, request, result, path, said>>

(* _auto_approve_fields: it looks at the flags found before the LLM's answer. *)
Hint ==
  /\ pc = "hint"
  /\ eligible' = /\ result.decision = "approve"
                 /\ OwnFlags(request) \cap (HighRisk \cup Boundary) = {}
                 /\ result.confidence >= settings.minConfidence
  /\ pc' = "done"
  /\ UNCHANGED <<settings, request, result, path, said>>

Respond == /\ pc \in {"done", "limited", "raised"}
           /\ pc' = "idle" /\ request' = NoRequest /\ result' = Undecided({})
           /\ path' = "rules" /\ eligible' = FALSE /\ said' = "nothing"
           /\ UNCHANGED settings

Next == Receive \/ Limited \/ Rules \/ LlmFails \/ LlmAnswers \/ Hint \/ Respond

Spec == Init /\ [][Next]_vars

-----------------------------------------------------------------------------

TypeOK == /\ settings \in Settings
          /\ pc \in {"idle", "rules", "llm", "hint", "done", "limited", "raised"}
          /\ request \in Request
          /\ result \in Result
          /\ path \in {"rules", "llm"}
          /\ eligible \in BOOLEAN
          /\ said \in Decisions \cup {"nothing", "failed", "other"}

(* What the rules reject for high risk stays rejected: whatever threshold  *)
(* the worker is configured with, no LLM is asked about it.                *)
HighRiskStaysRejected ==
  pc = "done" /\ PolicyFlags(request) \cap HighRisk # {} =>
    result.decision = "reject" /\ path = "rules" /\ said = "nothing"

(* A review whose LLM call went wrong goes to a human, and is never hinted *)
(* eligible, also when the rules alone would have approved.                *)
FailsClosed ==
  pc = "done" /\ said = "failed" => result.decision = "needs_human_review" /\ ~eligible

(* An approval is always somebody's: of rules that found nothing, or of an *)
(* LLM that said so in as many words.                                      *)
ApprovalHasAuthor ==
  pc = "done" /\ result.decision = "approve" =>
    \/ path = "rules" /\ PolicyFlags(request) = {}
    \/ path = "llm" /\ said = "approve"

(* What the worker itself found is in the answer, whatever the LLM says.   *)
NothingForgotten == pc = "done" => OwnFlags(request) \subseteq result.flags

(* An album or a reel nobody has looked into is never hinted eligible,     *)
(* also where a flag next to the boundary flag keeps the LLM from being    *)
(* asked about it and the rules approve it alone.                          *)
UnseenMediaNeverEligible == pc = "done" /\ eligible => request.type = "Blog"

(* What tests/test_capability_roadmap_edge.py:737 says of the hint: high   *)
(* risk is never eligible.                                                 *)
HighRiskNeverEligible == eligible => result.flags \cap HighRisk = {}

(* What docs/SECURITY.md:121 says of the LLM's answer: when it is not what *)
(* it should be, the review falls back to a human.                         *)
BadAnswerFallsBack == pc # "raised"

=============================================================================
