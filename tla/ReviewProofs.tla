---------------------------- MODULE ReviewProofs ----------------------------
(***************************************************************************)
(* What the moderation pipeline promises, for every policy, every answer   *)
(* of the LLM and every configured threshold.                              *)
(***************************************************************************)
EXTENDS ReviewPipeline, TLAPS

(* Until the rules have spoken, and until the LLM has, nothing is decided. *)
Fresh == pc \in {"idle", "rules", "llm", "limited"} => path = "rules" /\ said = "nothing" /\ ~eligible

(* The LLM is only ever asked about content that is not high risk. *)
AskedBelowHighRisk == pc = "llm" => PolicyFlags(request) \cap HighRisk = {}

FlagsKept == pc \in {"llm", "hint", "done"} => OwnFlags(request) \subseteq result.flags

(* The three promises, from the moment the result is there. *)
Rejected == PolicyFlags(request) \cap HighRisk # {} =>
              result.decision = "reject" /\ path = "rules" /\ said = "nothing"

Closed == said = "failed" => result.decision = "needs_human_review" /\ ~eligible

Authored == result.decision = "approve" => \/ path = "rules" /\ PolicyFlags(request) = {}
                                           \/ path = "llm" /\ said = "approve"

Judged == pc \in {"hint", "done"} => Rejected /\ Closed /\ Authored

IInv == TypeOK /\ Fresh /\ AskedBelowHighRisk /\ FlagsKept /\ Judged

-----------------------------------------------------------------------------

(* The two kinds of flags the rules act on are apart. *)
LEMMA NoHighRiskIsBoundary == HighRisk \cap Boundary = {}
  BY DEF HighRisk, Boundary

(* What the rules find is among the flags the model knows. *)
LEMMA OwnFlagsTyped ==
  ASSUME NEW r \in Request
  PROVE  OwnFlags(r) \subseteq AllFlags
<1>1. r.text \subseteq TextFlags /\ r.media \in Media
  BY DEF Request
<1>2. /\ r.media.rules \subseteq {"unsupported_media", "unsafe_link"}
      /\ r.media.pass \subseteq {"suspicious_media_url", "unknown_content_type"}
  BY <1>1 DEF Media
<1>3. BoundaryOf(r.type) \subseteq Boundary
  BY DEF BoundaryOf, Boundary
<1> QED BY <1>1, <1>2, <1>3 DEF OwnFlags, PolicyFlags, AllFlags

(* The verdict of the rules, by case. *)
LEMMA VerdictCases ==
  ASSUME NEW flags
  PROVE  /\ Verdict(flags).decision \in Decisions
         /\ Verdict(flags).confidence \in 0..100
         /\ Verdict(flags).risk \in Risks
         /\ Verdict(flags).decision = "approve" => flags = {}
         /\ flags \cap HighRisk # {} => Verdict(flags).decision = "reject"
<1>1. CASE flags = {}
  BY <1>1 DEF Verdict, Decisions, Risks
<1>2. CASE flags # {} /\ flags \cap HighRisk # {}
  BY <1>2 DEF Verdict, Decisions, Risks
<1>3. CASE flags # {} /\ flags \cap HighRisk = {}
  BY <1>3 DEF Verdict, Decisions, Risks
<1> QED BY <1>1, <1>2, <1>3

(* What the classifier makes of a request is a well-formed result. *)
LEMMA ClassifiedTyped ==
  ASSUME NEW r \in Request
  PROVE  Classified(r) \in Result
<1> DEFINE v == Verdict(PolicyFlags(r))
<1>1. v.decision \in Decisions /\ v.confidence \in 0..100 /\ v.risk \in Risks
  BY VerdictCases
<1>2. OwnFlags(r) \in SUBSET AllFlags
  BY OwnFlagsTyped
<1> HIDE DEF v
<1>3. [decision |-> v.decision, confidence |-> v.confidence, risk |-> v.risk,
       flags |-> OwnFlags(r)] \in Result
  BY <1>1, <1>2 DEF Result
<1> QED BY <1>3 DEF Classified, v

(* Any confidence an LLM may give is brought into range. *)
LEMMA ConfidenceBounded ==
  ASSUME NEW c \in Confidence
  PROVE  Bounded(c) \in 0..100
<1>1. CASE c.kind = "text"
  BY <1>1 DEF Bounded
<1>2. CASE c.kind = "nan"
  BY <1>2 DEF Bounded
<1>3. CASE c.kind # "text" /\ c.kind # "nan"
  <2>1. c.value \in Int
    BY <1>3, ReviewAssumption DEF Confidence
  <2>2. Bounded(c) = IF c.value < 0 THEN 0 ELSE IF c.value > 100 THEN 100 ELSE c.value
    BY <1>3 DEF Bounded
  <2> QED BY <2>1, <2>2
<1> QED BY <1>1, <1>2, <1>3

(* The LLM's answer, normalised, is a well-formed result that keeps the    *)
(* worker's flags and approves only when the LLM did.                      *)
LEMMA NormalisedTyped ==
  ASSUME NEW a \in Answer, NEW own \in SUBSET AllFlags
  PROVE  /\ Normalised(a, own) \in Result
         /\ own \subseteq Normalised(a, own).flags
         /\ Normalised(a, own).decision = "approve" => a.decision = "approve"
<1>1. a.flags \subseteq LlmFlags /\ a.confidence \in Confidence
  BY DEF Answer
<1>2. own \cup a.flags \in SUBSET AllFlags
  BY <1>1 DEF AllFlags
<1>3. Bounded(a.confidence) \in 0..100
  BY <1>1, ConfidenceBounded
<1> DEFINE d == IF a.decision \in Decisions THEN a.decision ELSE "needs_human_review"
           k == IF a.risk \in Risks THEN a.risk ELSE "medium"
<1>4. d \in Decisions /\ k \in Risks
  BY DEF Decisions, Risks
<1>5. d = "approve" => a.decision = "approve"
  OBVIOUS
<1>6. Normalised(a, own) = [decision |-> d, confidence |-> Bounded(a.confidence), risk |-> k,
                            flags |-> own \cup a.flags]
  BY DEF Normalised
<1> HIDE DEF d, k
<1> QED BY <1>2, <1>3, <1>4, <1>5, <1>6 DEF Result

(* A review that could not be made is a well-formed result. *)
LEMMA UndecidedTyped ==
  ASSUME NEW flags \in SUBSET AllFlags
  PROVE  Undecided(flags) \in Result
BY DEF Undecided, Result, Decisions, Risks

-----------------------------------------------------------------------------

(* The invariant holds before the first review. *)
LEMMA IInvInitially == Init => IInv
<1> SUFFICES ASSUME Init PROVE IInv
  OBVIOUS
<1>1. NoRequest \in Request
  BY DEF NoRequest, Request, Media
<1>2. Undecided({}) \in Result
  BY UndecidedTyped
<1>3. TypeOK
  BY <1>1, <1>2 DEF TypeOK, Init
<1> QED BY <1>3 DEF Init, IInv, Fresh, AskedBelowHighRisk, FlagsKept, Judged

(* No step of a review breaks the invariant. *)
LEMMA IInvPreserved == IInv /\ [Next]_vars => IInv'
<1> SUFFICES ASSUME IInv, [Next]_vars PROVE IInv'
  OBVIOUS
<1> USE DEF IInv
<1>1. CASE Receive
  BY <1>1 DEF Receive, TypeOK, Fresh, AskedBelowHighRisk, FlagsKept, Judged
<1>2. CASE Limited
  <2>1. Undecided({"rate_limit"}) \in Result
    BY UndecidedTyped DEF AllFlags
  <2> QED BY <1>2, <2>1 DEF Limited, TypeOK, Fresh, AskedBelowHighRisk, FlagsKept, Judged
<1>3. CASE Rules
  <2>1. /\ pc = "rules" /\ request \in Request /\ request' = request /\ settings' = settings
        /\ result' = Classified(request) /\ pc' \in {"llm", "hint"}
        /\ path' = "rules" /\ said' = "nothing" /\ eligible' = FALSE
    BY <1>3 DEF Rules, TypeOK, Fresh
  <2>2. TypeOK'
    BY <2>1, ClassifiedTyped DEF TypeOK
  <2>3. result'.flags = OwnFlags(request) /\ result'.decision = Verdict(PolicyFlags(request)).decision
    BY <2>1 DEF Classified
  <2>4. FlagsKept'
    BY <2>1, <2>3 DEF FlagsKept, OwnFlags, PolicyFlags
  <2>5. /\ result'.decision = "approve" => PolicyFlags(request) = {}
        /\ PolicyFlags(request) \cap HighRisk # {} => result'.decision = "reject"
    BY <2>3, VerdictCases
  <2>6. Judged'
    BY <2>1, <2>5 DEF Judged, Rejected, Closed, Authored, PolicyFlags
  <2>7. ASSUME pc' = "llm" PROVE PolicyFlags(request) \cap HighRisk = {}
    <3>1. result'.decision = "needs_human_review" \/ BoundaryOnly(result'.flags)
      BY <1>3, <2>7 DEF Rules, ShouldInvokeLlm
    <3>2. CASE result'.decision = "needs_human_review"
      BY <2>5, <3>2
    <3>3. CASE BoundaryOnly(result'.flags)
      BY <2>3, <3>3, NoHighRiskIsBoundary DEF BoundaryOnly, OwnFlags
    <3> QED BY <3>1, <3>2, <3>3
  <2>8. AskedBelowHighRisk'
    BY <2>1, <2>7 DEF AskedBelowHighRisk, PolicyFlags
  <2> QED BY <2>1, <2>2, <2>4, <2>6, <2>8 DEF Fresh
<1>4. CASE LlmFails
  <2>1. /\ pc = "llm" /\ request \in Request /\ request' = request /\ settings' = settings
        /\ pc' = "hint" /\ path' = "llm" /\ said' = "failed" /\ eligible' = eligible
    BY <1>4 DEF LlmFails, TypeOK
  <2>2. PICK flags \in {result.flags, result.flags \cup {"llm_parse_fail"}} :
          result' = Undecided(flags)
    BY <1>4 DEF LlmFails
  <2>3. flags \in SUBSET AllFlags
    BY <2>2 DEF TypeOK, Result, AllFlags
  <2>4. TypeOK'
    BY <2>1, <2>2, <2>3, UndecidedTyped DEF TypeOK
  <2>5. FlagsKept'
    BY <2>1, <2>2 DEF FlagsKept, Undecided, OwnFlags, PolicyFlags
  <2>6. Judged'
    BY <2>1, <2>2 DEF Judged, Rejected, Closed, Authored, Undecided, AskedBelowHighRisk, Fresh, PolicyFlags
  <2> QED BY <2>1, <2>4, <2>5, <2>6 DEF Fresh, AskedBelowHighRisk
<1>5. CASE LlmAnswers
  <2>1. /\ pc = "llm" /\ request \in Request /\ request' = request /\ settings' = settings
        /\ eligible' = eligible /\ ~eligible /\ result.flags \in SUBSET AllFlags
    BY <1>5 DEF LlmAnswers, TypeOK, Fresh, Result
  <2>2. PICK a \in Answer :
          /\ said' = a.decision
          /\ IF a.complete
             THEN pc' = "hint" /\ result' = Normalised(a, result.flags) /\ path' = "llm"
             ELSE pc' = "raised" /\ UNCHANGED <<result, path>>
    BY <1>5 DEF LlmAnswers
  <2>3. a.decision \in Decisions \cup {"other"}
    BY DEF Answer
  <2>4. CASE a.complete
    <3>1. /\ Normalised(a, result.flags) \in Result
          /\ result.flags \subseteq Normalised(a, result.flags).flags
          /\ Normalised(a, result.flags).decision = "approve" => a.decision = "approve"
      BY <2>1, NormalisedTyped
    <3>2. TypeOK'
      BY <2>1, <2>2, <2>3, <2>4, <3>1 DEF TypeOK
    <3>3. FlagsKept'
      BY <2>1, <2>2, <2>4, <3>1 DEF FlagsKept, OwnFlags, PolicyFlags
    <3>4. Judged'
      BY <2>1, <2>2, <2>3, <2>4, <3>1
         DEF Judged, Rejected, Closed, Authored, AskedBelowHighRisk, PolicyFlags, Decisions
    <3> QED BY <2>1, <2>2, <2>4, <3>2, <3>3, <3>4 DEF Fresh, AskedBelowHighRisk
  <2>5. CASE ~a.complete
    BY <2>1, <2>2, <2>3, <2>5 DEF TypeOK, Fresh, AskedBelowHighRisk, FlagsKept, Judged
  <2> QED BY <2>4, <2>5
<1>6. CASE Hint
  <2>1. eligible' \in BOOLEAN /\ (eligible' => result.decision = "approve")
    BY <1>6 DEF Hint
  <2>2. Judged'
    BY <1>6, <2>1 DEF Hint, Judged, Rejected, Closed, Authored, PolicyFlags
  <2> QED BY <1>6, <2>1, <2>2 DEF Hint, TypeOK, Fresh, AskedBelowHighRisk, FlagsKept, OwnFlags, PolicyFlags
<1>7. CASE Respond
  <2>1. NoRequest \in Request
    BY DEF NoRequest, Request, Media
  <2>2. Undecided({}) \in Result
    BY UndecidedTyped
  <2> QED BY <1>7, <2>1, <2>2 DEF Respond, TypeOK, Fresh, AskedBelowHighRisk, FlagsKept, Judged
<1>8. CASE UNCHANGED vars
  BY <1>8 DEF vars, TypeOK, Fresh, AskedBelowHighRisk, FlagsKept, Judged, Rejected, Closed,
              Authored, OwnFlags, PolicyFlags
<1> QED BY <1>1, <1>2, <1>3, <1>4, <1>5, <1>6, <1>7, <1>8 DEF Next

(* The invariant holds at all times. *)
LEMMA IInvHolds == Spec => []IInv
  BY IInvInitially, IInvPreserved, PTL DEF Spec

-----------------------------------------------------------------------------

(* Every reachable state of a review is well typed: in particular no       *)
(* answer of the LLM gets a confidence out of range or an unknown decision *)
(* past normalize_review_result.                                           *)
THEOREM ReviewTypeCorrect == Spec => []TypeOK
<1>1. IInv => TypeOK
  BY DEF IInv
<1> QED BY <1>1, IInvHolds, PTL

(* No configured threshold lets an LLM overturn, or even see, what the     *)
(* rules reject for high risk.                                             *)
THEOREM HighRiskIsFinal == Spec => []HighRiskStaysRejected
<1>1. IInv => HighRiskStaysRejected
  BY DEF IInv, Judged, Rejected, HighRiskStaysRejected
<1> QED BY <1>1, IInvHolds, PTL

(* However the LLM call fails, the review goes to a human, unhinted.       *)
THEOREM FailureGoesToHuman == Spec => []FailsClosed
<1>1. IInv => FailsClosed
  BY DEF IInv, Judged, Closed, FailsClosed
<1> QED BY <1>1, IInvHolds, PTL

(* Nothing is approved by default: the rules found nothing, or the LLM     *)
(* said "approve" in as many words.                                        *)
THEOREM NoApprovalByDefault == Spec => []ApprovalHasAuthor
<1>1. IInv => ApprovalHasAuthor
  BY DEF IInv, Judged, Authored, ApprovalHasAuthor
<1> QED BY <1>1, IInvHolds, PTL

(* The flags the worker found are in every answer the LLM had a part in.   *)
THEOREM FlagsSurvive == Spec => []NothingForgotten
<1>1. IInv => NothingForgotten
  BY DEF IInv, FlagsKept, NothingForgotten
<1> QED BY <1>1, IInvHolds, PTL

(* A hint is only given on what has been looked into.                      *)
HintedIsSeen == eligible => OwnFlags(request) \cap Boundary = {}

(* An album and a reel have a boundary flag, whatever else they have.      *)
LEMMA SeenIsBlog ==
  ASSUME NEW r \in Request, OwnFlags(r) \cap Boundary = {}
  PROVE  r.type = "Blog"
<1>1. r.type \in {"Blog", "Album", "Reel"}
  BY DEF Request
<1>2. BoundaryOf(r.type) \cap Boundary = {}
  BY DEF OwnFlags
<1>3. ASSUME r.type = "Album" PROVE FALSE
  <2>1. BoundaryOf(r.type) = {"image_analysis_boundary"}
    BY <1>3 DEF BoundaryOf
  <2> QED BY <1>2, <2>1 DEF Boundary
<1>4. ASSUME r.type = "Reel" PROVE FALSE
  <2>1. BoundaryOf(r.type) = {"video_analysis_boundary"}
    BY <1>4 DEF BoundaryOf
  <2> QED BY <1>2, <2>1 DEF Boundary
<1> QED BY <1>1, <1>3, <1>4

(* Only the last step of a review gives the hint, and it looks first.      *)
LEMMA HintedIsSeenPreserved == IInv /\ HintedIsSeen /\ [Next]_vars => HintedIsSeen'
<1> SUFFICES ASSUME IInv, HintedIsSeen, [Next]_vars PROVE HintedIsSeen'
  OBVIOUS
<1>1. Fresh
  BY DEF IInv
<1>2. CASE Hint
  <2>1. request' = request /\ (eligible' => OwnFlags(request) \cap Boundary = {})
    BY <1>2 DEF Hint
  <2> QED BY <2>1 DEF HintedIsSeen, OwnFlags, PolicyFlags
<1>3. CASE Receive \/ Limited \/ Rules \/ LlmFails \/ LlmAnswers \/ Respond
  <2>1. ~eligible'
    BY <1>1, <1>3 DEF Fresh, Receive, Limited, Rules, LlmFails, LlmAnswers, Respond
  <2> QED BY <2>1 DEF HintedIsSeen
<1>4. CASE UNCHANGED vars
  BY <1>4 DEF vars, HintedIsSeen, OwnFlags, PolicyFlags
<1> QED BY <1>2, <1>3, <1>4 DEF Next

(* Content with media nobody has looked into is never hinted eligible,     *)
(* also where the rules approve it without the LLM.                        *)
THEOREM UnseenNeverHinted == Spec => []UnseenMediaNeverEligible
<1>1. Init => HintedIsSeen
  BY DEF Init, HintedIsSeen
<1>2. Spec => []HintedIsSeen
  BY <1>1, IInvHolds, HintedIsSeenPreserved, PTL DEF Spec
<1>3. IInv /\ HintedIsSeen => UnseenMediaNeverEligible
  BY SeenIsBlog DEF IInv, TypeOK, HintedIsSeen, UnseenMediaNeverEligible
<1> QED BY <1>2, <1>3, IInvHolds, PTL

=============================================================================
