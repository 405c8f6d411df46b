--------------------------- MODULE ReadinessProofs ---------------------------
(***************************************************************************)
(* What the start of the server and the warm-up keep, whatever Ollama      *)
(* does: facts about ModelReadiness that StartupProofs (HealthChecks) and  *)
(* GenerateProofs (the RPCs) rest on.                                      *)
(***************************************************************************)
EXTENDS ModelReadiness, TLAPS

(* The warm-up, once it has decided, has decided; and what it decided is   *)
(* what its generation showed.                                             *)
ReadinessInv ==
  /\ ReadinessType
  /\ server # "kicked" => warmPc = "off"
  /\ warmPc = "off" => readiness = "not_started" /\ ~proven
  /\ warmPc \in {"show", "pull", "generate", "failing"} => ~Decided /\ ~proven
  /\ readiness = "ready" => proven /\ phase = "ready"
  /\ readiness = "failed" => ~proven /\ phase = "failed"
  /\ server = "kicked" /\ mode = "background" => readiness # "not_started"

(* What the threads that read the state can rely on from step to step. *)
Steady ==
  /\ Decided => readiness' = readiness /\ phase' = phase /\ (proven' <=> proven)
  /\ server = "kicked" => server' = "kicked" /\ mode' = mode

-----------------------------------------------------------------------------
(* The start of the server and the warm-up.                                *)

LEMMA AnswersTyped == ShowAnswers \subseteq BOOLEAN
  BY DEF ShowAnswers

(* What they do to the state's types. *)
LEMMA ReadinessTypePreserved ==
  ASSUME ReadinessType, Serve \/ WarmUp
  PROVE  ReadinessType'
<1> USE DEF ReadinessType
<1>1. CASE StartServer
  BY <1>1 DEF StartServer
<1>2. CASE KickOff
  BY <1>2 DEF KickOff, StartBackgroundWarmup, SetReadiness
<1>3. CASE WarmShow
  BY <1>3 DEF WarmShow, SetReadiness
<1>4. CASE WarmPull
  BY <1>4 DEF WarmPull, SetReadiness
<1>5. CASE WarmGenerate
  BY <1>5 DEF WarmGenerate, SetReadiness
<1>6. CASE WarmFail
  BY <1>6 DEF WarmFail, SetReadiness
<1> QED BY <1>1, <1>2, <1>3, <1>4, <1>5, <1>6 DEF Serve, WarmUp

(* ... and to what is known of the warm-up. *)
LEMMA ReadinessPreserved ==
  ASSUME ReadinessInv, Serve \/ WarmUp
  PROVE  ReadinessInv' /\ Steady
<1>1. ReadinessType'
  BY ReadinessTypePreserved DEF ReadinessInv
<1> USE DEF ReadinessInv, Steady, Decided
<1>2. CASE StartServer
  BY <1>1, <1>2 DEF StartServer
<1>3. CASE KickOff
  BY <1>1, <1>3 DEF KickOff, StartBackgroundWarmup, SetReadiness
<1>4. CASE WarmShow
  BY <1>1, <1>4 DEF WarmShow, SetReadiness
<1>5. CASE WarmPull
  BY <1>1, <1>5 DEF WarmPull, SetReadiness
<1>6. CASE WarmGenerate
  BY <1>1, <1>6 DEF WarmGenerate, SetReadiness
<1>7. CASE WarmFail
  BY <1>1, <1>7 DEF WarmFail, SetReadiness
<1> QED BY <1>2, <1>3, <1>4, <1>5, <1>6, <1>7 DEF Serve, WarmUp

(* A probe only writes _load_error, which decides nothing. *)
LEMMA ProbeHarmless ==
  ASSUME ReadinessInv, NEW ok \in ShowAnswers, Probe(ok),
         UNCHANGED <<mode, server, readiness, phase, warmPc, proven>>
  PROVE  ReadinessInv' /\ Steady
<1>1. loadError' \in BOOLEAN
  BY Zenon DEF Probe
<1> QED BY <1>1 DEF ReadinessInv, ReadinessType, Steady, Decided

LEMMA ReadinessUntouched ==
  ASSUME ReadinessInv, UNCHANGED readinessVars
  PROVE  ReadinessInv' /\ Steady
  BY DEF ReadinessInv, ReadinessType, Steady, Decided, readinessVars

==============================================================================
