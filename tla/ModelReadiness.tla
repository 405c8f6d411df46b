--------------------------- MODULE ModelReadiness ---------------------------
(***************************************************************************)
(* AIModelService's readiness (services/ai_model_service.py) and the       *)
(* start-up of server.py that drives it: the port opens first, then the    *)
(* model is warmed up, by a daemon thread, by the main thread itself, or   *)
(* not at all.  RPC threads run from the moment the port is open; their    *)
(* steps are in HealthCheck and GenerateRpc.                               *)
(*                                                                         *)
(* _readiness and _readiness_phase are written under a lock, _load_error   *)
(* is not, and every /api/show probe of every thread writes it.            *)
(***************************************************************************)
EXTENDS Naturals

CONSTANTS Modes,     \* how the model may be preloaded
          Faults     \* which Ollama calls may go wrong

ASSUME ReadinessAssumption ==
  /\ Modes \subseteq {"background", "blocking", "off"}
  /\ Faults \subseteq {"show", "absent", "generate", "chat", "stream"}

VARIABLES mode,       \* MFAI_PRELOAD_MODEL / MFAI_PRELOAD_BLOCKING of this run
          server,     \* serve(): "starting", "serving" (port open), "kicked" (warm-up kicked off)
          readiness,  \* _readiness
          phase,      \* _readiness_phase
          loadError,  \* _load_error is not None
          warmPc,     \* where warm_up stands: "off", "show", "pull", "generate", "failing", "over"
          proven      \* history: the warm-up's generation has succeeded

readinessVars == <<mode, server, readiness, phase, loadError, warmPc, proven>>

Decided == readiness \in {"ready", "failed"}

ReadinessType ==
  /\ mode \in Modes
  /\ server \in {"starting", "serving", "kicked"}
  /\ readiness \in {"not_started", "loading", "ready", "failed"}
  /\ phase \in {"", "pulling", "warming", "ready", "failed"}
  /\ loadError \in BOOLEAN
  /\ warmPc \in {"off", "show", "pull", "generate", "failing", "over"}
  /\ proven \in BOOLEAN

ReadinessInit ==
  /\ mode \in Modes
  /\ server = "starting"
  /\ readiness = "not_started" /\ phase = ""
  /\ loadError = FALSE
  /\ warmPc = "off"
  /\ proven = FALSE

Answers(call) == IF call \in Faults THEN BOOLEAN ELSE {TRUE}

(* /api/show answers 200 only when Ollama is up and has the model. *)
ShowAnswers == IF Faults \cap {"show", "absent"} # {} THEN BOOLEAN ELSE {TRUE}

(* _ollama_model_available: the probe's result goes into _load_error. *)
Probe(ok) == loadError' = ~ok

SetReadiness(r, p) == readiness' = r /\ phase' = p

-----------------------------------------------------------------------------
(* serve(): server.start(), and then _kick_off_model_warmup().             *)

StartServer == /\ server = "starting"
               /\ server' = "serving"
               /\ UNCHANGED <<mode, readiness, phase, loadError, warmPc, proven>>

(* The thread is started, and the state with it says so. *)
StartBackgroundWarmup == SetReadiness("loading", "warming") /\ warmPc' = "show"

(* Mutant: the state's label is stored as the phase's. *)
StateAsPhase ==
  /\ server = "serving"
  /\ server' = "kicked"
  /\ SetReadiness("loading", "loading")
  /\ warmPc' = "show"
  /\ UNCHANGED <<mode, loadError, proven>>

KickOff ==
  /\ server = "serving"
  /\ server' = "kicked"
  /\ \/ mode = "off" /\ UNCHANGED <<readiness, phase, warmPc>>
     \/ mode = "blocking" /\ warmPc' = "show" /\ UNCHANGED <<readiness, phase>>
     \/ mode = "background" /\ StartBackgroundWarmup
  /\ UNCHANGED <<mode, loadError, proven>>

-----------------------------------------------------------------------------
(* warm_up.                                                                *)

(* model_present returns what a status of 200 says, and takes any other,   *)
(* an error of Ollama's own included, for an absent model; it raises when  *)
(* Ollama cannot be reached or is late.                                    *)
WarmShow ==
  /\ warmPc = "show"
  /\ \/ SetReadiness("loading", "warming") /\ warmPc' = "generate" /\ UNCHANGED loadError
     \/ /\ Faults \cap {"absent", "show"} # {}
        /\ SetReadiness("loading", "pulling") /\ warmPc' = "pull" /\ UNCHANGED loadError
     \/ /\ "show" \in Faults
        /\ loadError' = TRUE /\ warmPc' = "failing" /\ UNCHANGED <<readiness, phase>>
  /\ UNCHANGED <<mode, server, proven>>

(* ensure_model_pulled never raises, and warm_up ignores what it returns. *)
WarmPull ==
  /\ warmPc = "pull"
  /\ SetReadiness("loading", "warming")
  /\ warmPc' = "generate"
  /\ UNCHANGED <<mode, server, loadError, proven>>

(* Mutant: the presence of the model is taken for readiness. *)
ReadyWithoutGenerating ==
  /\ warmPc = "generate"
  /\ SetReadiness("ready", "ready")
  /\ warmPc' = "over"
  /\ UNCHANGED <<mode, server, loadError, proven>>

(* The 1-token generation returns (one lock block sets everything) or raises. *)
WarmGenerate ==
  /\ warmPc = "generate"
  /\ \/ /\ SetReadiness("ready", "ready")
        /\ loadError' = FALSE /\ warmPc' = "over" /\ proven' = TRUE
     \/ /\ "generate" \in Faults
        /\ loadError' = TRUE /\ warmPc' = "failing"
        /\ UNCHANGED <<readiness, phase, proven>>
  /\ UNCHANGED <<mode, server>>

(* Mutant: the except branch records the error and forgets the state. *)
WarmGiveUp ==
  /\ warmPc = "failing"
  /\ warmPc' = "over"
  /\ UNCHANGED <<mode, server, readiness, phase, loadError, proven>>

(* The except branch: _load_error is already set, the state comes after it. *)
WarmFail ==
  /\ warmPc = "failing"
  /\ SetReadiness("failed", "failed")
  /\ warmPc' = "over"
  /\ UNCHANGED <<mode, server, loadError, proven>>

Serve == StartServer \/ KickOff
WarmUp == WarmShow \/ WarmPull \/ WarmGenerate \/ WarmFail

=============================================================================
