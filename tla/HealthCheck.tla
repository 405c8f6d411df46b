---------------------------- MODULE HealthCheck ----------------------------
(***************************************************************************)
(* HealthCheck RPCs against a worker that is starting up.  The handler     *)
(* (_model_status_payload) fills its payload one field after another, each *)
(* field with a lock acquisition or an unlocked read of its own, and while *)
(* no warm-up has started two of the fields make an HTTP probe.  The       *)
(* worker's state moves on in between.                                     *)
(***************************************************************************)
EXTENDS ModelReadiness, Sequences

CONSTANT Checker      \* pool threads that serve HealthCheck

VARIABLES reading,    \* per thread: 0 idle, n reading the n-th field, Len(ReadOrder)+1 answered
          substep,    \* "read", "probe" (HTTP in flight), "verdict" (probe back, result unread)
          payload,    \* the payload being filled
          settled     \* history: the check began after the background warm-up was kicked off

healthVars == <<reading, substep, payload, settled>>
vars == <<readinessVars, healthVars>>

Empty == [ready |-> FALSE, loading |-> FALSE, unavailable |-> FALSE, error |-> FALSE, phase |-> ""]

Payload == [ready : BOOLEAN, loading : BOOLEAN, unavailable : BOOLEAN, error : BOOLEAN,
            phase : {"", "pulling", "warming", "ready", "failed"}]

(* Mutant: the payload asks is_loading() and is_unavailable() first. *)
ReadyAsLast == <<"loading", "unavailable", "ready", "error", "phase">>

(* Mutant: the phase is read before the booleans. *)
PhaseFirst == <<"phase", "ready", "loading", "unavailable", "error">>

ReadOrder == <<"ready", "loading", "unavailable", "error", "phase">>

Answered(c) == reading[c] = Len(ReadOrder) + 1

Init == /\ ReadinessInit
        /\ reading = [c \in Checker |-> 0]
        /\ substep = [c \in Checker |-> "read"]
        /\ payload = [c \in Checker |-> Empty]
        /\ settled = [c \in Checker |-> FALSE]

Begin(c) == /\ server # "starting" /\ reading[c] = 0
            /\ reading' = [reading EXCEPT ![c] = 1]
            /\ settled' = [settled EXCEPT ![c] = (server = "kicked" /\ mode = "background")]
            /\ UNCHANGED <<readinessVars, substep, payload>>

At(c, field) == reading[c] \in 1..Len(ReadOrder) /\ ReadOrder[reading[c]] = field

(* The field is known: on to the next one. *)
Fill(c, field, value) ==
  /\ payload' = [payload EXCEPT ![c] = [@ EXCEPT ![field] = value]]
  /\ reading' = [reading EXCEPT ![c] = @ + 1]
  /\ substep' = [substep EXCEPT ![c] = "read"]
  /\ UNCHANGED settled

GoTo(c, s) == substep' = [substep EXCEPT ![c] = s] /\ UNCHANGED <<reading, payload, settled>>

(* is_loaded *)
ReadReady(c) ==
  /\ At(c, "ready") /\ substep[c] = "read"
  /\ IF readiness = "not_started" THEN GoTo(c, "probe") ELSE Fill(c, "ready", readiness = "ready")
  /\ UNCHANGED readinessVars

ProbeReady(c) ==
  /\ At(c, "ready") /\ substep[c] = "probe"
  /\ \E ok \in ShowAnswers : Probe(ok) /\ Fill(c, "ready", ok)
  /\ UNCHANGED <<mode, server, readiness, phase, warmPc, proven>>

(* is_loading *)
ReadLoading(c) ==
  /\ At(c, "loading")
  /\ Fill(c, "loading", readiness = "loading")
  /\ UNCHANGED readinessVars

(* is_unavailable: without a warm-up, a probe and then the shared _load_error. *)
ReadUnavailable(c) ==
  /\ At(c, "unavailable") /\ substep[c] = "read"
  /\ IF readiness = "not_started" THEN GoTo(c, "probe")
     ELSE Fill(c, "unavailable", readiness = "failed")
  /\ UNCHANGED readinessVars

ProbeUnavailable(c) ==
  /\ At(c, "unavailable") /\ substep[c] = "probe"
  /\ \E ok \in ShowAnswers : Probe(ok)
  /\ GoTo(c, "verdict")
  /\ UNCHANGED <<mode, server, readiness, phase, warmPc, proven>>

(* Mutant: the probe is repeated until it succeeds. *)
ProbeUntilAvailable(c) ==
  /\ At(c, "unavailable") /\ substep[c] = "verdict"
  /\ IF loadError THEN GoTo(c, "probe") ELSE Fill(c, "unavailable", FALSE)
  /\ UNCHANGED readinessVars

ReadVerdict(c) ==
  /\ At(c, "unavailable") /\ substep[c] = "verdict"
  /\ Fill(c, "unavailable", loadError)
  /\ UNCHANGED readinessVars

(* load_error *)
ReadError(c) ==
  /\ At(c, "error")
  /\ Fill(c, "error", loadError)
  /\ UNCHANGED readinessVars

(* readiness_phase *)
ReadPhase(c) ==
  /\ At(c, "phase")
  /\ Fill(c, "phase", phase)
  /\ UNCHANGED readinessVars

Reply(c) == /\ Answered(c)
            /\ reading' = [reading EXCEPT ![c] = 0]
            /\ payload' = [payload EXCEPT ![c] = Empty]
            /\ settled' = [settled EXCEPT ![c] = FALSE]
            /\ UNCHANGED <<readinessVars, substep>>

Check(c) == \/ ReadReady(c) \/ ProbeReady(c) \/ ReadLoading(c) \/ ReadUnavailable(c)
            \/ ProbeUnavailable(c) \/ ReadVerdict(c) \/ ReadError(c) \/ ReadPhase(c) \/ Reply(c)

(* _ensure_ollama_ready of some other RPC: it probes whatever the state is *)
(* (ReviewContent's classifier does not pass the readiness gate).          *)
OtherProbe == /\ server # "starting"
              /\ \E ok \in ShowAnswers : Probe(ok)
              /\ UNCHANGED <<mode, server, readiness, phase, warmPc, proven, healthVars>>

System == (Serve \/ WarmUp) /\ UNCHANGED healthVars

Next == \/ System \/ OtherProbe
        \/ \E c \in Checker : Begin(c) \/ Check(c)

(* The threads run; every HTTP call ends, urlopen has a timeout. *)
Fairness == WF_vars(System) /\ \A c \in Checker : WF_vars(Check(c))

Spec == Init /\ [][Next]_vars /\ Fairness

-----------------------------------------------------------------------------

TypeOK == /\ ReadinessType
          /\ reading \in [Checker -> 0..(Len(ReadOrder) + 1)]
          /\ substep \in [Checker -> {"read", "probe", "verdict"}]
          /\ payload \in [Checker -> Payload]
          /\ settled \in [Checker -> BOOLEAN]

(* Fields read at different moments still add up: once the background      *)
(* warm-up is on its way, no payload says "ready" next to "loading" or     *)
(* "unavailable", and one that says "ready" names the ready phase and      *)
(* follows a generation that really succeeded.                             *)
ReadyPayloadCoherent ==
  \A c \in Checker :
    settled[c] /\ Answered(c) /\ payload[c].ready =>
      /\ ~payload[c].loading /\ ~payload[c].unavailable
      /\ payload[c].phase = "ready"
      /\ proven

(* The same for a worker whose warm-up failed: a payload that says         *)
(* "unavailable" never says "ready" nor names a hopeful phase, and no      *)
(* generation has succeeded.                                               *)
UnavailablePayloadCoherent ==
  \A c \in Checker :
    settled[c] /\ Answered(c) /\ payload[c].unavailable =>
      ~payload[c].ready /\ payload[c].phase = "failed" /\ ~proven

(* A worker that preloads does not stay "AI starting up" for ever: the     *)
(* warm-up decides, or the process is stopped.                             *)
WarmupDecides == (server = "kicked" /\ mode # "off") ~> (Decided \/ server = "starting")

(* Every HealthCheck is answered, whatever the warm-up and the probes do,  *)
(* unless the process is stopped.                                          *)
EveryCheckAnswered == \A c \in Checker : (reading[c] = 1) ~> (Answered(c) \/ server = "starting")

(* What tests/test_readiness_warmup.py:4 says of the worker: it is "ready" *)
(* only after a real generation has succeeded.                             *)
ReadyOnlyAfterGeneration ==
  \A c \in Checker : Answered(c) /\ payload[c].ready => proven

=============================================================================
