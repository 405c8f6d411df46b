---------------------------- MODULE StartupProofs ----------------------------
(***************************************************************************)
(* Theorems of WorkerStartup: the container's start and its restarts, the  *)
(* warm-up, and any number of HealthChecks, whatever Ollama does.          *)
(***************************************************************************)
EXTENDS WorkerStartup, ReadinessProofs, SequenceTheorems, TLAPS

-----------------------------------------------------------------------------
(* The HealthChecks.                                                       *)

HealthTyped == /\ reading \in [Checker -> 0..6]
               /\ substep \in [Checker -> {"read", "probe", "verdict"}]
               /\ payload \in [Checker -> Payload]
               /\ settled \in [Checker -> BOOLEAN]

(* A payload's fields are filled in order, and what one of them says of a  *)
(* decision is still so when the next are read.                            *)
Coherent(c) ==
  /\ payload[c].ready => /\ readiness = "ready"
                         /\ ~payload[c].loading /\ ~payload[c].unavailable
                         /\ reading[c] = 6 => payload[c].phase = "ready"
  /\ payload[c].unavailable => /\ readiness = "failed"
                               /\ ~payload[c].ready
                               /\ reading[c] = 6 => payload[c].phase = "failed"

CheckInv(c) ==
  /\ reading[c] \in {0, 6} \/ settled[c] => substep[c] = "read"
  /\ reading[c] \in {0, 1} => payload[c] = Empty
  /\ reading[c] = 0 => ~settled[c]
  /\ settled[c] => server = "kicked" /\ mode = "background" /\ Coherent(c)

HealthInv == HealthTyped /\ \A c \in Checker : CheckInv(c)

(* A check nobody touches stands where it stood, while the state is steady. *)
LEMMA CheckUntouched ==
  ASSUME ReadinessInv, Steady, NEW c \in Checker, CheckInv(c),
         reading'[c] = reading[c], substep'[c] = substep[c],
         payload'[c] = payload[c], settled'[c] = settled[c]
  PROVE  CheckInv(c)'
<1>1. Coherent(c) => Coherent(c)'
  BY DEF Coherent, Steady, Decided
<1> QED BY <1>1 DEF CheckInv, Steady

(* A step of one check leaves the others alone. *)
LEMMA OneCheck ==
  ASSUME ReadinessInv, Steady, HealthInv, NEW c \in Checker, HealthTyped', CheckInv(c)',
         \A d \in Checker \ {c} : /\ reading'[d] = reading[d] /\ substep'[d] = substep[d]
                                  /\ payload'[d] = payload[d] /\ settled'[d] = settled[d]
  PROVE  HealthInv'
<1>1. ASSUME NEW d \in Checker PROVE CheckInv(d)'
  <2>1. CASE d = c
    BY <2>1
  <2>2. CASE d # c
    BY <2>2, CheckUntouched DEF HealthInv
  <2> QED BY <2>1, <2>2
<1> QED BY <1>1 DEF HealthInv

(* Where a check stands when it is at a field. *)
LEMMA AtField ==
  ASSUME NEW c \in Checker
  PROVE  /\ At(c, "ready") => reading[c] = 1
         /\ At(c, "loading") => reading[c] = 2
         /\ At(c, "unavailable") => reading[c] = 3
         /\ At(c, "error") => reading[c] = 4
         /\ At(c, "phase") => reading[c] = 5
         /\ Answered(c) <=> reading[c] = 6
<1>1. Len(ReadOrder) = 5
  BY DEF ReadOrder
<1>2. /\ ReadOrder[1] = "ready" /\ ReadOrder[2] = "loading" /\ ReadOrder[3] = "unavailable"
      /\ ReadOrder[4] = "error" /\ ReadOrder[5] = "phase"
  BY DEF ReadOrder
<1> QED BY <1>1, <1>2 DEF At, Answered

(* Filling a field, but for the field: the check goes on to the next one. *)
GoOn(c) == /\ reading' = [reading EXCEPT ![c] = @ + 1]
           /\ substep' = [substep EXCEPT ![c] = "read"]
           /\ settled' = settled
           /\ \A d \in Checker \ {c} : payload'[d] = payload[d]

LEMMA NextField == \A n \in 0..5 : n + 1 \in 0..6
  OBVIOUS

LEMMA GoneOn ==
  ASSUME HealthTyped, NEW c \in Checker, GoOn(c), reading[c] \in 1..5,
         payload' \in [Checker -> Payload]
  PROVE  /\ HealthTyped'
         /\ reading'[c] = reading[c] + 1 /\ substep'[c] = "read"
         /\ \A d \in Checker \ {c} : /\ reading'[d] = reading[d] /\ substep'[d] = substep[d]
                                     /\ payload'[d] = payload[d] /\ settled'[d] = settled[d]
<1>1. reading' \in [Checker -> 0..6]
  <2>1. reading[c] + 1 \in 0..6
    BY NextField
  <2> QED BY <2>1 DEF HealthTyped, GoOn
<1> QED BY <1>1 DEF HealthTyped, GoOn

(* What each field's filling leaves of the payload. *)
LEMMA FillsReady ==
  ASSUME HealthTyped, NEW c \in Checker, NEW v \in BOOLEAN, Fill(c, "ready", v)
  PROVE  /\ GoOn(c) /\ payload' \in [Checker -> Payload]
         /\ payload'[c].ready = v /\ payload'[c].loading = payload[c].loading
         /\ payload'[c].unavailable = payload[c].unavailable
  BY DEF HealthTyped, Fill, Payload, GoOn

LEMMA FillsLoading ==
  ASSUME HealthTyped, NEW c \in Checker, NEW v \in BOOLEAN, Fill(c, "loading", v)
  PROVE  /\ GoOn(c) /\ payload' \in [Checker -> Payload]
         /\ payload'[c].ready = payload[c].ready /\ payload'[c].loading = v
         /\ payload'[c].unavailable = payload[c].unavailable
  BY DEF HealthTyped, Fill, Payload, GoOn

LEMMA FillsUnavailable ==
  ASSUME HealthTyped, NEW c \in Checker, NEW v \in BOOLEAN, Fill(c, "unavailable", v)
  PROVE  /\ GoOn(c) /\ payload' \in [Checker -> Payload]
         /\ payload'[c].ready = payload[c].ready /\ payload'[c].loading = payload[c].loading
         /\ payload'[c].unavailable = v
  BY DEF HealthTyped, Fill, Payload, GoOn

LEMMA FillsError ==
  ASSUME HealthTyped, NEW c \in Checker, NEW v \in BOOLEAN, Fill(c, "error", v)
  PROVE  /\ GoOn(c) /\ payload' \in [Checker -> Payload]
         /\ payload'[c].ready = payload[c].ready /\ payload'[c].loading = payload[c].loading
         /\ payload'[c].unavailable = payload[c].unavailable
  BY DEF HealthTyped, Fill, Payload, GoOn

LEMMA FillsPhase ==
  ASSUME HealthTyped, NEW c \in Checker,
         NEW v \in {"", "pulling", "warming", "ready", "failed"}, Fill(c, "phase", v)
  PROVE  /\ GoOn(c) /\ payload' \in [Checker -> Payload]
         /\ payload'[c].ready = payload[c].ready /\ payload'[c].loading = payload[c].loading
         /\ payload'[c].unavailable = payload[c].unavailable
         /\ payload'[c].phase = v
  BY DEF HealthTyped, Fill, Payload, GoOn

(* Every field is FALSE or "" in a payload that is not begun. *)
LEMMA EmptyFields == Empty \in Payload /\ ~Empty.ready /\ ~Empty.loading /\ ~Empty.unavailable
  BY DEF Empty, Payload

(* A settled check never finds the warm-up not started. *)
LEMMA SettledStarted ==
  ASSUME ReadinessInv, NEW c \in Checker, CheckInv(c), settled[c]
  PROVE  readiness # "not_started"
  BY DEF ReadinessInv, CheckInv

(* A check that goes on to probe is not settled. *)
LEMMA GoToKeeps ==
  ASSUME ReadinessInv, Steady, HealthInv, NEW c \in Checker, ~settled[c], reading[c] \in 1..5,
         NEW s \in {"read", "probe", "verdict"}, GoTo(c, s)
  PROVE  HealthInv'
<1>1. HealthTyped'
  BY DEF HealthInv, HealthTyped, GoTo
<1>2. CheckInv(c)'
  BY DEF HealthInv, HealthTyped, GoTo, CheckInv
<1> QED BY <1>1, <1>2, OneCheck DEF HealthInv, HealthTyped, GoTo

(* The first field: a payload that says ready says nothing else yet. *)
LEMMA ReadyFilled ==
  ASSUME ReadinessInv, Steady, HealthInv, NEW c \in Checker, reading[c] = 1,
         NEW v \in BOOLEAN, settled[c] => (v <=> readiness = "ready"),
         readiness' = readiness, server' = server, mode' = mode, Fill(c, "ready", v)
  PROVE  HealthInv'
<1>1. HealthTyped /\ CheckInv(c)
  BY DEF HealthInv
<1>2. /\ GoOn(c) /\ payload' \in [Checker -> Payload]
      /\ payload'[c].ready = v /\ payload'[c].loading = payload[c].loading
      /\ payload'[c].unavailable = payload[c].unavailable
  BY <1>1, FillsReady
<1>3. /\ HealthTyped' /\ reading'[c] = 2 /\ substep'[c] = "read"
      /\ \A d \in Checker \ {c} : /\ reading'[d] = reading[d] /\ substep'[d] = substep[d]
                                  /\ payload'[d] = payload[d] /\ settled'[d] = settled[d]
  BY <1>1, <1>2, GoneOn
<1>4. ~payload'[c].loading /\ ~payload'[c].unavailable
  BY <1>1, <1>2, EmptyFields DEF CheckInv
<1>5. CheckInv(c)'
  BY <1>1, <1>2, <1>3, <1>4 DEF CheckInv, Coherent, GoOn
<1> QED BY <1>3, <1>5, OneCheck

(* Loading contradicts ready. *)
LEMMA LoadingFilled ==
  ASSUME ReadinessInv, Steady, HealthInv, NEW c \in Checker, reading[c] = 2,
         NEW v \in BOOLEAN, settled[c] => (v <=> readiness = "loading"),
         readiness' = readiness, server' = server, mode' = mode, Fill(c, "loading", v)
  PROVE  HealthInv'
<1>1. HealthTyped /\ CheckInv(c)
  BY DEF HealthInv
<1>2. /\ GoOn(c) /\ payload' \in [Checker -> Payload]
      /\ payload'[c].ready = payload[c].ready /\ payload'[c].loading = v
      /\ payload'[c].unavailable = payload[c].unavailable
  BY <1>1, FillsLoading
<1>3. /\ HealthTyped' /\ reading'[c] = 3 /\ substep'[c] = "read"
      /\ \A d \in Checker \ {c} : /\ reading'[d] = reading[d] /\ substep'[d] = substep[d]
                                  /\ payload'[d] = payload[d] /\ settled'[d] = settled[d]
  BY <1>1, <1>2, GoneOn
<1>4. CheckInv(c)'
  BY <1>1, <1>2, <1>3 DEF CheckInv, Coherent, GoOn, ReadinessInv
<1> QED BY <1>3, <1>4, OneCheck

(* Unavailable contradicts ready, and is what a failed warm-up says. *)
LEMMA UnavailableFilled ==
  ASSUME ReadinessInv, Steady, HealthInv, NEW c \in Checker, reading[c] = 3,
         NEW v \in BOOLEAN, settled[c] => (v <=> readiness = "failed"),
         readiness' = readiness, server' = server, mode' = mode, Fill(c, "unavailable", v)
  PROVE  HealthInv'
<1>1. HealthTyped /\ CheckInv(c)
  BY DEF HealthInv
<1>2. /\ GoOn(c) /\ payload' \in [Checker -> Payload]
      /\ payload'[c].ready = payload[c].ready /\ payload'[c].loading = payload[c].loading
      /\ payload'[c].unavailable = v
  BY <1>1, FillsUnavailable
<1>3. /\ HealthTyped' /\ reading'[c] = 4 /\ substep'[c] = "read"
      /\ \A d \in Checker \ {c} : /\ reading'[d] = reading[d] /\ substep'[d] = substep[d]
                                  /\ payload'[d] = payload[d] /\ settled'[d] = settled[d]
  BY <1>1, <1>2, GoneOn
<1>4. CheckInv(c)'
  BY <1>1, <1>2, <1>3 DEF CheckInv, Coherent, GoOn, ReadinessInv
<1> QED BY <1>3, <1>4, OneCheck

(* The error text decides nothing. *)
LEMMA ErrorFilled ==
  ASSUME ReadinessInv, Steady, HealthInv, NEW c \in Checker, reading[c] = 4,
         NEW v \in BOOLEAN,
         readiness' = readiness, server' = server, mode' = mode, Fill(c, "error", v)
  PROVE  HealthInv'
<1>1. HealthTyped /\ CheckInv(c)
  BY DEF HealthInv
<1>2. /\ GoOn(c) /\ payload' \in [Checker -> Payload]
      /\ payload'[c].ready = payload[c].ready /\ payload'[c].loading = payload[c].loading
      /\ payload'[c].unavailable = payload[c].unavailable
  BY <1>1, FillsError
<1>3. /\ HealthTyped' /\ reading'[c] = 5 /\ substep'[c] = "read"
      /\ \A d \in Checker \ {c} : /\ reading'[d] = reading[d] /\ substep'[d] = substep[d]
                                  /\ payload'[d] = payload[d] /\ settled'[d] = settled[d]
  BY <1>1, <1>2, GoneOn
<1>4. CheckInv(c)'
  BY <1>1, <1>2, <1>3 DEF CheckInv, Coherent, GoOn, ReadinessInv
<1> QED BY <1>3, <1>4, OneCheck

(* The phase of a decided warm-up is the decision's. *)
LEMMA PhaseRead ==
  ASSUME ReadinessInv, Steady, HealthInv, NEW c \in Checker, reading[c] = 5, GoOn(c),
         payload' \in [Checker -> Payload],
         readiness' = readiness, server' = server, mode' = mode,
         payload'[c].ready = payload[c].ready, payload'[c].loading = payload[c].loading,
         payload'[c].unavailable = payload[c].unavailable, payload'[c].phase = phase
  PROVE  HealthInv'
<1>1. HealthTyped /\ CheckInv(c)
  BY DEF HealthInv
<1>2. /\ HealthTyped' /\ reading'[c] = 6 /\ substep'[c] = "read"
      /\ \A d \in Checker \ {c} : /\ reading'[d] = reading[d] /\ substep'[d] = substep[d]
                                  /\ payload'[d] = payload[d] /\ settled'[d] = settled[d]
  BY <1>1, GoneOn
<1>3. CheckInv(c)'
  BY <1>1, <1>2 DEF CheckInv, Coherent, GoOn, ReadinessInv
<1> QED BY <1>2, <1>3, OneCheck

LEMMA PhaseFilled ==
  ASSUME ReadinessInv, Steady, HealthInv, NEW c \in Checker, reading[c] = 5,
         readiness' = readiness, server' = server, mode' = mode, Fill(c, "phase", phase)
  PROVE  HealthInv'
<1>1. HealthTyped /\ phase \in {"", "pulling", "warming", "ready", "failed"}
  BY DEF HealthInv, ReadinessInv, ReadinessType
<1>2. GoOn(c) /\ payload' \in [Checker -> Payload]
  BY <1>1, FillsPhase
<1>3. /\ payload'[c].ready = payload[c].ready /\ payload'[c].loading = payload[c].loading
      /\ payload'[c].unavailable = payload[c].unavailable /\ payload'[c].phase = phase
  BY <1>1, FillsPhase
<1> QED BY <1>2, <1>3, PhaseRead

-----------------------------------------------------------------------------
(* Each step of a HealthCheck.                                             *)

LEMMA BeginKeeps ==
  ASSUME ReadinessInv, HealthInv, NEW c \in Checker, Begin(c)
  PROVE  ReadinessInv' /\ HealthInv'
<1>1. ReadinessInv' /\ Steady
  BY ReadinessUntouched DEF Begin
<1>2. HealthTyped /\ CheckInv(c)
  BY DEF HealthInv
<1>3. HealthTyped'
  BY <1>2 DEF Begin, HealthTyped
<1>4. /\ reading'[c] = 1 /\ substep'[c] = substep[c] /\ payload'[c] = payload[c]
      /\ settled'[c] => server = "kicked" /\ mode = "background"
      /\ \A d \in Checker \ {c} : /\ reading'[d] = reading[d] /\ substep'[d] = substep[d]
                                  /\ payload'[d] = payload[d] /\ settled'[d] = settled[d]
  BY <1>2 DEF Begin, HealthTyped
<1>5. CheckInv(c)'
  BY <1>1, <1>2, <1>4, EmptyFields DEF Begin, CheckInv, Coherent, Steady
<1> QED BY <1>1, <1>3, <1>4, <1>5, OneCheck

LEMMA ReadReadyKeeps ==
  ASSUME ReadinessInv, HealthInv, NEW c \in Checker, ReadReady(c)
  PROVE  ReadinessInv' /\ HealthInv'
<1>1. ReadinessInv' /\ Steady
  BY ReadinessUntouched DEF ReadReady
<1>2. reading[c] = 1
  BY AtField DEF ReadReady
<1>3. CASE readiness = "not_started"
  <2>1. ~settled[c]
    BY <1>3, SettledStarted DEF HealthInv
  <2>2. GoTo(c, "probe")
    BY <1>3 DEF ReadReady
  <2> QED BY <1>1, <1>2, <2>1, <2>2, GoToKeeps
<1>4. CASE readiness # "not_started"
  <2>1. Fill(c, "ready", readiness = "ready")
    BY <1>4 DEF ReadReady
  <2>2. readiness' = readiness /\ server' = server /\ mode' = mode
    BY DEF ReadReady, readinessVars
  <2> QED BY <1>1, <1>2, <2>1, <2>2, ReadyFilled
<1> QED BY <1>3, <1>4

LEMMA ProbeReadyKeeps ==
  ASSUME ReadinessInv, HealthInv, NEW c \in Checker, ProbeReady(c)
  PROVE  ReadinessInv' /\ HealthInv'
<1>1. PICK ok \in ShowAnswers : Probe(ok) /\ Fill(c, "ready", ok)
  BY DEF ProbeReady
<1>2. ReadinessInv' /\ Steady
  BY <1>1, ProbeHarmless DEF ProbeReady
<1>3. reading[c] = 1 /\ ok \in BOOLEAN
  BY AtField, AnswersTyped DEF ProbeReady
<1>4. ~settled[c]
  BY DEF HealthInv, CheckInv, ProbeReady
<1> QED BY <1>1, <1>2, <1>3, <1>4, ReadyFilled DEF ProbeReady

LEMMA ReadLoadingKeeps ==
  ASSUME ReadinessInv, HealthInv, NEW c \in Checker, ReadLoading(c)
  PROVE  ReadinessInv' /\ HealthInv'
<1>1. ReadinessInv' /\ Steady
  BY ReadinessUntouched DEF ReadLoading
<1>2. reading[c] = 2
  BY AtField DEF ReadLoading
<1>3. Fill(c, "loading", readiness = "loading")
  BY DEF ReadLoading
<1>4. readiness' = readiness /\ server' = server /\ mode' = mode
  BY DEF ReadLoading, readinessVars
<1> QED BY <1>1, <1>2, <1>3, <1>4, LoadingFilled

LEMMA ReadUnavailableKeeps ==
  ASSUME ReadinessInv, HealthInv, NEW c \in Checker, ReadUnavailable(c)
  PROVE  ReadinessInv' /\ HealthInv'
<1>1. ReadinessInv' /\ Steady
  BY ReadinessUntouched DEF ReadUnavailable
<1>2. reading[c] = 3
  BY AtField DEF ReadUnavailable
<1>3. CASE readiness = "not_started"
  <2>1. ~settled[c]
    BY <1>3, SettledStarted DEF HealthInv
  <2>2. GoTo(c, "probe")
    BY <1>3 DEF ReadUnavailable
  <2> QED BY <1>1, <1>2, <2>1, <2>2, GoToKeeps
<1>4. CASE readiness # "not_started"
  <2>1. Fill(c, "unavailable", readiness = "failed")
    BY <1>4 DEF ReadUnavailable
  <2>2. readiness' = readiness /\ server' = server /\ mode' = mode
    BY DEF ReadUnavailable, readinessVars
  <2> QED BY <1>1, <1>2, <2>1, <2>2, UnavailableFilled
<1> QED BY <1>3, <1>4

LEMMA ProbeUnavailableKeeps ==
  ASSUME ReadinessInv, HealthInv, NEW c \in Checker, ProbeUnavailable(c)
  PROVE  ReadinessInv' /\ HealthInv'
<1>1. PICK ok \in ShowAnswers : Probe(ok)
  BY DEF ProbeUnavailable
<1>2. ReadinessInv' /\ Steady
  BY <1>1, ProbeHarmless DEF ProbeUnavailable
<1>3. reading[c] = 3 /\ GoTo(c, "verdict")
  BY AtField DEF ProbeUnavailable
<1>4. ~settled[c]
  BY DEF HealthInv, CheckInv, ProbeUnavailable
<1> QED BY <1>2, <1>3, <1>4, GoToKeeps

LEMMA ReadVerdictKeeps ==
  ASSUME ReadinessInv, HealthInv, NEW c \in Checker, ReadVerdict(c)
  PROVE  ReadinessInv' /\ HealthInv'
<1>1. ReadinessInv' /\ Steady
  BY ReadinessUntouched DEF ReadVerdict
<1>2. reading[c] = 3 /\ loadError \in BOOLEAN
  BY AtField DEF ReadVerdict, ReadinessInv, ReadinessType
<1>3. ~settled[c]
  BY DEF HealthInv, CheckInv, ReadVerdict
<1>4. readiness' = readiness /\ server' = server /\ mode' = mode
  BY DEF ReadVerdict, readinessVars
<1>5. Fill(c, "unavailable", loadError)
  BY DEF ReadVerdict
<1> QED BY <1>1, <1>2, <1>3, <1>4, <1>5, UnavailableFilled

LEMMA ReadErrorKeeps ==
  ASSUME ReadinessInv, HealthInv, NEW c \in Checker, ReadError(c)
  PROVE  ReadinessInv' /\ HealthInv'
<1>1. ReadinessInv' /\ Steady
  BY ReadinessUntouched DEF ReadError
<1>2. reading[c] = 4 /\ loadError \in BOOLEAN
  BY AtField DEF ReadError, ReadinessInv, ReadinessType
<1>3. readiness' = readiness /\ server' = server /\ mode' = mode
  BY DEF ReadError, readinessVars
<1>4. Fill(c, "error", loadError)
  BY DEF ReadError
<1> QED BY <1>1, <1>2, <1>3, <1>4, ErrorFilled

LEMMA ReadPhaseKeeps ==
  ASSUME ReadinessInv, HealthInv, NEW c \in Checker, ReadPhase(c)
  PROVE  ReadinessInv' /\ HealthInv'
<1>1. ReadinessInv' /\ Steady
  BY ReadinessUntouched DEF ReadPhase
<1>2. reading[c] = 5
  BY AtField DEF ReadPhase
<1>3. readiness' = readiness /\ server' = server /\ mode' = mode
  BY DEF ReadPhase, readinessVars
<1>4. Fill(c, "phase", phase)
  BY DEF ReadPhase
<1> QED BY <1>1, <1>2, <1>3, <1>4, PhaseFilled

LEMMA ReplyKeeps ==
  ASSUME ReadinessInv, HealthInv, NEW c \in Checker, Reply(c)
  PROVE  ReadinessInv' /\ HealthInv'
<1>1. ReadinessInv' /\ Steady
  BY ReadinessUntouched DEF Reply
<1>2. HealthTyped /\ CheckInv(c) /\ reading[c] = 6
  BY AtField DEF HealthInv, Reply
<1>3. HealthTyped'
  BY <1>2, EmptyFields DEF Reply, HealthTyped
<1>4. /\ reading'[c] = 0 /\ substep'[c] = substep[c] /\ payload'[c] = Empty /\ ~settled'[c]
      /\ \A d \in Checker \ {c} : /\ reading'[d] = reading[d] /\ substep'[d] = substep[d]
                                  /\ payload'[d] = payload[d] /\ settled'[d] = settled[d]
  BY <1>2 DEF Reply, HealthTyped
<1>5. CheckInv(c)'
  BY <1>2, <1>4 DEF CheckInv
<1> QED BY <1>1, <1>3, <1>4, <1>5, OneCheck

LEMMA CheckKeeps ==
  ASSUME ReadinessInv, HealthInv, NEW c \in Checker, Begin(c) \/ Check(c)
  PROVE  ReadinessInv' /\ HealthInv'
  BY BeginKeeps, ReadReadyKeeps, ProbeReadyKeeps, ReadLoadingKeeps, ReadUnavailableKeeps,
     ProbeUnavailableKeeps, ReadVerdictKeeps, ReadErrorKeeps, ReadPhaseKeeps, ReplyKeeps
     DEF Check

(* While the checks stand still, a steady state is all they need. *)
LEMMA HealthUntouched ==
  ASSUME ReadinessInv, Steady, HealthInv, UNCHANGED healthVars
  PROVE  HealthInv'
<1>1. HealthTyped'
  BY DEF HealthInv, HealthTyped, healthVars
<1>2. ASSUME NEW c \in Checker PROVE CheckInv(c)'
  BY CheckUntouched DEF HealthInv, healthVars
<1> QED BY <1>1, <1>2 DEF HealthInv

-----------------------------------------------------------------------------
(* The container.                                                          *)

BootType == /\ boot \in {"pull", "validate", "up", "exited"}
            /\ todo \in Seq(Model) /\ store \subseteq Model
            /\ assured \in BOOLEAN /\ misread \in BOOLEAN /\ anonymous \in BOOLEAN
            /\ listener \in Listener /\ restarts \in 0..MaxRestarts

(* Nothing runs before the server is up; what the entrypoint was told is   *)
(* so; and the port of a hardened worker was set up behind the check.      *)
BootInv ==
  /\ BootType
  /\ boot # "up" => server = "starting" /\ warmPc = "off" /\ ~anonymous
  /\ assured => OwnModel \in store
  /\ warmPc = "pull" /\ assured => misread
  /\ listener.hardened => listener.auth /\ ~listener.plain /\ ~anonymous

LEMMA ShortSequences ==
  ASSUME NEW M, NEW a \in M, NEW b \in M
  PROVE  <<a>> \in Seq(M) /\ <<a, b>> \in Seq(M)
  OBVIOUS

LEMMA WantedTyped == WantedModels \subseteq Seq(Model)
<1>1. ASSUME NEW w \in WantedModels PROVE w \in Seq(Model)
  <2>1. PICK c \in Setting, e \in Setting : w = Wanted(c, e)
    BY SMT DEF WantedModels
  <2>2. Resolve(c) \in Model /\ Resolve(e) \in Model
    BY DEF Resolve, Setting, Model
  <2> QED BY <2>1, <2>2, ShortSequences DEF Wanted
<1> QED BY <1>1

LEMMA EnsureKeeps ==
  ASSUME BootInv, EnsureModel
  PROVE  BootInv'
<1>1. Head(todo) \in Model /\ Tail(todo) \in Seq(Model)
  BY HeadTailProperties DEF BootInv, BootType, EnsureModel
<1>2. todo' = Tail(todo) /\ boot = "pull"
  BY DEF EnsureModel
<1>3. UNCHANGED <<server, warmPc, boot, misread, listener, anonymous, restarts>>
  BY DEF EnsureModel, vars, readinessVars
<1>4. store' \in {store, store \cup {Head(todo)}}
  BY DEF EnsureModel
<1>5. \/ assured' = assured
      \/ assured' = (assured \/ Head(todo) = OwnModel) /\ store' = store \cup {Head(todo)}
  BY DEF EnsureModel
<1>6. assured' => OwnModel \in store'
  BY <1>4, <1>5 DEF BootInv
<1>7. assured' \in BOOLEAN
  BY <1>5, Zenon DEF BootInv, BootType
<1> QED BY <1>1, <1>2, <1>3, <1>4, <1>6, <1>7 DEF BootInv, BootType

LEMMA ExecKeeps ==
  ASSUME BootInv, ExecServer
  PROVE  BootInv'
  BY DEF BootInv, BootType, ExecServer, vars, readinessVars

(* The validation is what makes the two readings of the environment agree. *)
LEMMA ValidateKeeps ==
  ASSUME BootInv, Validate
  PROVE  BootInv'
<1>1. PICK env \in Environment :
        IF EnvErrors(env) # {} THEN boot' = "exited" /\ UNCHANGED listener ELSE SetUpServer(env)
  BY DEF Validate
<1>2. /\ boot = "validate"
      /\ UNCHANGED <<server, warmPc, todo, store, assured, misread, anonymous, restarts>>
  BY DEF Validate, vars, readinessVars
<1>3. server = "starting" /\ warmPc = "off" /\ ~anonymous
  BY <1>2 DEF BootInv
<1>4. CASE boot' = "exited" /\ UNCHANGED listener
  BY <1>2, <1>3, <1>4 DEF BootInv, BootType
<1>5. CASE EnvErrors(env) = {} /\ boot' = "up"
           /\ listener' = [hardened |-> env.requireAuth \/ env.hardenedProfile,
                           auth |-> env.token,
                           plain |-> ~TlsComplete(env) /\ ~env.allowInsecure]
  <2>1. listener' \in Listener
    BY <1>5, Zenon DEF Listener, Environment, TlsComplete
  <2>2. IsHardenedProfile(env) => env.token /\ (TlsComplete(env) \/ env.allowInsecure)
    BY <1>5 DEF EnvErrors, Environment, TlsComplete
  <2>3. listener'.hardened => listener'.auth /\ ~listener'.plain
    BY <1>5, <2>2 DEF IsHardenedProfile
  <2> QED BY <1>2, <1>3, <1>5, <2>1, <2>3 DEF BootInv, BootType
<1> QED BY <1>1, <1>4, <1>5 DEF SetUpServer

LEMMA ServeKeeps ==
  ASSUME BootInv, ReadinessInv, ServeUp
  PROVE  BootInv'
<1>1. boot = "up" /\ UNCHANGED bootVars /\ Serve
  BY DEF ServeUp
<1>2. warmPc' = "pull" => warmPc = "pull"
  BY <1>1 DEF Serve, StartServer, KickOff, StartBackgroundWarmup, SetReadiness
<1> QED BY <1>1, <1>2 DEF BootInv, BootType, bootVars

LEMMA WarmUpKeeps ==
  ASSUME BootInv, WarmUpOnStore
  PROVE  BootInv'
<1>1. UNCHANGED <<boot, todo, assured, listener, anonymous, restarts>>
  BY DEF WarmUpOnStore
<1>2. store' \in {store, store \cup {OwnModel}}
  BY DEF WarmUpOnStore
<1>3. server' = server /\ warmPc # "off"
  BY DEF WarmUpOnStore, WarmShow, WarmPull, WarmGenerate, WarmFail
<1>4. misread' = (warmPc' = "pull" /\ OwnModel \in store)
  BY DEF WarmUpOnStore
<1>5. misread' \in BOOLEAN
  BY <1>4
<1>6. warmPc' = "pull" /\ assured' => misread'
  BY <1>1, <1>4 DEF BootInv
<1> QED BY <1>1, <1>2, <1>3, <1>5, <1>6 DEF BootInv, BootType, OwnModel, Model

LEMMA OtherKeeps ==
  ASSUME BootInv, OtherRpc
  PROVE  BootInv'
<1>1. PICK right \in BOOLEAN : Admitted("ReviewContent", right) /\ OtherProbe
                               /\ anonymous' = (anonymous \/ ~right)
                               /\ UNCHANGED <<boot, todo, store, assured, misread, listener, restarts>>
  BY DEF OtherRpc
<1>2. server # "starting" /\ UNCHANGED <<server, warmPc>>
  BY <1>1 DEF OtherProbe
<1>3. anonymous' \in BOOLEAN /\ (listener.auth /\ ~anonymous => ~anonymous')
  BY <1>1 DEF Admitted
<1> QED BY <1>1, <1>2, <1>3 DEF BootInv, BootType

LEMMA UntouchedKeeps ==
  ASSUME BootInv, UNCHANGED bootVars, UNCHANGED <<server, warmPc>>
  PROVE  BootInv'
  BY DEF BootInv, BootType, bootVars

-----------------------------------------------------------------------------
(* All of it.                                                              *)

StartupInv == ReadinessInv /\ HealthInv /\ BootInv

(* A worker whose checks have not begun and whose warm-up is off, as it    *)
(* begins and as every restart leaves it.                                  *)
Fresh == /\ mode \in Modes /\ server = "starting"
         /\ readiness = "not_started" /\ phase = ""
         /\ loadError = FALSE /\ warmPc = "off" /\ proven = FALSE
         /\ reading = [c \in Checker |-> 0] /\ substep = [c \in Checker |-> "read"]
         /\ payload = [c \in Checker |-> Empty] /\ settled = [c \in Checker |-> FALSE]
         /\ boot = "pull" /\ todo \in WantedModels /\ store \subseteq Model /\ assured = FALSE
         /\ misread = FALSE
         /\ listener = Closed /\ anonymous = FALSE /\ restarts \in 0..MaxRestarts

LEMMA FreshHolds == ASSUME Fresh PROVE StartupInv
<1>1. ReadinessInv
  BY DEF Fresh, ReadinessInv, ReadinessType, Decided
<1>2. HealthTyped
  <2>1. /\ reading = [c \in Checker |-> 0] /\ substep = [c \in Checker |-> "read"]
    BY Zenon DEF Fresh
  <2>2. payload \in [Checker -> Payload]
    BY EmptyFields DEF Fresh
  <2>3. settled \in [Checker -> BOOLEAN]
    BY DEF Fresh
  <2>4. /\ reading \in [Checker -> 0..6]
        /\ substep \in [Checker -> {"read", "probe", "verdict"}]
    BY <2>1
  <2> QED BY <2>2, <2>3, <2>4 DEF HealthTyped
<1>3. ASSUME NEW c \in Checker PROVE CheckInv(c)
  BY DEF Fresh, CheckInv
<1>4. todo \in Seq(Model)
  BY WantedTyped DEF Fresh
<1>5. listener \in Listener /\ ~listener.hardened
  BY DEF Fresh, Listener, Closed
<1>6. BootInv
  BY <1>4, <1>5 DEF Fresh, BootInv, BootType
<1> QED BY <1>1, <1>2, <1>3, <1>6 DEF StartupInv, HealthInv

LEMMA InitFresh == ASSUME StartupInit PROVE Fresh
<1>1. Init /\ ReadinessInit
  BY DEF StartupInit, Init
<1>2. restarts \in 0..MaxRestarts
  BY StartupAssumption DEF StartupInit
<1>3. store \subseteq Model
  BY DEF StartupInit
<1> QED BY <1>1, <1>2, <1>3, Zenon DEF StartupInit, Init, ReadinessInit, Fresh

LEMMA RestartFresh == ASSUME StartupInv, Restart PROVE Fresh'
<1>1. restarts' \in 0..MaxRestarts
  <2>1. restarts < MaxRestarts /\ restarts' = restarts + 1
    BY Zenon DEF Restart
  <2>2. restarts \in 0..MaxRestarts
    BY DEF StartupInv, BootInv, BootType
  <2> QED BY <2>1, <2>2, StartupAssumption
<1>2. store' \subseteq Model
  BY DEF StartupInv, BootInv, BootType, Restart
<1> QED BY <1>1, <1>2 DEF Restart, SetReadiness, Fresh, Empty, Closed

LEMMA StartupInitHolds == ASSUME StartupInit PROVE StartupInv
  BY InitFresh, FreshHolds

(* Primed, of the state a restart leaves. *)
LEMMA FreshPrimed == Fresh' => StartupInv'
  BY FreshHolds, PTL

LEMMA StartupStep ==
  ASSUME StartupInv, [StartupNext]_startupVars
  PROVE  StartupInv'
<1> USE DEF StartupInv
<1>1. CASE EnsureModel
  <2>1. UNCHANGED vars
    BY <1>1 DEF EnsureModel
  <2> QED BY <1>1, <2>1, EnsureKeeps, ReadinessUntouched, HealthUntouched DEF vars
<1>2. CASE ExecServer
  <2>1. UNCHANGED vars
    BY <1>2 DEF ExecServer
  <2> QED BY <1>2, <2>1, ExecKeeps, ReadinessUntouched, HealthUntouched DEF vars
<1>3. CASE Validate
  <2>1. UNCHANGED vars
    BY <1>3 DEF Validate
  <2> QED BY <1>3, <2>1, ValidateKeeps, ReadinessUntouched, HealthUntouched DEF vars
<1>4. CASE ServeUp
  <2>1. Serve /\ UNCHANGED healthVars
    BY <1>4 DEF ServeUp
  <2> QED BY <1>4, <2>1, ServeKeeps, ReadinessPreserved, HealthUntouched
<1>5. CASE WarmUpOnStore
  <2>1. WarmUp /\ UNCHANGED healthVars
    BY <1>5 DEF WarmUpOnStore, WarmUp
  <2> QED BY <1>5, <2>1, WarmUpKeeps, ReadinessPreserved, HealthUntouched
<1>6. CASE OtherRpc
  <2>1. PICK ok \in ShowAnswers : Probe(ok)
    BY <1>6 DEF OtherRpc, OtherProbe
  <2>2. UNCHANGED <<mode, server, readiness, phase, warmPc, proven>> /\ UNCHANGED healthVars
    BY <1>6 DEF OtherRpc, OtherProbe
  <2> QED BY <1>6, <2>1, <2>2, OtherKeeps, ProbeHarmless, HealthUntouched
<1>7. CASE Restart
  BY <1>7, RestartFresh, FreshPrimed
<1>8. ASSUME NEW c \in Checker, Begin(c) \/ Check(c), UNCHANGED bootVars
      PROVE  StartupInv'
  <2>1. ReadinessInv' /\ HealthInv'
    BY <1>8, CheckKeeps
  <2>2. UNCHANGED <<server, warmPc>>
    BY <1>8 DEF Begin, Check, ReadReady, ProbeReady, ReadLoading, ReadUnavailable,
                ProbeUnavailable, ReadVerdict, ReadError, ReadPhase, Reply, readinessVars
  <2> QED BY <1>8, <2>1, <2>2, UntouchedKeeps
<1>9. CASE UNCHANGED startupVars
  <2>1. UNCHANGED readinessVars /\ UNCHANGED healthVars /\ UNCHANGED bootVars
    BY <1>9 DEF startupVars, vars
  <2>2. UNCHANGED <<server, warmPc>>
    BY <2>1 DEF readinessVars
  <2> QED BY <2>1, <2>2, UntouchedKeeps, ReadinessUntouched, HealthUntouched
<1> QED BY <1>1, <1>2, <1>3, <1>4, <1>5, <1>6, <1>7, <1>8, <1>9
        DEF StartupNext, Boot, Stopped

LEMMA StartupInvariant == StartupSpec => []StartupInv
<1>1. StartupInit => StartupInv
  BY StartupInitHolds
<1>2. StartupInv /\ [StartupNext]_startupVars => StartupInv'
  BY StartupStep
<1> QED BY <1>1, <1>2, PTL DEF StartupSpec

(* Every variable of the worker and of its container keeps to its type,    *)
(* for any number of HealthChecks and of restarts.                         *)
THEOREM StartupTypeCorrect == StartupSpec => []StartupTypeOK
<1>1. Len(ReadOrder) + 1 = 6
  BY DEF ReadOrder
<1>2. StartupInv => StartupTypeOK
  BY <1>1 DEF StartupInv, ReadinessInv, HealthInv, HealthTyped, BootInv, BootType,
              StartupTypeOK, TypeOK
<1> QED BY <1>2, StartupInvariant, PTL

(* A HealthCheck's fields, read one after the other while the warm-up goes *)
(* on, never contradict a ready: HealthCheck and is_loaded, is_loading,    *)
(* is_unavailable.                                                         *)
THEOREM ReadyAddsUp == StartupSpec => []ReadyPayloadCoherent
<1>1. StartupInv => ReadyPayloadCoherent
  <2> SUFFICES ASSUME StartupInv, NEW c \in Checker,
                      settled[c], Answered(c), payload[c].ready
               PROVE  /\ ~payload[c].loading /\ ~payload[c].unavailable
                      /\ payload[c].phase = "ready" /\ proven
    BY DEF ReadyPayloadCoherent
  <2>1. reading[c] = 6
    BY AtField
  <2> QED BY <2>1 DEF StartupInv, HealthInv, CheckInv, Coherent, ReadinessInv
<1> QED BY <1>1, StartupInvariant, PTL

(* ... and never contradict an unavailable. *)
THEOREM UnavailableAddsUp == StartupSpec => []UnavailablePayloadCoherent
<1>1. StartupInv => UnavailablePayloadCoherent
  <2> SUFFICES ASSUME StartupInv, NEW c \in Checker,
                      settled[c], Answered(c), payload[c].unavailable
               PROVE  ~payload[c].ready /\ payload[c].phase = "failed" /\ ~proven
    BY DEF UnavailablePayloadCoherent
  <2>1. reading[c] = 6
    BY AtField
  <2> QED BY <2>1 DEF StartupInv, HealthInv, CheckInv, Coherent, ReadinessInv
<1> QED BY <1>1, StartupInvariant, PTL

(* However often the container starts, and whatever its environment, a     *)
(* hardened worker answers no stranger but for HealthCheck, and never      *)
(* listens in plain without leave: validate_worker_env and serve.          *)
THEOREM HardenedStaysClosed == StartupSpec => []HardenedNeverExposed
<1>1. StartupInv => HardenedNeverExposed
  BY DEF StartupInv, BootInv, HardenedNeverExposed
<1> QED BY <1>1, StartupInvariant, PTL

(* A warm-up that pulls the model the entrypoint was told is there does so *)
(* because /api/show failed on a model that is there, never because it is  *)
(* missing: pull_models.main and AIModelService.warm_up.                   *)
THEOREM PullsSpareTheWarmUp == StartupSpec => []EntrypointPullSuffices
<1>1. StartupInv => EntrypointPullSuffices
  BY DEF StartupInv, BootInv, EntrypointPullSuffices
<1> QED BY <1>1, StartupInvariant, PTL

=============================================================================
