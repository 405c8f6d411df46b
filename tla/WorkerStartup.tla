---------------------------- MODULE WorkerStartup ----------------------------
(***************************************************************************)
(* The life of the worker's container: scripts/entrypoint.sh pulls the     *)
(* models (scripts/pull_models.py), then server.py validates the           *)
(* environment, opens the port behind the token check                      *)
(* (utils/grpc_worker_auth.py) and warms the model up, while HealthChecks  *)
(* come in.  The container may stop at any moment and be started again,    *)
(* also with another environment; Ollama's model store, on the host,       *)
(* stays.  The entrypoint's part before the pull is HostSnapshot.          *)
(***************************************************************************)
EXTENDS HealthCheck

CONSTANT MaxRestarts

ASSUME StartupAssumption == MaxRestarts \in Nat

VARIABLES boot,       \* "pull" (entrypoint), "validate" (serve() begins), "up", "exited"
          todo,       \* models the entrypoint has still to ensure
          store,      \* the models Ollama has
          assured,    \* history: the entrypoint was told that the worker's model is there
          misread,    \* history: warm_up pulls a model that is there, after a failing /api/show
          listener,   \* the server behind the port
          anonymous,  \* history: a call without the token has reached a handler other than HealthCheck
          restarts

bootVars == <<boot, todo, store, assured, misread, listener, anonymous, restarts>>
startupVars == <<vars, bootVars>>

(* OLLAMA_MODEL (or the default), and what another setting may name instead. *)
Model == {"main", "other"}

Setting == {"", "other"}

(* resolve_model, for the setting of a profile: "" falls back to OLLAMA_MODEL. *)
Resolve(setting) == IF setting = "" THEN "main" ELSE setting

(* AIModelService looks at OLLAMA_MODEL alone. *)
OwnModel == "main"

(* The models of the chat and embed profiles, each once; the helper's is   *)
(* pulled after them, and used by nothing in the worker's own start.       *)
Wanted(chat, embed) == IF Resolve(chat) = Resolve(embed) THEN <<Resolve(chat)>>
                       ELSE <<Resolve(chat), Resolve(embed)>>

WantedModels == {Wanted(chat, embed) : chat \in Setting, embed \in Setting}

(* What validate_worker_env and serve() read: both switches of the         *)
(* hardened profile, the token, the TLS settings (whether each names a     *)
(* file), the opt-out from TLS, and whether Ollama's host is allow-listed. *)
Environment == [requireAuth : BOOLEAN, hardenedProfile : BOOLEAN, token : BOOLEAN,
                cert : {"unset", "missing", "file"}, key : {"unset", "missing", "file"},
                allowInsecure : BOOLEAN, ollamaHostAllowed : BOOLEAN]

Listener == [hardened : BOOLEAN, auth : BOOLEAN, plain : BOOLEAN]

Closed == [hardened |-> FALSE, auth |-> FALSE, plain |-> FALSE]

StartupInit == /\ Init
               /\ boot = "pull" /\ todo \in WantedModels
               /\ store \in SUBSET Model /\ assured = FALSE /\ misread = FALSE
               /\ listener = Closed /\ anonymous = FALSE
               /\ restarts = 0

-----------------------------------------------------------------------------
(* The entrypoint.                                                         *)

(* Mutant: a model that could not be pulled is tried again after the others. *)
EnsureUntilPulled ==
  /\ boot = "pull" /\ todo # << >>
  /\ \/ /\ todo' = Tail(todo) /\ store' = store \cup {Head(todo)}
        /\ assured' = (assured \/ Head(todo) = OwnModel)
     \/ Faults # {} /\ todo' = Append(Tail(todo), Head(todo)) /\ UNCHANGED <<store, assured>>
  /\ UNCHANGED <<vars, boot, misread, listener, anonymous, restarts>>

(* Mutant: any answer of /api/pull is taken for success. *)
AnswerTakenForPulled ==
  /\ boot = "pull" /\ todo # << >>
  /\ todo' = Tail(todo)
  /\ store' \in {store, store \cup {Head(todo)}} /\ assured' = (assured \/ Head(todo) = OwnModel)
  /\ UNCHANGED <<vars, boot, misread, listener, anonymous, restarts>>

(* ensure_model_pulled: /api/show, and /api/pull when it is not there.     *)
(* Either may go wrong (a pull's answer may be late and the model there    *)
(* all the same); the script goes on to the next model whatever it hears.  *)
EnsureModel ==
  /\ boot = "pull" /\ todo # << >>
  /\ todo' = Tail(todo)
  /\ \/ store' = store \cup {Head(todo)} /\ assured' = (assured \/ Head(todo) = OwnModel)
     \/ /\ Faults # {}
        /\ store' \in {store, store \cup {Head(todo)}} /\ UNCHANGED assured
  /\ UNCHANGED <<vars, boot, misread, listener, anonymous, restarts>>

ExecServer == /\ boot = "pull" /\ todo = << >>
              /\ boot' = "validate"
              /\ UNCHANGED <<vars, todo, store, assured, misread, listener, anonymous, restarts>>

-----------------------------------------------------------------------------
(* serve(): validation, and the server it sets up.                         *)

(* Mutant: one of the two switches is forgotten. *)
HardenedBySwitch(env) == env.requireAuth

IsHardenedProfile(env) == env.requireAuth \/ env.hardenedProfile

TlsComplete(env) == env.cert = "file" /\ env.key = "file"

EnvErrors(env) ==
  IF ~IsHardenedProfile(env) THEN {}
  ELSE {e \in {"token", "tls files", "tls absent", "ollama host"} :
          CASE e = "token" -> ~env.token
            [] e = "tls files" -> (env.cert # "unset" \/ env.key # "unset") /\ ~TlsComplete(env)
            [] e = "tls absent" -> env.cert = "unset" /\ env.key = "unset" /\ ~env.allowInsecure
            [] e = "ollama host" -> ~env.ollamaHostAllowed}

(* The port is secure when both settings are there; open() raises when one *)
(* of the files is not.  Without a token there is no interceptor.          *)
SetUpServer(env) ==
  IF env.cert # "unset" /\ env.key # "unset" /\ ~TlsComplete(env)
  THEN boot' = "exited" /\ UNCHANGED listener
  ELSE /\ boot' = "up"
       /\ listener' = [hardened |-> env.requireAuth \/ env.hardenedProfile,
                       auth |-> env.token,
                       plain |-> ~TlsComplete(env) /\ ~env.allowInsecure]

Validate ==
  /\ boot = "validate"
  /\ \E env \in Environment :
       IF EnvErrors(env) # {} THEN boot' = "exited" /\ UNCHANGED listener ELSE SetUpServer(env)
  /\ UNCHANGED <<vars, todo, store, assured, misread, anonymous, restarts>>

-----------------------------------------------------------------------------
(* The worker is up.                                                       *)

ServeUp == boot = "up" /\ Serve /\ UNCHANGED <<healthVars, bootVars>>

(* The warm-up meets the store: nothing is generated without the model,    *)
(* and /api/show misses a model that is there only when it fails, in which *)
(* case the pull is one that finds nothing to do.                          *)
WarmUpOnStore ==
  /\ \/ /\ WarmShow /\ store' = store
        /\ warmPc' = "generate" => OwnModel \in store
        /\ warmPc' = "pull" => OwnModel \notin store \/ "show" \in Faults
     \/ WarmPull /\ store' \in {store \cup {OwnModel}} \cup (IF Faults # {} THEN {store} ELSE {})
     \/ WarmGenerate /\ store' = store /\ (proven' => OwnModel \in store)
     \/ WarmFail /\ store' = store
  /\ misread' = (warmPc' = "pull" /\ OwnModel \in store)
  /\ UNCHANGED <<healthVars, boot, todo, assured, listener, anonymous, restarts>>

(* intercept_service: no interceptor, or HealthCheck as it is by default,  *)
(* or the right token.                                                     *)
Admitted(method, right) ==
  ~listener.auth \/ method = "HealthCheck" \/ right

(* ReviewContent and the like: they probe whatever the readiness is. *)
OtherRpc ==
  \E right \in BOOLEAN :
    /\ Admitted("ReviewContent", right)
    /\ OtherProbe
    /\ anonymous' = (anonymous \/ ~right)
    /\ UNCHANGED <<boot, todo, store, assured, misread, listener, restarts>>

Stopped == boot = "exited" /\ restarts = MaxRestarts /\ UNCHANGED startupVars

(* The container stops, wherever it is, and is started again. *)
Restart ==
  /\ restarts < MaxRestarts
  /\ restarts' = restarts + 1
  /\ mode' \in Modes /\ server' = "starting" /\ SetReadiness("not_started", "")
  /\ loadError' = FALSE /\ warmPc' = "off" /\ proven' = FALSE
  /\ reading' = [c \in Checker |-> 0] /\ substep' = [c \in Checker |-> "read"]
  /\ payload' = [c \in Checker |-> Empty] /\ settled' = [c \in Checker |-> FALSE]
  /\ boot' = "pull" /\ todo' \in WantedModels /\ assured' = FALSE /\ misread' = FALSE
  /\ listener' = Closed /\ anonymous' = FALSE
  /\ UNCHANGED store

-----------------------------------------------------------------------------

Boot == EnsureModel \/ ExecServer \/ Validate \/ ServeUp \/ WarmUpOnStore

StartupNext ==
  \/ Boot \/ OtherRpc \/ Restart \/ Stopped
  \/ \E c \in Checker : (Begin(c) \/ Check(c)) /\ UNCHANGED bootVars

(* The scripts and the threads run; every HTTP call ends. *)
StartupFairness ==
  WF_startupVars(Boot) /\ \A c \in Checker : WF_startupVars(Check(c) /\ UNCHANGED bootVars)

StartupSpec == StartupInit /\ [][StartupNext]_startupVars /\ StartupFairness

-----------------------------------------------------------------------------

StartupTypeOK == /\ TypeOK
                 /\ boot \in {"pull", "validate", "up", "exited"}
                 /\ todo \in Seq(Model) /\ store \subseteq Model
                 /\ assured \in BOOLEAN /\ misread \in BOOLEAN /\ anonymous \in BOOLEAN
                 /\ listener \in Listener /\ restarts \in 0..MaxRestarts

(* The validation and the server read the same environment with tests of   *)
(* their own, and a token check that is not installed denies nobody; yet a *)
(* worker in the hardened profile never hands a call without the token to  *)
(* a handler other than HealthCheck, nor listens in plain without leave.   *)
HardenedNeverExposed == listener.hardened => ~anonymous /\ ~listener.plain

(* The pull before the start is what keeps the warm-up short: once the     *)
(* entrypoint was told that the worker's model is there, a warm-up is not  *)
(* sent to download it, however often the container is started again.  The *)
(* exception: an /api/show that Ollama answers with an error of its own is *)
(* taken for an absent model, and the model that is there is pulled again. *)
EntrypointPullSuffices == warmPc = "pull" /\ assured => misread

(* Whatever Ollama does to the pulls, the container goes on to its server, *)
(* which starts or refuses its environment.                                *)
StartupEnds == (boot = "pull") ~> (boot \in {"up", "exited"})

=============================================================================
