# Formal models of the AI worker

The repository is a Python gRPC worker that puts an Ollama server behind the
`HealthService` RPCs: text generation, streaming, content moderation, host
profile, health.  Ten pool threads (`server.py:230`) serve the RPCs, a daemon
thread warms the model up, and they share a circuit breaker, a rate limiter, the
readiness state of `AIModelService` and the Ollama server itself.  This directory
holds TLA+ models of that shared state and of the handlers that use it, the TLC
runs that check them on small instances, and TLAPS proofs for every instance.

## 1. The system and its parts

| Component | State | Operations | What is hard | Correct when |
|---|---|---|---|---|
| Circuit breaker (`utils/ollama_circuit_breaker.py`) | `_failures`, `_open_until` under a lock | `allow_request`, `record_success`, `record_failure` | the clock is read before the lock; outcomes arrive late and out of order | its decisions follow from the history of outcomes |
| Start-up (`scripts/entrypoint.sh`, `scripts/pull_models.py`, `utils/model_routing.py`, `utils/grpc_worker_auth.py`, `server.py`) | the models still to pull, Ollama's store, the server behind the port | `ensure_model_pulled`, `validate_worker_env`, `serve`, `intercept_service` | stopped between any two pulls and started again with another environment; two readers of that environment | a hardened worker lets nobody in without the token; what was pulled is still there for the warm-up |
| Readiness and warm-up (`services/ai_model_service.py`, `services/ollama_pull.py`, `server.py`) | `_readiness`, `_readiness_phase` under a lock, `_load_error` without | `start_background_warmup`, `warm_up`, `is_loaded`, `is_loading`, `is_unavailable` | the port opens before the warm-up; every probe writes `_load_error` | warm-up decides; what it reports is what happened |
| HealthCheck (`handlers/rpc_handlers.py:56-102`) | a payload filled field by field | `_model_status_payload` | the state moves between two fields | the fields of one payload agree |
| Generate, GenerateStream, OperatorStatsChat, GenerateReport (`handlers/rpc_handlers.py:115-523`) | per RPC: place, chunks sent | the gate, `generate`, `generate_stream`, `_stream_chunked_fallback`, the two handlers that call `generate` | check-then-act gate; failure before, in or after a stream; the fallback, and two other handlers, re-enter `generate` | every RPC ends and says so once (one exception, section 5); every call is paid for; the breaker hears of every call that ended; a report is delivered whatever happens to its polishing |
| Rate limiter (`utils/rpc_rate_limit.py`) | unlocked deques, a lazily built Redis client, a Redis key per method and minute, with a TTL | `check_rpc_rate_limit` | unlocked read-test-append, Redis failing before, between or after its commands, late commands, lazy initialisation | at most the limit passes, nothing is refused below it, no key stays for ever |
| ReviewContent (`services/review_orchestrator.py` and the classifiers) | none between requests | `review_content_full` | an LLM answer replaces the rules'; its JSON is only half checked; the hint looks at older flags than the result's | high risk stays rejected, failures go to a human, every approval has an author, no flag is lost |
| Host profile (`services/host_profile_*.py`, `scripts/entrypoint.sh`, `run_host_profile_init.py`, `refresh_host_snapshot.py`, `host_profile_agent.py`) | one JSON file on a bind mount, written by four kinds of process | collect, write, validate, remove, read | writes in place, collectors that outlive the wait for them, restarts anywhere | what is served as the host's is the host's; a required snapshot is there; a start takes no valid one away (exceptions in section 5) |
| Prompts (`services/ai_model_service.py:_parse_prompt`, `handlers/rpc_handlers.py`) | none | `_compose_full_prompt`, `_parse_prompt` | statistics, search hits and transcript become one text that is read back line by line | the model is asked what the user asked |
| EmbedText, ChatRiskScore (`services/embed_text.py`, `services/chat_risk_scorer.py`) | none | per request | one text of a batch fails; several flags of one message | a batch is answered as a whole; more flags never look better |
| URL policy, sanitising, metrics, tracing, planner and stitch, face context, decision explanation | none, or locked counters | per request | little | not modelled, see section 6 |

How they interact: every Generate, GenerateStream and ReviewContent handler first
calls the rate limiter.  Generate and GenerateStream (and OperatorStatsChat and
GenerateReport, which call the Generate handler) then pass
`_check_ollama_ready`: the breaker, `is_loading()`, `is_unavailable()`.  They call
`AIModelService`, which probes Ollama again (`_ensure_ollama_ready`), and report
the outcome to the breaker.  HealthCheck only reads the readiness.  The warm-up
thread and the probes of all RPCs write `_load_error`.  Redis's counters, Ollama's model
store and the snapshot file are the only state that outlives the process.  The store is
filled by the entrypoint's pulls and by the warm-up's.  GetHostProfile reads the file;
the start-up scripts and what they ask to collect on the host (agent, PowerShell,
Windows container) write it.

`PROJECT.json` lists every component with its status, and every hazard at the
line where it bites.

## 2. The modules

| Module | Kind | Models |
|---|---|---|
| `OllamaBreaker` | state and operators | the breaker: each locked method is one atomic update, `state()` takes the clock reading as a parameter |
| `CircuitBreaker` | component | threads that ask (clock), decide (lock), report or leave without reporting |
| `BreakerPromise` | abstract specification | what a breaker promises, on the history of outcomes: no counter, no deadline |
| `CircuitBreakerProofs` | proofs | type correctness, the invariants, the refinement |
| `ModelReadiness` | state and operators | `serve()`'s order, the preload modes, `warm_up` step by step |
| `ReadinessProofs` | proofs | what the start and the warm-up keep, for the two modules below |
| `HealthCheck` | composition | readiness and HealthChecks that read one field per step |
| `WorkerStartup` | composition | the container's life around it: pulls, validation, token check, warm-up on the model store, restarts |
| `StartupProofs` | proofs | every invariant of the run `health_check` |
| `GenerateRpc` | composition | breaker, readiness, rate budget and the threads that serve the RPCs that generate text |
| `GenerateProofs` | proofs | every invariant of the run `generate_rpc`; the breaker under these RPCs |
| `RateLimiter` | component | the limiter, one access to shared state per step |
| `WindowBudget` | abstract specification | what a fixed-window limiter promises, on the calls it lets through and refuses |
| `RateLimiterProofs` | proofs | types, the overrun's bound, exactness without overlap, keys without a TTL, the refinement |
| `ReviewPipeline` | component | one review after another: rules, media pass, LLM with any answer, hint |
| `ReviewProofs` | proofs | the invariants of `ReviewPipeline` |
| `Prompts` | operators | from statistics, hits and transcript to one text, and back to messages |
| `StatelessRpcs` | composition | the RPCs that keep nothing: ReviewContent, chats and plain prompts, EmbedText, ChatRiskScore |
| `StatelessProofs` | proofs | its properties, for conversations, prompts and batches of any length |
| `HostSnapshot` | component | the file, the container's start, step by step, and the collectors on the host |
| `HostSnapshotProofs` | proofs | all its properties |
| `MC*` | model checking | symmetry for the runs that may use it |

### Correspondence with the code

*Atomicity.*  A step is what runs under a lock, or one access to state that no lock
protects.  `record_failure` reads the clock while it holds the lock, so it is
one step; `state()` reads it before, so `Ask` and `Decide` are two.  The deque of
the limiter is unprotected, so the truth test, `bucket[0]`, `popleft`, `len` and
`append` are five (`TestBucket`, `TestHead`, `Pop`, `Count`, `AppendEntry`): each is
one C call under the interpreter lock.  A Redis `INCR` is atomic in Redis.

*Ollama* is external: every HTTP call returns or raises, as the constant `Faults`
allows.  `/api/show` answers 200 only when Ollama is up and has the model; every
probe writes its result into `_load_error` whatever the thread.  Redis is external too: a
command is done and answered, not done, or done with its reply lost, and it may be done
long after the clock was read for its key.

*Clocks.*  `time.monotonic()` is `now`, advanced by `Tick` up to `MaxTime`.  The limiter's
minute is `Window` ticks, the breaker's opening `OpenSeconds` ticks.

*WorkerStartup.*  `boot` is where the container stands: `EnsureModel` is one pass of the loop in
`entrypoint.sh` (ask, pull, go on whatever was heard), `Validate` is `validate_worker_env` together
with the server `serve()` then sets up from the same variables with tests of its own
(`EnvErrors`, `SetUpServer`), over every environment.  `WarmUpOnStore` ties `ModelReadiness`'s
warm-up to what Ollama has.  `Restart` is a stop anywhere and a new start: only the store
stays.  `OtherRpc` stands for every handler behind the token check that probes Ollama.

*GenerateRpc* stands for four handlers: `Enter` is the entry they share and the one
the fallback, a polished report and an operator's chat go through; `GateProbe`/`GateVerdict` are the two halves of
`is_unavailable()`; `Chat` is `generate()` with its swallowed exception; `StreamBreak` is
any exception from the probe or the stream; `Cancel` is the `GeneratorExit` of a
client that left.  Answers are abstracted to the number of 24-character slices, and to whether
they are the model's words or the `"..."` that `_sanitize_assistant_reply` makes of an empty one
(`Texts`).  An argument the handler refuses (`PROMPT_REQUIRED`, `PROMPT_TOO_LONG`) is the error
`bad_request`, also where a polish or a chat meets it in the nested call (`unfit`).
The slices of a fallback are sent in one step: no shared state is touched between
them.  `FetchPublicStats`, `Polish` and `Deliver` are the steps of OperatorStatsChat and
GenerateReport around the nested call.  The rate limiter is a budget of one window here,
with its windows and its races in `RateLimiter`.

*ReviewPipeline* keeps the control of the pipeline and stands a text for the flags it
raises, a media URL for the flags `classify_media_signals` and `media_url_flags` give it
together (`Media` lists the combinations there are).  Confidences are percents.  The LLM
may answer any object (`Answer`), also one that lacks keys, or nothing usable (`LlmFails`).

*Prompts.*  A line is what it begins with (`User:`, `AI:` or neither) and its text; the messages
are the lines with a label and a text, in their order (`Only`), as `_parse_prompt` picks
them.  The further lines of a turn and of a hit's title are any lines, for the code writes them
as they come (`Written`, `HitsBlock`).  In *StatelessRpcs* requests come one after another, for they share nothing; EmbedText
goes through its texts one at a time, each of which may fail.  What is typed is a
member of `TurnTexts`.

*HostSnapshot.*  `pc` is a stage of the scripts and a step in it, in the order of
`run_host_profile_init.py:main`, `entrypoint.sh`, `refresh_host_snapshot.py:main`.  A write is
an open, which truncates, and the text after it; when somebody else wrote in between,
the file may be left as no JSON (`Torn`).  Removing the file detaches those who hold it
open.  A write or a removal of the container's own may fail (`RemoveFails`, `DraftFails`).
A snapshot is abstracted to what the validity test and the properties tell apart: its schema,
its scope, whether its hostname looks like a container id, and, as history, the machine that
processor, cores and memory are really of (`about`).  Disks and machine id are those of where
the collector runs, always (`host_profile_collector.py:362`, `389`).  A C: drive in the container is
the set of its programs that run (`Drives`): without `hostname.exe` the container's name stays,
without PowerShell its processor and memory.  A collector the container waited for and gave
up on goes on (agent, Windows container) or is killed (PowerShell, a child of the script).
`Stop` may come at any step and keeps only the file and the collectors
on the host.  The one-shot init service of the compose file is a start that is stopped
after its init stages.

*History variables*, marked so in the modules, are not code: `log` (outcomes),
`proven` (the warm-up's generation succeeded), `settled` and `early` (when the RPC began
relative to the kick-off), `marks` (what an RPC told the breaker), `paid` (what it was
charged), `assured` and `anonymous` (what the entrypoint was told, and who got in),
`entries`, `counted`, `waved`, `forsaken`, `overlapped` (what the limiter let through and
how, and which keys an error left without a TTL), `said` (what the LLM answered), `about` and
`amiss` (what went wrong in this start: a collector that had been given up on touched the file,
`late`; one wrote it while it was waited for and was not believed, `unheard`; the container
could not write or remove it itself, `unwritten`), `misread` (the warm-up pulls a model that is
there).

## 3. The runs

| Run | Expect | Shows |
|---|---|---|
| `circuit_breaker` | pass | `TypeOK`; an opening never reaches further than `OpenSeconds` from now (`WindowBounded`); the counter stays below the threshold (`CountBelowThreshold`); no call is admitted while the breaker is open (`AdmitsOnlyWhenClosed`); the breaker implements `BreakerPromise` (`KeepsPromise`) |
| `health_check` | pass | a HealthCheck begun after the background kick-off never mixes ready with loading or unavailable and tells the truth (`ReadyPayloadCoherent`, `UnavailablePayloadCoherent`); a hardened worker hands no call without the token to a handler other than HealthCheck and does not listen in plain without leave, whatever its environment (`HardenedNeverExposed`); where the entrypoint was told that the worker's model is there, the warm-up pulls it only after an `/api/show` that failed on a model that is there (`EntrypointPullSuffices`); the warm-up decides (`WarmupDecides`), every check is answered (`EveryCheckAnswered`), and a start ends in a server or a refusal (`StartupEnds`); all across restarts |
| `health_check_startup` | violation | "ready only after a real generation" fails before the kick-off |
| `generate_rpc` | pass | no Ollama call before readiness by an RPC begun after the background kick-off (`NoUseBeforeReady`); one final chunk, the last, but for a fallback without a text, and no fallback after streamed text (`AnswerWellFormed`); the breaker hears once of every call that ended, and what the client heard, but of no stream whose client left (`BreakerHearsEachOnce`); every generation is paid for (`PaysForEachCall`); a drafted report is delivered, and is the model's, or the `"..."` of an empty answer, only after a success (`ReportAlwaysDelivered`); every RPC ends (`EveryRpcEnds`) |
| `generate_fallback` | violation | the fallback of a stream can hard-fail |
| `rate_limiter` | pass | a deque never exceeds the limit by more than the other threads (`BucketLengthBounded`) and is exact unless two checks overlap (`ExactUnlessOverlapped`); a Redis key without a TTL is an error's doing or about to get one (`ImmortalOnlyByError`); the Redis path implements `WindowBudget` (`KeepsBudget`) |
| `rate_limiter_race` | violation | the in-process limit can be overrun |
| `rate_limiter_outage` | violation | with Redis down nothing is counted at all |
| `review` | pass | no threshold lets the LLM see, or overturn, a rejection for high risk (`HighRiskStaysRejected`); a failed LLM call goes to a human (`FailsClosed`); an approval comes from rules that found nothing or an LLM that said approve (`ApprovalHasAuthor`); the worker's flags are in every answer (`NothingForgotten`); an album or a reel nobody looked into is never hinted eligible (`UnseenMediaNeverEligible`); the result is well formed whatever the LLM wrote (`TypeOK`); the turns of a conversation come back from the prompt's text in order and in their roles, and nothing else unless a further line, or a hit's title, begins like a turn; a plain prompt comes back whole except where the code loses it (`PromptReadBack`); the statistics stand before the question and the question last, unless a further line of it begins like a turn (`StatsPrecedeQuestion`); EmbedText answers all or nothing (`EmbedAnswersWhole`); more flags never lower a chat's score or action (`RiskMonotone`) |
| `review_hint` | violation | an approval with high-risk flags from the LLM is hinted eligible |
| `review_answer` | violation | an LLM answer with a decision and a key missing makes the RPC raise |
| `host_snapshot` | pass | a profile served as the host's is the host's, except where the container has a name, the default scope and no drive, or a drive without PowerShell and a name (`HostMeansHost`); where a snapshot is required the worker serves on a valid one, unless a collector was late (`RequireHolds`); it refuses to start only when there is none, unless something went `amiss` (`StopsOnlyInVain`); unless a collector was late or unheard, a start takes no valid snapshot away, but for the moment in which the refresh empties the file to write the same one again (`KeepsValid`) |

Each property of a passing run has a mutant: a plausible bug in a mapped definition,
under which TLC finds that property violated.

### Bounds, and why they are enough

* Two threads, three for the breaker: every race in this code is between two actors
  on one piece of state; two late failures in an opening take a third caller.
* Breaker: threshold 2, opening of 2 ticks, 4 ticks, 4 outcomes: two openings in a
  row, late failures in an opening, an opening that ends by time and one ended by
  a success.  The proofs lift the bounds.
* `health_check`: one HealthCheck, among probes of others (`OtherRpc`), for HealthChecks touch
  each other only through those probes; one restart, which lets a store filled by one start
  meet the next, with other settings; two models, every environment, all modes and faults.
* `generate_rpc`: budget 2, so that a fallback or a polish may be refused by the limit; threshold
  2 and an opening of one tick, so that two failures open the breaker and time closes it;
  one delta, so that a stream breaks before and after output; modes with a warm-up (the
  mode without is in `generate_fallback`).
* `rate_limiter`: two threads, two methods, limit 2, window of 1 tick, 2 ticks, 4 calls: a bucket
  fills, expires and fills again; a counter is overrun; a command of one window arrives in
  the next, and after its key's TTL.
* `review`: one flag of every kind the code tells apart (high risk, other policy, of the
  LLM only), all media and content types, confidences below, between, above and outside
  the thresholds, and both thresholds on either side of the rules' 0.86 and 0.88; two turns
  before a question, so that a turn of either role, blank or of several lines, may stand
  next to any other, and a further line or a title begin like a turn or not; three texts
  for a batch limit of two.  Requests share nothing, so one at a time is enough.
* `host_snapshot`: two collector slots and nothing else bounded: all 320 deployments, any
  number of starts, each stopped anywhere.  One collector may be waited for while another
  is late, or two late ones meet.  The proofs hold for any number.

### Fairness

Weak fairness on the start-up steps (the entrypoint, the main and the warm-up thread
run, and `urlopen` has a timeout) and on each thread's handler: the pool has its own thread for
every RPC in the model, and no handler waits for another.  No fairness on
clients (`Begin`, `Cancel`, `Leave`), on the clock, on restarts or on faults.  A stream sends at most
`MaxDeltas` deltas: the code's timeout is per read, so an Ollama that never stops
sending is outside `EveryRpcEnds`.

## 4. What is proved

`CircuitBreakerProofs`, for any set of threads, any integer
threshold and opening (zero and negative ones, which `env_int` accepts, included) and
any bounds:

* `BreakerTypeCorrect`: `Spec => []TypeOK`.
* `OpeningsNeverStack`: `Spec => []WindowBounded`; `CountStaysBelow`: `Spec => []CountBelowThreshold`.
* `NoAdmissionWhileOpen`: `Spec => AdmitsOnlyWhenClosed`.  The inductive invariant adds
  that no thread's clock reading is ahead of the clock: a reading at or past the
  deadline then implies that the clock is.
* `BreakerImplementsPromise`: `Spec => KeepsPromise`.  The invariant ties the counter to
  the history: `failures` is the length of the current run of failures modulo the
  threshold, and `openUntil` the time of its last trip plus `OpenSeconds`.  The lemmas
  before it say how the last success and the trips change when an outcome is
  appended.

`ReviewProofs`, for any flags the rules or the LLM may raise, any numbers and any
thresholds: `ReviewTypeCorrect`, `HighRiskIsFinal`, `FailureGoesToHuman`, `NoApprovalByDefault`,
`FlagsSurvive`, `UnseenNeverHinted`.  The inductive invariant says what holds on the way to the answer: the LLM
is only asked below high risk (`AskedBelowHighRisk`), the flags are kept from the rules on
(`FlagsKept`), the verdict is settled before the hint is (`Judged`).

`HostSnapshotProofs`, for any number of collectors: `SnapshotTypeCorrect`,
`ServedAsHostIsHost`, `RequiredSnapshotIsThere`, `NoVainStop`, `ValidSnapshotKept`.  None of them is
inductive: whether the worker may serve depends on what the scripts found many steps
before.  What the container itself made of the file (`Undisturbed`: empty between open and write,
then the draft, valid where a required one is served on) holds unless a collector was late.
What it knows of the file (`Known`) needs every write to be heard of as well: in `Vain`
places no valid snapshot exists; while the container waits, one appears only with the
collector's end; what the refresh is about to write over a valid snapshot is that snapshot.
`OneWaited` carries this through the collectors' steps (one that is not late is the one waited
for, and still attached to the file), `DraftFit` through the container's own writes, and `Honest`,
which needs nothing of `amiss`, gives `ServedAsHostIsHost`.

`RateLimiterProofs`, for any finite pool, any methods, limit and window:

* `LimiterTypeCorrect`, `OnlyErrorsLeaveKeys` (`ImmortalOnlyByError`).
* `OverrunBounded` (`BucketLengthBounded`).  The length alone is not inductive: what is past the
  length check has to be counted with it.  `Crowded` does: a deque and the threads about to
  append to it are together never more than the limit and the other threads, for the
  last of them was let through below the limit (`CountPreserved`, with the cardinality lemmas).
* `LoneChecksAreExact` (`ExactUnlessOverlapped`).  A check alone on its deque has read a clock no
  earlier than any entry.  `Orderly` says what follows: of the calls let through, which came
  in the order of their readings, the deque holds the last ones, and those it has dropped
  had expired (`Queued`); what a check has found so far still holds of the deque (`Knows`);
  a refusal rests on a full window (`Justified`).  The calls of a window then are entries
  of the deque, and there are never more than the limit.
* `LimiterImplementsBudget`: `Spec => KeepsBudget`, for the calls that Redis counts or refuses; what is
  counted in process, or let through uncounted, is not in it.  The invariant has four parts: no clock reading is
  ahead of the clock (`Timely`); a key lives at least as long as its window (`OutlivesWindow`); until
  then its counter is no less than what was let through (`Remembered`); and it is ahead of
  what was let through only when that has used the budget up (`Explained`).  Every step then
  is a step of `WindowBudget` or stutters.

`StartupProofs`, for any number of HealthChecks, restarts and any faults: `StartupTypeCorrect`,
`ReadyAddsUp`, `UnavailableAddsUp`, `HardenedStaysClosed`, `PullsSpareTheWarmUp`.  `ReadinessProofs` has
what `serve()` and the warm-up keep (`ReadinessInv`) and what a reader may rely on between two
of its steps (`Steady`: a decision is final, and the kick-off is not taken back).  Each
HealthCheck then has an invariant of its own over the fields read so far (`Coherent`), which
`Steady` carries through everybody else's steps.  `BootInv` ties the server behind the port to the
environment it was made of, and what the entrypoint was told to the store.

`GenerateProofs`, for any number of threads, any breaker, budget and length of answers:
`GenerateTypeCorrect`, `GateKeepsOut`, `ClientsAreToldTheEnd`, `BreakerHearsWhatClientsHear`,
`NoFreeGeneration`, `ReportsAreDelivered`.  The invariant is one per thread: what is known of the
readiness behind each check of the gate (`Gated`), that the charge is ahead of the calls
(`Solvent`), which places an RPC of a kind gets to (`Shape`), what was sent and told to the
breaker before the last call (`Silent`) and at the end (`Said`).  A thread touches nothing of
another's, and `Steady` again says what the warm-up may change under it (`StillKeeps`).
`NoCallPassesAnOpenBreaker` and `OpeningsEndForRpcs` carry what `CircuitBreaker` promises for any
callers over to the callers there are: seen from the breaker, a step of an RPC tells it
nothing, or one outcome, and at most takes a new reading of the clock (`ThreadStep`).

`StatelessProofs`, for conversations, prompts and batches of any length, any texts and any
flags: `ConversationsSurvive` (`PromptReadBack`), `QuestionComesLast` (`StatsPrecedeQuestion`),
`BatchesAreWhole` (`EmbedAnswersWhole`), `FindingsNeverHelp` (`RiskMonotone`).  What a prompt is written
and read with goes through sequences, so the module first proves what it needs of
`FlattenSeq` and `Only`, by induction on the length.  The induction theorems of the library take a
predicate, which the provers cannot instantiate; `NumberInduction` and `SequenceInduction` are
stated for a set instead (a set that holds 0, and n + 1 with n, holds every number), and rest
on `<` being well-founded.  Then `HistoryReadBack` and `OwnInChat`: of the lines of a conversation
that are heard, those that are a turn's own are the turns that have a text, in their order,
whatever lines there are besides; `QuietChat`: nothing else is heard where no further line and no
title begins like a turn; `StatsInChat`: where the statistics go.  The inductive invariant
`Right` says of the request under way what it was made of and that its answer so far is the
right one; for EmbedText that the vectors are those of the texts before the one in turn.
`ReviewsAsAlone` (`StatelessSpec => Spec`): between the other requests a review runs as in
`ReviewPipeline`, so the theorems of `ReviewProofs` hold of this process too.

Every theorem assumes only the named assumptions on the constants (`ReviewAssumption`,
`RpcAssumption`, `LimiterAssumption`, ...); `HostSnapshot` needs none.

Only model-checked: liveness (`WarmupDecides`, `EveryCheckAnswered`, `StartupEnds`, `EveryRpcEnds`).
Reasoning with fairness and `ENABLED` is beyond the prover.  Every other property of a
passing run is a theorem.

## 5. Disagreements between the code and what is said of it

1. `tests/test_readiness_warmup.py:4`: ready only after a generation.  Before the kick-off
   (`server.py:255-257`), and in blocking mode until `model_present` returns, `is_loaded()`
   answers from a live probe (`ai_model_service.py:735`).
2. `rpc_handlers.py:240-242`: the fallback never hard-fails.  It goes through the rate
   limit and the breaker again, and the stream's own failure is recorded first.
3. `rpc_rate_limit.py:5-7`, `docs/SECURITY.md:153`: Redis unreachable degrades to the in-process
   counter.  `_check_redis` allows the call and counts nothing.
4. `docs/SECURITY.md:83`: a limit per minute.  The in-process deque has no lock.
5. `tests/test_capability_roadmap_edge.py:737`: high risk is never eligible for auto-approval.
   The hint looks at the flags found before the LLM was asked (`review_orchestrator.py:54`).
6. `docs/SECURITY.md:121`: invalid JSON of the LLM falls back to a human.  An object with a
   decision but without confidence, risk_level, reason or user_message raises `KeyError`.

Noticed while modelling, without a run of their own:

* `rpc_handlers.py:269`: a stream is closed with one `is_final` chunk.  When the fallback's `generate()`
  swallows its failure there is no text to slice, and `_stream_chunked_fallback` sends two
  (255-260); `AnswerWellFormed` names this.
* The breaker never hears of a stream whose client left (`GeneratorExit` is no `Exception`,
  `rpc_handlers.py:343`), and of a POST that `generate()` swallowed (`ai_model_service.py:628`) it hears as of
  a success; `BreakerHearsEachOnce` names both.
* An empty answer of the model becomes `"..."` (`ai_model_service.py:231`), which is not blank to
  `rpc_handlers.py:510` and is delivered in place of the report that was drafted;
  `ReportAlwaysDelivered` names this.
* `entrypoint.sh:33-34`: a model is only pulled when it is genuinely absent.  `model_present` is any
  answer of `/api/show` but 200 (`ollama_pull.py:41-49`), so the entrypoint and the warm-up
  (`ai_model_service.py:369-376`) pull a model that is there when Ollama answers with an error;
  `EntrypointPullSuffices` names this.
* The further lines of a turn and of a hit's title go into the prompt as they are
  (`operator_stats_prompt.py:15-24`, `search_worker_client.py:34`), and `_parse_prompt` reads one that
  begins with `User:` or `AI:` as a message (`ai_model_service.py:560-571`).  In a question it takes the
  question's place at the end, before which the statistics go; `PromptReadBack` and
  `StatsPrecedeQuestion` name this.
* A start takes valid snapshots away in three ways, all named by `KeepsValid`: what a PowerShell or
  the agent wrote in time without being believed (`run_host_profile_init.py:98-113`, `140-147`) is
  removed or overwritten by the fallback (`194-198`); what a collector wrote late is removed on a
  judgement of what was there before (`217-219`); and the refresh rewrites the agent's snapshot
  in place (`refresh_host_snapshot.py:77`), so that a stop or an error right then loses it.
* With `MFAI_REQUIRE_HOST_SNAPSHOT` the container may refuse to start with a valid snapshot there:
  when the agent has written it and its answer is lost (the refresh then builds one of its
  own and raises, `refresh_host_snapshot.py:83-90`), or when it cannot be rewritten;
  `StopsOnlyInVain` names both.
* A container with a C: drive on which `powershell.exe` does not run fills in its own processor
  and memory (`host_profile_collector.py:297-358`), disks (`389`) and machine id (`362`), under host
  scope; with a name of its own or the drive's it passes for the host.  `HostMeansHost` names
  it (`PassesForHost`); the disks and the machine id are the container's with any drive.
* `server.py:124-127` speaks of a single active load: in blocking mode `is_loading()` is false
  while `model_present` runs, and the gate lets a Generate through.
* `docs/host-profile.md:73` expects host scope after a successful refresh.  A collector that was
  given up on may truncate the file afterwards, and the worker answers for its container,
  also where `MFAI_REQUIRE_HOST_SNAPSHOT` is set; `RequireHolds` names that exception (`late`).
* `docs/host-profile.md:39`: the fallback is a container-scope profile.  In a container with a
  name, under the default scope, it passes for the host's; `HostMeansHost` names this.
* `docs/host-profile.md:62`: the snapshot is refreshed on each start.  A valid one is kept as it
  is, however old.
* `docs/moderation-media-pass.md:17`: boundary flags still trigger the LLM.  With a media
  flag next to the boundary flag the content is not boundary-only, and an approval of the
  rules stands without it.
* `scripts/pull_models.py:14-16`: the worker uses the same `OLLAMA_MODEL_*` variables.  `AIModelService`
  looks at `OLLAMA_MODEL` alone (`ai_model_service.py:276`): where the chat and the embed profile
  both name another model, the entrypoint does not pull the worker's own, and the warm-up
  has to (`EntrypointPullSuffices` speaks of a worker whose own model was).
* `docs/search-integration.md`, "Prompt prefix": search hits never reach the model when the prompt is
  a transcript, because `_parse_prompt` leaves unlabelled lines out; nor do the unlabelled
  further lines of a message.  A plain prompt with statistics in front of it, or with a line that looks
  like a turn, is lost itself; `PromptReadBack` names these exceptions.
* The chat risk of "adult", which a review rejects, is `allow`; and a blocked message may
  score lower (0.25) than an allowed one (0.5): score and action are decided apart.
* `docs/embeddings.md` lists the errors of EmbedText; an answer that is no JSON, or a read that
  times out, raises instead.  Blank texts are dropped, so vectors are to be matched with
  the texts that are left.
* `utils/http_json.py`, `fetch_public_stats_body`: "exactly one field is non-empty".  An empty body,
  or an exception without a text, gives neither.
* `utils/trace_context.py`: what an RPC sets stays on the pool's thread, and a later RPC without
  metadata logs under it.
* A readiness of `failed` is final: an Ollama that comes up late needs a restart of the worker.

## 6. Not modelled, and why

* `OLLAMA_CB_DISABLED`, a worker without an `AIModelService`, `timeToReadySeconds`: switches
  that remove behaviour, or a number nothing depends on.
* `HOST_PROFILE_USE_INJECTED`, which turns the snapshot off for GetHostProfile; what the
  hardware probes collect.
* The two instances of the breaker that an unlucky first request may create.
* A prompt that is too long ends like an empty one: both are `bad_request`.
* A worker that crashes between `INCR` and `EXPIRE` leaves a key without a TTL, as a lost
  connection there does, which is modelled.
* Programs of the drive that run at one call and time out (4 s) at the next: which run is
  fixed for a deployment.
* The token and `MFAI_ALLOW_INSECURE` as blank against unset: one boolean each.
* The HTTP side of the host agent (a thread per request): a slot of `Collector` each.
* `MFAI_HEALTHCHECK_REQUIRES_TOKEN`, which only adds a refusal; how tokens are compared and URLs
  parsed.
* The clean-up of answers (but for the empty one), the wording of system prompts and the face context in them; the
  text of report templates, of `explain_decision` and of face context snapshots: functions
  of one request that format it.
* Sanitising for moderation and the URL policy: character-level predicates of one text.
* Metrics, usage totals and tracing: locked counters and context variables that nothing reads
  back to decide.
* The live stats planner and stitch: helpers the worker's handlers do not call.

## 7. Plan

1. Done: every stateful component, with the composition of those that interact; both
   abstract specifications (breaker, limiter) with their refinement; proofs of every
   invariant and action property of the runs.
2. The breaker singleton created twice, as a variant of `CircuitBreaker`'s first call.
3. An abstract specification of the snapshot (present or absent), implemented where no
   collector is late or unheard.

To run: `tlc -config <run>.cfg <module>` and `tlapm <module>.tla`; `PROJECT.json` names the
module and configuration of each run.
