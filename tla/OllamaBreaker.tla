--------------------------- MODULE OllamaBreaker ---------------------------
(***************************************************************************)
(* The state of utils/ollama_circuit_breaker.py: one OllamaCircuitBreaker  *)
(* shared by every worker thread, and the clock it reads.  The module has  *)
(* no behaviour of its own: CircuitBreaker and GenerateRpc build theirs    *)
(* from its operators.                                                     *)
(*                                                                         *)
(* record_success and record_failure hold the breaker's lock from their    *)
(* first to their last access (record_failure also reads the clock while   *)
(* it holds it), so each is one atomic update.  state() reads the clock    *)
(* BEFORE it takes the lock; its callers pass that earlier reading in.     *)
(***************************************************************************)
EXTENDS Integers

CONSTANTS Threshold,     \* OLLAMA_CB_FAILURE_THRESHOLD
          OpenSeconds,   \* OLLAMA_CB_OPEN_SECONDS
          MaxTime        \* bound on the model's clock

(* env_int takes any integer, a negative one included. *)
ASSUME BreakerAssumption == /\ Threshold \in Int
                            /\ OpenSeconds \in Int
                            /\ MaxTime \in Nat

VARIABLES now,           \* time.monotonic()
          failures,      \* _failures
          openUntil      \* _open_until

breakerVars == <<failures, openUntil>>

BreakerInit == failures = 0 /\ openUntil = 0

Tick == now < MaxTime /\ now' = now + 1

(* Mutant: half_open is looked at before open. *)
StateHalfOpenFirst(t) == IF failures > 0 THEN "half_open"
                         ELSE IF t < openUntil THEN "open" ELSE "closed"

(* state(), for a clock reading t. *)
BreakerState(t) == IF t < openUntil THEN "open"
                   ELSE IF failures > 0 THEN "half_open" ELSE "closed"

AllowRequest(t) == BreakerState(t) # "open"

(* Mutants: a success closes the breaker but keeps the failures counted; a *)
(* success takes back one failure.                                         *)
KeepFailuresOnSuccess == openUntil' = 0 /\ UNCHANGED failures

TakeBackOneFailure == failures' = failures - 1 /\ openUntil' = 0

RecordSuccess == failures' = 0 /\ openUntil' = 0

(* Mutants: the counter is not reset when the breaker opens; an opening    *)
(* adds to the one that is still running.                                  *)
KeepFailuresOnOpening ==
  /\ failures' = failures + 1
  /\ openUntil' = IF failures + 1 >= Threshold THEN now + OpenSeconds ELSE openUntil

ExtendOpening ==
  IF failures + 1 >= Threshold
  THEN /\ failures' = 0
       /\ openUntil' = (IF openUntil > now THEN openUntil ELSE now) + OpenSeconds
  ELSE failures' = failures + 1 /\ UNCHANGED openUntil

RecordFailure ==
  IF failures + 1 >= Threshold
  THEN failures' = 0 /\ openUntil' = now + OpenSeconds
  ELSE failures' = failures + 1 /\ UNCHANGED openUntil

=============================================================================
