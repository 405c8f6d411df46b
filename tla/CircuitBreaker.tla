--------------------------- MODULE CircuitBreaker ---------------------------
(***************************************************************************)
(* The circuit breaker as the RPC handlers use it: the threads of the gRPC *)
(* pool ask allow_request(), call Ollama when allowed, and report how the  *)
(* call went.  Calls overlap, so outcomes arrive while the breaker is open *)
(* and in another order than the calls were admitted.                      *)
(***************************************************************************)
EXTENDS OllamaBreaker, Sequences

CONSTANTS Thread,        \* the pool's threads (server.py:230)
          MaxLog         \* bound on the outcomes recorded

ASSUME CallerAssumption == MaxLog \in Nat

VARIABLES pc,            \* "idle", "asking" (clock read, lock not yet taken), "calling"
          askedAt,       \* the clock reading state() took before the lock
          log            \* history: every outcome recorded, with its time

vars == <<now, failures, openUntil, pc, askedAt, log>>

Outcome == [ok : BOOLEAN, at : Nat]

Init == /\ now = 0
        /\ BreakerInit
        /\ pc = [t \in Thread |-> "idle"]
        /\ askedAt = [t \in Thread |-> 0]
        /\ log = << >>

(* allow_request() is called: state() reads the clock. *)
Ask(t) == /\ pc[t] = "idle"
          /\ pc' = [pc EXCEPT ![t] = "asking"]
          /\ askedAt' = [askedAt EXCEPT ![t] = now]
          /\ UNCHANGED <<now, breakerVars, log>>

(* state() holds the lock: the call is admitted or refused. *)
Decide(t) == /\ pc[t] = "asking"
             /\ pc' = [pc EXCEPT ![t] = IF AllowRequest(askedAt[t]) THEN "calling" ELSE "idle"]
             /\ UNCHANGED <<now, breakerVars, askedAt, log>>

(* The call ends and its outcome is recorded. *)
Report(t, ok) == /\ pc[t] = "calling" /\ Len(log) < MaxLog
                 /\ IF ok THEN RecordSuccess ELSE RecordFailure
                 /\ pc' = [pc EXCEPT ![t] = "idle"]
                 /\ log' = Append(log, [ok |-> ok, at |-> now])
                 /\ UNCHANGED <<now, askedAt>>

(* The caller leaves without reporting: a later gate refused the request,  *)
(* or the client cancelled a stream (GeneratorExit is no Exception).       *)
Abandon(t) == /\ pc[t] = "calling"
              /\ pc' = [pc EXCEPT ![t] = "idle"]
              /\ UNCHANGED <<now, breakerVars, askedAt, log>>

Advance == Tick /\ UNCHANGED <<breakerVars, pc, askedAt, log>>

Next == \/ Advance
        \/ \E t \in Thread : \/ Ask(t) \/ Decide(t) \/ Abandon(t)
                             \/ \E ok \in BOOLEAN : Report(t, ok)

Spec == Init /\ [][Next]_vars

-----------------------------------------------------------------------------

TypeOK == /\ now \in Nat
          /\ failures \in Nat
          /\ openUntil \in Int
          /\ pc \in [Thread -> {"idle", "asking", "calling"}]
          /\ askedAt \in [Thread -> Nat]
          /\ log \in Seq(Outcome)

(* However late the outcomes of calls admitted before an opening arrive,   *)
(* an opening lasts at most OpenSeconds from the present: failures that    *)
(* land while the breaker is open never stack openings on each other.      *)
WindowBounded == openUntil = 0 \/ openUntil <= now + OpenSeconds

(* Failures below the threshold are all the breaker remembers, so that the *)
(* failure that reaches the threshold always finds the count one short.    *)
CountBelowThreshold == failures = 0 \/ failures < Threshold

(* A thread's clock reading may be old when it gets the lock, and outcomes *)
(* may have opened or closed the breaker since; still no call is admitted  *)
(* while the breaker is open by the clock of that moment.                  *)
AdmitsOnlyWhenClosed ==
  [][\A t \in Thread :
       pc[t] = "asking" /\ pc'[t] = "calling" => now >= openUntil]_vars

(* The counter and the deadline are a faithful digest of the history of    *)
(* outcomes: the breaker's decisions are the ones BreakerPromise allows.   *)
Promise == INSTANCE BreakerPromise
KeepsPromise == Promise!Spec

=============================================================================
