--------------------------- MODULE BreakerPromise ---------------------------
(***************************************************************************)
(* What a circuit breaker promises, said of the history of outcomes and    *)
(* not of a counter: it trips at every Threshold-th failure of an unbroken *)
(* run of failures, stays open OpenSeconds from then, and a success ends   *)
(* both the run and the opening.  A call is admitted only when the breaker *)
(* is not tripped at that very moment, and refused only when it was        *)
(* tripped for the moment the call asked.                                  *)
(***************************************************************************)
EXTENDS Integers, Sequences

CONSTANTS Thread, Threshold, OpenSeconds

VARIABLES now, log, pc, askedAt

vars == <<now, log, pc, askedAt>>

(* Failures per opening: a threshold below 1 opens at every failure. *)
PerOpening == IF Threshold < 1 THEN 1 ELSE Threshold

(* Where the last success stands in the history, 0 if there is none: every *)
(* later outcome is a failure of the current run.                          *)
IsLastSuccess(l, b) == /\ b # 0 => l[b].ok
                       /\ \A j \in (b + 1)..Len(l) : ~l[j].ok

LastSuccess(l) == CHOOSE b \in 0..Len(l) : IsLastSuccess(l, b)

(* The failures of the current run that opened the breaker. *)
Trips(l) == {i \in (LastSuccess(l) + 1)..Len(l) : (i - LastSuccess(l)) % PerOpening = 0}

Tripped(l, t) == \E i \in Trips(l) : \* only the last one counts
                   /\ \A j \in Trips(l) : j <= i
                   /\ t < l[i].at + OpenSeconds

Init == /\ now = 0
        /\ log = << >>
        /\ pc = [t \in Thread |-> "idle"]
        /\ askedAt = [t \in Thread |-> 0]

Ask(t) == /\ pc[t] = "idle"
          /\ pc' = [pc EXCEPT ![t] = "asking"]
          /\ askedAt' = [askedAt EXCEPT ![t] = now]
          /\ UNCHANGED <<now, log>>

Admit(t) == /\ pc[t] = "asking" /\ ~Tripped(log, now)
            /\ pc' = [pc EXCEPT ![t] = "calling"]
            /\ UNCHANGED <<now, log, askedAt>>

Refuse(t) == /\ pc[t] = "asking" /\ Tripped(log, askedAt[t])
             /\ pc' = [pc EXCEPT ![t] = "idle"]
             /\ UNCHANGED <<now, log, askedAt>>

Finish(t) == /\ pc[t] = "calling"
             /\ pc' = [pc EXCEPT ![t] = "idle"]
             /\ \/ UNCHANGED log
                \/ \E ok \in BOOLEAN : log' = Append(log, [ok |-> ok, at |-> now])
             /\ UNCHANGED <<now, askedAt>>

Tick == now' = now + 1 /\ UNCHANGED <<log, pc, askedAt>>

Next == Tick \/ \E t \in Thread : Ask(t) \/ Admit(t) \/ Refuse(t) \/ Finish(t)

Spec == Init /\ [][Next]_vars

=============================================================================
