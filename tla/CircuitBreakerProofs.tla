------------------------ MODULE CircuitBreakerProofs ------------------------
(***************************************************************************)
(* Theorems of CircuitBreaker, for any set of threads, any integer         *)
(* threshold and window, and any bounds; among them that it implements     *)
(* BreakerPromise: the counter and the deadline the code keeps decide what *)
(* the history of outcomes says.                                           *)
(***************************************************************************)
EXTENDS CircuitBreaker, TLAPS

(* Every variable keeps its type: the counter never becomes negative and   *)
(* the history only holds outcomes, whatever order calls finish in.        *)
THEOREM BreakerTypeCorrect == Spec => []TypeOK
<1>1. Init => TypeOK
  BY DEF Init, TypeOK, BreakerInit
<1>2. TypeOK /\ [Next]_vars => TypeOK'
  <2> SUFFICES ASSUME TypeOK, [Next]_vars
               PROVE  TypeOK'
    OBVIOUS
  <2> USE DEF TypeOK
  <2>1. CASE Advance
    BY <2>1, BreakerAssumption DEF Advance, Tick, breakerVars
  <2>2. ASSUME NEW t \in Thread, Ask(t)
        PROVE  TypeOK'
    BY <2>2 DEF Ask, breakerVars
  <2>3. ASSUME NEW t \in Thread, Decide(t)
        PROVE  TypeOK'
    BY <2>3 DEF Decide, breakerVars
  <2>4. ASSUME NEW t \in Thread, Abandon(t)
        PROVE  TypeOK'
    BY <2>4 DEF Abandon, breakerVars
  <2>5. ASSUME NEW t \in Thread, NEW ok \in BOOLEAN, Report(t, ok)
        PROVE  TypeOK'
    <3>1. [ok |-> ok, at |-> now] \in Outcome
      BY DEF Outcome
    <3>2. log' \in Seq(Outcome)
      BY <2>5, <3>1 DEF Report
    <3>3. failures' \in Nat /\ openUntil' \in Int
      BY <2>5, BreakerAssumption DEF Report, RecordSuccess, RecordFailure
    <3>4. /\ now' = now
          /\ askedAt' = askedAt
          /\ pc' \in [Thread -> {"idle", "asking", "calling"}]
      BY <2>5 DEF Report
    <3> QED
      BY <3>2, <3>3, <3>4
  <2>6. CASE UNCHANGED vars
    BY <2>6 DEF vars
  <2> QED
    BY <2>1, <2>2, <2>3, <2>4, <2>5, <2>6 DEF Next
<1> QED
  BY <1>1, <1>2, PTL DEF Spec

-----------------------------------------------------------------------------
(***************************************************************************)
(* What makes the safety properties inductive: a thread's clock reading is *)
(* never ahead of the clock, so a deadline that has passed for the reading *)
(* has passed for the clock.                                               *)
(***************************************************************************)
ReadingsArePast == \A t \in Thread : askedAt[t] <= now

IInv == TypeOK /\ WindowBounded /\ CountBelowThreshold /\ ReadingsArePast

(* The invariant holds before the first call. *)
LEMMA IInvInitially == Init => IInv
  BY DEF Init, IInv, TypeOK, WindowBounded, CountBelowThreshold, ReadingsArePast, BreakerInit

(* No step of any caller breaks the invariant. *)
LEMMA IInvPreserved == TypeOK' /\ IInv /\ [Next]_vars => IInv'
<1> SUFFICES ASSUME TypeOK', IInv, [Next]_vars
             PROVE  IInv'
  OBVIOUS
<1> USE BreakerAssumption DEF IInv, TypeOK, WindowBounded, CountBelowThreshold, ReadingsArePast
<1>1. CASE Advance
  <2>1. now' = now + 1 /\ UNCHANGED <<failures, openUntil, pc, askedAt, log>>
    BY <1>1 DEF Advance, Tick, breakerVars
  <2> QED
    BY <2>1
<1>2. ASSUME NEW t \in Thread, Ask(t)
      PROVE  IInv'
  BY <1>2 DEF Ask, breakerVars
<1>3. ASSUME NEW t \in Thread, Decide(t)
      PROVE  IInv'
  BY <1>3 DEF Decide, breakerVars
<1>4. ASSUME NEW t \in Thread, Abandon(t)
      PROVE  IInv'
  BY <1>4 DEF Abandon, breakerVars
<1>5. ASSUME NEW t \in Thread, NEW ok \in BOOLEAN, Report(t, ok)
      PROVE  IInv'
  <2>1. UNCHANGED <<now, askedAt>>
    BY <1>5 DEF Report
  <2>2. CASE ok
    <3>1. failures' = 0 /\ openUntil' = 0
      BY <1>5, <2>2 DEF Report, RecordSuccess
    <3> QED
      BY <2>1, <3>1
  <2>3. CASE ~ok
    <3>1. RecordFailure
      BY <1>5, <2>3 DEF Report
    <3>2. CountBelowThreshold'
      BY <3>1, <2>1 DEF RecordFailure
    <3>3. WindowBounded'
      BY <3>1, <2>1 DEF RecordFailure
    <3> QED
      BY <3>2, <3>3, <2>1
  <2> QED
    BY <2>2, <2>3
<1>6. CASE UNCHANGED vars
  BY <1>6 DEF vars
<1> QED
  BY <1>1, <1>2, <1>3, <1>4, <1>5, <1>6 DEF Next

(* The invariant holds at all times. *)
LEMMA IInvHolds == Spec => []IInv
<1>1. Spec => []TypeOK
  BY BreakerTypeCorrect
<1>2. TypeOK' /\ IInv /\ [Next]_vars => IInv'
  BY IInvPreserved
<1>3. Init => IInv
  BY IInvInitially
<1> QED
  BY <1>1, <1>2, <1>3, PTL DEF Spec

(* Whatever order the outcomes of overlapping calls arrive in, an opening  *)
(* ends at most OpenSeconds after the present: record_failure sets the     *)
(* deadline, it never adds to it.                                          *)
THEOREM OpeningsNeverStack == Spec => []WindowBounded
<1>1. IInv => WindowBounded
  BY DEF IInv
<1> QED
  BY <1>1, IInvHolds, PTL

(* ... and the count of failures stays below the threshold, also when the  *)
(* late ones of an earlier opening arrive: record_failure resets it.       *)
THEOREM CountStaysBelow == Spec => []CountBelowThreshold
<1>1. IInv => CountBelowThreshold
  BY DEF IInv
<1> QED
  BY <1>1, IInvHolds, PTL

(* No call is admitted while the breaker is open, although the clock is    *)
(* read before the lock is taken and the breaker changes in between.       *)
THEOREM NoAdmissionWhileOpen == Spec => AdmitsOnlyWhenClosed
<1> DEFINE A == \A t \in Thread :
                  pc[t] = "asking" /\ pc'[t] = "calling" => now >= openUntil
<1>1. Spec => []IInv
  BY IInvHolds
<1>2. IInv /\ [Next]_vars => [A]_vars
  <2> SUFFICES ASSUME IInv, Next, NEW u \in Thread, pc[u] = "asking", pc'[u] = "calling"
               PROVE  now >= openUntil
    BY DEF A
  <2> USE DEF IInv, TypeOK
  <2>1. CASE Advance
    BY <2>1 DEF Advance
  <2>2. ASSUME NEW t \in Thread, Ask(t)
        PROVE  now >= openUntil
    BY <2>2 DEF Ask
  <2>3. ASSUME NEW t \in Thread, Decide(t)
        PROVE  now >= openUntil
    <3>1. t = u
      BY <2>3 DEF Decide
    <3>2. AllowRequest(askedAt[u])
      BY <2>3, <3>1 DEF Decide
    <3>3. askedAt[u] >= openUntil
      BY <3>2 DEF AllowRequest, BreakerState
    <3> QED
      BY <3>3 DEF ReadingsArePast
  <2>4. ASSUME NEW t \in Thread, Abandon(t)
        PROVE  now >= openUntil
    BY <2>4 DEF Abandon
  <2>5. ASSUME NEW t \in Thread, NEW ok \in BOOLEAN, Report(t, ok)
        PROVE  now >= openUntil
    BY <2>5 DEF Report
  <2> QED
    BY <2>1, <2>2, <2>3, <2>4, <2>5 DEF Next
<1> QED
  BY <1>1, <1>2, PTL DEF Spec, AdmitsOnlyWhenClosed

-----------------------------------------------------------------------------
(* Remainders: what adding one to a number does to its remainder.          *)

(* A multiple of a positive number is no smaller than the other factor. *)
LEMMA ProductAtLeast ==
  ASSUME NEW p \in Nat, NEW d \in Nat, d >= 1
  PROVE  p * d >= p
<1>1. p * d = (p * (d - 1)) + p
  BY SMTT(30)
<1>2. p * (d - 1) >= 0
  BY SMTT(30)
<1> QED
  BY <1>1, <1>2

(* A remainder is the only one. *)
LEMMA RemainderUnique ==
  ASSUME NEW n \in Nat, NEW p \in Nat, p >= 1, NEW q \in Nat, NEW s \in 0..(p-1),
         n = (p * q) + s
  PROVE  n % p = s
<1> DEFINE m == n % p
           k == n \div p
<1>1. m \in 0..(p-1) /\ k \in Nat /\ n = (p * k) + m
  BY SMTT(30)
<1> HIDE DEF m, k
<1>2. ~(k > q)
  <2> SUFFICES ASSUME k > q PROVE FALSE
    OBVIOUS
  <2>1. p * (k - q) >= p
    BY <1>1, ProductAtLeast
  <2>2. p * (k - q) = (p * k) - (p * q)
    BY <1>1, SMTT(30)
  <2> QED
    BY <2>1, <2>2, <1>1
<1>3. ~(q > k)
  <2> SUFFICES ASSUME q > k PROVE FALSE
    OBVIOUS
  <2>1. p * (q - k) >= p
    BY <1>1, ProductAtLeast
  <2>2. p * (q - k) = (p * q) - (p * k)
    BY <1>1, SMTT(30)
  <2> QED
    BY <2>1, <2>2, <1>1
<1>4. m = s
  BY <1>1, <1>2, <1>3
<1> QED
  BY <1>4 DEF m

(* The remainder of the next number. *)
LEMMA RemainderOfNext ==
  ASSUME NEW r \in Nat, NEW p \in Nat, p >= 1
  PROVE  /\ r % p \in 0..(p-1)
         /\ (r % p) + 1 = p => (r + 1) % p = 0
         /\ (r % p) + 1 # p => (r + 1) % p = (r % p) + 1
<1>1. (r % p) \in 0..(p-1)
  BY SMTT(30)
<1>2. r = (p * (r \div p)) + (r % p) /\ (r \div p) \in Nat
  BY SMTT(30)
<1>3. ASSUME (r % p) + 1 = p
      PROVE  (r + 1) % p = 0
  <2> DEFINE q == (r \div p) + 1
  <2>1. r + 1 = (p * q) + 0
    BY <1>1, <1>2, <1>3, SMTT(30)
  <2>2. q \in Nat /\ 0 \in 0..(p-1) /\ r + 1 \in Nat
    BY <1>2
  <2> HIDE DEF q
  <2> QED
    BY <2>1, <2>2, RemainderUnique
<1>4. ASSUME (r % p) + 1 # p
      PROVE  (r + 1) % p = (r % p) + 1
  <2>1. r + 1 = (p * (r \div p)) + ((r % p) + 1)
    BY <1>1, <1>2, SMTT(30)
  <2> QED
    BY <2>1, <1>1, <1>2, <1>4, RemainderUnique
<1> QED
  BY <1>1, <1>3, <1>4

-----------------------------------------------------------------------------
(* How one more outcome changes what the history says.                     *)

(* The last success is the only one. *)
LEMMA LastSuccessUnique ==
  ASSUME NEW l \in Seq(Outcome), NEW b \in 0..Len(l), Promise!IsLastSuccess(l, b)
  PROVE  Promise!LastSuccess(l) = b
<1>1. ASSUME NEW c \in 0..Len(l), Promise!IsLastSuccess(l, c)
      PROVE  c = b
  BY <1>1 DEF Promise!IsLastSuccess
<1> QED
  BY <1>1 DEF Promise!LastSuccess

(* A success ends the run of failures. *)
LEMMA SuccessEndsRun ==
  ASSUME NEW l \in Seq(Outcome), NEW o \in Outcome, o.ok
  PROVE  /\ Promise!LastSuccess(Append(l, o)) = Len(l) + 1
         /\ Promise!IsLastSuccess(Append(l, o), Len(l) + 1)
         /\ Promise!Trips(Append(l, o)) = {}
<1> DEFINE m == Append(l, o)
<1>1. m \in Seq(Outcome) /\ Len(m) = Len(l) + 1 /\ Len(l) \in Nat /\ m[Len(l) + 1] = o
  OBVIOUS
<1> HIDE DEF m
<1>2. Promise!IsLastSuccess(m, Len(l) + 1)
  BY <1>1 DEF Promise!IsLastSuccess
<1>3. Promise!LastSuccess(m) = Len(l) + 1
  BY <1>1, <1>2, LastSuccessUnique
<1>4. Promise!Trips(m) = {}
  BY <1>1, <1>3 DEF Promise!Trips
<1> QED
  BY <1>2, <1>3, <1>4 DEF m

(* A failure makes the run one longer. *)
LEMMA FailureExtendsRun ==
  ASSUME NEW l \in Seq(Outcome), NEW o \in Outcome, ~o.ok,
         NEW b \in 0..Len(l), Promise!IsLastSuccess(l, b)
  PROVE  /\ Promise!LastSuccess(Append(l, o)) = b
         /\ Promise!IsLastSuccess(Append(l, o), b)
         /\ Promise!Trips(Append(l, o)) =
              Promise!Trips(l) \cup {i \in {Len(l) + 1} :
                                       (Len(l) + 1 - b) % Promise!PerOpening = 0}
<1> DEFINE m == Append(l, o)
<1>1. /\ m \in Seq(Outcome) /\ Len(m) = Len(l) + 1 /\ Len(l) \in Nat /\ m[Len(l) + 1] = o
      /\ \A i \in 1..Len(l) : m[i] = l[i]
  OBVIOUS
<1> HIDE DEF m
<1>2. Promise!IsLastSuccess(m, b)
  BY <1>1 DEF Promise!IsLastSuccess
<1>3. Promise!LastSuccess(m) = b /\ Promise!LastSuccess(l) = b
  BY <1>1, <1>2, LastSuccessUnique
<1>4. (b + 1)..(Len(l) + 1) = ((b + 1)..Len(l)) \cup {Len(l) + 1}
  BY <1>1
<1>5. Promise!Trips(m) = Promise!Trips(l) \cup
                           {i \in {Len(l) + 1} : (Len(l) + 1 - b) % Promise!PerOpening = 0}
  BY <1>1, <1>3, <1>4 DEF Promise!Trips
<1> QED
  BY <1>2, <1>3, <1>5 DEF m

-----------------------------------------------------------------------------
(* The invariant: the counter is the length of the current run of failures *)
(* modulo the failures per opening, and the deadline is that of the last   *)
(* failure of the run that tripped the breaker.                            *)
Digest == /\ Promise!LastSuccess(log) \in 0..Len(log)
          /\ Promise!IsLastSuccess(log, Promise!LastSuccess(log))
          /\ failures = (Len(log) - Promise!LastSuccess(log)) % Promise!PerOpening
          /\ Promise!Trips(log) = {} => openUntil = 0
          /\ Promise!Trips(log) # {} =>
               \E i \in Promise!Trips(log) : /\ \A j \in Promise!Trips(log) : j <= i
                                            /\ openUntil = log[i].at + OpenSeconds

(* An opening takes at least one failure. *)
LEMMA PerOpeningType == Promise!PerOpening \in Nat /\ Promise!PerOpening >= 1
  BY BreakerAssumption DEF Promise!PerOpening

(* A trip is one of the outcomes. *)
LEMMA TripsAreOutcomes ==
  ASSUME TypeOK, Digest
  PROVE  /\ Len(log) \in Nat
         /\ Promise!Trips(log) \subseteq 1..Len(log)
         /\ \A i \in Promise!Trips(log) : log[i].at \in Nat
<1>1. log \in Seq(Outcome) /\ Len(log) \in Nat
  BY DEF TypeOK
<1>2. Promise!Trips(log) \subseteq 1..Len(log)
  BY <1>1 DEF Promise!Trips, Digest
<1>3. ASSUME NEW i \in 1..Len(log)
      PROVE  log[i].at \in Nat
  <2>1. log[i] \in Outcome
    BY <1>1
  <2> QED
    BY <2>1 DEF Outcome
<1> QED
  BY <1>1, <1>2, <1>3

(* Under the digest, being tripped and being open are the same thing.      *)
LEMMA OpenIsTripped ==
  ASSUME TypeOK, Digest, NEW t \in Nat
  PROVE  Promise!Tripped(log, t) <=> t < openUntil
<1>1. /\ Promise!Trips(log) \subseteq 1..Len(log) /\ Len(log) \in Nat
      /\ \A i \in Promise!Trips(log) : log[i].at \in Nat
  BY TripsAreOutcomes
<1>3. CASE Promise!Trips(log) = {}
  BY <1>3 DEF Digest, Promise!Tripped
<1>4. CASE Promise!Trips(log) # {}
  <2>1. PICK i \in Promise!Trips(log) : /\ \A j \in Promise!Trips(log) : j <= i
                                       /\ openUntil = log[i].at + OpenSeconds
    BY <1>4 DEF Digest
  <2>2. \A k \in Promise!Trips(log) :
           (\A j \in Promise!Trips(log) : j <= k) => k = i
    BY <2>1, <1>1
  <2> QED
    BY <2>1, <2>2 DEF Promise!Tripped
<1> QED
  BY <1>3, <1>4

(* The digest holds before the first outcome. *)
LEMMA DigestInitially == Init => Digest
<1> SUFFICES ASSUME Init PROVE Digest
  OBVIOUS
<1>1. log = << >> /\ failures = 0 /\ openUntil = 0
  BY DEF Init, BreakerInit
<1>2. log \in Seq(Outcome) /\ Len(log) = 0 /\ 0 \in 0..Len(log)
  BY <1>1
<1>3. Promise!IsLastSuccess(log, 0)
  BY <1>2 DEF Promise!IsLastSuccess
<1>4. Promise!LastSuccess(log) = 0
  <2> HIDE DEF Init
  <2> QED
    BY <1>2, <1>3, LastSuccessUnique
<1>5. Promise!Trips(log) = {}
  BY <1>2, <1>4 DEF Promise!Trips
<1>6. 0 % Promise!PerOpening = 0
  BY PerOpeningType, SMTT(30)
<1> QED
  BY <1>1, <1>2, <1>3, <1>4, <1>5, <1>6 DEF Digest

(* The digest holds of a history one outcome longer. *)
LEMMA DigestAfterReport ==
  ASSUME TypeOK, Digest, NEW t \in Thread, NEW ok \in BOOLEAN, Report(t, ok)
  PROVE  Digest'
<1> DEFINE o == [ok |-> ok, at |-> now]
           b == Promise!LastSuccess(log)
           r == Len(log) - b
           p == Promise!PerOpening
<1>1. o \in Outcome /\ log' = Append(log, o) /\ log \in Seq(Outcome)
  BY DEF Report, TypeOK, Outcome
<1>2. CASE ok
  <2>1. failures' = 0 /\ openUntil' = 0
    BY <1>2 DEF Report, RecordSuccess
  <2>2. /\ Promise!LastSuccess(log') = Len(log) + 1
        /\ Promise!IsLastSuccess(log', Len(log) + 1)
        /\ Promise!Trips(log') = {}
    BY <1>1, <1>2, SuccessEndsRun
  <2>3. Len(log') = Len(log) + 1 /\ Len(log) \in Nat
    BY <1>1
  <2>4. 0 % Promise!PerOpening = 0
    BY PerOpeningType, SMTT(30)
  <2> QED
    BY <2>1, <2>2, <2>3, <2>4 DEF Digest
<1>3. CASE ~ok
  <2>1. RecordFailure
    BY <1>3 DEF Report
  <2>2. /\ Promise!LastSuccess(log') = b
        /\ Promise!IsLastSuccess(log', b)
        /\ Promise!Trips(log') = Promise!Trips(log) \cup
                                   {i \in {Len(log) + 1} : (r + 1) % p = 0}
    <3>1. b \in 0..Len(log) /\ Promise!IsLastSuccess(log, b)
      BY DEF Digest
    <3>2. Len(log) + 1 - b = r + 1
      BY <1>1, <3>1
    <3> HIDE DEF b, r, o
    <3> QED
      BY <1>1, <1>3, <3>1, <3>2, FailureExtendsRun DEF o
  <2>3. /\ r \in Nat /\ p \in Nat /\ p >= 1 /\ b \in 0..Len(log)
        /\ Len(log) \in Nat /\ Len(log') = Len(log) + 1
        /\ Len(log') - b = r + 1
        /\ Promise!Trips(log) \subseteq 1..Len(log)
    BY <1>1, PerOpeningType, TripsAreOutcomes DEF Digest
  <2>4. /\ r % p \in 0..(p-1)
        /\ (r % p) + 1 = p => (r + 1) % p = 0
        /\ (r % p) + 1 # p => (r + 1) % p = (r % p) + 1
    BY <2>3, RemainderOfNext
  <2>5. failures = r % p
    BY DEF Digest
  <2>6. failures + 1 >= Threshold <=> failures + 1 = p
    BY <2>4, <2>5, BreakerAssumption DEF Promise!PerOpening
  <2>7. /\ \A i \in 1..Len(log) : log'[i] = log[i]
        /\ log'[Len(log) + 1].at = now
    BY <1>1
  <2> HIDE DEF b, r, p, o
  <2>8. CASE failures + 1 = p
    <3>1. failures' = 0 /\ openUntil' = now + OpenSeconds
      BY <2>1, <2>6, <2>8 DEF RecordFailure
    <3>2. (r + 1) % p = 0
      BY <2>4, <2>5, <2>8
    <3>3. Promise!Trips(log') = Promise!Trips(log) \cup {Len(log) + 1}
      BY <2>2, <3>2
    <3>4. failures' = (Len(log') - Promise!LastSuccess(log')) % Promise!PerOpening
      BY <3>1, <3>2, <2>2, <2>3 DEF p
    <3>5. Len(log) + 1 \in Promise!Trips(log')
      BY <3>3
    <3>6. \A j \in Promise!Trips(log') : j <= Len(log) + 1
      BY <3>3, <2>3
    <3>7. openUntil' = log'[Len(log) + 1].at + OpenSeconds
      BY <3>1, <2>7
    <3> QED
      BY <2>2, <2>3, <3>4, <3>5, <3>6, <3>7 DEF Digest
  <2>9. CASE failures + 1 # p
    <3>1. failures' = failures + 1 /\ openUntil' = openUntil
      BY <2>1, <2>6, <2>9 DEF RecordFailure
    <3>2. (r + 1) % p = (r % p) + 1 /\ (r + 1) % p # 0
      BY <2>4, <2>5, <2>9
    <3>3. Promise!Trips(log') = Promise!Trips(log)
      BY <2>2, <3>2
    <3>4. failures' = (Len(log') - Promise!LastSuccess(log')) % Promise!PerOpening
      BY <3>1, <3>2, <2>2, <2>3, <2>5 DEF p
    <3>5. Promise!Trips(log') = {} => openUntil' = 0
      BY <3>1, <3>3 DEF Digest
    <3>6. ASSUME Promise!Trips(log') # {}
          PROVE  \E i \in Promise!Trips(log') :
                   /\ \A j \in Promise!Trips(log') : j <= i
                   /\ openUntil' = log'[i].at + OpenSeconds
      <4>1. PICK i \in Promise!Trips(log) : /\ \A j \in Promise!Trips(log) : j <= i
                                           /\ openUntil = log[i].at + OpenSeconds
        BY <3>3, <3>6 DEF Digest
      <4>2. log'[i] = log[i]
        BY <2>3, <2>7
      <4> QED
        BY <4>1, <4>2, <3>1, <3>3
    <3> QED
      BY <2>2, <2>3, <3>4, <3>5, <3>6 DEF Digest
  <2> QED
    BY <2>8, <2>9
<1> QED
  BY <1>2, <1>3

(* No step breaks the digest. *)
LEMMA DigestPreserved == TypeOK /\ Digest /\ [Next]_vars => Digest'
<1> SUFFICES ASSUME TypeOK, Digest, [Next]_vars
             PROVE  Digest'
  OBVIOUS
<1>1. CASE UNCHANGED <<failures, openUntil, log>>
  <2>1. failures' = failures /\ openUntil' = openUntil /\ log' = log
    BY <1>1
  <2> QED
    BY <2>1 DEF Digest
<1>2. ASSUME NEW t \in Thread, NEW ok \in BOOLEAN, Report(t, ok)
      PROVE  Digest'
  BY <1>2, DigestAfterReport
<1> QED
  BY <1>1, <1>2 DEF Next, vars, Advance, Tick, Ask, Decide, Abandon, breakerVars

(* Whatever the interleaving of overlapping calls, the breaker refuses and *)
(* admits as the history of outcomes demands: the counter and deadline of  *)
(* OllamaCircuitBreaker implement BreakerPromise.                          *)
THEOREM BreakerImplementsPromise == Spec => KeepsPromise
<1>1. Init => Promise!Init
  BY DEF Init, Promise!Init
<1>2. TypeOK /\ IInv /\ Digest /\ [Next]_vars => [Promise!Next]_(Promise!vars)
  <2> SUFFICES ASSUME TypeOK, IInv, Digest, [Next]_vars
               PROVE  Promise!Next \/ UNCHANGED Promise!vars
    OBVIOUS
  <2>1. CASE Advance
    BY <2>1 DEF Advance, Tick, Promise!Tick, Promise!Next
  <2>2. ASSUME NEW t \in Thread, Ask(t)
        PROVE  Promise!Next
    BY <2>2 DEF Ask, Promise!Ask, Promise!Next
  <2>3. ASSUME NEW t \in Thread, Decide(t)
        PROVE  Promise!Next
    <3>1. /\ askedAt[t] \in Nat /\ now \in Nat /\ askedAt[t] <= now
          /\ openUntil \in Int
      BY DEF IInv, TypeOK, ReadingsArePast
    <3>2. CASE AllowRequest(askedAt[t])
      <4>1. ~(now < openUntil)
        BY <3>1, <3>2 DEF AllowRequest, BreakerState
      <4>2. Promise!Admit(t)
        BY <2>3, <3>1, <3>2, <4>1, OpenIsTripped DEF Decide, Promise!Admit
      <4> QED
        BY <4>2 DEF Promise!Next
    <3>3. CASE ~AllowRequest(askedAt[t])
      <4>1. askedAt[t] < openUntil
        BY <3>1, <3>3 DEF AllowRequest, BreakerState
      <4>2. Promise!Refuse(t)
        BY <2>3, <3>1, <3>3, <4>1, OpenIsTripped DEF Decide, Promise!Refuse
      <4> QED
        BY <4>2 DEF Promise!Next
    <3> QED
      BY <3>2, <3>3
  <2>4. ASSUME NEW t \in Thread, Abandon(t)
        PROVE  Promise!Next
    BY <2>4 DEF Abandon, Promise!Finish, Promise!Next
  <2>5. ASSUME NEW t \in Thread, NEW ok \in BOOLEAN, Report(t, ok)
        PROVE  Promise!Next
    BY <2>5 DEF Report, Promise!Finish, Promise!Next
  <2>6. CASE UNCHANGED vars
    BY <2>6 DEF vars, Promise!vars
  <2> QED
    BY <2>1, <2>2, <2>3, <2>4, <2>5, <2>6 DEF Next
<1>3. Spec => []TypeOK
  BY BreakerTypeCorrect
<1>4. Spec => []IInv
  BY IInvHolds
<1>5. Init => Digest
  BY DigestInitially
<1>6. TypeOK /\ Digest /\ [Next]_vars => Digest'
  BY DigestPreserved
<1> QED
  BY <1>1, <1>2, <1>3, <1>4, <1>5, <1>6, PTL DEF Spec, KeepsPromise, Promise!Spec

=============================================================================
