-------------------------- MODULE RateLimiterProofs --------------------------
(***************************************************************************)
(* Theorems of RateLimiter, for any finite pool of threads, any methods,   *)
(* limits and windows, with Redis or without, and whatever errors Redis    *)
(* may give.                                                               *)
(***************************************************************************)
EXTENDS RateLimiter, SequenceTheorems, FiniteSetTheorems, TLAPS

(* Time passes window by window. *)
LEMMA DivMonotone == \A a, b \in Nat, w \in Nat \ {0} : a <= b => a \div w <= b \div w
  BY SMT

LEMMA DivLow == \A a \in Nat, w \in Nat \ {0} : a \div w \in Nat /\ (a \div w) * w <= a
  BY SMT

(* A moment past the end of a window lies in a later one. *)
LEMMA DivPast == \A a, k \in Nat, w \in Nat \ {0} : k * w + w <= a => k < a \div w
  BY SMT

(* The window of a clock reading is one the model counts. *)
LEMMA WindowTyped ==
  ASSUME NEW i \in Times
  PROVE  i \div Window \in Windows
<1>1. i \in Nat /\ i <= MaxTime
  BY LimiterAssumption DEF Times
<1>2. i \div Window <= MaxTime \div Window
  BY <1>1, DivMonotone, LimiterAssumption
<1>3. i \div Window \in Nat /\ MaxTime \div Window \in Nat
  BY <1>1, DivLow, LimiterAssumption
<1> QED BY <1>2, <1>3 DEF Windows

(* Windows, and the present one, are numbers. *)
LEMMA PresentTyped ==
  ASSUME TypeOK, NEW w \in Windows
  PROVE  w \in Nat /\ now \div Window \in Nat
<1>1. now \in Nat
  BY LimiterAssumption DEF TypeOK, Times
<1>2. now \div Window \in Nat
  BY <1>1, DivLow, LimiterAssumption
<1>3. w \in Nat
  BY DEF Windows
<1> QED BY <1>2, <1>3

-----------------------------------------------------------------------------
(* Types.                                                                  *)

(* What TypeOK says of the threads. *)
Placed == /\ pc \in [Thread -> Places]
          /\ method \in [Thread -> Method \cup {"none"}]
          /\ \A t \in Thread : pc[t] = "idle" <=> method[t] = "none"
          /\ sampled \in [Thread -> Times]

(* A thread in a call has a method of its own. *)
LEMMA MethodTyped ==
  ASSUME TypeOK, NEW t \in Thread, pc[t] # "idle"
  PROVE  method[t] \in Method
  BY DEF TypeOK

(* A thread that moves on in its call, or ends it, is where a thread may be. *)
LEMMA GotoTyped ==
  ASSUME TypeOK, NEW t \in Thread, pc[t] # "idle", NEW place \in Places, Goto(t, place)
  PROVE  Placed'
<1> USE DEF TypeOK, Placed, Goto
<1>1. 0 \in Times
  BY LimiterAssumption DEF Times
<1>2. CASE place = "idle"
  BY <1>1, <1>2
<1>3. CASE place # "idle"
  BY <1>3
<1> QED BY <1>2, <1>3

(* ... also when it reads the clock on the way. *)
LEMMA GotoSamplingTyped ==
  ASSUME TypeOK, NEW t \in Thread, pc[t] # "idle", NEW place \in Places \ {"idle"},
         GotoSampling(t, place)
  PROVE  Placed'
  BY DEF TypeOK, Placed, GotoSampling

(* Counting one call more keeps a count a count. *)
LEMMA OneMoreTyped ==
  ASSUME NEW S, NEW h \in [Method -> [S -> Nat]], NEW m \in Method, NEW i \in S
  PROVE  OneMore(h, m, i) \in [Method -> [S -> Nat]]
  BY DEF OneMore

(* So does Redis. *)
LEMMA IncrementedTyped ==
  ASSUME TypeOK, NEW m \in Method, NEW w \in Windows, Incremented(m, w)
  PROVE  counter' \in [Method -> [Windows -> Nat]] /\ deadline' \in [Method -> [Windows -> Nat]]
  BY DEF TypeOK, Incremented, IncrementOf

(* The rest of the state, where a step only moves a thread. *)
Rest == <<now, distributed, bucket, redisVars, calls, history>>

LEMMA OnlyMoved ==
  ASSUME TypeOK, Placed', UNCHANGED Rest
  PROVE  TypeOK'
  BY DEF TypeOK, Placed, Rest, redisVars, history

(* The types hold at the start. *)
LEMMA TypeInitially == Init => TypeOK
<1> SUFFICES ASSUME Init PROVE TypeOK
  OBVIOUS
<1>1. 0 \in Times
  BY LimiterAssumption DEF Times
<1>2. None(Windows) \in [Method -> [Windows -> Nat]]
  BY DEF None
<1>3. bucket \in [Method -> Seq(Times)] /\ entries \in [Method -> Seq(Times)]
  BY DEF Init
<1>4. Placed
  BY <1>1, LimiterAssumption DEF Init, Placed, Places
<1>5. now \in Times /\ calls \in 0..MaxCalls /\ forsaken \subseteq Method \X Windows
  BY <1>1, LimiterAssumption DEF Init
<1>7. /\ distributed \in BOOLEAN /\ resolved \in BOOLEAN /\ client \in BOOLEAN
      /\ overlapped \in BOOLEAN
  BY LimiterAssumption, Zenon DEF Init
<1>6. /\ counter = None(Windows) /\ deadline = None(Windows)
      /\ counted = None(Windows) /\ waved = None(Windows)
  BY DEF Init
<1> QED BY <1>2, <1>3, <1>4, <1>5, <1>6, <1>7 DEF TypeOK, Placed

(* No step breaks the types. *)
LEMMA TypePreserved == TypeOK /\ [Next]_vars => TypeOK'
<1> SUFFICES ASSUME TypeOK, [Next]_vars PROVE TypeOK'
  OBVIOUS
<1>1. CASE Tick
  <2>1. now' \in Times
    BY <1>1, LimiterAssumption DEF Tick, TypeOK, Times
  <2> QED BY <1>1, <2>1 DEF Tick, TypeOK, redisVars, threadVars, history
<1>2. ASSUME NEW t \in Thread, Call(t) PROVE TypeOK'
  <2>1. Placed'
    BY <1>2, LimiterAssumption DEF Call, TypeOK, Placed, Places
  <2>2. calls' \in 0..MaxCalls
    BY <1>2, LimiterAssumption DEF Call, TypeOK
  <2> QED BY <1>2, <2>1, <2>2 DEF Call, TypeOK, Placed, redisVars, history
<1>3. ASSUME NEW t \in Thread, Resolve(t) PROVE TypeOK'
  <2>1. PICK place \in Places : Goto(t, place)
    BY <1>3 DEF Resolve, Places
  <2>2. Placed'
    BY <1>3, <2>1, GotoTyped DEF Resolve
  <2> QED BY <1>3, <2>2, OnlyMoved DEF Resolve, Rest
<1>4. ASSUME NEW t \in Thread, MarkResolved(t) PROVE TypeOK'
  <2>1. Placed'
    BY <1>4, GotoTyped DEF MarkResolved, Places
  <2> QED BY <1>4, <2>1 DEF MarkResolved, TypeOK, Placed, history
<1>5. ASSUME NEW t \in Thread, BuildClient(t) PROVE TypeOK'
  <2>1. PICK place \in Places : Goto(t, place)
    BY <1>5 DEF BuildClient, Places
  <2>2. Placed'
    BY <1>5, <2>1, GotoTyped DEF BuildClient
  <2>3. client' \in BOOLEAN
    BY <1>5, Zenon DEF BuildClient, TypeOK
  <2> QED BY <1>5, <2>2, <2>3 DEF BuildClient, TypeOK, Placed, history
<1>6. ASSUME NEW t \in Thread, ReadWindow(t) PROVE TypeOK'
  <2>1. Placed'
    BY <1>6, GotoSamplingTyped DEF ReadWindow, Places
  <2> QED BY <1>6, <2>1, OnlyMoved DEF ReadWindow, Rest
<1>7. ASSUME NEW t \in Thread, Incr(t) PROVE TypeOK'
  <2>1. method[t] \in Method /\ WindowOf(t) \in Windows
    BY <1>7, MethodTyped, WindowTyped DEF Incr, WindowOf, TypeOK
  <2>2. PICK place \in Places : Goto(t, place)
    BY <1>7 DEF Incr, Places
  <2>3. Placed'
    BY <1>7, <2>2, GotoTyped DEF Incr
  <2>4. counter' \in [Method -> [Windows -> Nat]] /\ deadline' \in [Method -> [Windows -> Nat]]
    BY <1>7, <2>1, IncrementedTyped DEF Incr
  <2>5. counted' = counted \/ counted' = OneMore(counted, method[t], WindowOf(t))
    BY <1>7 DEF Incr
  <2>6. counted \in [Method -> [Windows -> Nat]]
    BY DEF TypeOK
  <2>7. OneMore(counted, method[t], WindowOf(t)) \in [Method -> [Windows -> Nat]]
    BY <2>1, <2>6, OneMoreTyped
  <2>8. counted' \in [Method -> [Windows -> Nat]]
    BY <2>5, <2>6, <2>7
  <2> QED BY <1>7, <2>3, <2>4, <2>8 DEF Incr, TypeOK, Placed
<1>8. ASSUME NEW t \in Thread, Expire(t) PROVE TypeOK'
  <2>1. method[t] \in Method /\ WindowOf(t) \in Windows
    BY <1>8, MethodTyped, WindowTyped DEF Expire, WindowOf, TypeOK
  <2>2. Placed'
    BY <1>8, GotoTyped DEF Expire, Places
  <2>3. now + Window \in Nat
    BY LimiterAssumption DEF TypeOK, Times
  <2>4. \/ deadline' = deadline
        \/ deadline' = [deadline EXCEPT ![method[t]][WindowOf(t)] = now + Window]
    BY <1>8, Zenon DEF Expire
  <2>5. deadline' \in [Method -> [Windows -> Nat]]
    <3>1. deadline \in [Method -> [Windows -> Nat]]
      BY DEF TypeOK
    <3>2. [deadline EXCEPT ![method[t]][WindowOf(t)] = now + Window] \in [Method -> [Windows -> Nat]]
      BY <2>1, <2>3, <3>1
    <3> QED BY <2>4, <3>1, <3>2
  <2>6. forsaken' = forsaken \/ forsaken' = forsaken \cup {<<method[t], WindowOf(t)>>}
    BY <1>8, Zenon DEF Expire
  <2>7. forsaken' \subseteq Method \X Windows
    BY <2>1, <2>6 DEF TypeOK
  <2> QED BY <1>8, <2>2, <2>5, <2>7 DEF Expire, TypeOK, Placed
<1>9. ASSUME NEW t \in Thread, FailOpen(t) PROVE TypeOK'
  <2>1. method[t] \in Method /\ WindowOf(t) \in Windows
    BY <1>9, MethodTyped, WindowTyped DEF FailOpen, WindowOf, TypeOK
  <2>2. Placed'
    BY <1>9, GotoTyped DEF FailOpen, Places
  <2>3. counter' \in [Method -> [Windows -> Nat]] /\ deadline' \in [Method -> [Windows -> Nat]]
    BY <1>9, <2>1, IncrementedTyped DEF FailOpen, TypeOK
  <2>4. forsaken' \subseteq Method \X Windows
    BY <1>9, <2>1 DEF FailOpen, TypeOK
  <2>5. waved' \in [Method -> [Windows -> Nat]]
    BY <1>9, <2>1, OneMoreTyped DEF FailOpen, TypeOK
  <2> QED BY <1>9, <2>2, <2>3, <2>4, <2>5 DEF FailOpen, TypeOK, Placed
<1>10. ASSUME NEW t \in Thread, ReadClock(t) PROVE TypeOK'
  <2>1. Placed'
    BY <1>10, GotoSamplingTyped DEF ReadClock, Places
  <2>2. overlapped' \in BOOLEAN
    BY <1>10, Zenon DEF ReadClock
  <2> QED BY <1>10, <2>1, <2>2 DEF ReadClock, TypeOK, Placed, redisVars
<1>11. ASSUME NEW t \in Thread, TestBucket(t) \/ TestHead(t) \/ Count(t) \/ Leave(t) PROVE TypeOK'
  <2>1. PICK place \in Places : Goto(t, place)
    BY <1>11 DEF TestBucket, TestHead, Count, Leave, Places
  <2>2. Placed'
    BY <1>11, <2>1, GotoTyped DEF TestBucket, TestHead, Count, Leave
  <2> QED BY <1>11, <2>2, OnlyMoved DEF TestBucket, TestHead, Count, Leave, Rest
<1>12. ASSUME NEW t \in Thread, Pop(t) PROVE TypeOK'
  <2>1. PICK place \in Places : Goto(t, place)
    BY <1>12 DEF Pop, Places
  <2>2. Placed'
    BY <1>12, <2>1, GotoTyped DEF Pop
  <2>3. method[t] \in Method /\ Mine(t) \in Seq(Times)
    BY <1>12, MethodTyped DEF Pop, TypeOK, Mine
  <2>4. Mine(t) # << >> => Tail(Mine(t)) \in Seq(Times)
    BY <2>3, HeadTailProperties
  <2>5. bucket' \in [Method -> Seq(Times)]
    BY <1>12, <2>3, <2>4 DEF Pop, TypeOK, Mine
  <2> QED BY <1>12, <2>2, <2>5 DEF Pop, TypeOK, Placed, redisVars, history
<1>13. ASSUME NEW t \in Thread, AppendEntry(t) PROVE TypeOK'
  <2>1. method[t] \in Method /\ sampled[t] \in Times
    BY <1>13, MethodTyped DEF AppendEntry, TypeOK
  <2>2. Placed'
    BY <1>13, GotoTyped DEF AppendEntry, Places
  <2>3. /\ Append(bucket[method[t]], sampled[t]) \in Seq(Times)
        /\ Append(entries[method[t]], sampled[t]) \in Seq(Times)
    BY <2>1, AppendProperties DEF TypeOK
  <2>4. bucket' \in [Method -> Seq(Times)]
    BY <1>13, <2>1, <2>3 DEF AppendEntry, TypeOK
  <2>5. entries' \in [Method -> Seq(Times)]
    BY <1>13, <2>1, <2>3 DEF AppendEntry, TypeOK
  <2> QED BY <1>13, <2>2, <2>4, <2>5 DEF AppendEntry, TypeOK, Placed, redisVars
<1>14. CASE UNCHANGED vars
  BY <1>14 DEF vars, TypeOK, redisVars, threadVars, history
<1> QED BY <1>1, <1>2, <1>3, <1>4, <1>5, <1>6, <1>7, <1>8, <1>9, <1>10, <1>11, <1>12, <1>13, <1>14
        DEF Next, Spent

(* The state of the limiter keeps its types: the clock readings in a       *)
(* bucket are moments, and counts are counts, whatever Redis answers.      *)
THEOREM LimiterTypeCorrect == Spec => []TypeOK
  BY TypeInitially, TypePreserved, PTL DEF Spec


-----------------------------------------------------------------------------
(* Keys that live for ever.                                                *)

(* A step that leaves Redis alone and no EXPIRE undone changes nothing here. *)
LEMMA ImmortalKept ==
  ASSUME TypeOK, ImmortalOnlyByError, UNCHANGED <<counter, deadline, forsaken>>,
         \A u \in Thread : pc[u] = "expire" =>
           pc'[u] = "expire" /\ method'[u] = method[u] /\ sampled'[u] = sampled[u]
  PROVE  ImmortalOnlyByError'
  BY DEF ImmortalOnlyByError, WindowOf

(* A table of counts after one of them was set. *)
LEMMA SetAt ==
  ASSUME NEW S, NEW h \in [Method -> [S -> Nat]], NEW m0 \in Method, NEW i0 \in S, NEW n \in Nat,
         NEW m \in Method, NEW i \in S
  PROVE  [h EXCEPT ![m0][i0] = n][m][i] = IF m = m0 /\ i = i0 THEN n ELSE h[m][i]
  OBVIOUS

(* The key INCR counted up, and all others, as they are afterwards. *)
LEMMA IncrementedAt ==
  ASSUME TypeOK, NEW m0 \in Method, NEW w0 \in Windows, Incremented(m0, w0),
         NEW m \in Method, NEW w \in Windows
  PROVE  /\ m = m0 /\ w = w0 =>
              IF Gone(m, w) THEN counter'[m][w] = 1 /\ deadline'[m][w] = 0
                            ELSE counter'[m][w] = counter[m][w] + 1 /\ deadline'[m][w] = deadline[m][w]
         /\ ~(m = m0 /\ w = w0) =>
              counter'[m][w] = counter[m][w] /\ deadline'[m][w] = deadline[m][w]
<1>0. /\ counter \in [Method -> [Windows -> Nat]]
      /\ deadline \in [Method -> [Windows -> Nat]]
  BY DEF TypeOK
<1>1. counter[m0][w0] + 1 \in Nat /\ deadline[m0][w0] \in Nat
  BY <1>0
<1>2. CASE Gone(m0, w0)
  <2>1. /\ counter' = [counter EXCEPT ![m0][w0] = 1]
        /\ deadline' = [deadline EXCEPT ![m0][w0] = 0]
    BY <1>2 DEF Incremented, IncrementOf
  <2> QED BY <1>0, <1>1, <1>2, <2>1, SetAt
<1>3. CASE ~Gone(m0, w0)
  <2>1. /\ counter' = [counter EXCEPT ![m0][w0] = counter[m0][w0] + 1]
        /\ deadline' = [deadline EXCEPT ![m0][w0] = deadline[m0][w0]]
    BY <1>0, <1>1, <1>3 DEF Incremented, IncrementOf
  <2> QED BY <1>0, <1>1, <1>3, <2>1, SetAt
<1> QED BY <1>2, <1>3

(* A key without a TTL has its EXPIRE ahead of it, or had an error. *)
LEMMA ImmortalPreserved == TypeOK /\ ImmortalOnlyByError /\ [Next]_vars => ImmortalOnlyByError'
<1> SUFFICES ASSUME TypeOK, ImmortalOnlyByError, [Next]_vars PROVE ImmortalOnlyByError'
  OBVIOUS
<1>1. ASSUME NEW t \in Thread, Incr(t) PROVE ImmortalOnlyByError'
  <2>1. /\ pc[t] = "incr" /\ method[t] \in Method /\ WindowOf(t) \in Windows
        /\ forsaken' = forsaken
    BY <1>1, MethodTyped, WindowTyped DEF Incr, WindowOf, TypeOK
  <2> SUFFICES ASSUME NEW m \in Method, NEW w \in Windows,
                      counter'[m][w] > 0, deadline'[m][w] = 0, <<m, w>> \notin forsaken
               PROVE  \E u \in Thread : pc'[u] = "expire" /\ method'[u] = m /\ WindowOf(u)' = w
    BY <2>1 DEF ImmortalOnlyByError
  <2>2. CASE m = method[t] /\ w = WindowOf(t) /\ counter'[m][w] = 1
    <3>1. Goto(t, "expire")
      BY <1>1, <2>2, LimiterAssumption DEF Incr
    <3> QED BY <2>1, <2>2, <3>1 DEF Goto, WindowOf, TypeOK
  <2>3. CASE ~(m = method[t] /\ w = WindowOf(t) /\ counter'[m][w] = 1)
    <3>1. counter[m][w] > 0 /\ deadline[m][w] = 0
      <4>1. Incremented(method[t], WindowOf(t)) /\ counter[m][w] \in Nat
        BY <1>1 DEF Incr, TypeOK
      <4> QED BY <2>1, <2>3, <4>1, IncrementedAt
    <3>2. PICK u \in Thread : pc[u] = "expire" /\ method[u] = m /\ WindowOf(u) = w
      BY <3>1 DEF ImmortalOnlyByError
    <3>3. u # t
      BY <2>1, <3>2
    <3>4. PICK place \in Places : Goto(t, place)
      BY <1>1 DEF Incr, Places
    <3>5. pc'[u] = pc[u] /\ method'[u] = method[u] /\ sampled'[u] = sampled[u]
      BY <3>3, <3>4 DEF Goto, TypeOK
    <3> QED BY <3>2, <3>5 DEF WindowOf
  <2> QED BY <2>2, <2>3
<1>2. ASSUME NEW t \in Thread, Expire(t) PROVE ImmortalOnlyByError'
  <2>1. /\ pc[t] = "expire" /\ method[t] \in Method /\ WindowOf(t) \in Windows
        /\ counter' = counter /\ Goto(t, "idle")
    BY <1>2, MethodTyped, WindowTyped DEF Expire, WindowOf, TypeOK
  <2>2. \A u \in Thread \ {t} :
          pc'[u] = pc[u] /\ method'[u] = method[u] /\ sampled'[u] = sampled[u]
    BY <2>1 DEF Goto, TypeOK
  <2>3. \/ /\ deadline' = [deadline EXCEPT ![method[t]][WindowOf(t)] = now + Window]
           /\ forsaken' = forsaken
        \/ deadline' = deadline /\ forsaken' = forsaken \cup {<<method[t], WindowOf(t)>>}
    BY <1>2, Zenon DEF Expire
  <2>4. now + Window # 0
    BY LimiterAssumption DEF TypeOK, Times
  <2> SUFFICES ASSUME NEW m \in Method, NEW w \in Windows,
                      counter[m][w] > 0, deadline'[m][w] = 0, <<m, w>> \notin forsaken'
               PROVE  \E u \in Thread : pc'[u] = "expire" /\ method'[u] = m /\ WindowOf(u)' = w
    BY <2>1 DEF ImmortalOnlyByError
  <2>5. deadline[m][w] = 0 /\ <<m, w>> \notin forsaken /\ ~(m = method[t] /\ w = WindowOf(t))
    <3>1. deadline \in [Method -> [Windows -> Nat]] /\ now + Window \in Nat
      BY LimiterAssumption DEF TypeOK, Times
    <3>2. CASE /\ deadline' = [deadline EXCEPT ![method[t]][WindowOf(t)] = now + Window]
               /\ forsaken' = forsaken
      <4>1. deadline'[m][w] = IF m = method[t] /\ w = WindowOf(t) THEN now + Window ELSE deadline[m][w]
        BY <2>1, <3>1, <3>2, SetAt
      <4> QED BY <2>4, <3>2, <4>1
    <3>3. CASE deadline' = deadline /\ forsaken' = forsaken \cup {<<method[t], WindowOf(t)>>}
      BY <3>3
    <3> QED BY <2>3, <3>2, <3>3
  <2>6. PICK u \in Thread : pc[u] = "expire" /\ method[u] = m /\ WindowOf(u) = w
    BY <2>5 DEF ImmortalOnlyByError
  <2> QED BY <2>2, <2>5, <2>6 DEF WindowOf
<1>3. ASSUME NEW t \in Thread, FailOpen(t) PROVE ImmortalOnlyByError'
  <2>1. /\ pc[t] = "incr" /\ method[t] \in Method /\ WindowOf(t) \in Windows /\ Goto(t, "idle")
    BY <1>3, MethodTyped, WindowTyped DEF FailOpen, WindowOf, TypeOK
  <2>2. \A u \in Thread \ {t} :
          pc'[u] = pc[u] /\ method'[u] = method[u] /\ sampled'[u] = sampled[u]
    BY <2>1 DEF Goto, TypeOK
  <2>3. CASE UNCHANGED <<counter, deadline, forsaken>>
    BY <2>1, <2>2, <2>3, ImmortalKept
  <2>4. CASE /\ Incremented(method[t], WindowOf(t))
             /\ forsaken' = forsaken \cup {<<method[t], WindowOf(t)>>}
    <3> SUFFICES ASSUME NEW m \in Method, NEW w \in Windows,
                        counter'[m][w] > 0, deadline'[m][w] = 0, <<m, w>> \notin forsaken'
                 PROVE  \E u \in Thread : pc'[u] = "expire" /\ method'[u] = m /\ WindowOf(u)' = w
      BY DEF ImmortalOnlyByError
    <3>1. <<m, w>> \notin forsaken /\ ~(m = method[t] /\ w = WindowOf(t))
      BY <2>4
    <3>2. counter[m][w] > 0 /\ deadline[m][w] = 0
      BY <2>1, <2>4, <3>1, IncrementedAt
    <3>3. PICK u \in Thread : pc[u] = "expire" /\ method[u] = m /\ WindowOf(u) = w
      BY <3>1, <3>2 DEF ImmortalOnlyByError
    <3> QED BY <2>1, <2>2, <3>3 DEF WindowOf
  <2> QED BY <1>3, <2>3, <2>4 DEF FailOpen
<1>4. ASSUME NEW t \in Thread,
             Resolve(t) \/ MarkResolved(t) \/ BuildClient(t) \/ TestBucket(t) \/ TestHead(t)
               \/ Pop(t) \/ Count(t) \/ AppendEntry(t) \/ Leave(t)
      PROVE  ImmortalOnlyByError'
  <2>1. PICK place \in Places : Goto(t, place)
    BY <1>4 DEF Resolve, MarkResolved, BuildClient, TestBucket, TestHead, Pop, Count, AppendEntry,
                Leave, Places
  <2>2. pc[t] # "expire" /\ UNCHANGED <<counter, deadline, forsaken>>
    BY <1>4 DEF Resolve, MarkResolved, BuildClient, TestBucket, TestHead, Pop, Count, AppendEntry,
                Leave, redisVars, history
  <2> QED BY <2>1, <2>2, ImmortalKept DEF Goto, TypeOK
<1>5. ASSUME NEW t \in Thread, Call(t) \/ ReadWindow(t) \/ ReadClock(t) PROVE ImmortalOnlyByError'
  <2>1. pc[t] # "expire" /\ UNCHANGED <<counter, deadline, forsaken>>
    BY <1>5 DEF Call, ReadWindow, ReadClock, redisVars, history
  <2>2. \A u \in Thread \ {t} :
          pc'[u] = pc[u] /\ method'[u] = method[u] /\ sampled'[u] = sampled[u]
    BY <1>5 DEF Call, ReadWindow, ReadClock, GotoSampling, TypeOK
  <2> QED BY <2>1, <2>2, ImmortalKept
<1>6. CASE Tick \/ UNCHANGED vars
  BY <1>6, ImmortalKept DEF Tick, vars, redisVars, threadVars, history
<1> QED BY <1>1, <1>2, <1>3, <1>4, <1>5, <1>6 DEF Next, Spent

(* Only an error, of EXPIRE or of the call that created the key, leaves a  *)
(* key in Redis that nothing will remove.                                  *)
THEOREM OnlyErrorsLeaveKeys == Spec => []ImmortalOnlyByError
<1>1. Init => ImmortalOnlyByError
  BY DEF Init, ImmortalOnlyByError, None
<1> QED BY <1>1, LimiterTypeCorrect, ImmortalPreserved, PTL DEF Spec

-----------------------------------------------------------------------------
(* The overrun of a bucket.                                                *)

(* The threads that have passed the length check and not appended yet. *)
Appending(m) == {t \in Thread : pc[t] = "append" /\ method[t] = m}

(* Each of them was one of at most Cardinality(Thread) that saw room. *)
Crowded == \A m \in Method :
             Len(bucket[m]) + Cardinality(Appending(m)) <= Limit + Cardinality(Thread) - 1

(* Threads in a bucket are countable, and not more than the pool has. *)
LEMMA AppendingFinite ==
  ASSUME NEW S \in SUBSET Thread
  PROVE  /\ IsFiniteSet(S) /\ Cardinality(S) \in Nat /\ Cardinality(S) <= Cardinality(Thread)
         /\ Cardinality(Thread) \in Nat
  BY FS_Subset, FS_CardinalityType, LimiterAssumption

(* Without a thread more that appends, a bucket that does not grow stays bounded. *)
LEMMA CrowdedKept ==
  ASSUME TypeOK, TypeOK', Crowded,
         \A m \in Method : Appending(m)' = Appending(m) /\ Len(bucket'[m]) <= Len(bucket[m])
  PROVE  Crowded'
<1> SUFFICES ASSUME NEW m \in Method
             PROVE  Len(bucket'[m]) + Cardinality(Appending(m)') <= Limit + Cardinality(Thread) - 1
  BY DEF Crowded
<1>1. Len(bucket[m]) + Cardinality(Appending(m)) <= Limit + Cardinality(Thread) - 1
  BY DEF Crowded
<1>2. Len(bucket[m]) \in Nat /\ Len(bucket'[m]) \in Nat
  BY DEF TypeOK
<1>3. Appending(m) \in SUBSET Thread
  BY DEF Appending
<1> QED BY <1>1, <1>2, <1>3, AppendingFinite, LimiterAssumption

(* A thread that is not at the append, before or after, appends nothing. *)
LEMMA NotAppending ==
  ASSUME TypeOK, NEW t \in Thread, pc[t] # "append", pc'[t] # "append",
         \A u \in Thread \ {t} : pc'[u] = pc[u] /\ method'[u] = method[u]
  PROVE  \A m \in Method : Appending(m)' = Appending(m)
  BY DEF Appending

(* No step crowds a bucket further. *)
LEMMA CrowdedPreserved == TypeOK /\ TypeOK' /\ Crowded /\ [Next]_vars => Crowded'
<1> SUFFICES ASSUME TypeOK, TypeOK', Crowded, [Next]_vars PROVE Crowded'
  OBVIOUS
<1>1. ASSUME NEW t \in Thread, Count(t) PROVE Crowded'
  <2>1. /\ pc[t] = "count" /\ method[t] \in Method /\ bucket' = bucket
        /\ \A u \in Thread : method'[u] = method[u]
        /\ \A u \in Thread \ {t} : pc'[u] = pc[u]
        /\ pc'[t] \in {"full", "append"}
        /\ pc'[t] = "append" => Len(bucket[method[t]]) < Limit
    <3>1. pc[t] = "count" /\ method[t] \in Method /\ bucket' = bucket
      BY <1>1, MethodTyped DEF Count
    <3>2. Len(bucket[method[t]]) \in Nat
      BY <3>1 DEF TypeOK
    <3>3. PICK place \in {"full", "append"} :
            Goto(t, place) /\ (place = "append" => Len(bucket[method[t]]) < Limit)
      BY <1>1, <3>2, LimiterAssumption DEF Count, Mine
    <3> QED BY <3>1, <3>3 DEF Goto, TypeOK
  <2>2. CASE pc'[t] = "append"
    <3> SUFFICES ASSUME NEW m \in Method
                 PROVE  Len(bucket[m]) + Cardinality(Appending(m)') <= Limit + Cardinality(Thread) - 1
      BY <2>1 DEF Crowded
    <3>1. Len(bucket[m]) \in Nat
      BY DEF TypeOK
    <3>2. CASE m = method[t]
      <4>1. Appending(m)' \in SUBSET Thread
        BY DEF Appending
      <4>2. Len(bucket[m]) + 1 <= Limit
        BY <2>1, <2>2, <3>1, <3>2, LimiterAssumption
      <4> QED BY <3>1, <4>1, <4>2, AppendingFinite, LimiterAssumption
    <3>3. CASE m # method[t]
      <4>1. Appending(m)' = Appending(m)
        BY <2>1, <3>3 DEF Appending
      <4> QED BY <4>1 DEF Crowded
    <3> QED BY <3>2, <3>3
  <2>3. CASE pc'[t] # "append"
    <3>1. \A m \in Method : Appending(m)' = Appending(m)
      BY <2>1, <2>3, NotAppending
    <3> QED BY <2>1, <3>1 DEF Crowded
  <2> QED BY <2>2, <2>3
<1>2. ASSUME NEW t \in Thread, AppendEntry(t) PROVE Crowded'
  <2>1. /\ pc[t] = "append" /\ method[t] \in Method /\ sampled[t] \in Times
        /\ bucket' = [bucket EXCEPT ![method[t]] = Append(bucket[method[t]], sampled[t])]
        /\ pc'[t] = "idle"
        /\ \A u \in Thread \ {t} : pc'[u] = pc[u] /\ method'[u] = method[u]
    BY <1>2, MethodTyped DEF AppendEntry, Goto, TypeOK
  <2> SUFFICES ASSUME NEW m \in Method
               PROVE  Len(bucket'[m]) + Cardinality(Appending(m)') <= Limit + Cardinality(Thread) - 1
    BY DEF Crowded
  <2>2. /\ Len(bucket[m]) \in Nat /\ bucket[m] \in Seq(Times)
        /\ Len(bucket[m]) + Cardinality(Appending(m)) <= Limit + Cardinality(Thread) - 1
    BY DEF TypeOK, Crowded
  <2>3. IsFiniteSet(Appending(m)) /\ Cardinality(Appending(m)) \in Nat
    BY AppendingFinite DEF Appending
  <2>4. CASE m = method[t]
    <3>1. Appending(m)' = Appending(m) \ {t} /\ t \in Appending(m)
      BY <2>1, <2>4 DEF Appending
    <3>2. Cardinality(Appending(m)') = Cardinality(Appending(m)) - 1
      BY <2>3, <3>1, FS_RemoveElement
    <3>3. bucket'[m] = Append(bucket[m], sampled[t])
      BY <2>1, <2>4 DEF TypeOK
    <3>4. Len(bucket'[m]) = Len(bucket[m]) + 1
      BY <2>1, <2>2, <3>3, AppendProperties
    <3> QED BY <2>2, <2>3, <3>2, <3>4, LimiterAssumption
  <2>5. CASE m # method[t]
    <3>1. Appending(m)' = Appending(m)
      BY <2>1, <2>5 DEF Appending
    <3>2. bucket'[m] = bucket[m]
      BY <2>1, <2>5 DEF TypeOK
    <3> QED BY <2>2, <3>1, <3>2
  <2> QED BY <2>4, <2>5
<1>3. ASSUME NEW t \in Thread, Pop(t) PROVE Crowded'
  <2>1. /\ pc[t] = "pop" /\ method[t] \in Method /\ pc'[t] \in {"raised", "trim"}
        /\ \A u \in Thread \ {t} : pc'[u] = pc[u] /\ method'[u] = method[u]
        /\ \/ bucket' = bucket
           \/ /\ bucket[method[t]] # << >>
              /\ bucket' = [bucket EXCEPT ![method[t]] = Tail(bucket[method[t]])]
    BY <1>3, MethodTyped DEF Pop, Goto, TypeOK, Mine
  <2>2. \A m \in Method : Appending(m)' = Appending(m)
    BY <2>1, NotAppending
  <2>3. ASSUME NEW m \in Method PROVE Len(bucket'[m]) <= Len(bucket[m])
    <3>1. bucket[m] \in Seq(Times) /\ Len(bucket[m]) \in Nat
      BY DEF TypeOK
    <3>2. bucket[m] # << >> => Len(Tail(bucket[m])) = Len(bucket[m]) - 1
      BY <3>1, HeadTailProperties
    <3>3. \/ bucket'[m] = bucket[m]
          \/ bucket[m] # << >> /\ bucket'[m] = Tail(bucket[m])
      BY <2>1 DEF TypeOK
    <3>4. CASE bucket'[m] = bucket[m]
      BY <3>1, <3>4
    <3>5. CASE bucket[m] # << >> /\ bucket'[m] = Tail(bucket[m])
      BY <3>1, <3>2, <3>5
    <3> QED BY <3>3, <3>4, <3>5
  <2> QED BY <2>2, <2>3, CrowdedKept
<1>4. ASSUME NEW t \in Thread,
             Resolve(t) \/ MarkResolved(t) \/ BuildClient(t) \/ Incr(t) \/ Expire(t) \/ FailOpen(t)
               \/ TestBucket(t) \/ TestHead(t) \/ Leave(t)
      PROVE  Crowded'
  <2>1. PICK place \in Places \ {"append"} : Goto(t, place)
    BY <1>4 DEF Resolve, MarkResolved, BuildClient, Incr, Expire, FailOpen, TestBucket, TestHead,
                Leave, Places
  <2>2. pc[t] # "append" /\ bucket' = bucket
    BY <1>4 DEF Resolve, MarkResolved, BuildClient, Incr, Expire, FailOpen, TestBucket, TestHead,
                Leave
  <2>3. /\ pc'[t] # "append"
        /\ \A u \in Thread \ {t} : pc'[u] = pc[u] /\ method'[u] = method[u]
    BY <2>1 DEF Goto, TypeOK
  <2>4. \A m \in Method : Appending(m)' = Appending(m)
    BY <2>2, <2>3, NotAppending
  <2> QED BY <2>2, <2>4 DEF Crowded
<1>5. ASSUME NEW t \in Thread, Call(t) \/ ReadWindow(t) \/ ReadClock(t) PROVE Crowded'
  <2>1. pc[t] # "append" /\ bucket' = bucket
    BY <1>5 DEF Call, ReadWindow, ReadClock
  <2>2. /\ pc'[t] # "append"
        /\ \A u \in Thread \ {t} : pc'[u] = pc[u] /\ method'[u] = method[u]
    BY <1>5 DEF Call, ReadWindow, ReadClock, GotoSampling, TypeOK
  <2>3. \A m \in Method : Appending(m)' = Appending(m)
    BY <2>1, <2>2 DEF Appending
  <2> QED BY <2>1, <2>3 DEF Crowded
<1>6. CASE Tick \/ UNCHANGED vars
  BY <1>6 DEF Tick, vars, threadVars, Crowded, Appending
<1> QED BY <1>1, <1>2, <1>3, <1>4, <1>5, <1>6 DEF Next, Spent

(* The limit of the in-process bucket is overrun by no more than the other *)
(* threads of the pool, whatever the interleaving.                         *)
THEOREM OverrunBounded == Spec => []BucketLengthBounded
<1>1. Init => Crowded
  <2> SUFFICES ASSUME Init, NEW m \in Method
               PROVE  Len(bucket[m]) + Cardinality(Appending(m)) <= Limit + Cardinality(Thread) - 1
    BY DEF Crowded
  <2>1. Appending(m) = {} /\ Len(bucket[m]) = 0
    BY DEF Init, Appending
  <2> QED BY <2>1, FS_EmptySet, AppendingFinite, LimiterAssumption
<1>2. Spec => []Crowded
  BY <1>1, LimiterTypeCorrect, CrowdedPreserved, PTL DEF Spec
<1>3. TypeOK /\ Crowded => BucketLengthBounded
  <2> SUFFICES ASSUME TypeOK, Crowded, NEW m \in Method
               PROVE  Len(bucket[m]) <= Limit + Cardinality(Thread) - 1
    BY DEF BucketLengthBounded
  <2>1. Appending(m) \in SUBSET Thread /\ Len(bucket[m]) \in Nat
    BY DEF Appending, TypeOK
  <2> QED BY <2>1, AppendingFinite, LimiterAssumption DEF Crowded
<1> QED BY <1>2, <1>3, LimiterTypeCorrect, PTL

-----------------------------------------------------------------------------
(* The budget.                                                             *)

(* No clock reading is ahead of the clock. *)
Timely == \A t \in Thread : sampled[t] <= now

(* No key vanishes before its window is over. *)
OutlivesWindow == \A m \in Method, w \in Windows :
                    deadline[m][w] # 0 => w * Window + Window <= deadline[m][w]

(* What was let through in a window that lasts is in its counter. *)
Remembered == \A m \in Method, w \in Windows :
                now \div Window <= w => counted[m][w] <= counter[m][w]

(* The counter is ahead of the calls let through only after the budget. *)
Explained == \A m \in Method, w \in Windows :
               LET through == counted[m][w] + waved[m][w]
               IN  counter[m][w] <= through \/ Limit <= through

BudgetInv == Timely /\ OutlivesWindow /\ Remembered /\ Explained

(* A key that is gone belongs to a window that is over. *)
LEMMA GoneIsOver ==
  ASSUME TypeOK, OutlivesWindow, NEW m \in Method, NEW w \in Windows, Gone(m, w)
  PROVE  w < now \div Window
<1>0. deadline \in [Method -> [Windows -> Nat]] /\ now \in Times
  BY DEF TypeOK
<1>1. now \in Nat /\ w \in Nat /\ deadline[m][w] \in Nat
  BY <1>0, LimiterAssumption DEF Times, Windows
<1>2. w * Window + Window <= deadline[m][w] /\ deadline[m][w] <= now
  BY DEF Gone, OutlivesWindow
<1>3. w * Window + Window \in Nat
  BY <1>1, LimiterAssumption
<1>4. w * Window + Window <= now
  BY <1>1, <1>2, <1>3
<1> QED BY <1>1, <1>4, DivPast, LimiterAssumption

(* The window of a reading is not ahead of the present one. *)
LEMMA ReadingBegun ==
  ASSUME TypeOK, Timely, NEW t \in Thread
  PROVE  WindowOf(t) \in Windows /\ WindowOf(t) <= now \div Window
<1>1. sampled[t] \in Times /\ sampled[t] \in Nat /\ now \in Nat /\ sampled[t] <= now
  BY LimiterAssumption DEF TypeOK, Times, Timely
<1> QED BY <1>1, WindowTyped, DivMonotone, LimiterAssumption DEF WindowOf

(* Clock readings stay in the past. *)
LEMMA TimelyPreserved == TypeOK /\ Timely /\ [Next]_vars => Timely'
<1> SUFFICES ASSUME TypeOK, Timely, [Next]_vars PROVE Timely'
  OBVIOUS
<1>1. now \in Nat /\ \A t \in Thread : sampled[t] \in Nat
  BY LimiterAssumption DEF TypeOK, Times
<1>0. sampled \in [Thread -> Times]
  BY DEF TypeOK
<1>2. CASE Tick
  BY <1>1, <1>2 DEF Tick, Timely, threadVars
<1>3. ASSUME NEW t \in Thread, ReadWindow(t) \/ ReadClock(t) PROVE Timely'
  <2>1. now' = now /\ sampled' = [sampled EXCEPT ![t] = now]
    BY <1>3 DEF ReadWindow, ReadClock, GotoSampling
  <2> QED BY <1>0, <1>1, <2>1 DEF Timely
<1>4. ASSUME NEW t \in Thread, Call(t) PROVE Timely'
  BY <1>4 DEF Call, Timely
<1>5. ASSUME NEW t \in Thread,
             Resolve(t) \/ MarkResolved(t) \/ BuildClient(t) \/ Incr(t) \/ Expire(t) \/ FailOpen(t)
               \/ TestBucket(t) \/ TestHead(t) \/ Pop(t) \/ Count(t) \/ AppendEntry(t) \/ Leave(t)
      PROVE  Timely'
  <2>1. PICK place : Goto(t, place)
    BY <1>5 DEF Resolve, MarkResolved, BuildClient, Incr, Expire, FailOpen, TestBucket, TestHead,
                Pop, Count, AppendEntry, Leave
  <2>2. now' = now
    BY <1>5 DEF Resolve, MarkResolved, BuildClient, Incr, Expire, FailOpen, TestBucket, TestHead,
                Pop, Count, AppendEntry, Leave
  <2>3. sampled' = sampled \/ sampled' = [sampled EXCEPT ![t] = 0]
    BY <2>1 DEF Goto
  <2> QED BY <1>0, <1>1, <2>2, <2>3 DEF Timely
<1>6. CASE UNCHANGED vars
  BY <1>6 DEF vars, threadVars, Timely
<1> QED BY <1>2, <1>3, <1>4, <1>5, <1>6 DEF Next, Spent

(* INCR counts a call: let through or not, the counts still tell of it. *)
LEMMA IncrKeepsBudget ==
  ASSUME TypeOK, BudgetInv, NEW t \in Thread, Incr(t)
  PROVE  (OutlivesWindow /\ Remembered /\ Explained)'
<1> DEFINE m0 == method[t]
           w0 == WindowOf(t)
<1>1. /\ m0 \in Method /\ w0 \in Windows /\ Incremented(m0, w0) /\ now' = now /\ waved' = waved
  BY MethodTyped, ReadingBegun DEF Incr, BudgetInv
<1>2. \/ counter'[m0][w0] > Limit /\ counted' = counted
      \/ counter'[m0][w0] <= Limit /\ counted' = OneMore(counted, m0, w0)
  <2>1. counter'[m0][w0] \in Nat
    BY <1>1, IncrementedTyped
  <2> QED BY <2>1, LimiterAssumption DEF Incr
<1>3. ASSUME NEW m \in Method, NEW w \in Windows
      PROVE  /\ counter[m][w] \in Nat /\ deadline[m][w] \in Nat /\ counted[m][w] \in Nat
             /\ waved[m][w] \in Nat
  BY DEF TypeOK
<1>0. counted \in [Method -> [Windows -> Nat]]
  BY DEF TypeOK
<1> HIDE DEF m0, w0
<1> SUFFICES ASSUME NEW m \in Method, NEW w \in Windows
             PROVE  /\ deadline'[m][w] # 0 => w * Window + Window <= deadline'[m][w]
                    /\ now \div Window <= w => counted'[m][w] <= counter'[m][w]
                    /\ \/ counter'[m][w] <= counted'[m][w] + waved[m][w]
                       \/ Limit <= counted'[m][w] + waved[m][w]
  BY <1>1 DEF OutlivesWindow, Remembered, Explained
<1>4. /\ deadline[m][w] # 0 => w * Window + Window <= deadline[m][w]
      /\ now \div Window <= w => counted[m][w] <= counter[m][w]
      /\ \/ counter[m][w] <= counted[m][w] + waved[m][w]
         \/ Limit <= counted[m][w] + waved[m][w]
  BY DEF BudgetInv, OutlivesWindow, Remembered, Explained
<1>5. OneMore(counted, m0, w0)[m][w] = IF m = m0 /\ w = w0 THEN counted[m][w] + 1 ELSE counted[m][w]
  BY <1>0, <1>1 DEF OneMore
<1>6. CASE ~(m = m0 /\ w = w0)
  <2>1. counter'[m][w] = counter[m][w] /\ deadline'[m][w] = deadline[m][w]
    BY <1>1, <1>6, IncrementedAt
  <2>2. counted'[m][w] = counted[m][w]
    BY <1>2, <1>6, <1>5
  <2> QED BY <1>4, <2>1, <2>2
<1>7. CASE m = m0 /\ w = w0
  <2>1. \/ counter'[m][w] > Limit /\ counted'[m][w] = counted[m][w]
        \/ counter'[m][w] <= Limit /\ counted'[m][w] = counted[m][w] + 1
    BY <1>2, <1>7, <1>5
  <2>2. CASE Gone(m, w)
    <3>1. counter'[m][w] = 1 /\ deadline'[m][w] = 0
      BY <1>1, <1>7, <2>2, IncrementedAt
    <3>2. w < now \div Window
      BY <2>2, GoneIsOver DEF BudgetInv
    <3>3. w \in Nat /\ now \div Window \in Nat
      BY PresentTyped
    <3> QED BY <1>3, <2>1, <3>1, <3>2, <3>3, LimiterAssumption
  <2>3. CASE ~Gone(m, w)
    <3>1. counter'[m][w] = counter[m][w] + 1 /\ deadline'[m][w] = deadline[m][w]
      BY <1>1, <1>7, <2>3, IncrementedAt
    <3>2. counter[m][w] \in Nat /\ counted[m][w] \in Nat /\ waved[m][w] \in Nat /\ Limit \in Nat
      BY <1>3, LimiterAssumption
    <3> QED BY <1>4, <2>1, <3>1, <3>2
  <2> QED BY <2>2, <2>3
<1> QED BY <1>6, <1>7

(* A call whose INCR raised is let through, counted by Redis or not. *)
LEMMA FailOpenKeepsBudget ==
  ASSUME TypeOK, BudgetInv, NEW t \in Thread, FailOpen(t)
  PROVE  (OutlivesWindow /\ Remembered /\ Explained)'
<1> DEFINE m0 == method[t]
           w0 == WindowOf(t)
<1>0. waved \in [Method -> [Windows -> Nat]]
  BY DEF TypeOK
<1>1. /\ m0 \in Method /\ w0 \in Windows /\ now' = now /\ counted' = counted
      /\ waved' = OneMore(waved, m0, w0)
      /\ UNCHANGED <<counter, deadline>> \/ Incremented(m0, w0)
  BY MethodTyped, ReadingBegun DEF FailOpen, BudgetInv
<1>2. ASSUME NEW m \in Method, NEW w \in Windows
      PROVE  /\ counter[m][w] \in Nat /\ deadline[m][w] \in Nat /\ counted[m][w] \in Nat
             /\ waved[m][w] \in Nat
  BY DEF TypeOK
<1> HIDE DEF m0, w0
<1> SUFFICES ASSUME NEW m \in Method, NEW w \in Windows
             PROVE  /\ deadline'[m][w] # 0 => w * Window + Window <= deadline'[m][w]
                    /\ now \div Window <= w => counted[m][w] <= counter'[m][w]
                    /\ \/ counter'[m][w] <= counted[m][w] + waved'[m][w]
                       \/ Limit <= counted[m][w] + waved'[m][w]
  BY <1>1 DEF OutlivesWindow, Remembered, Explained
<1>3. /\ deadline[m][w] # 0 => w * Window + Window <= deadline[m][w]
      /\ now \div Window <= w => counted[m][w] <= counter[m][w]
      /\ \/ counter[m][w] <= counted[m][w] + waved[m][w]
         \/ Limit <= counted[m][w] + waved[m][w]
  BY DEF BudgetInv, OutlivesWindow, Remembered, Explained
<1>4. waved'[m][w] = IF m = m0 /\ w = w0 THEN waved[m][w] + 1 ELSE waved[m][w]
  BY <1>0, <1>1 DEF OneMore
<1>5. counter[m][w] \in Nat /\ counted[m][w] \in Nat /\ waved[m][w] \in Nat /\ Limit \in Nat
  BY <1>2, LimiterAssumption
<1>6. CASE counter'[m][w] = counter[m][w] /\ deadline'[m][w] = deadline[m][w]
  BY <1>3, <1>4, <1>5, <1>6
<1>7. CASE m = m0 /\ w = w0 /\ Incremented(m0, w0)
  <2>1. CASE Gone(m, w)
    <3>1. counter'[m][w] = 1 /\ deadline'[m][w] = 0
      BY <1>1, <1>7, <2>1, IncrementedAt
    <3>2. w < now \div Window
      BY <2>1, GoneIsOver DEF BudgetInv
    <3>3. w \in Nat /\ now \div Window \in Nat
      BY PresentTyped
    <3> QED BY <1>4, <1>5, <1>7, <3>1, <3>2, <3>3
  <2>2. CASE ~Gone(m, w)
    <3>1. counter'[m][w] = counter[m][w] + 1 /\ deadline'[m][w] = deadline[m][w]
      BY <1>1, <1>7, <2>2, IncrementedAt
    <3> QED BY <1>3, <1>4, <1>5, <1>7, <3>1
  <2> QED BY <2>1, <2>2
<1>8. CASE ~(m = m0 /\ w = w0) /\ Incremented(m0, w0)
  <2>1. counter'[m][w] = counter[m][w] /\ deadline'[m][w] = deadline[m][w]
    BY <1>1, <1>8, IncrementedAt
  <2> QED BY <1>6, <2>1
<1> QED BY <1>1, <1>6, <1>7, <1>8

(* EXPIRE sets a deadline after the end of the key's window. *)
LEMMA ExpireKeepsBudget ==
  ASSUME TypeOK, BudgetInv, NEW t \in Thread, Expire(t)
  PROVE  (OutlivesWindow /\ Remembered /\ Explained)'
<1> DEFINE m0 == method[t]
           w0 == WindowOf(t)
<1>1. m0 \in Method /\ w0 \in Windows /\ UNCHANGED <<now, counter, counted, waved>>
  BY MethodTyped, ReadingBegun DEF Expire, BudgetInv
<1>2. \/ deadline' = deadline
      \/ deadline' = [deadline EXCEPT ![m0][w0] = now + Window]
  BY Zenon DEF Expire
<1>3. (Remembered /\ Explained)'
  BY <1>1 DEF BudgetInv, Remembered, Explained
<1>4. deadline \in [Method -> [Windows -> Nat]] /\ now \in Nat /\ now + Window \in Nat
  BY LimiterAssumption DEF TypeOK, Times
<1>5. w0 * Window + Window <= now + Window
  <2>1. sampled[t] \in Nat /\ sampled[t] <= now
    BY LimiterAssumption DEF TypeOK, Times, BudgetInv, Timely
  <2>2. w0 \in Nat /\ w0 * Window <= sampled[t] /\ w0 * Window \in Nat
    BY <2>1, DivLow, LimiterAssumption DEF WindowOf
  <2> QED BY <1>4, <2>1, <2>2, LimiterAssumption
<1> HIDE DEF m0, w0
<1>6. ASSUME NEW m \in Method, NEW w \in Windows, deadline'[m][w] # 0
      PROVE  w * Window + Window <= deadline'[m][w]
  <2>1. CASE deadline'[m][w] = deadline[m][w]
    BY <1>6, <2>1 DEF BudgetInv, OutlivesWindow
  <2>2. CASE m = m0 /\ w = w0 /\ deadline'[m][w] = now + Window
    BY <1>5, <2>2
  <2> QED BY <1>1, <1>2, <1>4, <2>1, <2>2, SetAt
<1> QED BY <1>1, <1>3, <1>6 DEF OutlivesWindow

(* No step breaks what the budget rests on. *)
LEMMA BudgetInvPreserved == TypeOK /\ TypeOK' /\ BudgetInv /\ [Next]_vars => BudgetInv'
<1> SUFFICES ASSUME TypeOK, TypeOK', BudgetInv, [Next]_vars PROVE BudgetInv'
  OBVIOUS
<1>1. Timely'
  BY TimelyPreserved DEF BudgetInv
<1>2. ASSUME NEW t \in Thread, Incr(t) \/ Expire(t) \/ FailOpen(t)
      PROVE  (OutlivesWindow /\ Remembered /\ Explained)'
  BY <1>2, IncrKeepsBudget, ExpireKeepsBudget, FailOpenKeepsBudget
<1>3. CASE Tick
  <2>1. now' = now + 1 /\ UNCHANGED <<counter, deadline, counted, waved>>
    BY <1>3 DEF Tick, redisVars, history
  <2>2. now \in Nat /\ now' \in Nat /\ now <= now'
    BY <2>1, LimiterAssumption DEF TypeOK, Times
  <2>3. /\ now \div Window <= now' \div Window
        /\ now \div Window \in Nat /\ now' \div Window \in Nat
    BY <2>2, DivMonotone, DivLow, LimiterAssumption
  <2>4. Remembered'
    <3> SUFFICES ASSUME NEW m \in Method, NEW w \in Windows, now' \div Window <= w
                 PROVE  counted[m][w] <= counter[m][w]
      BY <2>1 DEF Remembered
    <3>1. w \in Nat
      BY DEF Windows
    <3>2. now \div Window <= w
      BY <2>3, <3>1
    <3> QED BY <3>2 DEF BudgetInv, Remembered
  <2> QED BY <1>1, <2>1, <2>4 DEF BudgetInv, OutlivesWindow, Explained
<1>4. ASSUME NEW t \in Thread,
             Call(t) \/ Resolve(t) \/ MarkResolved(t) \/ BuildClient(t) \/ ReadWindow(t)
               \/ ReadClock(t) \/ TestBucket(t) \/ TestHead(t) \/ Pop(t) \/ Count(t)
               \/ AppendEntry(t) \/ Leave(t)
      PROVE  (OutlivesWindow /\ Remembered /\ Explained)'
  <2>1. UNCHANGED <<now, counter, deadline, counted, waved>>
    BY <1>4 DEF Call, Resolve, MarkResolved, BuildClient, ReadWindow, ReadClock, TestBucket,
                TestHead, Pop, Count, AppendEntry, Leave, redisVars, history
  <2> QED BY <2>1 DEF BudgetInv, OutlivesWindow, Remembered, Explained
<1>5. CASE UNCHANGED vars
  BY <1>1, <1>5 DEF vars, redisVars, history, BudgetInv, OutlivesWindow, Remembered, Explained
<1>6. (OutlivesWindow /\ Remembered /\ Explained)'
  BY <1>2, <1>3, <1>4, <1>5 DEF Next, Spent, BudgetInv
<1> QED BY <1>1, <1>6 DEF BudgetInv

-----------------------------------------------------------------------------
(* The refinement.                                                         *)

(* A thread that is not being refused, before or after, refuses nobody. *)
LEMMA RefusedKept ==
  ASSUME TypeOK, NEW t \in Thread, pc[t] # "overcount", pc'[t] # "overcount",
         \A u \in Thread \ {t} :
           pc'[u] = pc[u] /\ method'[u] = method[u] /\ sampled'[u] = sampled[u]
  PROVE  Refused' = Refused
  BY DEF Refused, WindowOf

(* The initial states are initial states of the budget. *)
LEMMA BudgetInitially == Init => Budget!Init /\ BudgetInv
<1> SUFFICES ASSUME Init PROVE Budget!Init /\ BudgetInv
  OBVIOUS
<1>1. Refused = [t \in Thread |-> << >>]
  BY DEF Init, Refused
<1>2. now = 0 /\ counted = None(Windows) /\ waved = None(Windows)
      /\ counter = None(Windows) /\ deadline = None(Windows)
  BY DEF Init
<1>3. Budget!Init
  BY <1>1, <1>2 DEF Budget!Init, Budget!Nothing, None
<1>4. Timely
  BY DEF Init, Timely
<1>5. OutlivesWindow /\ Remembered /\ Explained
  BY <1>2 DEF OutlivesWindow, Remembered, Explained, None
<1> QED BY <1>3, <1>4, <1>5 DEF BudgetInv

(* INCR grants or refuses a call as the budget would. *)
LEMMA IncrImplements ==
  ASSUME TypeOK, BudgetInv, NEW t \in Thread, Incr(t)
  PROVE  Budget!Next
<1> DEFINE m0 == method[t]
           w0 == WindowOf(t)
<1>1. /\ pc[t] = "incr" /\ m0 \in Method /\ w0 \in Windows /\ w0 <= now \div Window
      /\ Incremented(m0, w0) /\ now' = now /\ waved' = waved
  BY MethodTyped, ReadingBegun DEF Incr, BudgetInv
<1>2. /\ counter[m0][w0] \in Nat /\ counted[m0][w0] \in Nat /\ waved[m0][w0] \in Nat
      /\ w0 \in Nat /\ now \div Window \in Nat /\ Limit \in Nat \ {0}
  BY <1>1, DivLow, LimiterAssumption DEF TypeOK, Times, Windows
<1>3. IF Gone(m0, w0) THEN counter'[m0][w0] = 1 ELSE counter'[m0][w0] = counter[m0][w0] + 1
  BY <1>1, IncrementedAt
<1>4. CASE counter'[m0][w0] <= Limit
  <2>1. /\ counted' = [counted EXCEPT ![m0][w0] = @ + 1]
        /\ \E place \in {"expire", "idle"} : Goto(t, place)
    BY <1>2, <1>3, <1>4 DEF Incr, OneMore
  <2>2. /\ pc'[t] # "overcount"
        /\ \A u \in Thread \ {t} :
             pc'[u] = pc[u] /\ method'[u] = method[u] /\ sampled'[u] = sampled[u]
    BY <2>1 DEF Goto, TypeOK
  <2>3. Refused' = Refused
    BY <1>1, <2>2, RefusedKept
  <2>4. ASSUME w0 = now \div Window PROVE counted[m0][w0] < Limit
    <3>1. ~Gone(m0, w0)
      BY <1>1, <1>2, <2>4, GoneIsOver DEF BudgetInv
    <3>2. counted[m0][w0] <= counter[m0][w0]
      BY <1>1, <1>2, <2>4 DEF BudgetInv, Remembered
    <3> QED BY <1>2, <1>3, <1>4, <3>1, <3>2
  <2>5. Budget!Grant(m0, w0)
    BY <1>1, <2>1, <2>3, <2>4 DEF Budget!Grant, Budget!Present
  <2> QED BY <1>1, <2>5 DEF Budget!Next
<1>5. CASE ~(counter'[m0][w0] <= Limit)
  <2>1. counted' = counted /\ Goto(t, "overcount")
    BY <1>2, <1>3, <1>5 DEF Incr
  <2>2. /\ pc' = [pc EXCEPT ![t] = "overcount"] /\ method' = method /\ sampled' = sampled
    BY <2>1 DEF Goto
  <2>3. Refused' = [Refused EXCEPT ![t] = <<m0, w0>>] /\ Refused[t] = << >>
    BY <1>1, <2>2 DEF Refused, WindowOf, TypeOK
  <2>4. counted[m0][w0] + waved[m0][w0] >= Limit
    <3>1. counter[m0][w0] >= Limit
      BY <1>2, <1>3, <1>5
    <3>2. \/ counter[m0][w0] <= counted[m0][w0] + waved[m0][w0]
          \/ Limit <= counted[m0][w0] + waved[m0][w0]
      BY <1>1 DEF BudgetInv, Explained
    <3> QED BY <1>2, <3>1, <3>2
  <2>5. Budget!Refuse(t, m0, w0)
    BY <1>1, <2>1, <2>3, <2>4 DEF Budget!Refuse
  <2> QED BY <1>1, <2>5 DEF Budget!Next
<1> QED BY <1>4, <1>5

(* A call let through on an error is one the budget knows of. *)
LEMMA FailOpenImplements ==
  ASSUME TypeOK, BudgetInv, NEW t \in Thread, FailOpen(t)
  PROVE  Budget!Next
<1>1. /\ method[t] \in Method /\ WindowOf(t) \in Windows /\ WindowOf(t) <= now \div Window
      /\ pc[t] = "incr" /\ Goto(t, "idle") /\ UNCHANGED <<now, counted>>
      /\ waved' = [waved EXCEPT ![method[t]][WindowOf(t)] = @ + 1]
  BY MethodTyped, ReadingBegun DEF FailOpen, BudgetInv, OneMore
<1>2. /\ pc'[t] # "overcount"
      /\ \A u \in Thread \ {t} :
           pc'[u] = pc[u] /\ method'[u] = method[u] /\ sampled'[u] = sampled[u]
  BY <1>1 DEF Goto, TypeOK
<1>3. Refused' = Refused
  BY <1>1, <1>2, RefusedKept
<1>4. Budget!Wave(method[t], WindowOf(t))
  BY <1>1, <1>3 DEF Budget!Wave, Budget!Present
<1> QED BY <1>1, <1>4 DEF Budget!Next

(* The end of a refused call is the refusal's reply. *)
LEMMA LeaveImplements ==
  ASSUME TypeOK, NEW t \in Thread, Leave(t)
  PROVE  Budget!Next \/ UNCHANGED Budget!vars
<1>1. UNCHANGED <<now, counted, waved>> /\ Goto(t, "idle")
  BY DEF Leave, history
<1>2. /\ pc' = [pc EXCEPT ![t] = "idle"]
      /\ \A u \in Thread \ {t} :
           pc'[u] = pc[u] /\ method'[u] = method[u] /\ sampled'[u] = sampled[u]
  BY <1>1 DEF Goto, TypeOK
<1>3. CASE pc[t] = "overcount"
  <2>1. Refused' = [Refused EXCEPT ![t] = << >>]
    BY <1>2 DEF Refused, WindowOf, TypeOK
  <2>2. Refused[t] # << >>
    BY <1>3 DEF Refused
  <2> QED BY <1>1, <2>1, <2>2 DEF Budget!Next, Budget!Reply
<1>4. CASE pc[t] # "overcount"
  <2>1. pc'[t] # "overcount"
    BY <1>2 DEF TypeOK
  <2>2. Refused' = Refused
    BY <1>2, <1>4, <2>1, RefusedKept
  <2> QED BY <1>1, <2>2 DEF Budget!vars
<1> QED BY <1>3, <1>4

(* Every step is a step of the budget, or none of its business. *)
LEMMA StepImplements == TypeOK /\ BudgetInv /\ [Next]_vars => [Budget!Next]_(Budget!vars)
<1> SUFFICES ASSUME TypeOK, BudgetInv, [Next]_vars
             PROVE  Budget!Next \/ UNCHANGED Budget!vars
  OBVIOUS
<1>1. CASE Tick
  <2>1. UNCHANGED <<counted, waved, pc, method, sampled>> /\ now' = now + 1
    BY <1>1 DEF Tick, threadVars, history
  <2>2. Refused' = Refused
    BY <2>1 DEF Refused, WindowOf
  <2> QED BY <2>1, <2>2 DEF Budget!Next, Budget!Tick
<1>2. ASSUME NEW t \in Thread, Incr(t) \/ FailOpen(t) \/ Leave(t)
      PROVE  Budget!Next \/ UNCHANGED Budget!vars
  BY <1>2, IncrImplements, FailOpenImplements, LeaveImplements
<1>3. ASSUME NEW t \in Thread,
             Resolve(t) \/ MarkResolved(t) \/ BuildClient(t) \/ Expire(t) \/ TestBucket(t)
               \/ TestHead(t) \/ Pop(t) \/ Count(t) \/ AppendEntry(t)
      PROVE  Budget!Next \/ UNCHANGED Budget!vars
  <2>1. PICK place \in Places \ {"overcount"} : Goto(t, place)
    BY <1>3 DEF Resolve, MarkResolved, BuildClient, Expire, TestBucket, TestHead, Pop, Count,
                AppendEntry, Places
  <2>2. pc[t] # "overcount" /\ UNCHANGED <<now, counted, waved>>
    BY <1>3 DEF Resolve, MarkResolved, BuildClient, Expire, TestBucket, TestHead, Pop, Count,
                AppendEntry, history
  <2>3. /\ pc'[t] # "overcount"
        /\ \A u \in Thread \ {t} :
             pc'[u] = pc[u] /\ method'[u] = method[u] /\ sampled'[u] = sampled[u]
    BY <2>1 DEF Goto, TypeOK
  <2>4. Refused' = Refused
    BY <2>2, <2>3, RefusedKept
  <2> QED BY <2>2, <2>4 DEF Budget!vars
<1>4. ASSUME NEW t \in Thread, Call(t) \/ ReadWindow(t) \/ ReadClock(t)
      PROVE  Budget!Next \/ UNCHANGED Budget!vars
  <2>1. pc[t] # "overcount" /\ UNCHANGED <<now, counted, waved>>
    BY <1>4 DEF Call, ReadWindow, ReadClock, history
  <2>2. /\ pc'[t] # "overcount"
        /\ \A u \in Thread \ {t} :
             pc'[u] = pc[u] /\ method'[u] = method[u] /\ sampled'[u] = sampled[u]
    BY <1>4 DEF Call, ReadWindow, ReadClock, GotoSampling, TypeOK
  <2>3. Refused' = Refused
    BY <2>1, <2>2, RefusedKept
  <2> QED BY <2>1, <2>3 DEF Budget!vars
<1>5. CASE UNCHANGED vars
  <2>1. UNCHANGED <<now, counted, waved, pc, method, sampled>>
    BY <1>5 DEF vars, threadVars, history
  <2>2. Refused' = Refused
    BY <2>1 DEF Refused, WindowOf
  <2> QED BY <2>1, <2>2 DEF Budget!vars
<1> QED BY <1>1, <1>2, <1>3, <1>4, <1>5 DEF Next, Spent

(* With Redis, the limiter is a budget of Limit calls per method and       *)
(* window, however its threads interleave, however late INCR is after the  *)
(* clock reading, and whatever errors Redis gives.                         *)
THEOREM LimiterImplementsBudget == Spec => KeepsBudget
<1>1. Spec => []BudgetInv
  BY BudgetInitially, LimiterTypeCorrect, BudgetInvPreserved, PTL DEF Spec
<1> QED BY <1>1, BudgetInitially, LimiterTypeCorrect, StepImplements, PTL
        DEF Spec, KeepsBudget, Budget!Spec

-----------------------------------------------------------------------------
(* A bucket b and the clock readings es of all calls that went into it.    *)

(* How many of them have left it again. *)
Dropped(b, es) == Len(es) - Len(b)

(* The bucket is what is left of the calls let through, ... *)
IsRemainder(b, es) ==
  /\ Dropped(b, es) \in Nat
  /\ \A k \in 1..Len(b) : b[k] = es[Dropped(b, es) + k]

(* ... these came in the order of their clock readings, ... *)
InOrder(es) == \A k, l \in 1..Len(es) : k <= l => es[k] <= es[l]

(* ... none after moment i, and those that left did so more than a window  *)
(* before it.                                                              *)
OverBy(b, es, i) ==
  /\ \A k \in 1..Len(es) : es[k] <= i
  /\ \A k \in 1..Dropped(b, es) : es[k] + Window < i

IsQueueAt(b, es, i) ==
  Len(b) <= Limit /\ IsRemainder(b, es) /\ InOrder(es) /\ OverBy(b, es, i)

RespectsLimit(es) == \A i \in Times : Cardinality(Within(es, i)) <= Limit

(* Sequences of moments, and their numbers. *)
LEMMA MomentsTyped ==
  ASSUME NEW es \in Seq(Times)
  PROVE  /\ Len(es) \in Nat /\ DOMAIN es = 1..Len(es)
         /\ \A k \in 1..Len(es) : es[k] \in Nat /\ es[k] \in Times
         /\ Window \in Nat /\ Limit \in Nat /\ Limit # 0
<1>1. Times \subseteq Nat
  BY DEF Times
<1> QED BY <1>1, LenProperties, LimiterAssumption

(* Time that passes leaves behind what was left behind. *)
LEMMA OverByLater ==
  ASSUME NEW b \in Seq(Times), NEW es \in Seq(Times), NEW i \in Nat, NEW j \in Nat,
         i <= j, OverBy(b, es, i)
  PROVE  OverBy(b, es, j)
<1>1. Dropped(b, es) \in Int /\ Dropped(b, es) <= Len(es)
  BY MomentsTyped DEF Dropped
<1>2. ASSUME NEW k \in 1..Len(es) PROVE es[k] <= j
  BY <1>2, MomentsTyped DEF OverBy
<1>3. ASSUME NEW k \in 1..Dropped(b, es) PROVE es[k] + Window < j
  <2>1. k \in 1..Len(es)
    BY <1>1, MomentsTyped
  <2>2. es[k] + Window < i /\ es[k] + Window \in Nat
    BY <2>1, MomentsTyped DEF OverBy
  <2> QED BY <2>2
<1> QED BY <1>2, <1>3 DEF OverBy

(* Dropping a first entry that has expired leaves a queue. *)
LEMMA TailIsQueue ==
  ASSUME NEW b \in Seq(Times), NEW es \in Seq(Times), NEW i \in Nat, NEW j \in Nat,
         IsQueueAt(b, es, j), OverBy(b, es, i), i <= j, b # << >>, Head(b) + Window < i
  PROVE  IsQueueAt(Tail(b), es, j) /\ OverBy(Tail(b), es, i)
<1> DEFINE d == Dropped(b, es)
<1>1. /\ Tail(b) \in Seq(Times) /\ Len(Tail(b)) = Len(b) - 1 /\ Len(b) \in Nat /\ Len(b) >= 1
      /\ \A k \in 1..Len(Tail(b)) : Tail(b)[k] = b[k + 1]
      /\ Head(b) = b[1]
  BY HeadTailProperties, LenProperties
<1>2. d \in Nat /\ d = Len(es) - Len(b) /\ Len(es) \in Nat
  BY MomentsTyped DEF IsQueueAt, IsRemainder, Dropped
<1>3. Dropped(Tail(b), es) = d + 1
  BY <1>1, <1>2 DEF Dropped
<1>4. \A k \in 1..Len(b) : b[k] = es[d + k]
  BY DEF IsQueueAt, IsRemainder
<1> HIDE DEF d
<1>5. IsRemainder(Tail(b), es)
  <2>1. ASSUME NEW k \in 1..Len(Tail(b)) PROVE Tail(b)[k] = es[d + 1 + k]
    <3>1. k + 1 \in 1..Len(b) /\ d + (k + 1) = d + 1 + k
      BY <1>1, <1>2
    <3> QED BY <1>1, <1>4, <3>1
  <2>2. d + 1 \in Nat
    BY <1>2
  <2> QED BY <1>3, <2>1, <2>2 DEF IsRemainder
<1>6. OverBy(Tail(b), es, i)
  <2>1. \A k \in 1..d : es[k] + Window < i
    BY DEF OverBy, d
  <2>2. es[d + 1] + Window < i
    BY <1>1, <1>4
  <2>3. \A k \in 1..(d + 1) : es[k] + Window < i
    BY <1>2, <2>1, <2>2
  <2> QED BY <1>3, <2>3 DEF OverBy
<1>7. OverBy(Tail(b), es, j)
  BY <1>1, <1>6, OverByLater
<1>8. Len(Tail(b)) <= Limit
  BY <1>1, MomentsTyped DEF IsQueueAt
<1> QED BY <1>5, <1>6, <1>7, <1>8 DEF IsQueueAt

(* So does appending the present moment where there is room. *)
LEMMA AppendIsQueue ==
  ASSUME NEW b \in Seq(Times), NEW es \in Seq(Times), NEW i \in Times, NEW j \in Nat,
         IsQueueAt(b, es, j), OverBy(b, es, i), i <= j, Len(b) < Limit
  PROVE  IsQueueAt(Append(b, i), Append(es, i), j)
<1> DEFINE d == Dropped(b, es)
           n == Len(es)
           bb == Append(b, i)
           ee == Append(es, i)
<1>1. /\ bb \in Seq(Times) /\ Len(bb) = Len(b) + 1 /\ bb[Len(b) + 1] = i
      /\ \A k \in 1..Len(b) : bb[k] = b[k]
      /\ ee \in Seq(Times) /\ Len(ee) = n + 1 /\ ee[n + 1] = i
      /\ \A k \in 1..n : ee[k] = es[k]
  BY AppendProperties
<1>2. d \in Nat /\ n \in Nat /\ Len(b) \in Nat /\ d = n - Len(b) /\ i \in Nat
  BY MomentsTyped DEF IsQueueAt, IsRemainder, Dropped, Times
<1> HIDE DEF bb, ee
<1>3. Dropped(bb, ee) = d
  BY <1>1, <1>2 DEF Dropped
<1> HIDE DEF d, n
<1>4. IsRemainder(bb, ee)
  <2> SUFFICES ASSUME NEW k \in 1..Len(bb)
               PROVE  bb[k] = ee[d + k]
    BY <1>2, <1>3 DEF IsRemainder
  <2>1. CASE k \in 1..Len(b)
    <3>1. b[k] = es[d + k]
      BY <2>1 DEF IsQueueAt, IsRemainder, d
    <3>2. d + k \in 1..n
      BY <1>2, <2>1
    <3> QED BY <1>1, <2>1, <3>1, <3>2
  <2>2. CASE k = Len(b) + 1
    <3>1. d + k = n + 1
      BY <1>2, <2>2
    <3> QED BY <1>1, <2>2, <3>1
  <2> QED BY <1>1, <1>2, <2>1, <2>2
<1>5. \A k \in 1..n : es[k] <= i /\ es[k] \in Nat
  BY MomentsTyped DEF OverBy, n
<1>6. InOrder(ee)
  <2> SUFFICES ASSUME NEW k \in 1..(n + 1), NEW l \in 1..(n + 1), k <= l
               PROVE  ee[k] <= ee[l]
    BY <1>1 DEF InOrder
  <2>1. CASE k \in 1..n /\ l \in 1..n
    <3>1. es[k] <= es[l]
      BY <2>1 DEF IsQueueAt, InOrder, n
    <3> QED BY <1>1, <2>1, <3>1
  <2>2. CASE k \in 1..n /\ l = n + 1
    BY <1>1, <1>5, <2>2
  <2>3. CASE k = n + 1 /\ l = n + 1
    BY <1>1, <1>2, <2>3
  <2> QED BY <1>2, <2>1, <2>2, <2>3
<1>7. OverBy(bb, ee, j)
  <2>1. ASSUME NEW k \in 1..(n + 1) PROVE ee[k] <= j
    <3>1. CASE k \in 1..n
      <4>1. ee[k] = es[k] /\ es[k] <= i /\ es[k] \in Nat
        BY <1>1, <1>5, <3>1
      <4> QED BY <1>2, <4>1
    <3>2. CASE k = n + 1
      BY <1>1, <1>2, <3>2
    <3> QED BY <1>2, <3>1, <3>2
  <2>2. ASSUME NEW k \in 1..d PROVE ee[k] + Window < j
    <3>1. k \in 1..n
      BY <1>2
    <3>2. es[k] + Window < i /\ Window \in Nat
      BY MomentsTyped DEF OverBy, d
    <3> QED BY <1>1, <1>2, <1>5, <3>1, <3>2
  <2> QED BY <1>1, <1>3, <2>1, <2>2 DEF OverBy
<1>8. Len(bb) <= Limit
  BY <1>1, <1>2, MomentsTyped
<1> QED BY <1>4, <1>6, <1>7, <1>8 DEF IsQueueAt, bb, ee


(* One call more is within the windows that reach its moment. *)
LEMMA WithinAppend ==
  ASSUME NEW es \in Seq(Times), NEW i \in Times, NEW w
  PROVE  Within(Append(es, i), w) =
           IF i + Window >= w /\ i <= w THEN Within(es, w) \cup {Len(es) + 1} ELSE Within(es, w)
<1> DEFINE n == Len(es)
           ee == Append(es, i)
<1>1. /\ ee[n + 1] = i /\ DOMAIN ee = 1..(n + 1)
      /\ \A k \in 1..n : ee[k] = es[k]
  BY AppendProperties, LenProperties
<1>2. n \in Nat /\ DOMAIN es = 1..n
  BY MomentsTyped
<1> HIDE DEF n, ee
<1>3. 1..(n + 1) = (1..n) \cup {n + 1} /\ n + 1 \notin 1..n
  BY <1>2
<1>4. \A k \in 1..n : k \in Within(ee, w) <=> k \in Within(es, w)
  BY <1>1, <1>2, <1>3 DEF Within
<1>5. n + 1 \in Within(ee, w) <=> i + Window >= w /\ i <= w
  BY <1>1, <1>3 DEF Within
<1>6. Within(ee, w) \subseteq 1..(n + 1) /\ Within(es, w) \subseteq 1..n
  BY <1>1, <1>2 DEF Within
<1>7. CASE i + Window >= w /\ i <= w
  <2>1. Within(ee, w) = Within(es, w) \cup {n + 1}
    BY <1>3, <1>4, <1>5, <1>6, <1>7
  <2> QED BY <1>7, <2>1 DEF n, ee
<1>8. CASE ~(i + Window >= w /\ i <= w)
  <2>1. Within(ee, w) = Within(es, w)
    BY <1>3, <1>4, <1>5, <1>6, <1>8
  <2> QED BY <1>8, <2>1 DEF n, ee
<1> QED BY <1>7, <1>8

(* A full window stays full when a later call is let through. *)
LEMMA FullStaysFull ==
  ASSUME NEW es \in Seq(Times), NEW i \in Times, NEW w \in Times, w <= i,
         Cardinality(Within(es, w)) = Limit, RespectsLimit(Append(es, i))
  PROVE  Cardinality(Within(Append(es, i), w)) = Limit
<1>1. i \in Nat /\ w \in Nat /\ Len(es) \in Nat /\ Limit \in Nat /\ DOMAIN es = 1..Len(es)
  BY MomentsTyped DEF Times
<1>2. CASE Within(Append(es, i), w) = Within(es, w)
  BY <1>2
<1>3. CASE Within(Append(es, i), w) = Within(es, w) \cup {Len(es) + 1}
  <2>1. Within(es, w) \subseteq 1..Len(es) /\ Len(es) + 1 \notin 1..Len(es)
    BY <1>1 DEF Within
  <2>2. IsFiniteSet(Within(es, w))
    <3>1. IsFiniteSet(1..Len(es))
      BY <1>1, FS_Interval
    <3> QED BY <2>1, <3>1, FS_Subset
  <2>3. Cardinality(Within(es, w) \cup {Len(es) + 1}) = Limit + 1
    BY <2>1, <2>2, FS_AddElement
  <2>4. Cardinality(Within(Append(es, i), w)) <= Limit
    BY DEF RespectsLimit
  <2> QED BY <1>1, <1>3, <2>3, <2>4
<1> QED BY <1>2, <1>3, WithinAppend

(* Where there is room for one more, the windows that get it have room. *)
LEMMA AppendRespectsLimit ==
  ASSUME NEW b \in Seq(Times), NEW es \in Seq(Times), NEW i \in Times, NEW j \in Nat,
         IsQueueAt(b, es, j), OverBy(b, es, i), Len(b) < Limit, RespectsLimit(es)
  PROVE  RespectsLimit(Append(es, i))
<1> DEFINE d == Dropped(b, es)
           n == Len(es)
           ee == Append(es, i)
<1>1. /\ ee \in Seq(Times) /\ Len(ee) = n + 1 /\ ee[n + 1] = i /\ DOMAIN ee = 1..(n + 1)
      /\ \A k \in 1..n : ee[k] = es[k]
  BY AppendProperties, LenProperties
<1>2. /\ d \in Nat /\ n \in Nat /\ Len(b) \in Nat /\ d = n - Len(b) /\ i \in Nat /\ Window \in Nat
      /\ DOMAIN es = 1..n
  BY MomentsTyped DEF IsQueueAt, IsRemainder, Dropped, Times
<1>3. \A k \in 1..d : es[k] + Window < i
  BY DEF OverBy
<1>4. \A k \in 1..n : es[k] \in Nat
  BY MomentsTyped
<1> HIDE DEF d, n, ee
<1> SUFFICES ASSUME NEW w \in Times
             PROVE  Cardinality(Within(ee, w)) <= Limit
  BY DEF RespectsLimit, ee
<1>5. w \in Nat
  BY DEF Times
<1>6. CASE i + Window >= w /\ i <= w
  <2>1. Within(ee, w) \subseteq (d + 1)..(n + 1)
    <3> SUFFICES ASSUME NEW k \in 1..(n + 1), ee[k] + Window >= w
                 PROVE  k \in (d + 1)..(n + 1)
      BY <1>1 DEF Within
    <3>1. ASSUME k \in 1..d PROVE FALSE
      <4>1. k \in 1..n
        BY <1>2, <3>1
      <4>2. ee[k] = es[k] /\ es[k] \in Nat /\ es[k] + Window < i
        BY <1>1, <1>3, <1>4, <3>1, <4>1
      <4> QED BY <1>2, <1>5, <1>6, <4>2
    <3> QED BY <1>2, <3>1
  <2>2. IsFiniteSet((d + 1)..(n + 1)) /\ Cardinality((d + 1)..(n + 1)) = Len(b) + 1
    <3>1. d + 1 \in Int /\ n + 1 \in Int /\ ~(d + 1 > n + 1) /\ (n + 1) - (d + 1) + 1 = Len(b) + 1
      BY <1>2
    <3> QED BY <3>1, FS_Interval
  <2>3. Cardinality(Within(ee, w)) <= Len(b) + 1 /\ Cardinality(Within(ee, w)) \in Nat
    BY <2>1, <2>2, FS_Subset, FS_CardinalityType
  <2> QED BY <1>2, <2>3, LimiterAssumption
<1>7. CASE ~(i + Window >= w /\ i <= w)
  <2>1. Within(ee, w) = Within(es, w)
    BY <1>7, WithinAppend DEF ee
  <2> QED BY <2>1 DEF RespectsLimit
<1> QED BY <1>6, <1>7

(* A bucket that is full, and whose first entry has not expired, was filled *)
(* within the window.                                                       *)
LEMMA FullIsFull ==
  ASSUME NEW b \in Seq(Times), NEW es \in Seq(Times), NEW i \in Times, NEW j \in Nat,
         IsQueueAt(b, es, j), OverBy(b, es, i), Len(b) >= Limit, ~(Head(b) + Window < i)
  PROVE  Cardinality(Within(es, i)) = Limit
<1> DEFINE d == Dropped(b, es)
           n == Len(es)
<1>1. /\ d \in Nat /\ n \in Nat /\ Len(b) \in Nat /\ d = n - Len(b) /\ i \in Nat /\ Window \in Nat
      /\ DOMAIN es = 1..n /\ Limit \in Nat /\ Limit # 0
  BY MomentsTyped DEF IsQueueAt, IsRemainder, Dropped, Times
<1>2. Len(b) = Limit /\ Len(b) >= 1
  BY <1>1 DEF IsQueueAt
<1>3. \A k \in 1..n : es[k] \in Nat /\ es[k] <= i
  BY MomentsTyped DEF OverBy
<1>4. \A k \in 1..d : es[k] + Window < i
  BY DEF OverBy
<1>5. \A k \in (d + 1)..n : es[k] + Window >= i
  <2>1. Head(b) = es[d + 1]
    <3>1. Head(b) = b[1]
      BY <1>2
    <3> QED BY <1>2, <3>1 DEF IsQueueAt, IsRemainder
  <2> SUFFICES ASSUME NEW k \in (d + 1)..n PROVE es[k] + Window >= i
    OBVIOUS
  <2>2. k \in 1..n /\ d + 1 \in 1..n /\ d + 1 <= k
    BY <1>1, <1>2
  <2>3. es[d + 1] <= es[k] /\ es[d + 1] \in Nat /\ es[k] \in Nat
    BY <1>3, <2>2 DEF IsQueueAt, InOrder
  <2> QED BY <1>1, <2>1, <2>3
<1> HIDE DEF d, n
<1>6. Within(es, i) = (d + 1)..n
  <2>1. ASSUME NEW k \in Within(es, i) PROVE k \in (d + 1)..n
    <3>1. k \in 1..n /\ es[k] + Window >= i
      BY <1>1 DEF Within
    <3>2. k \notin 1..d
      BY <1>1, <1>3, <1>4, <3>1
    <3> QED BY <1>1, <3>1, <3>2
  <2>2. ASSUME NEW k \in (d + 1)..n PROVE k \in Within(es, i)
    <3>1. k \in 1..n
      BY <1>1
    <3> QED BY <1>1, <1>3, <1>5, <3>1 DEF Within
  <2> QED BY <2>1, <2>2
<1>7. d + 1 \in Int /\ n \in Int /\ ~(d + 1 > n) /\ n - (d + 1) + 1 = Limit
  BY <1>1, <1>2
<1> QED BY <1>6, <1>7, FS_Interval


-----------------------------------------------------------------------------
(* Checks that do not overlap.                                             *)

(* The thread is between its clock reading and the end of its check of m. *)
Checking(t, m) == pc[t] \in InBucket /\ method[t] = m

(* One thread at a time checks a method. *)
Separate == \A t, u \in Thread, m \in Method : Checking(t, m) /\ Checking(u, m) => t = u

Queued == \A m \in Method : IsQueueAt(bucket[m], entries[m], now)

(* What a thread at a place knows of bucket b, having read the clock at i. *)
Knows(place, b, i) ==
  /\ place \in {"head", "pop"} => b # << >>
  /\ place = "pop" => Head(b) + Window < i
  /\ place \in {"count", "append"} => b = << >> \/ ~(Head(b) + Window < i)
  /\ place = "append" => Len(b) < Limit

Informed ==
  \A t \in Thread, m \in Method : Checking(t, m) =>
    OverBy(bucket[m], entries[m], sampled[t]) /\ Knows(pc[t], bucket[m], sampled[t])

(* A refusal rests on a full window that no check under way looks back     *)
(* beyond.                                                                 *)
Justified ==
  \A t \in Thread : pc[t] = "full" =>
    /\ Cardinality(Within(entries[method[t]], sampled[t])) = Limit
    /\ \A u \in Thread : Checking(u, method[t]) => sampled[t] <= sampled[u]

NoneRaised == \A t \in Thread : pc[t] # "raised"

Limited == \A m \in Method : RespectsLimit(entries[m])

(* One check at a time makes the bucket a queue of the calls in the window. *)
IsQueue == Separate /\ Queued /\ Informed /\ Justified /\ NoneRaised /\ Limited

Orderly == ~overlapped => IsQueue

(* Threads that are in no bucket afterwards, and refuse nothing, change    *)
(* nothing here, nor does time.                                            *)
LEMMA Bystanders ==
  ASSUME TypeOK, TypeOK', IsQueue, UNCHANGED <<bucket, entries>>, now <= now',
         \A u \in Thread : \/ pc'[u] \notin InBucket \cup {"full", "raised"}
                           \/ pc'[u] = pc[u] /\ method'[u] = method[u] /\ sampled'[u] = sampled[u]
  PROVE  IsQueue'
<1>1. ASSUME NEW u \in Thread, pc'[u] \in InBucket \cup {"full", "raised"}
      PROVE  pc'[u] = pc[u] /\ method'[u] = method[u] /\ sampled'[u] = sampled[u]
  BY <1>1
<1>2. ASSUME NEW u \in Thread, NEW m, Checking(u, m)'
      PROVE  Checking(u, m) /\ pc'[u] = pc[u] /\ sampled'[u] = sampled[u]
  BY <1>1, <1>2 DEF Checking
<1>3. Separate'
  BY <1>2 DEF IsQueue, Separate
<1>4. Queued'
  <2> SUFFICES ASSUME NEW m \in Method
               PROVE  IsQueueAt(bucket[m], entries[m], now')
    BY DEF Queued
  <2>1. IsQueueAt(bucket[m], entries[m], now)
    BY DEF IsQueue, Queued
  <2>2. /\ now \in Nat /\ now' \in Nat
        /\ bucket[m] \in Seq(Times) /\ entries[m] \in Seq(Times)
    BY DEF TypeOK, Times
  <2>3. OverBy(bucket[m], entries[m], now')
    BY <2>1, <2>2, OverByLater DEF IsQueueAt
  <2> QED BY <2>1, <2>3 DEF IsQueueAt
<1>5. Informed'
  BY <1>2 DEF IsQueue, Informed
<1>6. Justified'
  <2> SUFFICES ASSUME NEW t \in Thread, pc'[t] = "full"
               PROVE  /\ Cardinality(Within(entries[method'[t]], sampled'[t])) = Limit
                      /\ \A u \in Thread : Checking(u, method[t])' => sampled'[t] <= sampled'[u]
    BY DEF Justified
  <2>1. pc[t] = "full" /\ method'[t] = method[t] /\ sampled'[t] = sampled[t]
    BY <1>1
  <2>2. /\ Cardinality(Within(entries[method[t]], sampled[t])) = Limit
        /\ \A u \in Thread : Checking(u, method[t]) => sampled[t] <= sampled[u]
    BY <2>1 DEF IsQueue, Justified
  <2>3. ASSUME NEW u \in Thread, Checking(u, method[t])' PROVE sampled'[t] <= sampled'[u]
    <3>1. Checking(u, method[t]) /\ sampled'[u] = sampled[u]
      BY <1>1, <2>1, <2>3 DEF Checking
    <3> QED BY <2>1, <2>2, <3>1
  <2> QED BY <2>1, <2>2, <2>3
<1>7. NoneRaised'
  BY <1>1 DEF IsQueue, NoneRaised
<1>8. Limited'
  BY DEF IsQueue, Limited
<1> QED BY <1>3, <1>4, <1>5, <1>6, <1>7, <1>8 DEF IsQueue


(* A step of the only check of a method: it keeps the queue, the windows   *)
(* stay full that were, and it knows where it gets to.                     *)
LEMMA CheckSteps ==
  ASSUME TypeOK, TypeOK', IsQueue, NEW t \in Thread, NEW m \in Method, Checking(t, m),
         \A u \in Thread \ {t} :
           pc'[u] = pc[u] /\ method'[u] = method[u] /\ sampled'[u] = sampled[u],
         \A x \in Method \ {m} : bucket'[x] = bucket[x] /\ entries'[x] = entries[x],
         now' = now,
         IsQueueAt(bucket'[m], entries'[m], now), RespectsLimit(entries'[m]),
         pc'[t] # "raised",
         pc'[t] \in InBucket \cup {"full"} => method'[t] = m /\ sampled'[t] = sampled[t],
         pc'[t] \in InBucket =>
           OverBy(bucket'[m], entries'[m], sampled[t]) /\ Knows(pc'[t], bucket'[m], sampled[t]),
         pc'[t] = "full" => Cardinality(Within(entries'[m], sampled[t])) = Limit,
         \A u \in Thread : pc[u] = "full" /\ method[u] = m =>
           Cardinality(Within(entries'[m], sampled[u])) = Limit
  PROVE  IsQueue'
<1>0. "full" \notin InBucket
  BY DEF InBucket
<1>1. ASSUME NEW u \in Thread, NEW x \in Method, Checking(u, x)'
      PROVE  Checking(u, x) /\ sampled'[u] = sampled[u] /\ (x = m => u = t)
  <2>1. CASE u = t
    BY <1>1, <2>1 DEF Checking
  <2>2. CASE u # t
    <3>1. Checking(u, x) /\ sampled'[u] = sampled[u]
      BY <1>1, <2>2 DEF Checking
    <3> QED BY <2>2, <3>1 DEF IsQueue, Separate
  <2> QED BY <2>1, <2>2
<1>2. Separate'
  BY <1>1 DEF IsQueue, Separate
<1>3. Queued'
  BY DEF IsQueue, Queued
<1>4. Informed'
  <2> SUFFICES ASSUME NEW u \in Thread, NEW x \in Method, Checking(u, x)'
               PROVE  OverBy(bucket'[x], entries'[x], sampled'[u]) /\ Knows(pc'[u], bucket'[x], sampled'[u])
    BY DEF Informed
  <2>1. CASE x = m
    BY <1>1, <2>1 DEF Checking
  <2>2. CASE x # m
    <3>1. u # t
      BY <2>2 DEF Checking
    <3>2. OverBy(bucket[x], entries[x], sampled[u]) /\ Knows(pc[u], bucket[x], sampled[u])
      BY <1>1 DEF IsQueue, Informed
    <3> QED BY <2>2, <3>1, <3>2
  <2> QED BY <2>1, <2>2
<1>5. Justified'
  <2> SUFFICES ASSUME NEW u \in Thread, pc'[u] = "full"
               PROVE  /\ Cardinality(Within(entries'[method'[u]], sampled'[u])) = Limit
                      /\ \A v \in Thread : Checking(v, method[u])' => sampled'[u] <= sampled'[v]
    BY DEF Justified
  <2>1. CASE u = t
    <3>1. method'[t] = m /\ sampled'[t] = sampled[t] /\ sampled[t] \in Nat
      BY <2>1 DEF TypeOK, Times
    <3>2. ASSUME NEW v \in Thread, Checking(v, method[t])' PROVE FALSE
      BY <1>0, <1>1, <2>1, <3>1, <3>2 DEF Checking
    <3> QED BY <2>1, <3>1, <3>2
  <2>2. CASE u # t
    <3>1. pc[u] = "full" /\ method'[u] = method[u] /\ sampled'[u] = sampled[u] /\ method[u] \in Method
      BY <2>2 DEF TypeOK
    <3>2. /\ Cardinality(Within(entries[method[u]], sampled[u])) = Limit
          /\ \A v \in Thread : Checking(v, method[u]) => sampled[u] <= sampled[v]
      BY <3>1 DEF IsQueue, Justified
    <3>3. Cardinality(Within(entries'[method[u]], sampled[u])) = Limit
      BY <3>1, <3>2
    <3>4. ASSUME NEW v \in Thread, Checking(v, method[u])' PROVE sampled'[u] <= sampled'[v]
      <4>1. Checking(v, method[u]) /\ sampled'[v] = sampled[v]
        BY <1>1, <3>1, <3>4 DEF Checking
      <4> QED BY <3>1, <3>2, <4>1
    <3> QED BY <3>1, <3>3, <3>4
  <2> QED BY <2>1, <2>2
<1>6. NoneRaised'
  BY DEF IsQueue, NoneRaised
<1>7. Limited'
  BY DEF IsQueue, Limited
<1> QED BY <1>2, <1>3, <1>4, <1>5, <1>6, <1>7 DEF IsQueue

(* What a thread in a bucket can rely on. *)
LEMMA CheckKnows ==
  ASSUME TypeOK, Timely, IsQueue, NEW t \in Thread, pc[t] \in InBucket
  PROVE  /\ method[t] \in Method /\ Checking(t, method[t])
         /\ Mine(t) = bucket[method[t]] /\ Mine(t) \in Seq(Times) /\ entries[method[t]] \in Seq(Times)
         /\ sampled[t] \in Times /\ sampled[t] \in Nat /\ now \in Nat /\ sampled[t] <= now
         /\ IsQueueAt(Mine(t), entries[method[t]], now) /\ RespectsLimit(entries[method[t]])
         /\ OverBy(Mine(t), entries[method[t]], sampled[t])
         /\ Knows(pc[t], Mine(t), sampled[t])
         /\ \A u \in Thread : pc[u] = "full" /\ method[u] = method[t] =>
              /\ Cardinality(Within(entries[method[t]], sampled[u])) = Limit
              /\ sampled[u] \in Times /\ sampled[u] <= sampled[t]
<1>1. pc[t] # "idle"
  BY DEF InBucket
<1>2. method[t] \in Method /\ Checking(t, method[t])
  BY <1>1, MethodTyped DEF Checking
<1>3. /\ bucket[method[t]] \in Seq(Times) /\ entries[method[t]] \in Seq(Times)
      /\ now \in Nat /\ sampled[t] \in Times /\ sampled[t] \in Nat
      /\ \A u \in Thread : sampled[u] \in Times
  BY <1>2 DEF TypeOK, Times
<1>4. /\ IsQueueAt(bucket[method[t]], entries[method[t]], now)
      /\ RespectsLimit(entries[method[t]])
      /\ OverBy(bucket[method[t]], entries[method[t]], sampled[t])
      /\ Knows(pc[t], bucket[method[t]], sampled[t])
  BY <1>2 DEF IsQueue, Queued, Limited, Informed
<1>5. \A u \in Thread : pc[u] = "full" /\ method[u] = method[t] =>
        /\ Cardinality(Within(entries[method[t]], sampled[u])) = Limit
        /\ sampled[u] <= sampled[t]
  BY <1>2 DEF IsQueue, Justified
<1> QED BY <1>2, <1>3, <1>4, <1>5 DEF Mine, Timely


(* A check that moves on, or is refused, touching nothing. *)
LEMMA MoveKeepsQueue ==
  ASSUME TypeOK, TypeOK', Timely, IsQueue, NEW t \in Thread, pc[t] \in InBucket,
         NEW place \in InBucket \cup {"full"}, Goto(t, place), UNCHANGED <<now, bucket, entries>>,
         place \in InBucket => Knows(place, Mine(t), sampled[t]),
         place = "full" => Cardinality(Within(entries[method[t]], sampled[t])) = Limit
  PROVE  IsQueue'
<1>1. place # "idle" /\ place # "raised"
  BY DEF InBucket
<1>2. /\ pc' = [pc EXCEPT ![t] = place] /\ method' = method /\ sampled' = sampled
      /\ pc'[t] = place
  BY <1>1 DEF Goto, TypeOK
<1>3. \A u \in Thread \ {t} :
        pc'[u] = pc[u] /\ method'[u] = method[u] /\ sampled'[u] = sampled[u]
  BY <1>2 DEF TypeOK
<1>4. /\ method[t] \in Method /\ Checking(t, method[t]) /\ Mine(t) = bucket[method[t]]
      /\ IsQueueAt(bucket[method[t]], entries[method[t]], now) /\ RespectsLimit(entries[method[t]])
      /\ OverBy(bucket[method[t]], entries[method[t]], sampled[t])
      /\ \A u \in Thread : pc[u] = "full" /\ method[u] = method[t] =>
           Cardinality(Within(entries[method[t]], sampled[u])) = Limit
  BY CheckKnows
<1>5. now' = now /\ bucket' = bucket /\ entries' = entries
  OBVIOUS
<1> DEFINE m == method[t]
<1>6. /\ m \in Method /\ Checking(t, m)
      /\ \A x \in Method \ {m} : bucket'[x] = bucket[x] /\ entries'[x] = entries[x]
      /\ IsQueueAt(bucket'[m], entries'[m], now) /\ RespectsLimit(entries'[m])
      /\ pc'[t] \in InBucket \cup {"full"} => method'[t] = m /\ sampled'[t] = sampled[t]
      /\ pc'[t] \in InBucket =>
           OverBy(bucket'[m], entries'[m], sampled[t]) /\ Knows(pc'[t], bucket'[m], sampled[t])
      /\ pc'[t] = "full" => Cardinality(Within(entries'[m], sampled[t])) = Limit
      /\ \A u \in Thread : pc[u] = "full" /\ method[u] = m =>
           Cardinality(Within(entries'[m], sampled[u])) = Limit
  BY <1>2, <1>4, <1>5
<1> HIDE DEF m
<1> QED BY <1>1, <1>2, <1>3, <1>5, <1>6, CheckSteps

(* The loop's tests tell a thread what it then knows. *)
LEMMA TestsKeepQueue ==
  ASSUME TypeOK, TypeOK', Timely, IsQueue, NEW t \in Thread, TestBucket(t) \/ TestHead(t)
  PROVE  IsQueue'
<1>1. /\ pc[t] \in {"trim", "head"} /\ pc[t] \in InBucket
      /\ now' = now /\ bucket' = bucket /\ entries' = entries
  BY DEF TestBucket, TestHead, InBucket, history
<1>2. PICK place \in {"count", "head", "pop"} :
        Goto(t, place) /\ Knows(place, Mine(t), sampled[t])
  <2>1. CASE TestBucket(t)
    BY <2>1 DEF TestBucket, Knows
  <2>2. CASE TestHead(t)
    <3>1. pc[t] = "head"
      BY <2>2 DEF TestHead
    <3>2. Mine(t) # << >>
      BY <1>1, <3>1, CheckKnows DEF Knows
    <3>3. CASE Head(Mine(t)) + Window < sampled[t]
      BY <2>2, <3>2, <3>3 DEF TestHead, Expired, Knows
    <3>4. CASE ~(Head(Mine(t)) + Window < sampled[t])
      BY <2>2, <3>2, <3>4 DEF TestHead, Expired, Knows
    <3> QED BY <3>3, <3>4
  <2> QED BY <2>1, <2>2
<1>3. place \in InBucket \cup {"full"} /\ place # "full"
  BY DEF InBucket
<1> QED BY <1>1, <1>2, <1>3, MoveKeepsQueue

(* The length decides, and is that of the window's calls. *)
LEMMA CountKeepsQueue ==
  ASSUME TypeOK, TypeOK', Timely, IsQueue, NEW t \in Thread, Count(t)
  PROVE  IsQueue'
<1>1. /\ pc[t] = "count" /\ pc[t] \in InBucket
      /\ now' = now /\ bucket' = bucket /\ entries' = entries
  BY DEF Count, InBucket, history
<1>2. /\ Mine(t) \in Seq(Times) /\ entries[method[t]] \in Seq(Times) /\ sampled[t] \in Times
      /\ now \in Nat /\ IsQueueAt(Mine(t), entries[method[t]], now)
      /\ OverBy(Mine(t), entries[method[t]], sampled[t])
      /\ Mine(t) = << >> \/ ~(Head(Mine(t)) + Window < sampled[t])
  BY <1>1, CheckKnows DEF Knows
<1>3. Len(Mine(t)) \in Nat /\ Limit \in Nat /\ Limit # 0 /\ (Mine(t) = << >> => Len(Mine(t)) = 0)
  BY <1>2, LimiterAssumption
<1>4. CASE Len(Mine(t)) >= Limit
  <2>1. Goto(t, "full")
    BY <1>4 DEF Count
  <2>2. ~(Head(Mine(t)) + Window < sampled[t])
    BY <1>2, <1>3, <1>4
  <2>3. Cardinality(Within(entries[method[t]], sampled[t])) = Limit
    BY <1>2, <1>4, <2>2, FullIsFull
  <2>4. "full" \notin InBucket
    BY DEF InBucket
  <2> QED BY <1>1, <2>1, <2>3, <2>4, MoveKeepsQueue
<1>5. CASE ~(Len(Mine(t)) >= Limit)
  <2>1. Goto(t, "append")
    BY <1>5 DEF Count
  <2>2. Knows("append", Mine(t), sampled[t])
    BY <1>2, <1>3, <1>5 DEF Knows
  <2>3. "append" \in InBucket \cup {"full"} /\ "append" # "full"
    BY DEF InBucket
  <2> QED BY <1>1, <2>1, <2>2, <2>3, MoveKeepsQueue
<1> QED BY <1>4, <1>5

(* What popleft takes is the expired head the thread saw. *)
LEMMA PopKeepsQueue ==
  ASSUME TypeOK, TypeOK', Timely, IsQueue, NEW t \in Thread, Pop(t)
  PROVE  IsQueue'
<1> DEFINE m == method[t]
           b == bucket[m]
           es == entries[m]
           i == sampled[t]
<1>1. /\ pc[t] = "pop" /\ pc[t] \in InBucket /\ now' = now /\ entries' = entries
  BY DEF Pop, InBucket, history
<1>2. /\ m \in Method /\ Checking(t, m) /\ Mine(t) = b /\ b \in Seq(Times) /\ es \in Seq(Times)
      /\ i \in Nat /\ now \in Nat /\ i <= now
      /\ IsQueueAt(b, es, now) /\ RespectsLimit(es) /\ OverBy(b, es, i)
      /\ b # << >> /\ Head(b) + Window < i
      /\ \A u \in Thread : pc[u] = "full" /\ method[u] = m => Cardinality(Within(es, sampled[u])) = Limit
  BY <1>1, CheckKnows DEF Knows
<1>3. bucket' = [bucket EXCEPT ![m] = Tail(b)] /\ Goto(t, "trim")
  BY <1>2 DEF Pop
<1>4. /\ pc'[t] = "trim" /\ method'[t] = m /\ sampled'[t] = i
      /\ \A u \in Thread \ {t} :
           pc'[u] = pc[u] /\ method'[u] = method[u] /\ sampled'[u] = sampled[u]
  BY <1>3 DEF Goto, TypeOK
<1>5. /\ bucket'[m] = Tail(b) /\ entries'[m] = es
      /\ \A x \in Method \ {m} : bucket'[x] = bucket[x] /\ entries'[x] = entries[x]
  BY <1>1, <1>2, <1>3 DEF TypeOK
<1>6. IsQueueAt(Tail(b), es, now) /\ OverBy(Tail(b), es, i)
  BY <1>2, TailIsQueue
<1>7. Knows("trim", Tail(b), i) /\ pc'[t] # "raised" /\ pc'[t] # "full"
  BY <1>4 DEF Knows
<1> HIDE DEF m, b, es
<1> QED BY <1>1, <1>2, <1>4, <1>5, <1>6, <1>7, CheckSteps

(* A call let through is the latest of at most Limit in its window. *)
LEMMA AppendKeepsQueue ==
  ASSUME TypeOK, TypeOK', Timely, IsQueue, NEW t \in Thread, AppendEntry(t)
  PROVE  IsQueue'
<1> DEFINE m == method[t]
           b == bucket[m]
           es == entries[m]
           i == sampled[t]
<1>1. pc[t] = "append" /\ pc[t] \in InBucket /\ now' = now /\ Goto(t, "idle")
  BY DEF AppendEntry, InBucket
<1>2. /\ m \in Method /\ Checking(t, m) /\ b \in Seq(Times) /\ es \in Seq(Times)
      /\ i \in Times /\ now \in Nat /\ i <= now
      /\ IsQueueAt(b, es, now) /\ RespectsLimit(es) /\ OverBy(b, es, i)
      /\ Len(b) < Limit
      /\ \A u \in Thread : pc[u] = "full" /\ method[u] = m =>
           /\ Cardinality(Within(es, sampled[u])) = Limit
           /\ sampled[u] \in Times /\ sampled[u] <= i
  BY <1>1, CheckKnows DEF Knows
<1>3. /\ bucket' = [bucket EXCEPT ![m] = Append(b, i)]
      /\ entries' = [entries EXCEPT ![m] = Append(es, i)]
  BY <1>2 DEF AppendEntry
<1>4. /\ pc'[t] = "idle" /\ pc'[t] \notin InBucket \cup {"full", "raised"}
      /\ \A u \in Thread \ {t} :
           pc'[u] = pc[u] /\ method'[u] = method[u] /\ sampled'[u] = sampled[u]
  BY <1>1 DEF Goto, TypeOK, InBucket
<1>5. /\ bucket'[m] = Append(b, i) /\ entries'[m] = Append(es, i)
      /\ \A x \in Method \ {m} : bucket'[x] = bucket[x] /\ entries'[x] = entries[x]
  BY <1>2, <1>3 DEF TypeOK
<1> HIDE DEF m, b, es, i
<1>6. IsQueueAt(Append(b, i), Append(es, i), now)
  BY <1>2, AppendIsQueue
<1>7. RespectsLimit(Append(es, i))
  BY <1>2, AppendRespectsLimit
<1>8. \A u \in Thread : pc[u] = "full" /\ method[u] = m =>
        Cardinality(Within(Append(es, i), sampled[u])) = Limit
  BY <1>2, <1>7, FullStaysFull
<1>9. /\ IsQueueAt(bucket'[m], entries'[m], now) /\ RespectsLimit(entries'[m])
      /\ \A u \in Thread : pc[u] = "full" /\ method[u] = m =>
           Cardinality(Within(entries'[m], sampled[u])) = Limit
  BY <1>5, <1>6, <1>7, <1>8
<1>10. pc'[t] # "raised" /\ pc'[t] # "full" /\ pc'[t] \notin InBucket
  BY <1>4
<1> QED BY <1>1, <1>2, <1>4, <1>5, <1>9, <1>10, CheckSteps


(* A check that begins when no other of its method is under way. *)
LEMMA BeginKeepsQueue ==
  ASSUME TypeOK, TypeOK', Timely, IsQueue, NEW t \in Thread, ReadClock(t), ~overlapped'
  PROVE  IsQueue'
<1>0. "clock" \notin InBucket /\ "trim" \in InBucket /\ "full" \notin InBucket
  BY DEF InBucket
<1>1. /\ pc[t] = "clock" /\ method[t] \in Method /\ now' = now /\ bucket' = bucket /\ entries' = entries
      /\ \A u \in Thread : ~Checking(u, method[t])
  BY MethodTyped DEF ReadClock, Checking
<1>2. /\ pc'[t] = "trim" /\ method'[t] = method[t] /\ sampled'[t] = now
      /\ \A u \in Thread \ {t} :
           pc'[u] = pc[u] /\ method'[u] = method[u] /\ sampled'[u] = sampled[u]
  BY DEF ReadClock, GotoSampling, TypeOK
<1>3. ASSUME NEW u \in Thread, NEW x \in Method, Checking(u, x)'
      PROVE  \/ u = t /\ x = method[t]
             \/ u # t /\ x # method[t] /\ Checking(u, x)
  BY <1>1, <1>2, <1>3 DEF Checking
<1>4. Separate'
  BY <1>3 DEF IsQueue, Separate
<1>5. Queued'
  BY <1>1 DEF IsQueue, Queued
<1>6. Informed'
  <2> SUFFICES ASSUME NEW u \in Thread, NEW x \in Method, Checking(u, x)'
               PROVE  OverBy(bucket[x], entries[x], sampled'[u]) /\ Knows(pc'[u], bucket[x], sampled'[u])
    BY <1>1 DEF Informed
  <2>1. CASE u = t /\ x = method[t]
    <3>1. OverBy(bucket[x], entries[x], now)
      BY DEF IsQueue, Queued, IsQueueAt
    <3> QED BY <1>2, <2>1, <3>1 DEF Knows
  <2>2. CASE u # t /\ Checking(u, x)
    BY <1>2, <2>2 DEF IsQueue, Informed
  <2> QED BY <1>3, <2>1, <2>2
<1>7. Justified'
  <2> SUFFICES ASSUME NEW u \in Thread, pc'[u] = "full"
               PROVE  /\ Cardinality(Within(entries[method'[u]], sampled'[u])) = Limit
                      /\ \A v \in Thread : Checking(v, method[u])' => sampled'[u] <= sampled'[v]
    BY <1>1 DEF Justified
  <2>1. u # t /\ pc[u] = "full" /\ method'[u] = method[u] /\ sampled'[u] = sampled[u]
    BY <1>2
  <2>2. /\ Cardinality(Within(entries[method[u]], sampled[u])) = Limit
        /\ \A v \in Thread : Checking(v, method[u]) => sampled[u] <= sampled[v]
    BY <2>1 DEF IsQueue, Justified
  <2>3. ASSUME NEW v \in Thread, Checking(v, method[u])' PROVE sampled'[u] <= sampled'[v]
    <3>1. CASE v = t
      BY <1>2, <2>1, <3>1 DEF Timely
    <3>2. CASE v # t
      BY <1>2, <2>1, <2>2, <2>3, <3>2 DEF Checking
    <3> QED BY <3>1, <3>2
  <2> QED BY <2>1, <2>2, <2>3
<1>8. NoneRaised'
  BY <1>2 DEF IsQueue, NoneRaised
<1>9. Limited'
  BY <1>1 DEF IsQueue, Limited
<1> QED BY <1>4, <1>5, <1>6, <1>7, <1>8, <1>9 DEF IsQueue

(* Nothing else touches a bucket. *)
LEMMA OthersKeepQueue ==
  ASSUME TypeOK, TypeOK', IsQueue, NEW t \in Thread,
         \/ Call(t) \/ Resolve(t) \/ MarkResolved(t) \/ BuildClient(t) \/ ReadWindow(t)
         \/ Incr(t) \/ Expire(t) \/ FailOpen(t) \/ Leave(t)
  PROVE  IsQueue'
<1>1. now' = now /\ bucket' = bucket /\ entries' = entries
  BY DEF Call, Resolve, MarkResolved, BuildClient, ReadWindow, Incr, Expire, FailOpen, Leave, history
<1>2. now <= now'
  BY <1>1 DEF TypeOK, Times
<1>3. /\ pc'[t] \in {"resolve", "mark", "window", "clock", "build", "incr", "overcount", "expire", "idle"}
      /\ \A u \in Thread \ {t} :
           pc'[u] = pc[u] /\ method'[u] = method[u] /\ sampled'[u] = sampled[u]
  <2>1. CASE Call(t) \/ ReadWindow(t)
    BY <2>1 DEF Call, ReadWindow, GotoSampling, TypeOK
  <2>2. ASSUME NEW place \in {"resolve", "mark", "window", "clock", "build", "incr", "overcount",
                               "expire", "idle"}, Goto(t, place)
        PROVE  /\ pc'[t] = place
               /\ \A u \in Thread \ {t} :
                    pc'[u] = pc[u] /\ method'[u] = method[u] /\ sampled'[u] = sampled[u]
    BY <2>2 DEF Goto, TypeOK
  <2>3. CASE \/ Resolve(t) \/ MarkResolved(t) \/ BuildClient(t) \/ Expire(t) \/ FailOpen(t) \/ Leave(t)
             \/ Incr(t)
    BY <2>2, <2>3 DEF Resolve, MarkResolved, BuildClient, Incr, Expire, FailOpen, Leave
  <2> QED BY <2>1, <2>3
<1>4. \A u \in Thread : \/ pc'[u] \notin InBucket \cup {"full", "raised"}
                        \/ pc'[u] = pc[u] /\ method'[u] = method[u] /\ sampled'[u] = sampled[u]
  BY <1>3 DEF InBucket
<1> QED BY <1>1, <1>2, <1>4, Bystanders

(* While no two checks of a method have overlapped, every bucket is the    *)
(* queue it was meant to be.                                               *)
LEMMA OrderlyPreserved == TypeOK /\ TypeOK' /\ Timely /\ Orderly /\ [Next]_vars => Orderly'
<1> SUFFICES ASSUME TypeOK, TypeOK', Timely, Orderly, [Next]_vars, ~overlapped' PROVE IsQueue'
  BY DEF Orderly
<1>1. ~overlapped
  <2>1. CASE Tick \/ UNCHANGED vars
    BY <2>1 DEF Tick, vars, history
  <2>2. ASSUME NEW t \in Thread, ReadClock(t) PROVE ~overlapped
    BY <2>2 DEF ReadClock
  <2>3. ASSUME NEW t \in Thread,
               \/ Call(t) \/ Resolve(t) \/ MarkResolved(t) \/ BuildClient(t) \/ ReadWindow(t)
               \/ Incr(t) \/ Expire(t) \/ FailOpen(t) \/ TestBucket(t) \/ TestHead(t) \/ Pop(t)
               \/ Count(t) \/ AppendEntry(t) \/ Leave(t)
        PROVE  ~overlapped
    BY <2>3 DEF Call, Resolve, MarkResolved, BuildClient, ReadWindow, Incr, Expire, FailOpen,
                TestBucket, TestHead, Pop, Count, AppendEntry, Leave, history
  <2> QED BY <2>1, <2>2, <2>3 DEF Next, Spent
<1>2. IsQueue
  BY <1>1 DEF Orderly
<1>3. CASE Tick \/ UNCHANGED vars
  <2>1. /\ UNCHANGED <<bucket, entries, pc, method, sampled>>
        /\ now' = now \/ now' = now + 1
    BY <1>3 DEF Tick, vars, threadVars, history
  <2>2. now <= now'
    BY <2>1 DEF TypeOK, Times
  <2> QED BY <1>2, <2>1, <2>2, Bystanders
<1>4. ASSUME NEW t \in Thread,
             TestBucket(t) \/ TestHead(t) \/ Pop(t) \/ Count(t) \/ AppendEntry(t) \/ ReadClock(t)
      PROVE  IsQueue'
  BY <1>2, <1>4, TestsKeepQueue, PopKeepsQueue, CountKeepsQueue, AppendKeepsQueue, BeginKeepsQueue
<1>5. ASSUME NEW t \in Thread,
             \/ Call(t) \/ Resolve(t) \/ MarkResolved(t) \/ BuildClient(t) \/ ReadWindow(t)
             \/ Incr(t) \/ Expire(t) \/ FailOpen(t) \/ Leave(t)
      PROVE  IsQueue'
  BY <1>2, <1>5, OthersKeepQueue
<1> QED BY <1>3, <1>4, <1>5 DEF Next, Spent

(* At the start every bucket is empty, and so is its history. *)
LEMMA OrderlyInitially == Init => Timely /\ Orderly
<1> SUFFICES ASSUME Init PROVE Timely /\ IsQueue
  BY DEF Orderly
<1>1. /\ now = 0 /\ \A m \in Method : bucket[m] = << >> /\ entries[m] = << >>
      /\ \A t \in Thread : pc[t] = "idle" /\ sampled[t] = 0
  BY DEF Init
<1>2. Timely
  BY <1>1 DEF Timely
<1>3. Len(<< >>) = 0 /\ 1..0 = {} /\ DOMAIN << >> = {}
  OBVIOUS
<1>4. IsQueueAt(<< >>, << >>, 0)
  BY <1>3, LimiterAssumption DEF IsQueueAt, IsRemainder, InOrder, OverBy, Dropped
<1>5. RespectsLimit(<< >>)
  <2>1. \A i \in Times : Within(<< >>, i) = {}
    BY <1>3 DEF Within
  <2>2. Cardinality({}) = 0 /\ 0 <= Limit
    BY FS_EmptySet, LimiterAssumption
  <2> QED BY <2>1, <2>2 DEF RespectsLimit
<1>6. Separate /\ Informed /\ Justified /\ NoneRaised
  BY <1>1 DEF Separate, Informed, Justified, NoneRaised, Checking, InBucket
<1> QED BY <1>1, <1>2, <1>4, <1>5, <1>6 DEF IsQueue, Queued, Limited

(* Overlapping checks are all that can go wrong with the unguarded deque:  *)
(* without them no window of a method ever has more calls than the limit,  *)
(* none is refused before its window has as many, and no check raises.     *)
THEOREM LoneChecksAreExact == Spec => []ExactUnlessOverlapped
<1>1. Timely /\ Orderly => ExactUnlessOverlapped
  BY DEF Orderly, IsQueue, Limited, RespectsLimit, Justified, NoneRaised,
         ExactUnlessOverlapped, BucketRespectsLimit, InWindow
<1> QED BY <1>1, OrderlyInitially, LimiterTypeCorrect, TimelyPreserved, OrderlyPreserved, PTL DEF Spec

=============================================================================
