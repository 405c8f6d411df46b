---------------------------- MODULE RateLimiter ----------------------------
(***************************************************************************)
(* utils/rpc_rate_limit.py: check_rpc_rate_limit called by the threads of  *)
(* the gRPC pool.  The in-process bucket is a deque that no lock protects, *)
(* so its bytecode steps interleave; the distributed counter is one atomic *)
(* INCR on a key of the minute the call arrived in, in a Redis that may be *)
(* out of reach for a while, lose a reply, or answer late.  The client is  *)
(* built lazily, by the first caller.                                      *)
(***************************************************************************)
EXTENDS Naturals, Sequences, FiniteSets

CONSTANTS Thread, Method,
          Limit,          \* AIH1_RPC_RATE_PER_MIN
          Window,         \* a minute, in ticks of the model's clock
          MaxTime,        \* bound on the clock
          MaxCalls,       \* bound on the calls
          Configured,     \* the values AIH1_RPC_RATE_REDIS_URL may take: TRUE set, FALSE unset
          Outages         \* whether Redis may be unreachable: subset of BOOLEAN

ASSUME LimiterAssumption ==
  /\ Limit \in Nat \ {0} /\ Window \in Nat \ {0}
  /\ MaxTime \in Nat /\ MaxCalls \in Nat
  /\ Configured \subseteq BOOLEAN /\ Outages \subseteq BOOLEAN
  /\ IsFiniteSet(Thread) /\ "none" \notin Method

VARIABLES now,            \* time.monotonic() and time.time()
          distributed,    \* the Redis URL is set in this run
          bucket,         \* _buckets
          resolved,       \* _redis_resolved
          client,         \* _redis_client_cache is not None
          counter,        \* Redis: the count of each method's key, per window
          deadline,       \* Redis: when each key vanishes, 0 for a key without a TTL
          pc, method, sampled,  \* per thread: place, argument, clock reading
          calls,
          entries,        \* history: clock readings of the calls the bucket let through, by method
          counted,        \* history: calls the counter let through, by method and key's window
          waved,          \* history: calls let through on an error, by method and key's window
          forsaken,       \* history: the keys whose TTL was lost with an error, as <<method, window>>
          overlapped      \* history: two in-process checks of one method have overlapped

threadVars == <<pc, method, sampled>>
redisVars == <<resolved, client, counter, deadline>>
history == <<entries, counted, waved, forsaken, overlapped>>
vars == <<now, distributed, bucket, redisVars, threadVars, calls, history>>

Places == {"idle", "resolve", "mark", "build", "window", "incr", "expire", "clock", "trim",
           "head", "pop", "count", "append", "full", "overcount", "raised"}

Times == 0..MaxTime
Windows == 0..(MaxTime \div Window)
None(S) == [m \in Method |-> [i \in S |-> 0]]
OneMore(h, m, i) == [h EXCEPT ![m][i] = @ + 1]

Init == /\ now = 0
        /\ distributed \in Configured
        /\ bucket = [m \in Method |-> << >>]
        /\ resolved = FALSE /\ client = FALSE
        /\ counter = None(Windows)
        /\ deadline = None(Windows)
        /\ pc = [t \in Thread |-> "idle"]
        /\ method = [t \in Thread |-> "none"]
        /\ sampled = [t \in Thread |-> 0]
        /\ calls = 0
        /\ entries = [m \in Method |-> << >>] /\ counted = None(Windows) /\ waved = None(Windows)
        /\ forsaken = {} /\ overlapped = FALSE

(* A call that is over leaves nothing behind in its thread. *)
Goto(t, place) ==
  /\ pc' = [pc EXCEPT ![t] = place]
  /\ IF place = "idle"
     THEN method' = [method EXCEPT ![t] = "none"] /\ sampled' = [sampled EXCEPT ![t] = 0]
     ELSE UNCHANGED <<method, sampled>>

(* The clock is read on the way. *)
GotoSampling(t, place) ==
  /\ pc' = [pc EXCEPT ![t] = place]
  /\ sampled' = [sampled EXCEPT ![t] = now]
  /\ UNCHANGED method

Tick == /\ now < MaxTime /\ now' = now + 1
        /\ UNCHANGED <<distributed, bucket, redisVars, threadVars, calls, history>>

Call(t) == /\ pc[t] = "idle" /\ calls < MaxCalls
           /\ calls' = calls + 1
           /\ pc' = [pc EXCEPT ![t] = "resolve"]
           /\ \E m \in Method : method' = [method EXCEPT ![t] = m]
           /\ UNCHANGED <<now, distributed, bucket, redisVars, sampled, history>>

-----------------------------------------------------------------------------
(* _resolve_redis_client: the flag is raised before the client is there.   *)

Resolve(t) ==
  /\ pc[t] = "resolve"
  /\ Goto(t, IF ~resolved THEN "mark" ELSE IF client THEN "window" ELSE "clock")
  /\ UNCHANGED <<now, distributed, bucket, redisVars, calls, history>>

MarkResolved(t) ==
  /\ pc[t] = "mark"
  /\ resolved' = TRUE
  /\ Goto(t, "build")
  /\ UNCHANGED <<now, distributed, bucket, client, counter, deadline, calls, history>>

(* redis.from_url connects to nothing, so an outage goes unnoticed here. *)
BuildClient(t) ==
  /\ pc[t] = "build"
  /\ client' = distributed
  /\ Goto(t, IF distributed THEN "window" ELSE "clock")
  /\ UNCHANGED <<now, distributed, bucket, resolved, counter, deadline, calls, history>>

-----------------------------------------------------------------------------
(* _check_redis.  Keys are of the window the clock was read in.            *)

WindowOf(t) == sampled[t] \div Window

ReadWindow(t) ==
  /\ pc[t] = "window"
  /\ GotoSampling(t, "incr")
  /\ UNCHANGED <<now, distributed, bucket, redisVars, calls, history>>

(* Redis: a key past its deadline is gone, and counts from 1 again. *)
Gone(m, w) == deadline[m][w] # 0 /\ deadline[m][w] <= now

(* Mutant: one counter for all methods. *)
SharedCounter(m, w) == [x \in Method |-> [counter[x] EXCEPT ![w] = counter[m][w] + 1]]

IncrementOf(m, w) == [counter EXCEPT ![m][w] = IF Gone(m, w) THEN 1 ELSE @ + 1]

(* The key as INCR leaves it: a new one has no TTL. *)
Incremented(m, w) ==
  /\ counter' = IncrementOf(m, w)
  /\ deadline' = [deadline EXCEPT ![m][w] = IF Gone(m, w) THEN 0 ELSE @]

(* INCR decides; the first hit goes on to set the TTL. *)
Incr(t) ==
  /\ pc[t] = "incr"
  /\ Incremented(method[t], WindowOf(t))
  /\ LET count == counter'[method[t]][WindowOf(t)]
     IN  IF count > Limit
         THEN Goto(t, "overcount") /\ UNCHANGED counted
         ELSE /\ Goto(t, IF count = 1 THEN "expire" ELSE "idle")
              /\ counted' = OneMore(counted, method[t], WindowOf(t))
  /\ UNCHANGED <<now, distributed, bucket, resolved, client, calls,
                 entries, waved, forsaken, overlapped>>

(* Mutant: the key is made up anew for EXPIRE, from the clock as it is by then. *)
ExpirePresentKey(t) ==
  /\ pc[t] = "expire"
  /\ deadline' = [deadline EXCEPT ![method[t]][now \div Window] = now + Window]
  /\ Goto(t, "idle")
  /\ UNCHANGED <<now, distributed, bucket, resolved, client, counter, calls, history>>

(* EXPIRE succeeds or raises; the call is let through either way. *)
Expire(t) ==
  /\ pc[t] = "expire"
  /\ \/ /\ deadline' = [deadline EXCEPT ![method[t]][WindowOf(t)] = now + Window]
        /\ UNCHANGED forsaken
     \/ /\ TRUE \in Outages /\ UNCHANGED deadline
        /\ forsaken' = forsaken \cup {<<method[t], WindowOf(t)>>}
  /\ Goto(t, "idle")
  /\ UNCHANGED <<now, distributed, bucket, resolved, client, counter, calls,
                 entries, counted, waved, overlapped>>

(* Mutant: a call whose INCR raised is taken off the count. *)
FailOpenTakingBack(t) ==
  /\ pc[t] = "incr" /\ TRUE \in Outages
  /\ waved' = OneMore(waved, method[t], WindowOf(t))
  /\ counter' = [counter EXCEPT ![method[t]][WindowOf(t)] = @ - 1]
  /\ Goto(t, "idle")
  /\ UNCHANGED <<now, distributed, bucket, resolved, client, deadline, calls,
                 entries, counted, forsaken, overlapped>>

(* INCR raises, before it reached Redis or after (the reply is lost): the  *)
(* call is let through, and nobody looks at the count.                     *)
FailOpen(t) ==
  /\ pc[t] = "incr" /\ TRUE \in Outages
  /\ waved' = OneMore(waved, method[t], WindowOf(t))
  /\ \/ UNCHANGED <<counter, deadline, forsaken>>
     \/ /\ Incremented(method[t], WindowOf(t))
        /\ forsaken' = forsaken \cup {<<method[t], WindowOf(t)>>}
  /\ Goto(t, "idle")
  /\ UNCHANGED <<now, distributed, bucket, resolved, client, calls,
                 entries, counted, overlapped>>

-----------------------------------------------------------------------------
(* _check_in_process, one access to the deque at a time.                   *)

InBucket == {"trim", "head", "pop", "count", "append"}

ReadClock(t) ==
  /\ pc[t] = "clock"
  /\ GotoSampling(t, "trim")
  /\ overlapped' = (overlapped \/ \E u \in Thread : pc[u] \in InBucket /\ method[u] = method[t])
  /\ UNCHANGED <<now, distributed, bucket, redisVars, calls, entries, counted, waved, forsaken>>

Mine(t) == bucket[method[t]]

(* "while bucket": *)
TestBucket(t) ==
  /\ pc[t] = "trim"
  /\ Goto(t, IF Mine(t) = << >> THEN "count" ELSE "head")
  /\ UNCHANGED <<now, distributed, bucket, redisVars, calls, history>>

(* Mutant: entries are dropped a tick too soon. *)
ExpiredTooSoon(t, entry) == entry + Window <= sampled[t]

Expired(t, entry) == entry + Window < sampled[t]

(* "bucket[0] < window_start": IndexError if another thread emptied it. *)
TestHead(t) ==
  /\ pc[t] = "head"
  /\ Goto(t, IF Mine(t) = << >> THEN "raised"
             ELSE IF Expired(t, Head(Mine(t))) THEN "pop" ELSE "count")
  /\ UNCHANGED <<now, distributed, bucket, redisVars, calls, history>>

(* popleft pops whatever is first by now. *)
Pop(t) ==
  /\ pc[t] = "pop"
  /\ IF Mine(t) = << >>
     THEN Goto(t, "raised") /\ UNCHANGED bucket
     ELSE /\ bucket' = [bucket EXCEPT ![method[t]] = Tail(@)]
          /\ Goto(t, "trim")
  /\ UNCHANGED <<now, distributed, redisVars, calls, history>>

(* Mutant: one entry more than the limit fits. *)
CountPastLimit(t) ==
  /\ pc[t] = "count"
  /\ Goto(t, IF Len(Mine(t)) > Limit THEN "full" ELSE "append")
  /\ UNCHANGED <<now, distributed, bucket, redisVars, calls, history>>

Count(t) ==
  /\ pc[t] = "count"
  /\ Goto(t, IF Len(Mine(t)) >= Limit THEN "full" ELSE "append")
  /\ UNCHANGED <<now, distributed, bucket, redisVars, calls, history>>

AppendEntry(t) ==
  /\ pc[t] = "append"
  /\ bucket' = [bucket EXCEPT ![method[t]] = Append(@, sampled[t])]
  /\ entries' = [entries EXCEPT ![method[t]] = Append(@, sampled[t])]
  /\ Goto(t, "idle")
  /\ UNCHANGED <<now, distributed, redisVars, calls,
                 counted, waved, forsaken, overlapped>>

(* The caller answers RATE_LIMITED, or the exception ends the RPC. *)
Leave(t) ==
  /\ pc[t] \in {"full", "overcount", "raised"}
  /\ Goto(t, "idle")
  /\ UNCHANGED <<now, distributed, bucket, redisVars, calls, history>>

-----------------------------------------------------------------------------

(* The model's bounds are spent. *)
Spent == /\ now = MaxTime /\ calls = MaxCalls /\ \A t \in Thread : pc[t] = "idle"
         /\ UNCHANGED vars

Next == \/ Tick \/ Spent
        \/ \E t \in Thread :
             \/ Call(t) \/ Resolve(t) \/ MarkResolved(t) \/ BuildClient(t)
             \/ ReadWindow(t) \/ Incr(t) \/ Expire(t) \/ FailOpen(t)
             \/ ReadClock(t) \/ TestBucket(t) \/ TestHead(t) \/ Pop(t) \/ Count(t)
             \/ AppendEntry(t) \/ Leave(t)

Spec == Init /\ [][Next]_vars

-----------------------------------------------------------------------------

TypeOK ==
  /\ now \in Times /\ calls \in 0..MaxCalls
  /\ distributed \in BOOLEAN /\ resolved \in BOOLEAN /\ client \in BOOLEAN
  /\ bucket \in [Method -> Seq(Times)]
  /\ counter \in [Method -> [Windows -> Nat]]
  /\ deadline \in [Method -> [Windows -> Nat]]
  /\ pc \in [Thread -> Places]
  /\ method \in [Thread -> Method \cup {"none"}]
  /\ \A t \in Thread : pc[t] = "idle" <=> method[t] = "none"
  /\ sampled \in [Thread -> Times]
  /\ entries \in [Method -> Seq(Times)]
  /\ counted \in [Method -> [Windows -> Nat]]
  /\ waved \in [Method -> [Windows -> Nat]]
  /\ forsaken \subseteq Method \X Windows
  /\ overlapped \in BOOLEAN

(* Threads past the length check do not see each other's entries, so the   *)
(* limit is overrun; but a bucket never holds more than one extra entry    *)
(* for every other thread of the pool.                                     *)
BucketLengthBounded ==
  \A m \in Method : Len(bucket[m]) <= Limit + Cardinality(Thread) - 1

(* The in-process limit as documented: in the Window that ends at i, the   *)
(* bucket lets at most Limit calls of a method through.                    *)
Within(readings, i) ==
  {k \in DOMAIN readings : readings[k] + Window >= i /\ readings[k] <= i}

InWindow(m, i) == Cardinality(Within(entries[m], i))

BucketRespectsLimit == \A m \in Method, i \in Times : InWindow(m, i) <= Limit

(* Every way the bucket can go wrong takes two checks of one method that   *)
(* overlap: without that, it lets through exactly Limit calls per Window,  *)
(* refuses only when they were let through, and never raises.              *)
ExactUnlessOverlapped ==
  ~overlapped =>
    /\ BucketRespectsLimit
    /\ \A t \in Thread :
         /\ pc[t] # "raised"
         /\ pc[t] = "full" => InWindow(method[t], sampled[t]) = Limit

(* However the threads interleave, however late INCR runs after the clock  *)
(* was read, and whenever Redis fails or loses a reply, the counter keeps  *)
(* the promise of a fixed-window budget: WindowBudget, where the calls let *)
(* through and refused are those of the handlers.                          *)
Refused == [t \in Thread |->
              IF pc[t] = "overcount" THEN <<method[t], WindowOf(t)>> ELSE << >>]

Budget == INSTANCE WindowBudget WITH granted <- counted, refused <- Refused

KeepsBudget == Budget!Spec

(* A key that nothing will ever remove is the work of an error: without    *)
(* one, the call that created the key sets its TTL.                        *)
ImmortalOnlyByError ==
  \A m \in Method, w \in Windows :
    counter[m][w] > 0 /\ deadline[m][w] = 0 /\ <<m, w>> \notin forsaken =>
      \E t \in Thread : pc[t] = "expire" /\ method[t] = m /\ WindowOf(t) = w

(* What docs/SECURITY.md:153 and rpc_rate_limit.py:5-7 say of an outage:   *)
(* the limiter falls back to the in-process counter, which lets at most    *)
(* Limit calls a minute through.                                           *)
OutageFallsBack == \A m \in Method, w \in Windows : waved[m][w] <= Limit

=============================================================================
