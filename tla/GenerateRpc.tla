---------------------------- MODULE GenerateRpc ----------------------------
(***************************************************************************)
(* The RPCs that generate text (handlers/rpc_handlers.py): Generate and    *)
(* GenerateStream over AIModelService.generate and generate_stream, and    *)
(* OperatorStatsChat and GenerateReport, which call the whole Generate     *)
(* handler.  The threads of the gRPC pool run them while the worker starts *)
(* up (ModelReadiness), sharing one circuit breaker (OllamaBreaker) and    *)
(* one rate-limit budget.                                                  *)
(*                                                                         *)
(* The gate (breaker, is_loading, is_unavailable) is passed one check at a *)
(* time and nothing holds it closed behind a request that has passed.      *)
(* Within one rate-limit window only: RateLimiter has the windows.         *)
(***************************************************************************)
EXTENDS OllamaBreaker, ModelReadiness, Sequences, FiniteSets

CONSTANTS Thread,        \* the pool's threads
          Limit,         \* AIH1_RPC_RATE_PER_MIN
          MaxDeltas,     \* bound on the deltas of one stream
          MaxSlices      \* bound on the 24-character slices of one answer

ASSUME RpcAssumption == Limit \in Nat /\ MaxDeltas \in Nat /\ MaxSlices \in Nat \ {0}

VARIABLES pc,            \* where the thread's handler stands
          kind,          \* the RPC it serves
          fallback,      \* the stream has fallen back to the blocking generate()
          askedAt,       \* clock reading of the breaker check
          out,           \* the chunks sent to the client so far
          charged,       \* calls charged to the "Generate" bucket
          paid,          \* history: how many of those this RPC was charged for
          marks,         \* history: what this RPC told the breaker
          early          \* history: the RPC began before a background warm-up was kicked off

rpcVars == <<pc, kind, fallback, askedAt, out, charged, paid, marks, early>>
vars == <<now, breakerVars, readinessVars, rpcVars>>

Kinds == {"generate", "stream", "report"}

Errors == {"rate_limited", "bad_request", "circuit_open", "model_loading", "unavailable",
           "model_load_failed", "generation_failed"}

(* A GenerateStreamChunk, or a GenerateResponse (one final chunk). *)
Chunk == [final : BOOLEAN, error : Errors \cup {""},
          from : {"delta", "answer", "placeholder", "template", "none"}]

(* What generate() returns when the call succeeded: the model's text, or   *)
(* "..." where nothing of it is left (_sanitize_assistant_reply).          *)
Texts == {"answer", "placeholder"}

Delta == [final |-> FALSE, error |-> "", from |-> "delta"]
Stop == [final |-> TRUE, error |-> "", from |-> "none"]
Failed(code) == [final |-> TRUE, error |-> code, from |-> "none"]

(* A text in n slices; an empty one passes the loop once                   *)
(* (range(0, max(len, 1), 24)), is final there, and is closed once more.   *)
Slices(n, text) ==
  IF n = 0 THEN <<Stop, Stop>>
  ELSE [i \in 1..n |-> [final |-> (i = n), error |-> "", from |-> text]]

Calling == {"ensure", "chat", "streaming"}

Places == {"idle", "gate", "loading", "unavailable", "probe", "verdict", "ensure", "chat",
           "streaming", "loadfailed", "refall", "fetching", "drafted", "polish", "done", "gone"}

Init == /\ now = 0 /\ BreakerInit /\ ReadinessInit
        /\ pc = [t \in Thread |-> "idle"]
        /\ kind = [t \in Thread |-> "generate"]
        /\ fallback = [t \in Thread |-> FALSE]
        /\ askedAt = [t \in Thread |-> 0]
        /\ out = [t \in Thread |-> << >>]
        /\ charged = 0 /\ paid = [t \in Thread |-> 0]
        /\ marks = [t \in Thread |-> << >>]
        /\ early = [t \in Thread |-> FALSE]

Goto(t, place) == pc' = [pc EXCEPT ![t] = place]
Send(t, chunks) == out' = [out EXCEPT ![t] = @ \o chunks]
Mark(t, what) == marks' = [marks EXCEPT ![t] = Append(@, what)]

(* Where generate() returns to: the client, or the handler that called it. *)
Returned(t) == IF kind[t] = "report" THEN "polish" ELSE "done"

(* The handler returns a response, or yields its last chunk. *)
End(t, chunks) == Goto(t, Returned(t)) /\ Send(t, chunks)

-----------------------------------------------------------------------------
(* The entry both handlers share: rate limit, prompt checks, and the clock *)
(* reading of breaker.state().                                             *)

(* Mutant: the call that finds the budget spent is still let in. *)
EnterOneMore(t, unfit) ==
  /\ charged <= Limit /\ charged' = charged + 1 /\ paid' = [paid EXCEPT ![t] = @ + 1]
  /\ Goto(t, "gate") /\ askedAt' = [askedAt EXCEPT ![t] = now] /\ UNCHANGED out

(* Unfit: a blank prompt, or one that is too long once it is composed. *)
Enter(t, unfit) ==
  IF charged >= Limit
  THEN End(t, <<Failed("rate_limited")>>) /\ UNCHANGED <<charged, paid, askedAt>>
  ELSE /\ charged' = charged + 1 /\ paid' = [paid EXCEPT ![t] = @ + 1]
       /\ IF unfit
          THEN End(t, <<Failed("bad_request")>>) /\ UNCHANGED askedAt
          ELSE Goto(t, "gate") /\ askedAt' = [askedAt EXCEPT ![t] = now] /\ UNCHANGED out

(* An RPC of kind k arrives at an idle thread. *)
Arrive(t, k) ==
  /\ server # "starting" /\ pc[t] = "idle"
  /\ kind' = [kind EXCEPT ![t] = k]
  /\ early' = [early EXCEPT ![t] = ~(server = "kicked" /\ mode = "background")]
  /\ UNCHANGED <<now, breakerVars, readinessVars, fallback, marks>>

Begin(t) ==
  \E k \in {"generate", "stream"}, unfit \in BOOLEAN : Arrive(t, k) /\ Enter(t, unfit)

Refuse(t, code) == End(t, <<Failed(code)>>)

(* _check_ollama_ready, one check after the other. *)
CheckBreaker(t) ==
  /\ pc[t] = "gate"
  /\ IF AllowRequest(askedAt[t])
     THEN Goto(t, "loading") /\ UNCHANGED out
     ELSE Refuse(t, "circuit_open")
  /\ askedAt' = [askedAt EXCEPT ![t] = 0] \* the reading is not used again
  /\ UNCHANGED <<now, breakerVars, readinessVars, kind, fallback, charged, paid, marks, early>>

(* Mutant: the gate does not ask is_loading(). *)
SkipLoading(t) ==
  /\ pc[t] = "loading"
  /\ Goto(t, "unavailable") /\ UNCHANGED out
  /\ UNCHANGED <<now, breakerVars, readinessVars, kind, fallback, askedAt, charged, paid, marks, early>>

CheckLoading(t) ==
  /\ pc[t] = "loading"
  /\ IF readiness = "loading"
     THEN Refuse(t, "model_loading")
     ELSE Goto(t, "unavailable") /\ UNCHANGED out
  /\ UNCHANGED <<now, breakerVars, readinessVars, kind, fallback, askedAt, charged, paid, marks, early>>

CheckUnavailable(t) ==
  /\ pc[t] = "unavailable"
  /\ CASE readiness = "failed" -> Refuse(t, "unavailable")
       [] readiness = "not_started" -> Goto(t, "probe") /\ UNCHANGED out
       [] OTHER -> Goto(t, "ensure") /\ UNCHANGED out
  /\ UNCHANGED <<now, breakerVars, readinessVars, kind, fallback, askedAt, charged, paid, marks, early>>

GateProbe(t) ==
  /\ pc[t] = "probe"
  /\ \E ok \in ShowAnswers : Probe(ok)
  /\ Goto(t, "verdict")
  /\ UNCHANGED <<now, breakerVars, mode, server, readiness, phase, warmPc, proven,
                 kind, fallback, askedAt, out, charged, paid, marks, early>>

GateVerdict(t) ==
  /\ pc[t] = "verdict"
  /\ IF loadError THEN Refuse(t, "unavailable") ELSE Goto(t, "ensure") /\ UNCHANGED out
  /\ UNCHANGED <<now, breakerVars, readinessVars, kind, fallback, askedAt, charged, paid, marks, early>>

(* _ensure_loaded: a probe of every call, RuntimeError when it fails. *)
EnsureLoaded(t) ==
  /\ pc[t] = "ensure"
  /\ \E ok \in ShowAnswers :
       /\ Probe(ok)
       /\ Goto(t, IF ~ok THEN "loadfailed"
                  ELSE IF kind[t] = "stream" /\ ~fallback[t] THEN "streaming" ELSE "chat")
  /\ UNCHANGED <<now, breakerVars, mode, server, readiness, phase, warmPc, proven,
                 kind, fallback, askedAt, out, charged, paid, marks, early>>

-----------------------------------------------------------------------------
(* The blocking call.                                                      *)

(* The answer that goes out: one response, or the slices of a fallback. *)
Answer(t, n, text) == IF kind[t] = "stream" THEN Slices(n, text)
                      ELSE IF n = 0 THEN <<Stop>> ELSE Slices(1, text)

(* generate() swallows whatever the POST raises and returns "", which no   *)
(* call that succeeds does; either way the handler records a success.      *)
Chat(t) ==
  /\ pc[t] = "chat"
  /\ \E ok \in Answers("chat"), text \in Texts, n \in 0..MaxSlices :
       /\ ok <=> n > 0
       /\ text = "placeholder" => n <= 1
       /\ End(t, Answer(t, n, text))
  /\ RecordSuccess /\ Mark(t, "ok")
  /\ UNCHANGED <<now, readinessVars, kind, fallback, askedAt, charged, paid, early>>

(* generate() raised: the handler records a failure and names it. *)
LoadFailed(t) ==
  /\ pc[t] = "loadfailed" /\ (kind[t] = "stream" => fallback[t])
  /\ RecordFailure /\ Mark(t, "fail")
  /\ End(t, <<Failed("model_load_failed")>>)
  /\ UNCHANGED <<now, readinessVars, kind, fallback, askedAt, charged, paid, early>>

-----------------------------------------------------------------------------
(* The stream.                                                             *)

StreamDelta(t) ==
  /\ pc[t] = "streaming" /\ Len(out[t]) < MaxDeltas
  /\ Send(t, <<Delta>>)
  /\ UNCHANGED <<now, breakerVars, readinessVars, pc, kind, fallback, askedAt, charged, paid, marks, early>>

(* done, or the connection closed without it: both end the loop. *)
StreamEnd(t) ==
  /\ pc[t] = "streaming"
  /\ RecordSuccess /\ Mark(t, "ok")
  /\ End(t, <<Stop>>)
  /\ UNCHANGED <<now, readinessVars, kind, fallback, askedAt, charged, paid, early>>

(* Mutant: the fallback runs whatever has been sent. *)
AlwaysFallBack(t) == Goto(t, "refall") /\ UNCHANGED out

AfterBreak(t) == IF out[t] = << >> THEN Goto(t, "refall") /\ UNCHANGED out
                 ELSE End(t, <<Failed("generation_failed")>>)

(* Mutant: what the probe raises is not caught. *)
ProbeNotCaught(t) ==
  /\ pc[t] = "streaming" /\ "stream" \in Faults
  /\ RecordFailure /\ Mark(t, "fail")
  /\ AfterBreak(t)
  /\ UNCHANGED <<now, readinessVars, kind, fallback, askedAt, charged, paid, early>>

(* Mutant: the fallback is begun before the failure is recorded. *)
FallBackUnheard(t) ==
  /\ \/ pc[t] = "streaming" /\ "stream" \in Faults
     \/ pc[t] = "loadfailed" /\ kind[t] = "stream" /\ ~fallback[t]
  /\ IF out[t] = << >> THEN UNCHANGED <<breakerVars, marks>> ELSE RecordFailure /\ Mark(t, "fail")
  /\ AfterBreak(t)
  /\ UNCHANGED <<now, readinessVars, kind, fallback, askedAt, charged, paid, early>>

(* Any Exception, of the probe or of the stream: a failure is recorded. *)
StreamBreak(t) ==
  /\ \/ pc[t] = "streaming" /\ "stream" \in Faults
     \/ pc[t] = "loadfailed" /\ kind[t] = "stream" /\ ~fallback[t]
  /\ RecordFailure /\ Mark(t, "fail")
  /\ AfterBreak(t)
  /\ UNCHANGED <<now, readinessVars, kind, fallback, askedAt, charged, paid, early>>

(* Mutant: what was charged once is not charged again. *)
FallBackFree(t) ==
  /\ pc[t] = "refall"
  /\ fallback' = [fallback EXCEPT ![t] = TRUE]
  /\ Goto(t, "gate") /\ askedAt' = [askedAt EXCEPT ![t] = now]
  /\ UNCHANGED <<now, breakerVars, readinessVars, kind, out, charged, paid, marks, early>>

(* _stream_chunked_fallback: generate() from its first line, rate limit    *)
(* and gate included; the prompt is the one that was let through before.   *)
FallBack(t) ==
  /\ pc[t] = "refall"
  /\ fallback' = [fallback EXCEPT ![t] = TRUE]
  /\ Enter(t, FALSE)
  /\ UNCHANGED <<now, breakerVars, readinessVars, kind, marks, early>>

Reset(t) ==
  /\ Goto(t, "idle")
  /\ kind' = [kind EXCEPT ![t] = "generate"]
  /\ fallback' = [fallback EXCEPT ![t] = FALSE]
  /\ askedAt' = [askedAt EXCEPT ![t] = 0]
  /\ out' = [out EXCEPT ![t] = << >>]
  /\ paid' = [paid EXCEPT ![t] = 0]
  /\ marks' = [marks EXCEPT ![t] = << >>]
  /\ early' = [early EXCEPT ![t] = FALSE]
  /\ UNCHANGED <<now, breakerVars, readinessVars, charged>>

(* The client goes away while the generator is suspended at a yield, and   *)
(* none of the code after it runs.                                         *)
Cancel(t) ==
  /\ pc[t] = "streaming" /\ out[t] # << >>
  /\ Goto(t, "gone")
  /\ UNCHANGED <<now, breakerVars, readinessVars, kind, fallback, askedAt, out, charged, paid, marks, early>>

Leave(t) == pc[t] \in {"done", "gone"} /\ Reset(t)

-----------------------------------------------------------------------------
(* The RPCs that call generate().                                          *)

(* OperatorStatsChat is refused (by a rate-limit bucket of its own, or for *)
(* its arguments), or fetches statistics first, or calls generate(): from  *)
(* there on, it is a Generate RPC, whose prompt has been found fit unless  *)
(* statistics are to be added to it.                                       *)
OperatorStatsChat(t) ==
  /\ Arrive(t, "generate")
  /\ \/ /\ \E code \in {"rate_limited", "bad_request"} : Refuse(t, code)
        /\ UNCHANGED <<charged, paid, askedAt>>
     \/ Goto(t, "fetching") /\ UNCHANGED <<out, charged, paid, askedAt>>
     \/ Enter(t, FALSE)

(* The fetch fails, or the message, looked at only now, is missing or too  *)
(* long; or generate() is called.                                          *)
FetchPublicStats(t) ==
  /\ pc[t] = "fetching"
  /\ \/ Refuse(t, "bad_request") /\ UNCHANGED <<charged, paid, askedAt>>
     \/ \E unfit \in BOOLEAN : Enter(t, unfit)
  /\ UNCHANGED <<now, breakerVars, readinessVars, kind, fallback, marks, early>>

Report(from) == [final |-> TRUE, error |-> "", from |-> from]

(* GenerateReport: the input is refused, or the template filled in; it is  *)
(* delivered as it is when no tokens are asked for.                        *)
GenerateReport(t) ==
  /\ Arrive(t, "report")
  /\ \/ Goto(t, "drafted") /\ UNCHANGED out
     \/ \E reply \in {Report("template"), Failed("bad_request")} :
          Goto(t, "done") /\ Send(t, <<reply>>)
  /\ UNCHANGED <<charged, paid, askedAt>>

Polish(t) ==
  /\ pc[t] = "drafted"
  /\ \E unfit \in BOOLEAN : Enter(t, unfit)
  /\ UNCHANGED <<now, breakerVars, readinessVars, kind, fallback, marks, early>>

(* Mutant: what generate() returned is the report. *)
DeliverPolished(t) ==
  /\ pc[t] = "polish"
  /\ Goto(t, "done")
  /\ UNCHANGED <<now, breakerVars, readinessVars, kind, fallback, askedAt, out, charged, paid, marks, early>>

(* "if polish.text": an error has none. *)
Deliver(t) ==
  /\ pc[t] = "polish"
  /\ out' = [out EXCEPT ![t] = <<Report(IF @[1].from \in Texts THEN @[1].from ELSE "template")>>]
  /\ Goto(t, "done")
  /\ UNCHANGED <<now, breakerVars, readinessVars, kind, fallback, askedAt, charged, paid, marks, early>>

-----------------------------------------------------------------------------

Handle(t) == \/ CheckBreaker(t) \/ CheckLoading(t) \/ CheckUnavailable(t) \/ GateProbe(t)
             \/ GateVerdict(t) \/ EnsureLoaded(t) \/ Chat(t) \/ LoadFailed(t)
             \/ StreamDelta(t) \/ StreamEnd(t) \/ StreamBreak(t) \/ FallBack(t)
             \/ FetchPublicStats(t) \/ Polish(t) \/ Deliver(t)

System == (Serve \/ WarmUp) /\ UNCHANGED <<now, breakerVars, rpcVars>>

Advance == Tick /\ UNCHANGED <<breakerVars, readinessVars, rpcVars>>

Next == \/ System \/ Advance
        \/ \E t \in Thread : \/ Begin(t) \/ OperatorStatsChat(t) \/ GenerateReport(t)
                             \/ Handle(t) \/ Cancel(t) \/ Leave(t)

(* The threads run and every HTTP call ends (urlopen has a timeout). *)
Fairness == WF_vars(System) /\ \A t \in Thread : WF_vars(Handle(t))

Spec == Init /\ [][Next]_vars /\ Fairness

-----------------------------------------------------------------------------

TypeOK ==
  /\ now \in Nat /\ failures \in Nat /\ openUntil \in Int
  /\ ReadinessType
  /\ pc \in [Thread -> Places]
  /\ kind \in [Thread -> Kinds]
  /\ fallback \in [Thread -> BOOLEAN]
  /\ askedAt \in [Thread -> Nat]
  /\ out \in [Thread -> Seq(Chunk)]
  /\ charged \in 0..Limit /\ paid \in [Thread -> 0..Limit]
  /\ marks \in [Thread -> Seq({"ok", "fail"})]
  /\ early \in [Thread -> BOOLEAN]

(* The gate is passed check by check, and the warm-up runs meanwhile; yet  *)
(* a request that began after the background warm-up was kicked off only   *)
(* ever talks to Ollama when the warm-up has succeeded.                    *)
NoUseBeforeReady ==
  \A t \in Thread : pc[t] \in Calling \cup {"loadfailed", "refall"} /\ ~early[t] =>
                      readiness = "ready" /\ proven

(* Whatever fails and whenever, an RPC that ran to its end told the client *)
(* so in one final chunk, its last; an error is told in no other; and the  *)
(* text of a fallback never follows text already streamed.  The exception: *)
(* a fallback whose call generate() swallowed has no text to slice, and    *)
(* _stream_chunked_fallback closes the stream twice.                       *)
AnswerWellFormed ==
  \A t \in Thread : pc[t] = "done" =>
    /\ out[t] # << >>
    /\ \/ \A i \in 1..Len(out[t]) : out[t][i].final <=> i = Len(out[t])
       \/ fallback[t] /\ out[t] = <<Stop, Stop>>
    /\ \A i \in 1..(Len(out[t]) - 1) : out[t][i].error = ""
    /\ \A i, j \in 1..Len(out[t]) : ~(out[t][i].from = "delta" /\ out[t][j].from \in Texts)

(* The breaker hears of every generate() that reached Ollama and came to   *)
(* its end, whichever RPC it ran in, and of no other: one outcome each,    *)
(* and for a stream that fell back its failure first.  Two exceptions: it  *)
(* never hears of a stream whose client left, and a call that generate()   *)
(* swallowed (an answer without a text and without an error) it hears of   *)
(* as a success.                                                           *)
BreakerHearsEachOnce ==
  \A t \in Thread :
    /\ pc[t] = Returned(t) =>
         LET last == out[t][Len(out[t])] IN
         IF last.error \in Errors \ {"model_load_failed", "generation_failed"}
         THEN marks[t] = IF fallback[t] THEN <<"fail">> ELSE << >>
         ELSE marks[t] = (IF fallback[t] THEN <<"fail">> ELSE << >>)
                           \o <<IF last.error = "" THEN "ok" ELSE "fail">>
    /\ pc[t] = "gone" => marks[t] = << >>

(* No way to Ollama goes past the rate limit: an RPC was charged for every *)
(* generation it began, a fallback, a nested generate() and a stream that  *)
(* nobody waits for any more included.                                     *)
PaysForEachCall ==
  \A t \in Thread :
    Len(marks[t]) + (IF pc[t] \in Calling \cup {"loadfailed", "gone"} THEN 1 ELSE 0) <= paid[t]

(* A report that could be drafted is delivered whatever the rate limit,    *)
(* the gate, the breaker and Ollama say to its polishing: as it was        *)
(* drafted, or, when the breaker heard of a success, in the model's words. *)
(* The exception: "...", what generate() makes of an empty answer, counts  *)
(* as the model's words and takes the place of the draft.                  *)
ReportAlwaysDelivered ==
  \A t \in Thread : pc[t] = "done" /\ kind[t] = "report" =>
    \/ out[t] = <<Failed("bad_request")>> /\ paid[t] = 0
    \/ out[t] = <<Report("template")>>
    \/ \E text \in Texts : out[t] = <<Report(text)>> /\ marks[t] = <<"ok">>

(* Every RPC ends, whatever Ollama does, or its client has left.           *)
EveryRpcEnds == \A t \in Thread : (pc[t] # "idle") ~> (pc[t] \in {"done", "gone", "idle"})

(* What rpc_handlers.py:240-242 says of the fallback: when Ollama answers  *)
(* but cannot stream, the stream RPC never hard-fails.                     *)
FallbackNeverHardFails ==
  \A t \in Thread : pc[t] = "done" /\ fallback[t] => \A i \in 1..Len(out[t]) : out[t][i].error = ""

=============================================================================
