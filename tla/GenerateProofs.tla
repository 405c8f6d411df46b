--------------------------- MODULE GenerateProofs ---------------------------
(***************************************************************************)
(* Theorems of GenerateRpc, for any number of threads, any breaker, budget *)
(* and length of answers, and whatever Ollama and the warm-up do.          *)
(***************************************************************************)
EXTENDS GenerateRpc, ReadinessProofs, SequenceTheorems

(* An RPC in generate() or generate_stream(), paid for but not yet told of. *)
Entered == {"gate", "loading", "unavailable", "probe", "verdict", "loadfailed"} \cup Calling

(* Nothing has been sent yet. *)
Quiet == {"idle", "fetching", "drafted"} \cup (Entered \ {"streaming"})

Refusals == {"rate_limited", "bad_request", "circuit_open", "model_loading", "unavailable"}

-----------------------------------------------------------------------------
(* What holds of one thread.                                               *)

(* The gate: an RPC of a worker whose warm-up was under way before it is   *)
(* past a check only if that check still holds.                            *)
Gated(t) ==
  pc[t] # "idle" /\ ~early[t] =>
    /\ server = "kicked" /\ mode = "background"
    /\ pc[t] \notin {"probe", "verdict"}
    /\ pc[t] = "unavailable" => Decided
    /\ pc[t] \in Calling \cup {"loadfailed", "refall"} => readiness = "ready"

(* The purse: what it was charged covers what it has told the breaker of,  *)
(* and what it is about to.                                                *)
Solvent(t) ==
  /\ paid[t] <= charged
  /\ Len(marks[t]) <= paid[t]
  /\ pc[t] \in Entered \cup {"gone"} => Len(marks[t]) < paid[t]

(* Which places an RPC of a kind gets to. *)
Shape(t) ==
  /\ fallback[t] => kind[t] = "stream"
  /\ pc[t] = "idle" => paid[t] = 0
  /\ pc[t] \in {"idle", "fetching", "drafted", "streaming", "refall", "polish", "gone"} => ~fallback[t]
  /\ pc[t] \in {"idle", "fetching"} => kind[t] = "generate"
  /\ pc[t] \in {"drafted", "polish"} => kind[t] = "report"
  /\ pc[t] \in {"streaming", "refall", "gone"} => kind[t] = "stream"
  /\ pc[t] = "chat" /\ kind[t] = "stream" => fallback[t]

(* What the breaker has heard of an RPC before its last call to Ollama. *)
Before(t) == IF fallback[t] THEN <<"fail">> ELSE << >>

Silent(t) ==
  /\ pc[t] \in Quiet => out[t] = << >> /\ marks[t] = Before(t)
  /\ pc[t] = "streaming" => marks[t] = << >> /\ \A i \in 1..Len(out[t]) : out[t][i] = Delta
  /\ pc[t] = "refall" => out[t] = << >> /\ marks[t] = <<"fail">>
  /\ pc[t] = "gone" => marks[t] = << >>

WellFormed(s) ==
  /\ s # << >>
  /\ \A i \in 1..Len(s) : s[i].final <=> i = Len(s)
  /\ \A i \in 1..(Len(s) - 1) : s[i].error = ""
  /\ \A i, j \in 1..Len(s) : ~(s[i].from = "delta" /\ s[j].from \in Texts)

(* What a client may be told: one end, or the two of a fallback without a text. *)
Told(t, s) == WellFormed(s) \/ (fallback[t] /\ s = <<Stop, Stop>>)

(* What the breaker has heard fits what the client is told last. *)
Heard(t, told) ==
  LET error == told[Len(told)].error IN
  IF error \in Errors \ {"model_load_failed", "generation_failed"}
  THEN marks[t] = Before(t)
  ELSE marks[t] = Before(t) \o <<IF error = "" THEN "ok" ELSE "fail">>

ReportTold(t) ==
  \/ out[t] = <<Failed("bad_request")>> /\ paid[t] = 0
  \/ out[t] = <<Report("template")>>
  \/ \E text \in Texts : out[t] = <<Report(text)>> /\ marks[t] = <<"ok">>

Said(t) ==
  /\ pc[t] \in {"done", "polish"} => Told(t, out[t])
  /\ pc[t] = Returned(t) => Heard(t, out[t])
  /\ pc[t] = "polish" /\ out[t][1].from \in Texts => marks[t] = <<"ok">>
  /\ pc[t] = "done" /\ kind[t] = "report" => ReportTold(t)

ThreadInv(t) == Gated(t) /\ Solvent(t) /\ Shape(t) /\ Silent(t) /\ Said(t)

IInv == TypeOK /\ ReadinessInv /\ \A t \in Thread : ThreadInv(t)

-----------------------------------------------------------------------------
(* What is sent to a client.                                               *)

LEMMA OneChunk ==
  ASSUME NEW c \in Chunk, c.final
  PROVE  <<c>> \in Seq(Chunk) /\ WellFormed(<<c>>) /\ Len(<<c>>) = 1 /\ <<c>>[1] = c
<1>1. <<c>> \in Seq(Chunk) /\ Len(<<c>>) = 1 /\ <<c>>[1] = c
  OBVIOUS
<1>2. \A i \in 1..1 : i = 1
  OBVIOUS
<1>3. ~(c.from = "delta" /\ c.from \in Texts)
  BY DEF Texts
<1>4. <<c>> # << >>
  OBVIOUS
<1> QED BY <1>1, <1>2, <1>3, <1>4 DEF WellFormed

LEMMA Chunks ==
  /\ Delta \in Chunk /\ ~Delta.final /\ Delta.error = "" /\ Delta.from = "delta"
  /\ Stop \in Chunk /\ Stop.final /\ Stop.error = "" /\ Stop.from = "none"
  /\ \A code \in Errors : /\ Failed(code) \in Chunk /\ Failed(code).final
                          /\ Failed(code).error = code /\ Failed(code).from = "none"
  /\ \A from \in {"template"} \cup Texts : /\ Report(from) \in Chunk /\ Report(from).final
                                          /\ Report(from).error = "" /\ Report(from).from = from
  BY DEF Delta, Stop, Failed, Report, Chunk, Errors, Texts

(* The slices of a text. *)
LEMMA SlicesTold ==
  ASSUME NEW n \in Nat \ {0}, NEW text \in Texts
  PROVE  /\ Slices(n, text) \in Seq(Chunk) /\ WellFormed(Slices(n, text))
         /\ Slices(n, text) # << >> /\ Slices(n, text)[Len(Slices(n, text))].error = ""
<1> DEFINE c(i) == [final |-> (i = n), error |-> "", from |-> text]
           s == Slices(n, text)
<1>1. s = [i \in 1..n |-> c(i)]
  BY DEF Slices
<1>2. \A i \in 1..n : c(i) \in Chunk
  BY DEF Chunk, Texts
<1>3. \A i \in 1..n : c(i).error = "" /\ c(i).from = text /\ (c(i).final <=> i = n)
  OBVIOUS
<1> HIDE DEF c, s
<1>4. s \in Seq(Chunk) /\ Len(s) = n /\ \A i \in 1..n : s[i] = c(i)
  BY <1>1, <1>2
<1>5. n \in 1..n /\ \A i \in 1..(n - 1) : i \in 1..n
  OBVIOUS
<1>6. s # << >>
  BY <1>4
<1>7. text # "delta"
  BY DEF Texts
<1>8. WellFormed(s)
  BY <1>3, <1>4, <1>5, <1>6, <1>7 DEF WellFormed
<1> QED BY <1>3, <1>4, <1>5, <1>6, <1>8 DEF s

(* The two ends of a fallback without a text. *)
LEMMA StoppedTwice ==
  /\ <<Stop, Stop>> \in Seq(Chunk) /\ Len(<<Stop, Stop>>) = 2 /\ <<Stop, Stop>> # << >>
  /\ \A i \in 1..2 : <<Stop, Stop>>[i] = Stop
<1>1. ASSUME NEW c \in Chunk
      PROVE  /\ <<c, c>> \in Seq(Chunk) /\ Len(<<c, c>>) = 2 /\ <<c, c>> # << >>
             /\ \A i \in 1..2 : <<c, c>>[i] = c
  OBVIOUS
<1> QED BY <1>1, Chunks

(* An answer, whichever RPC it goes out in; outside a stream it is one chunk. *)
LEMMA AnswerTold ==
  ASSUME NEW t \in Thread, NEW n \in Nat, NEW text \in Texts, kind[t] = "stream" => fallback[t]
  PROVE  /\ Answer(t, n, text) \in Seq(Chunk) /\ Told(t, Answer(t, n, text))
         /\ Answer(t, n, text)[Len(Answer(t, n, text))].error = ""
<1>1. <<Stop>> \in Seq(Chunk) /\ WellFormed(<<Stop>>) /\ Len(<<Stop>>) = 1 /\ <<Stop>>[1] = Stop
  BY OneChunk, Chunks
<1>2. CASE kind[t] = "stream" /\ n = 0
  <2>1. Answer(t, n, text) = <<Stop, Stop>>
    BY <1>2 DEF Answer, Slices
  <2>2. <<Stop, Stop>>[2] = Stop
    BY StoppedTwice
  <2> QED BY <1>2, <2>1, <2>2, StoppedTwice, Chunks DEF Told
<1>3. CASE kind[t] = "stream" /\ n # 0
  <2>1. Answer(t, n, text) = Slices(n, text)
    BY <1>3 DEF Answer
  <2> QED BY <1>3, <2>1, SlicesTold DEF Told
<1>4. CASE kind[t] # "stream" /\ n = 0
  BY <1>1, <1>4, Chunks DEF Answer, Told
<1>5. CASE kind[t] # "stream" /\ n # 0
  <2>1. Answer(t, n, text) = Slices(1, text)
    BY <1>5 DEF Answer
  <2>2. 1 \in Nat \ {0}
    OBVIOUS
  <2> QED BY <2>1, <2>2, SlicesTold DEF Told
<1> QED BY <1>2, <1>3, <1>4, <1>5

(* A stream that was under way and is ended, well or badly. *)
LEMMA StreamTold ==
  ASSUME NEW s \in Seq(Chunk), \A i \in 1..Len(s) : s[i] = Delta,
         NEW c \in Chunk, c.final, c.from = "none"
  PROVE  /\ s \o <<c>> \in Seq(Chunk) /\ WellFormed(s \o <<c>>)
         /\ (s \o <<c>>)[Len(s \o <<c>>)] = c
<1> DEFINE r == s \o <<c>>
<1>1. /\ r \in Seq(Chunk) /\ Len(r) = Len(s) + 1 /\ r[Len(s) + 1] = c
      /\ \A i \in 1..Len(s) : r[i] = s[i]
  OBVIOUS
<1>2. Len(s) \in Nat
  OBVIOUS
<1> HIDE DEF r
<1>3. \A i \in 1..Len(r) : i = Len(r) \/ i \in 1..Len(s)
  BY <1>1, <1>2
<1>4. \A i \in 1..Len(r) : r[i] = c \/ r[i] = Delta
  BY <1>1, <1>2, <1>3
<1>5. \A i \in 1..(Len(r) - 1) : r[i] = Delta
  BY <1>1, <1>2
<1>6. r # << >>
  BY <1>1, <1>2
<1>7. \A i \in 1..Len(r) : r[i].final <=> i = Len(r)
  <2>1. \A i \in 1..Len(r) : i # Len(r) => r[i] = Delta
    BY <1>1, <1>2, <1>5
  <2> QED BY <1>1, <2>1, Chunks
<1>8. \A i \in 1..Len(r) : r[i].from \notin Texts
  BY <1>4, Chunks DEF Texts
<1>9. WellFormed(r)
  BY <1>1, <1>5, <1>6, <1>7, <1>8, Chunks DEF WellFormed
<1> QED BY <1>1, <1>9 DEF r

(* Nothing was sent before. *)
LEMMA FirstSent == ASSUME NEW s \in Seq(Chunk) PROVE << >> \o s = s
  OBVIOUS

LEMMA FirstMark == << >> \o <<"ok">> = <<"ok">> /\ << >> \o <<"fail">> = <<"fail">>
  OBVIOUS

-----------------------------------------------------------------------------
(* A thread that does nothing, while the state is steady and the others    *)
(* are charged.                                                            *)

Still(t) == /\ pc'[t] = pc[t] /\ kind'[t] = kind[t] /\ fallback'[t] = fallback[t]
            /\ out'[t] = out[t] /\ paid'[t] = paid[t] /\ marks'[t] = marks[t]
            /\ early'[t] = early[t]

LEMMA StillKeeps ==
  ASSUME TypeOK, Steady, NEW t \in Thread, ThreadInv(t), Still(t),
         charged' \in Nat, charged <= charged'
  PROVE  ThreadInv(t)'
<1>1. Gated(t)'
  BY DEF ThreadInv, Gated, Still, Steady, Decided
<1>2. Solvent(t)'
  <2>1. charged \in Nat /\ paid[t] \in Nat
    BY RpcAssumption DEF TypeOK
  <2>2. paid'[t] <= charged'
    BY <2>1 DEF ThreadInv, Solvent, Still
  <2> QED BY <2>2 DEF ThreadInv, Solvent, Still
<1>3. Shape(t)'
  BY DEF ThreadInv, Shape, Still
<1>4. Silent(t)'
  BY DEF ThreadInv, Silent, Still, Before
<1>5. Said(t)'
  BY DEF ThreadInv, Said, Still, Before, Returned, Heard, ReportTold, Told
<1> QED BY <1>1, <1>2, <1>3, <1>4, <1>5 DEF ThreadInv

-----------------------------------------------------------------------------
(* What a thread may do, said of its own state only.                       *)

(* It moves on without a word. *)
LEMMA MovedInv ==
  ASSUME NEW t \in Thread, Gated(t)', Shape(t)', Solvent(t)',
         pc'[t] \in Quiet \cup {"streaming"}, pc'[t] = "streaming" => ~fallback'[t],
         out'[t] = << >>, marks'[t] = Before(t)'
  PROVE  ThreadInv(t)'
<1>1. Len(out'[t]) = 0
  OBVIOUS
<1>2. Silent(t)'
  <2>1. CASE pc'[t] = "streaming"
    <3>1. marks'[t] = << >>
      BY <2>1 DEF Before
    <3>2. \A i \in 1..Len(out'[t]) : out'[t][i] = Delta
      BY <1>1
    <3>3. pc'[t] \notin Quiet
      BY <2>1 DEF Quiet, Entered, Calling
    <3> QED BY <2>1, <3>1, <3>2, <3>3 DEF Silent
  <2>2. CASE pc'[t] # "streaming"
    <3>1. pc'[t] \notin {"refall", "gone"}
      BY <2>2 DEF Quiet, Entered, Calling
    <3> QED BY <2>2, <3>1 DEF Silent
  <2> QED BY <2>1, <2>2
<1>3. Said(t)'
  BY DEF Said, Quiet, Entered, Calling, Returned
<1> QED BY <1>2, <1>3 DEF ThreadInv

(* It ends, having been told something. *)
LEMMA EndedInv ==
  ASSUME NEW t \in Thread, Gated(t)', Shape(t)', Solvent(t)',
         pc'[t] = Returned(t)', Told(t, out[t])', Heard(t, out[t])',
         pc'[t] = "polish" /\ out'[t][1].from \in Texts => marks'[t] = <<"ok">>
  PROVE  ThreadInv(t)'
<1>1. Silent(t)'
  BY DEF Silent, Quiet, Entered, Calling, Returned
<1>2. Said(t)'
  BY DEF Said, Returned
<1> QED BY <1>1, <1>2 DEF ThreadInv

(* It is refused. *)
LEMMA RefusedInv ==
  ASSUME NEW t \in Thread, Gated(t)', Shape(t)', Solvent(t)',
         pc'[t] = Returned(t)', marks'[t] = Before(t)',
         NEW code \in Refusals, out'[t] = <<Failed(code)>>
  PROVE  ThreadInv(t)'
<1>1. code \in Errors /\ code # "" /\ code \in Errors \ {"model_load_failed", "generation_failed"}
  BY DEF Refusals, Errors
<1>2. WellFormed(out'[t]) /\ Len(out'[t]) = 1 /\ out'[t][1] = Failed(code)
  <2>1. Failed(code) \in Chunk /\ Failed(code).final
    BY <1>1, Chunks
  <2> QED BY <2>1, OneChunk
<1>3. Heard(t, out[t])'
  <2>1. Failed(code).error = code
    BY <1>1, Chunks
  <2>2. out'[t][Len(out'[t])] = Failed(code)
    BY <1>2
  <2>3. out'[t][Len(out'[t])].error = code
    BY <2>1, <2>2
  <2> QED BY <1>1, <2>3 DEF Heard
<1>4. out'[t][1].from \notin Texts
  BY <1>1, <1>2, Chunks DEF Texts
<1>5. Told(t, out[t])'
  BY <1>2 DEF Told
<1> QED BY <1>3, <1>4, <1>5, EndedInv

(* The call to Ollama ended with an answer. *)
LEMMA AnsweredInv ==
  ASSUME NEW t \in Thread, Gated(t)', Shape(t)', Solvent(t)',
         pc'[t] = Returned(t)', marks'[t] = Before(t)' \o <<"ok">>,
         Told(t, out[t])', out'[t][Len(out'[t])].error = ""
  PROVE  ThreadInv(t)'
<1>1. Heard(t, out[t])'
  BY DEF Heard, Errors
<1>2. pc'[t] = "polish" => marks'[t] = <<"ok">>
  <2>1. pc'[t] = "polish" => Before(t)' = << >>
    BY DEF Shape, Before
  <2> QED BY <2>1, FirstMark
<1> QED BY <1>1, <1>2, EndedInv

(* It was not begun, for the model could not be loaded. *)
LEMMA LoadFailedInv ==
  ASSUME NEW t \in Thread, Gated(t)', Shape(t)', Solvent(t)',
         pc'[t] = Returned(t)', marks'[t] = Before(t)' \o <<"fail">>,
         out'[t] = <<Failed("model_load_failed")>>
  PROVE  ThreadInv(t)'
<1>1. "model_load_failed" \in Errors /\ "model_load_failed" # ""
  BY DEF Errors
<1>2. WellFormed(out'[t]) /\ Len(out'[t]) = 1 /\ out'[t][1] = Failed("model_load_failed")
  <2>1. Failed("model_load_failed") \in Chunk /\ Failed("model_load_failed").final
    BY <1>1, Chunks
  <2> QED BY <2>1, OneChunk
<1>3. Heard(t, out[t])'
  BY <1>1, <1>2, Chunks DEF Heard
<1>4. out'[t][1].from \notin Texts
  BY <1>1, <1>2, Chunks DEF Texts
<1>5. Told(t, out[t])'
  BY <1>2 DEF Told
<1> QED BY <1>3, <1>4, <1>5, EndedInv

(* A stream ends with what it was sent and one chunk more. *)
LEMMA StreamedInv ==
  ASSUME NEW t \in Thread, Gated(t)', Shape(t)', Solvent(t)',
         kind'[t] = "stream", pc'[t] = "done", ~fallback'[t],
         WellFormed(out'[t]),
         \/ out'[t][Len(out'[t])] = Stop /\ marks'[t] = <<"ok">>
         \/ out'[t][Len(out'[t])] = Failed("generation_failed") /\ marks'[t] = <<"fail">>
  PROVE  ThreadInv(t)'
<1>1. "generation_failed" \in Errors /\ "generation_failed" # ""
  BY DEF Errors
<1>2. Before(t)' = << >>
  BY DEF Before
<1>3. Heard(t, out[t])'
  <2>1. CASE out'[t][Len(out'[t])] = Stop /\ marks'[t] = <<"ok">>
    <3>1. out'[t][Len(out'[t])].error = ""
      BY <2>1, Chunks
    <3> QED BY <1>2, <2>1, <3>1, FirstMark DEF Heard, Errors
  <2>2. CASE out'[t][Len(out'[t])] = Failed("generation_failed") /\ marks'[t] = <<"fail">>
    <3>1. out'[t][Len(out'[t])].error = "generation_failed"
      BY <1>1, <2>2, Chunks
    <3> QED BY <1>1, <1>2, <2>2, <3>1, FirstMark DEF Heard
  <2> QED BY <2>1, <2>2
<1>4. Told(t, out[t])'
  BY DEF Told
<1> QED BY <1>3, <1>4, EndedInv DEF Returned

(* A stream that failed before it was sent anything is to be done again. *)
LEMMA ToFallBackInv ==
  ASSUME NEW t \in Thread, Gated(t)', Shape(t)', Solvent(t)',
         pc'[t] = "refall", out'[t] = << >>, marks'[t] = <<"fail">>
  PROVE  ThreadInv(t)'
  BY DEF ThreadInv, Silent, Said, Quiet, Entered, Calling, Returned

(* A report is delivered. *)
LEMMA DeliveredInv ==
  ASSUME NEW t \in Thread, Gated(t)', Shape(t)', Solvent(t)',
         pc'[t] = "done", kind'[t] = "report", ReportTold(t)'
  PROVE  ThreadInv(t)'
<1>1. "bad_request" \in Errors
  BY DEF Errors
<1>2. Told(t, out[t])'
  <2>1. PICK c \in Chunk : c.final /\ out'[t] = <<c>>
    <3>1. CASE out'[t] = <<Failed("bad_request")>>
      BY <1>1, <3>1, Chunks
    <3>2. CASE \E from \in {"template"} \cup Texts : out'[t] = <<Report(from)>>
      BY <3>2, Chunks
    <3> QED BY <3>1, <3>2 DEF ReportTold
  <2> QED BY <2>1, OneChunk DEF Told
<1>3. Silent(t)'
  BY DEF Silent, Quiet, Entered, Calling
<1> QED BY <1>2, <1>3 DEF ThreadInv, Said, Returned

-----------------------------------------------------------------------------
(* What the handlers' parts do to a thread's state, and to the types.      *)

(* The variables of the threads, and those of one thread. *)
Typed == /\ pc \in [Thread -> Places] /\ kind \in [Thread -> Kinds]
         /\ fallback \in [Thread -> BOOLEAN] /\ askedAt \in [Thread -> Nat]
         /\ out \in [Thread -> Seq(Chunk)]
         /\ charged \in 0..Limit /\ paid \in [Thread -> 0..Limit]
         /\ marks \in [Thread -> Seq({"ok", "fail"})] /\ early \in [Thread -> BOOLEAN]

Others(t) == \A u \in Thread \ {t} : Still(u)

LEMMA GotoDoes ==
  ASSUME Typed, NEW t \in Thread, NEW place \in Places, Goto(t, place)
  PROVE  /\ pc' \in [Thread -> Places] /\ pc'[t] = place
         /\ \A u \in Thread \ {t} : pc'[u] = pc[u]
  BY DEF Typed, Goto

LEMMA SendDoes ==
  ASSUME Typed, NEW t \in Thread, NEW chunks \in Seq(Chunk), Send(t, chunks)
  PROVE  /\ out' \in [Thread -> Seq(Chunk)] /\ out'[t] = out[t] \o chunks
         /\ \A u \in Thread \ {t} : out'[u] = out[u]
<1>1. out[t] \o chunks \in Seq(Chunk)
  BY DEF Typed
<1> QED BY <1>1 DEF Typed, Send

LEMMA MarkDoes ==
  ASSUME Typed, NEW t \in Thread, NEW what \in {"ok", "fail"}, Mark(t, what)
  PROVE  /\ marks' \in [Thread -> Seq({"ok", "fail"})] /\ marks'[t] = Append(marks[t], what)
         /\ \A u \in Thread \ {t} : marks'[u] = marks[u]
<1>1. Append(marks[t], what) \in Seq({"ok", "fail"})
  BY DEF Typed
<1> QED BY <1>1 DEF Typed, Mark

LEMMA EndDoes ==
  ASSUME Typed, NEW t \in Thread, NEW chunks \in Seq(Chunk), End(t, chunks)
  PROVE  /\ pc' \in [Thread -> Places] /\ pc'[t] = Returned(t)
         /\ \A u \in Thread \ {t} : pc'[u] = pc[u]
         /\ out' \in [Thread -> Seq(Chunk)] /\ out'[t] = out[t] \o chunks
         /\ \A u \in Thread \ {t} : out'[u] = out[u]
<1>1. Returned(t) \in Places
  BY DEF Returned, Places
<1> QED BY <1>1, GotoDoes, SendDoes DEF End

LEMMA RefuseDoes ==
  ASSUME Typed, NEW t \in Thread, NEW code \in Refusals, End(t, <<Failed(code)>>), out[t] = << >>
  PROVE  /\ pc' \in [Thread -> Places] /\ pc'[t] = Returned(t)
         /\ \A u \in Thread \ {t} : pc'[u] = pc[u]
         /\ out' \in [Thread -> Seq(Chunk)] /\ out'[t] = <<Failed(code)>>
         /\ \A u \in Thread \ {t} : out'[u] = out[u]
<1>1. code \in Errors
  BY DEF Refusals, Errors
<1>2. Failed(code) \in Chunk /\ Failed(code).final
  BY <1>1, Chunks
<1>3. <<Failed(code)>> \in Seq(Chunk)
  BY <1>2, OneChunk
<1>4. << >> \o <<Failed(code)>> = <<Failed(code)>>
  BY <1>3, FirstSent
<1> QED BY <1>3, <1>4, EndDoes

(* The entry: it is paid for, and refused or let in; or refused unpaid. *)
Charged(t) == \/ charged' = charged /\ paid'[t] = paid[t]
              \/ charged' = charged + 1 /\ paid'[t] = paid[t] + 1

LEMMA EnterDoes ==
  ASSUME Typed, now \in Nat, NEW t \in Thread, NEW unfit \in BOOLEAN, Enter(t, unfit),
         out[t] = << >>, paid[t] <= charged
  PROVE  /\ pc' \in [Thread -> Places] /\ \A u \in Thread \ {t} : pc'[u] = pc[u]
         /\ out' \in [Thread -> Seq(Chunk)] /\ \A u \in Thread \ {t} : out'[u] = out[u]
         /\ askedAt' \in [Thread -> Nat]
         /\ charged' \in 0..Limit /\ charged <= charged' /\ Charged(t)
         /\ paid' \in [Thread -> 0..Limit] /\ \A u \in Thread \ {t} : paid'[u] = paid[u]
         /\ \/ pc'[t] = "gate" /\ out'[t] = << >> /\ paid'[t] = paid[t] + 1
            \/ /\ pc'[t] = Returned(t)
               /\ \E code \in Refusals : out'[t] = <<Failed(code)>>
<1> DEFINE Paying == charged' = charged + 1 /\ paid' = [paid EXCEPT ![t] = @ + 1]
<1>1. "rate_limited" \in Refusals /\ "bad_request" \in Refusals /\ "gate" \in Places
  BY DEF Refusals, Places
<1>2. charged \in 0..Limit /\ charged \in Nat /\ Limit \in Nat /\ paid[t] \in Nat
  BY RpcAssumption DEF Typed
<1>3. CASE charged >= Limit
  <2>1. End(t, <<Failed("rate_limited")>>) /\ UNCHANGED <<charged, paid, askedAt>>
    BY <1>3 DEF Enter
  <2>2. /\ pc' \in [Thread -> Places] /\ pc'[t] = Returned(t)
        /\ \A u \in Thread \ {t} : pc'[u] = pc[u]
        /\ out' \in [Thread -> Seq(Chunk)] /\ out'[t] = <<Failed("rate_limited")>>
        /\ \A u \in Thread \ {t} : out'[u] = out[u]
    BY <1>1, <2>1, RefuseDoes
  <2> QED BY <1>1, <1>2, <2>1, <2>2 DEF Typed, Charged
<1>4. CASE charged < Limit
  <2>1. Paying
    BY <1>2, <1>4 DEF Enter
  <2>2. /\ charged' \in 0..Limit /\ charged <= charged' /\ Charged(t)
        /\ paid' \in [Thread -> 0..Limit] /\ \A u \in Thread \ {t} : paid'[u] = paid[u]
        /\ paid'[t] = paid[t] + 1
    <3>1. paid[t] + 1 \in 0..Limit
      BY <1>2, <1>4
    <3> QED BY <1>2, <1>4, <2>1, <3>1 DEF Typed, Charged
  <2>3. CASE unfit
    <3>1. End(t, <<Failed("bad_request")>>) /\ UNCHANGED askedAt
      BY <1>2, <1>4, <2>3 DEF Enter
    <3>2. /\ pc' \in [Thread -> Places] /\ pc'[t] = Returned(t)
          /\ \A u \in Thread \ {t} : pc'[u] = pc[u]
          /\ out' \in [Thread -> Seq(Chunk)] /\ out'[t] = <<Failed("bad_request")>>
          /\ \A u \in Thread \ {t} : out'[u] = out[u]
      BY <1>1, <3>1, RefuseDoes
    <3> QED BY <1>1, <2>2, <3>1, <3>2 DEF Typed
  <2>4. CASE ~unfit
    <3>1. Goto(t, "gate") /\ askedAt' = [askedAt EXCEPT ![t] = now] /\ UNCHANGED out
      BY <1>2, <1>4, <2>4 DEF Enter
    <3>2. /\ pc' \in [Thread -> Places] /\ pc'[t] = "gate"
          /\ \A u \in Thread \ {t} : pc'[u] = pc[u]
      BY <1>1, <3>1, GotoDoes
    <3> QED BY <2>2, <3>1, <3>2 DEF Typed
  <2> QED BY <2>3, <2>4
<1> QED BY <1>2, <1>3, <1>4

-----------------------------------------------------------------------------
(* One thread's step, and all the threads.                                 *)

LEMMA OneThread ==
  ASSUME IInv, Steady, ReadinessInv', Typed', now' \in Nat, failures' \in Nat, openUntil' \in Int,
         NEW t \in Thread, ThreadInv(t)', Others(t), charged <= charged'
  PROVE  IInv'
<1>1. TypeOK'
  BY DEF TypeOK, Typed, ReadinessInv
<1>2. charged' \in Nat
  BY RpcAssumption DEF Typed
<1>3. ASSUME NEW u \in Thread PROVE ThreadInv(u)'
  <2>1. CASE u = t
    BY <2>1
  <2>2. CASE u # t
    BY <1>2, <2>2, StillKeeps DEF IInv, Others
  <2> QED BY <2>1, <2>2
<1> QED BY <1>1, <1>3 DEF IInv

(* What is known of a thread to begin with. *)
LEMMA Known ==
  ASSUME IInv, NEW t \in Thread
  PROVE  /\ Typed /\ now \in Nat /\ failures \in Nat /\ openUntil \in Int
         /\ ThreadInv(t) /\ charged \in Nat /\ paid[t] \in Nat /\ Len(marks[t]) \in Nat
         /\ Limit \in Nat
<1>1. Typed /\ now \in Nat /\ failures \in Nat /\ openUntil \in Int
  BY DEF IInv, TypeOK, Typed
<1>2. charged \in Nat /\ paid[t] \in Nat
  BY <1>1, RpcAssumption DEF Typed
<1>3. Len(marks[t]) \in Nat
  BY <1>1 DEF Typed
<1> QED BY <1>1, <1>2, <1>3, RpcAssumption DEF IInv

(* A check of the gate, or the probe after it: passed to a place that suits *)
(* the RPC and the readiness, or refused.                                   *)
Suits(t, place) ==
  /\ place = "streaming" => kind[t] = "stream" /\ ~fallback[t]
  /\ place = "chat" /\ kind[t] = "stream" => fallback[t]

ReadyFor(t, place) ==
  ~early[t] => /\ place \notin {"probe", "verdict"}
               /\ place = "unavailable" => Decided
               /\ place \in Calling \cup {"loadfailed"} => readiness = "ready"

LEMMA GateStep ==
  ASSUME IInv, Steady, ReadinessInv', NEW t \in Thread, pc[t] \in Entered \ {"streaming"},
         UNCHANGED <<now, breakerVars, kind, fallback, charged, paid, marks, early>>,
         askedAt' \in [Thread -> Nat],
         \/ \E code \in Refusals : End(t, <<Failed(code)>>)
         \/ \E place \in Entered : /\ Goto(t, place) /\ UNCHANGED out
                                   /\ Suits(t, place) /\ ReadyFor(t, place)
  PROVE  IInv'
<1>1. /\ Typed /\ now' \in Nat /\ failures' \in Nat /\ openUntil' \in Int
      /\ ThreadInv(t) /\ charged \in Nat /\ paid[t] \in Nat /\ Len(marks[t]) \in Nat
      /\ charged <= charged'
  BY Known DEF breakerVars
<1>2. out[t] = << >> /\ marks[t] = Before(t) /\ Before(t)' = Before(t)
  BY <1>1 DEF ThreadInv, Silent, Quiet, Before
<1>3. /\ kind'[t] = kind[t] /\ fallback'[t] = fallback[t] /\ paid'[t] = paid[t]
      /\ marks'[t] = marks[t] /\ early'[t] = early[t] /\ charged' = charged
  OBVIOUS
<1>4. pc[t] # "idle" /\ (~early[t] => server = "kicked" /\ mode = "background")
  BY <1>1 DEF ThreadInv, Gated, Entered, Calling
<1>5. CASE \E code \in Refusals : End(t, <<Failed(code)>>)
  <2>1. PICK code \in Refusals : End(t, <<Failed(code)>>)
    BY <1>5
  <2>2. /\ pc' \in [Thread -> Places] /\ pc'[t] = Returned(t)
        /\ \A u \in Thread \ {t} : pc'[u] = pc[u]
        /\ out' \in [Thread -> Seq(Chunk)] /\ out'[t] = <<Failed(code)>>
        /\ \A u \in Thread \ {t} : out'[u] = out[u]
    BY <1>1, <1>2, <2>1, RefuseDoes
  <2>3. Typed' /\ Others(t)
    BY <1>1, <2>2 DEF Typed, Others, Still
  <2>4. pc'[t] = Returned(t)' /\ pc'[t] \in {"done", "polish"}
    BY <1>3, <2>2 DEF Returned
  <2>5. Gated(t)'
    BY <1>3, <1>4, <2>4 DEF Gated, Steady, Calling
  <2>6. Solvent(t)'
    <3>1. pc'[t] \notin Entered \cup {"gone"}
      BY <2>4 DEF Entered, Calling
    <3>2. paid[t] <= charged /\ Len(marks[t]) <= paid[t]
      BY <1>1 DEF ThreadInv, Solvent
    <3> QED BY <1>1, <1>3, <3>1, <3>2 DEF Solvent
  <2>7. Shape(t)'
    BY <1>1, <1>3, <2>4 DEF ThreadInv, Shape, Returned
  <2>8. ThreadInv(t)'
    BY <1>2, <1>3, <2>2, <2>4, <2>5, <2>6, <2>7, RefusedInv
  <2> QED BY <1>1, <2>3, <2>8, OneThread
<1>6. CASE \E place \in Entered : /\ Goto(t, place) /\ UNCHANGED out
                                  /\ Suits(t, place) /\ ReadyFor(t, place)
  <2>1. PICK place \in Entered : /\ Goto(t, place) /\ UNCHANGED out
                                 /\ Suits(t, place) /\ ReadyFor(t, place)
    BY <1>6
  <2>2. place \in Places
    BY DEF Entered, Calling, Places
  <2>3. pc' \in [Thread -> Places] /\ pc'[t] = place /\ \A u \in Thread \ {t} : pc'[u] = pc[u]
    BY <1>1, <2>1, <2>2, GotoDoes
  <2>4. Typed' /\ Others(t)
    BY <1>1, <2>1, <2>3 DEF Typed, Others, Still
  <2>5. Gated(t)'
    BY <1>3, <1>4, <2>1, <2>3 DEF Gated, ReadyFor, Steady, Decided, Entered, Calling
  <2>6. Solvent(t)'
    BY <1>1, <1>3, <2>3 DEF ThreadInv, Solvent, Entered, Calling
  <2>7. Shape(t)'
    BY <1>1, <1>3, <2>1, <2>3 DEF ThreadInv, Shape, Suits, Entered, Calling
  <2>8. ThreadInv(t)'
    BY <1>2, <1>3, <2>1, <2>3, <2>5, <2>6, <2>7, MovedInv DEF Suits, Quiet
  <2> QED BY <1>1, <2>4, <2>8, OneThread
<1> QED BY <1>5, <1>6

-----------------------------------------------------------------------------
(* The gate.                                                               *)

LEMMA CheckBreakerKeeps ==
  ASSUME IInv, NEW t \in Thread, CheckBreaker(t)
  PROVE  IInv'
<1>1. ReadinessInv' /\ Steady
  BY ReadinessUntouched DEF CheckBreaker, IInv
<1>2. pc[t] \in Entered \ {"streaming"}
  BY DEF CheckBreaker, Entered
<1>3. askedAt' \in [Thread -> Nat]
  BY DEF IInv, TypeOK, CheckBreaker
<1>4. UNCHANGED <<now, breakerVars, kind, fallback, charged, paid, marks, early>>
  BY DEF CheckBreaker
<1>5. \/ \E code \in Refusals : End(t, <<Failed(code)>>)
      \/ \E place \in Entered : /\ Goto(t, place) /\ UNCHANGED out
                                /\ Suits(t, place) /\ ReadyFor(t, place)
  <2>1. Refuse(t, "circuit_open") \/ (Goto(t, "loading") /\ UNCHANGED out)
    BY DEF CheckBreaker
  <2>2. "circuit_open" \in Refusals /\ "loading" \in Entered
    BY DEF Refusals, Entered
  <2>3. Suits(t, "loading") /\ ReadyFor(t, "loading")
    BY DEF Suits, ReadyFor, Calling
  <2> QED BY <2>1, <2>2, <2>3 DEF Refuse
<1> QED BY <1>1, <1>2, <1>3, <1>4, <1>5, GateStep

LEMMA CheckLoadingKeeps ==
  ASSUME IInv, NEW t \in Thread, CheckLoading(t)
  PROVE  IInv'
<1>1. ReadinessInv' /\ Steady
  BY ReadinessUntouched DEF CheckLoading, IInv
<1>2. pc[t] \in Entered \ {"streaming"}
  BY DEF CheckLoading, Entered
<1>3. askedAt' \in [Thread -> Nat]
  BY DEF IInv, TypeOK, CheckLoading
<1>4. UNCHANGED <<now, breakerVars, kind, fallback, charged, paid, marks, early>>
  BY DEF CheckLoading
<1>5. \/ \E code \in Refusals : End(t, <<Failed(code)>>)
      \/ \E place \in Entered : /\ Goto(t, place) /\ UNCHANGED out
                                /\ Suits(t, place) /\ ReadyFor(t, place)
  <2>1. \/ Refuse(t, "model_loading")
        \/ readiness # "loading" /\ Goto(t, "unavailable") /\ UNCHANGED out
    BY DEF CheckLoading
  <2>2. "model_loading" \in Refusals /\ "unavailable" \in Entered
    BY DEF Refusals, Entered
  <2>3. Suits(t, "unavailable")
    BY DEF Suits
  <2>4. readiness # "loading" => ReadyFor(t, "unavailable")
    BY DEF CheckLoading, IInv, ThreadInv, Gated, ReadinessInv, ReadinessType, ReadyFor, Decided,
           Calling
  <2> QED BY <2>1, <2>2, <2>3, <2>4 DEF Refuse
<1> QED BY <1>1, <1>2, <1>3, <1>4, <1>5, GateStep

LEMMA CheckUnavailableKeeps ==
  ASSUME IInv, NEW t \in Thread, CheckUnavailable(t)
  PROVE  IInv'
<1>1. ReadinessInv' /\ Steady
  BY ReadinessUntouched DEF CheckUnavailable, IInv
<1>2. pc[t] \in Entered \ {"streaming"}
  BY DEF CheckUnavailable, Entered
<1>3. askedAt' \in [Thread -> Nat]
  BY DEF IInv, TypeOK, CheckUnavailable
<1>4. UNCHANGED <<now, breakerVars, kind, fallback, charged, paid, marks, early>>
  BY DEF CheckUnavailable
<1>5. \/ \E code \in Refusals : End(t, <<Failed(code)>>)
      \/ \E place \in Entered : /\ Goto(t, place) /\ UNCHANGED out
                                /\ Suits(t, place) /\ ReadyFor(t, place)
  <2>1. \/ Refuse(t, "unavailable")
        \/ readiness = "not_started" /\ Goto(t, "probe") /\ UNCHANGED out
        \/ readiness \notin {"failed", "not_started"} /\ Goto(t, "ensure") /\ UNCHANGED out
    BY DEF CheckUnavailable
  <2>2. "unavailable" \in Refusals /\ "probe" \in Entered /\ "ensure" \in Entered
    BY DEF Refusals, Entered, Calling
  <2>3. Suits(t, "probe") /\ Suits(t, "ensure")
    BY DEF Suits
  <2>4. ~early[t] => Decided
    BY DEF CheckUnavailable, IInv, ThreadInv, Gated
  <2>5. readiness = "not_started" => ReadyFor(t, "probe")
    BY <2>4 DEF ReadyFor, Decided
  <2>6. readiness \notin {"failed", "not_started"} => ReadyFor(t, "ensure")
    BY <2>4 DEF ReadyFor, Decided
  <2> QED BY <2>1, <2>2, <2>3, <2>5, <2>6 DEF Refuse
<1> QED BY <1>1, <1>2, <1>3, <1>4, <1>5, GateStep

LEMMA GateProbeKeeps ==
  ASSUME IInv, NEW t \in Thread, GateProbe(t)
  PROVE  IInv'
<1>1. PICK ok \in ShowAnswers : Probe(ok)
  BY DEF GateProbe
<1>2. ReadinessInv' /\ Steady
  BY <1>1, ProbeHarmless DEF GateProbe, IInv
<1>3. pc[t] \in Entered \ {"streaming"}
  BY DEF GateProbe, Entered
<1>4. askedAt' \in [Thread -> Nat]
  BY DEF IInv, TypeOK, GateProbe
<1>5. UNCHANGED <<now, breakerVars, kind, fallback, charged, paid, marks, early>>
  BY DEF GateProbe
<1>6. Goto(t, "verdict") /\ UNCHANGED out /\ "verdict" \in Entered
  BY DEF GateProbe, Entered
<1>7. Suits(t, "verdict") /\ ReadyFor(t, "verdict")
  BY DEF GateProbe, Suits, ReadyFor, IInv, ThreadInv, Gated
<1> QED BY <1>2, <1>3, <1>4, <1>5, <1>6, <1>7, GateStep

LEMMA GateVerdictKeeps ==
  ASSUME IInv, NEW t \in Thread, GateVerdict(t)
  PROVE  IInv'
<1>1. ReadinessInv' /\ Steady
  BY ReadinessUntouched DEF GateVerdict, IInv
<1>2. pc[t] \in Entered \ {"streaming"}
  BY DEF GateVerdict, Entered
<1>3. askedAt' \in [Thread -> Nat]
  BY DEF IInv, TypeOK, GateVerdict
<1>4. UNCHANGED <<now, breakerVars, kind, fallback, charged, paid, marks, early>>
  BY DEF GateVerdict
<1>5. \/ \E code \in Refusals : End(t, <<Failed(code)>>)
      \/ \E place \in Entered : /\ Goto(t, place) /\ UNCHANGED out
                                /\ Suits(t, place) /\ ReadyFor(t, place)
  <2>1. Refuse(t, "unavailable") \/ (Goto(t, "ensure") /\ UNCHANGED out)
    BY DEF GateVerdict
  <2>2. "unavailable" \in Refusals /\ "ensure" \in Entered
    BY DEF Refusals, Entered, Calling
  <2>3. Suits(t, "ensure") /\ ReadyFor(t, "ensure")
    BY DEF GateVerdict, Suits, ReadyFor, IInv, ThreadInv, Gated
  <2> QED BY <2>1, <2>2, <2>3 DEF Refuse
<1> QED BY <1>1, <1>2, <1>3, <1>4, <1>5, GateStep

LEMMA EnsureLoadedKeeps ==
  ASSUME IInv, NEW t \in Thread, EnsureLoaded(t)
  PROVE  IInv'
<1>1. PICK ok \in ShowAnswers :
        /\ Probe(ok)
        /\ Goto(t, IF ~ok THEN "loadfailed"
                   ELSE IF kind[t] = "stream" /\ ~fallback[t] THEN "streaming" ELSE "chat")
  BY DEF EnsureLoaded
<1>2. ReadinessInv' /\ Steady
  BY <1>1, ProbeHarmless DEF EnsureLoaded, IInv
<1>3. pc[t] \in Entered \ {"streaming"}
  BY DEF EnsureLoaded, Entered, Calling
<1>4. askedAt' \in [Thread -> Nat]
  BY DEF IInv, TypeOK, EnsureLoaded
<1>5. UNCHANGED <<now, breakerVars, kind, fallback, charged, paid, marks, early>>
  BY DEF EnsureLoaded
<1>6. ~early[t] => readiness = "ready"
  BY DEF EnsureLoaded, IInv, ThreadInv, Gated, Calling
<1>7. PICK place \in {"loadfailed", "streaming", "chat"} : Goto(t, place) /\ Suits(t, place)
  BY <1>1 DEF Suits
<1>8. place \in Entered /\ ReadyFor(t, place)
  BY <1>6 DEF Entered, Calling, ReadyFor
<1> QED BY <1>2, <1>3, <1>4, <1>5, <1>7, <1>8, GateStep DEF EnsureLoaded

-----------------------------------------------------------------------------
(* The entry.                                                              *)

LEMMA EnterStep ==
  ASSUME IInv, UNCHANGED readinessVars, NEW t \in Thread, NEW unfit \in BOOLEAN, Enter(t, unfit),
         pc[t] \in {"idle", "fetching", "drafted", "refall"},
         UNCHANGED <<now, breakerVars, marks>>,
         kind' \in [Thread -> Kinds], \A u \in Thread \ {t} : kind'[u] = kind[u],
         fallback' \in [Thread -> BOOLEAN], \A u \in Thread \ {t} : fallback'[u] = fallback[u],
         early' \in [Thread -> BOOLEAN], \A u \in Thread \ {t} : early'[u] = early[u],
         Returned(t)' = Returned(t), marks[t] = Before(t)',
         fallback'[t] => kind'[t] = "stream",
         ~early'[t] => server = "kicked" /\ mode = "background"
  PROVE  IInv'
<1>1. ReadinessInv' /\ Steady
  BY ReadinessUntouched DEF IInv
<1>2. /\ Typed /\ now \in Nat /\ failures \in Nat /\ openUntil \in Int
      /\ ThreadInv(t) /\ charged \in Nat /\ paid[t] \in Nat /\ Len(marks[t]) \in Nat
  BY Known
<1>3. out[t] = << >> /\ paid[t] <= charged /\ Len(marks[t]) <= paid[t]
  BY <1>2 DEF ThreadInv, Silent, Quiet, Solvent
<1>4. /\ pc' \in [Thread -> Places] /\ \A u \in Thread \ {t} : pc'[u] = pc[u]
      /\ out' \in [Thread -> Seq(Chunk)] /\ \A u \in Thread \ {t} : out'[u] = out[u]
      /\ askedAt' \in [Thread -> Nat]
      /\ charged' \in 0..Limit /\ charged <= charged' /\ Charged(t)
      /\ paid' \in [Thread -> 0..Limit] /\ \A u \in Thread \ {t} : paid'[u] = paid[u]
      /\ \/ pc'[t] = "gate" /\ out'[t] = << >> /\ paid'[t] = paid[t] + 1
         \/ pc'[t] = Returned(t) /\ \E code \in Refusals : out'[t] = <<Failed(code)>>
  BY <1>2, <1>3, EnterDoes
<1>5. marks' = marks /\ marks' \in [Thread -> Seq({"ok", "fail"})]
  BY <1>2 DEF Typed
<1>6. Typed' /\ Others(t)
  BY <1>4, <1>5 DEF Typed, Others, Still
<1>7. now' \in Nat /\ failures' \in Nat /\ openUntil' \in Int
  BY <1>2 DEF breakerVars
<1>8. Gated(t)'
  <2>1. pc'[t] \notin Calling \cup {"loadfailed", "refall", "probe", "verdict", "unavailable"}
    BY <1>4 DEF Returned, Calling
  <2> QED BY <1>1, <2>1 DEF Gated, Steady
<1>9. CASE pc'[t] = "gate" /\ out'[t] = << >> /\ paid'[t] = paid[t] + 1
  <2>1. Solvent(t)'
    BY <1>2, <1>3, <1>4, <1>5, <1>9 DEF Solvent, Charged
  <2>2. Shape(t)'
    BY <1>9 DEF Shape
  <2>3. ThreadInv(t)'
    BY <1>5, <1>8, <1>9, <2>1, <2>2, MovedInv DEF Quiet, Entered
  <2> QED BY <1>1, <1>4, <1>6, <1>7, <2>3, OneThread
<1>10. CASE pc'[t] = Returned(t) /\ \E code \in Refusals : out'[t] = <<Failed(code)>>
  <2>1. pc'[t] \notin Entered \cup {"gone"}
    BY <1>10 DEF Returned, Entered, Calling
  <2>2. Solvent(t)'
    BY <1>2, <1>3, <1>4, <1>5, <2>1 DEF Solvent, Charged
  <2>3. Shape(t)'
    BY <1>10 DEF Shape, Returned
  <2>4. ThreadInv(t)'
    BY <1>5, <1>8, <1>10, <2>2, <2>3, RefusedInv
  <2> QED BY <1>1, <1>4, <1>6, <1>7, <2>4, OneThread
<1> QED BY <1>4, <1>9, <1>10

LEMMA FallBackKeeps ==
  ASSUME IInv, NEW t \in Thread, FallBack(t)
  PROVE  IInv'
<1>1. Typed /\ ThreadInv(t) /\ pc[t] = "refall"
  BY Known DEF FallBack
<1>2. ~fallback[t] /\ kind[t] = "stream" /\ marks[t] = <<"fail">>
  BY <1>1 DEF ThreadInv, Shape, Silent
<1>3. /\ fallback' \in [Thread -> BOOLEAN] /\ fallback'[t]
      /\ \A u \in Thread \ {t} : fallback'[u] = fallback[u]
  BY <1>1 DEF FallBack, Typed
<1>4. kind' = kind /\ early' = early /\ Enter(t, FALSE)
      /\ UNCHANGED <<now, breakerVars, marks>> /\ UNCHANGED readinessVars
  BY DEF FallBack
<1>5. kind' \in [Thread -> Kinds] /\ early' \in [Thread -> BOOLEAN]
  BY <1>1, <1>4 DEF Typed
<1>6. Returned(t)' = Returned(t) /\ marks[t] = Before(t)'
  BY <1>2, <1>3, <1>4 DEF Returned, Before
<1>7. ~early[t] => server = "kicked" /\ mode = "background"
  BY <1>1 DEF ThreadInv, Gated
<1> QED BY <1>1, <1>2, <1>3, <1>4, <1>5, <1>6, <1>7, EnterStep

(* FetchPublicStats and Polish enter from where nothing was paid yet. *)
LEMMA NestedKeeps ==
  ASSUME IInv, NEW t \in Thread, pc[t] \in {"fetching", "drafted"},
         NEW unfit \in BOOLEAN, Enter(t, unfit),
         UNCHANGED <<now, breakerVars, readinessVars, kind, fallback, marks, early>>
  PROVE  IInv'
<1>1. Typed /\ ThreadInv(t)
  BY Known
<1>2. ~fallback[t] /\ marks[t] = Before(t)
  BY <1>1 DEF ThreadInv, Shape, Silent, Quiet
<1>3. /\ kind' = kind /\ early' = early /\ fallback' = fallback
      /\ UNCHANGED <<now, breakerVars, marks>> /\ UNCHANGED readinessVars
  OBVIOUS
<1>4. /\ kind' \in [Thread -> Kinds] /\ early' \in [Thread -> BOOLEAN]
      /\ fallback' \in [Thread -> BOOLEAN]
  BY <1>1, <1>3 DEF Typed
<1>5. Returned(t)' = Returned(t) /\ marks[t] = Before(t)'
  BY <1>2, <1>3 DEF Returned, Before
<1>6. ~early[t] => server = "kicked" /\ mode = "background"
  BY <1>1 DEF ThreadInv, Gated
<1> QED BY <1>1, <1>2, <1>3, <1>4, <1>5, <1>6, EnterStep

LEMMA PolishKeeps ==
  ASSUME IInv, NEW t \in Thread, Polish(t)
  PROVE  IInv'
  BY NestedKeeps DEF Polish

-----------------------------------------------------------------------------
(* An RPC arrives.                                                         *)

LEMMA ArriveDoes ==
  ASSUME IInv, NEW t \in Thread, NEW k \in Kinds, Arrive(t, k)
  PROVE  /\ kind' \in [Thread -> Kinds] /\ kind'[t] = k
         /\ \A u \in Thread \ {t} : kind'[u] = kind[u]
         /\ early' \in [Thread -> BOOLEAN] /\ \A u \in Thread \ {t} : early'[u] = early[u]
         /\ ~early'[t] => server = "kicked" /\ mode = "background"
         /\ fallback' = fallback /\ marks' = marks
         /\ pc[t] = "idle" /\ Returned(t) = "done" /\ ~fallback[t]
         /\ marks[t] = << >> /\ out[t] = << >> /\ paid[t] = 0
<1>1. Typed /\ ThreadInv(t) /\ pc[t] = "idle"
  BY Known DEF Arrive
<1>2. /\ kind' \in [Thread -> Kinds] /\ kind'[t] = k
      /\ \A u \in Thread \ {t} : kind'[u] = kind[u]
  BY <1>1 DEF Arrive, Typed
<1>3. early' \in [Thread -> BOOLEAN] /\ \A u \in Thread \ {t} : early'[u] = early[u]
  BY <1>1 DEF Arrive, Typed
<1>4. ~early'[t] => server = "kicked" /\ mode = "background"
  BY <1>1 DEF Arrive, Typed
<1>5. kind[t] = "generate" /\ ~fallback[t] /\ paid[t] = 0
  BY <1>1 DEF ThreadInv, Shape
<1>6. out[t] = << >> /\ marks[t] = << >>
  BY <1>1, <1>5 DEF ThreadInv, Silent, Quiet, Before
<1>7. fallback' = fallback /\ marks' = marks
  BY DEF Arrive
<1> QED BY <1>1, <1>2, <1>3, <1>4, <1>5, <1>6, <1>7 DEF Returned

LEMMA ArriveAndEnter ==
  ASSUME IInv, NEW t \in Thread, NEW k \in {"generate", "stream"}, NEW unfit \in BOOLEAN,
         Arrive(t, k), Enter(t, unfit)
  PROVE  IInv'
<1>1. k \in Kinds
  BY DEF Kinds
<1>2. /\ kind' \in [Thread -> Kinds] /\ kind'[t] = k
      /\ \A u \in Thread \ {t} : kind'[u] = kind[u]
      /\ early' \in [Thread -> BOOLEAN] /\ \A u \in Thread \ {t} : early'[u] = early[u]
      /\ ~early'[t] => server = "kicked" /\ mode = "background"
      /\ fallback' = fallback /\ marks' = marks
      /\ pc[t] = "idle" /\ Returned(t) = "done" /\ ~fallback[t]
      /\ marks[t] = << >>
  BY <1>1, ArriveDoes
<1>3. Returned(t)' = Returned(t) /\ marks[t] = Before(t)'
  BY <1>2 DEF Returned, Before
<1>4. fallback' \in [Thread -> BOOLEAN]
  BY <1>2, Known DEF Typed
<1>5. UNCHANGED <<now, breakerVars, marks>> /\ UNCHANGED readinessVars
  BY DEF Arrive
<1> QED BY <1>2, <1>3, <1>4, <1>5, EnterStep

LEMMA BeginKeeps ==
  ASSUME IInv, NEW t \in Thread, Begin(t)
  PROVE  IInv'
  BY ArriveAndEnter DEF Begin

(* ... and pays nothing. *)
LEMMA ArriveStep ==
  ASSUME IInv, NEW t \in Thread, NEW k \in Kinds, Arrive(t, k), UNCHANGED <<charged, paid, askedAt>>,
         pc' \in [Thread -> Places], \A u \in Thread \ {t} : pc'[u] = pc[u],
         out' \in [Thread -> Seq(Chunk)], \A u \in Thread \ {t} : out'[u] = out[u],
         pc'[t] \in {"fetching", "drafted", "done"},
         pc'[t] = "fetching" => k = "generate", pc'[t] = "drafted" => k = "report",
         \/ pc'[t] # "done" /\ out'[t] = << >>
         \/ /\ pc'[t] = "done" /\ k = "generate"
            /\ \E code \in Refusals : out'[t] = <<Failed(code)>>
         \/ /\ pc'[t] = "done" /\ k = "report"
            /\ out'[t] \in {<<Report("template")>>, <<Failed("bad_request")>>}
  PROVE  IInv'
<1>1. /\ kind' \in [Thread -> Kinds] /\ kind'[t] = k
      /\ \A u \in Thread \ {t} : kind'[u] = kind[u]
      /\ early' \in [Thread -> BOOLEAN] /\ \A u \in Thread \ {t} : early'[u] = early[u]
      /\ ~early'[t] => server = "kicked" /\ mode = "background"
      /\ fallback' = fallback /\ marks' = marks /\ ~fallback[t]
      /\ marks[t] = << >> /\ paid[t] = 0
  BY ArriveDoes
<1>2. UNCHANGED readinessVars /\ UNCHANGED <<now, breakerVars>>
  BY DEF Arrive
<1>3. ReadinessInv' /\ Steady
  BY <1>2, ReadinessUntouched DEF IInv
<1>4. /\ Typed /\ now' \in Nat /\ failures' \in Nat /\ openUntil' \in Int
      /\ charged \in Nat /\ charged <= charged' /\ Len(marks[t]) \in Nat
  BY <1>2, Known DEF breakerVars
<1>5. Typed' /\ Others(t)
  BY <1>1, <1>4 DEF Typed, Others, Still
<1>6. Gated(t)'
  BY <1>1, <1>3 DEF Gated, Steady, Calling
<1>7. Solvent(t)'
  <2>1. paid'[t] = 0 /\ Len(marks'[t]) = 0 /\ charged' \in Nat
    BY <1>1, <1>4
  <2>2. pc'[t] \notin Entered
    BY DEF Entered, Calling
  <2> QED BY <2>1, <2>2 DEF Solvent
<1>8. Shape(t)'
  BY <1>1 DEF Shape
<1>9. marks'[t] = Before(t)'
  BY <1>1 DEF Before
<1>10. ThreadInv(t)'
  <2>1. CASE pc'[t] # "done" /\ out'[t] = << >>
    BY <1>6, <1>7, <1>8, <1>9, <2>1, MovedInv DEF Quiet
  <2>2. CASE pc'[t] = "done" /\ k = "generate" /\ \E code \in Refusals : out'[t] = <<Failed(code)>>
    BY <1>1, <1>6, <1>7, <1>8, <1>9, <2>2, RefusedInv DEF Returned
  <2>3. CASE /\ pc'[t] = "done" /\ k = "report"
             /\ out'[t] \in {<<Report("template")>>, <<Failed("bad_request")>>}
    <3>1. ReportTold(t)'
      BY <1>1, <2>3 DEF ReportTold
    <3> QED BY <1>1, <1>6, <1>7, <1>8, <2>3, <3>1, DeliveredInv
  <2> QED BY <2>1, <2>2, <2>3
<1> QED BY <1>3, <1>4, <1>5, <1>10, OneThread

LEMMA OperatorStatsChatKeeps ==
  ASSUME IInv, NEW t \in Thread, OperatorStatsChat(t)
  PROVE  IInv'
<1>1. Arrive(t, "generate") /\ "generate" \in Kinds
  BY DEF OperatorStatsChat, Kinds
<1>2. Typed /\ out[t] = << >> /\ Returned(t) = "done"
  BY <1>1, ArriveDoes, Known
<1>3. CASE Enter(t, FALSE)
  BY <1>1, <1>3, ArriveAndEnter
<1>4. CASE Goto(t, "fetching") /\ UNCHANGED <<out, charged, paid, askedAt>>
  <2>1. "fetching" \in Places
    BY DEF Places
  <2>2. /\ pc' \in [Thread -> Places] /\ pc'[t] = "fetching"
        /\ \A u \in Thread \ {t} : pc'[u] = pc[u]
    BY <1>2, <1>4, <2>1, GotoDoes
  <2>3. /\ out' \in [Thread -> Seq(Chunk)] /\ out'[t] = << >>
        /\ \A u \in Thread \ {t} : out'[u] = out[u]
    BY <1>2, <1>4 DEF Typed
  <2> QED BY <1>1, <1>4, <2>2, <2>3, ArriveStep
<1>5. CASE /\ \E code \in {"rate_limited", "bad_request"} : Refuse(t, code)
           /\ UNCHANGED <<charged, paid, askedAt>>
  <2>1. PICK code \in Refusals : End(t, <<Failed(code)>>)
    BY <1>5 DEF Refuse, Refusals
  <2>2. /\ pc' \in [Thread -> Places] /\ pc'[t] = "done"
        /\ \A u \in Thread \ {t} : pc'[u] = pc[u]
        /\ out' \in [Thread -> Seq(Chunk)] /\ out'[t] = <<Failed(code)>>
        /\ \A u \in Thread \ {t} : out'[u] = out[u]
    BY <1>2, <2>1, RefuseDoes
  <2> QED BY <1>1, <1>5, <2>2, ArriveStep
<1> QED BY <1>3, <1>4, <1>5 DEF OperatorStatsChat

LEMMA GenerateReportKeeps ==
  ASSUME IInv, NEW t \in Thread, GenerateReport(t)
  PROVE  IInv'
<1>1. Arrive(t, "report") /\ "report" \in Kinds /\ UNCHANGED <<charged, paid, askedAt>>
  BY DEF GenerateReport, Kinds
<1>2. Typed /\ out[t] = << >>
  BY <1>1, ArriveDoes, Known
<1>3. CASE Goto(t, "drafted") /\ UNCHANGED out
  <2>1. "drafted" \in Places
    BY DEF Places
  <2>2. /\ pc' \in [Thread -> Places] /\ pc'[t] = "drafted"
        /\ \A u \in Thread \ {t} : pc'[u] = pc[u]
    BY <1>2, <1>3, <2>1, GotoDoes
  <2>3. /\ out' \in [Thread -> Seq(Chunk)] /\ out'[t] = << >>
        /\ \A u \in Thread \ {t} : out'[u] = out[u]
    BY <1>2, <1>3 DEF Typed
  <2> QED BY <1>1, <2>2, <2>3, ArriveStep
<1>4. CASE \E reply \in {Report("template"), Failed("bad_request")} :
             Goto(t, "done") /\ Send(t, <<reply>>)
  <2>1. PICK reply \in {Report("template"), Failed("bad_request")} :
          Goto(t, "done") /\ Send(t, <<reply>>)
    BY <1>4
  <2>2. "bad_request" \in Errors /\ "done" \in Places
    BY DEF Errors, Places
  <2>3. reply \in Chunk /\ reply.final
    BY <2>2, Chunks
  <2>4. <<reply>> \in Seq(Chunk)
    BY <2>3, OneChunk
  <2>5. << >> \o <<reply>> = <<reply>>
    BY <2>4, FirstSent
  <2>6. /\ pc' \in [Thread -> Places] /\ pc'[t] = "done"
        /\ \A u \in Thread \ {t} : pc'[u] = pc[u]
    BY <1>2, <2>1, <2>2, GotoDoes
  <2>7. /\ out' \in [Thread -> Seq(Chunk)] /\ out'[t] = <<reply>>
        /\ \A u \in Thread \ {t} : out'[u] = out[u]
    BY <1>2, <2>1, <2>4, <2>5, SendDoes
  <2>8. out'[t] \in {<<Report("template")>>, <<Failed("bad_request")>>}
    BY <2>1, <2>7
  <2> QED BY <1>1, <2>6, <2>7, <2>8, ArriveStep
<1> QED BY <1>3, <1>4 DEF GenerateReport

LEMMA FetchPublicStatsKeeps ==
  ASSUME IInv, NEW t \in Thread, FetchPublicStats(t)
  PROVE  IInv'
<1>1. CASE \E unfit \in BOOLEAN : Enter(t, unfit)
  BY <1>1, NestedKeeps DEF FetchPublicStats
<1>2. CASE Refuse(t, "bad_request") /\ UNCHANGED <<charged, paid, askedAt>>
  <2>1. UNCHANGED readinessVars
        /\ UNCHANGED <<now, breakerVars, kind, fallback, marks, early, charged, paid, askedAt>>
    BY <1>2 DEF FetchPublicStats
  <2>2. ReadinessInv' /\ Steady
    BY <2>1, ReadinessUntouched DEF IInv
  <2>3. /\ Typed /\ now' \in Nat /\ failures' \in Nat /\ openUntil' \in Int
        /\ ThreadInv(t) /\ charged \in Nat /\ paid[t] \in Nat /\ Len(marks[t]) \in Nat
        /\ charged <= charged' /\ pc[t] = "fetching"
    BY <2>1, Known DEF breakerVars, FetchPublicStats
  <2>4. /\ out[t] = << >> /\ marks[t] = << >> /\ ~fallback[t] /\ kind[t] = "generate"
        /\ paid[t] <= charged /\ Len(marks[t]) <= paid[t]
        /\ ~early[t] => server = "kicked" /\ mode = "background"
    BY <2>3 DEF ThreadInv, Shape, Silent, Quiet, Before, Solvent, Gated
  <2>5. End(t, <<Failed("bad_request")>>) /\ "bad_request" \in Refusals
    BY <1>2 DEF Refuse, Refusals
  <2>6. /\ pc' \in [Thread -> Places] /\ pc'[t] = "done"
        /\ \A u \in Thread \ {t} : pc'[u] = pc[u]
        /\ out' \in [Thread -> Seq(Chunk)] /\ out'[t] = <<Failed("bad_request")>>
        /\ \A u \in Thread \ {t} : out'[u] = out[u]
    BY <2>3, <2>4, <2>5, RefuseDoes DEF Returned
  <2>7. Typed' /\ Others(t)
    BY <2>1, <2>3, <2>6 DEF Typed, Others, Still
  <2>8. Gated(t)'
    BY <2>1, <2>2, <2>4, <2>6 DEF Gated, Steady, Calling
  <2>9. Solvent(t)'
    BY <2>1, <2>4, <2>6 DEF Solvent, Entered, Calling
  <2>10. Shape(t)' /\ marks'[t] = Before(t)' /\ pc'[t] = Returned(t)'
    BY <2>1, <2>4, <2>6 DEF Shape, Before, Returned
  <2>11. ThreadInv(t)'
    BY <2>5, <2>6, <2>8, <2>9, <2>10, RefusedInv
  <2> QED BY <2>2, <2>3, <2>7, <2>11, OneThread
<1> QED BY <1>1, <1>2 DEF FetchPublicStats

-----------------------------------------------------------------------------
(* The breaker hears of an outcome.                                        *)

LEMMA RecordTyped ==
  ASSUME failures \in Nat, openUntil \in Int, now \in Nat, RecordSuccess \/ RecordFailure
  PROVE  failures' \in Nat /\ openUntil' \in Int
  BY BreakerAssumption DEF RecordSuccess, RecordFailure

(* The end of a call: what all of them have in common. *)
Outcome(t, what) ==
  /\ pc[t] \in {"chat", "loadfailed", "streaming"}
  /\ pc'[t] \in {"done", "polish", "refall"}
  /\ RecordSuccess \/ RecordFailure
  /\ Mark(t, what)
  /\ UNCHANGED <<now, readinessVars, kind, fallback, askedAt, charged, paid, early>>

LEMMA OutcomeDoes ==
  ASSUME IInv, NEW t \in Thread, NEW what \in {"ok", "fail"}, Outcome(t, what)
  PROVE  /\ Gated(t)' /\ Solvent(t)' /\ marks'[t] = Append(marks[t], what)
         /\ kind'[t] = kind[t] /\ fallback'[t] = fallback[t]
<1>1. /\ Typed /\ ThreadInv(t) /\ charged \in Nat /\ paid[t] \in Nat /\ Len(marks[t]) \in Nat
  BY Known
<1>2. marks'[t] = Append(marks[t], what)
  BY <1>1, MarkDoes DEF Outcome
<1>3. UNCHANGED readinessVars /\ UNCHANGED <<kind, fallback, charged, paid, early>>
  BY DEF Outcome
<1>4. ~early[t] => server = "kicked" /\ mode = "background" /\ readiness = "ready"
  BY <1>1 DEF Outcome, ThreadInv, Gated, Calling
<1>5. Gated(t)'
  BY <1>3, <1>4 DEF Outcome, Gated, readinessVars, Calling
<1>6. Solvent(t)'
  <2>1. Len(marks'[t]) = Len(marks[t]) + 1
    BY <1>1, <1>2 DEF Typed
  <2>2. Len(marks[t]) < paid[t] /\ paid[t] <= charged
    BY <1>1 DEF Outcome, ThreadInv, Solvent, Entered, Calling
  <2>3. pc'[t] \notin Entered \cup {"gone"}
    BY DEF Outcome, Entered, Calling
  <2> QED BY <1>1, <1>3, <2>1, <2>2, <2>3 DEF Solvent
<1> QED BY <1>2, <1>3, <1>5, <1>6

LEMMA OutcomeStep ==
  ASSUME IInv, NEW t \in Thread, NEW what \in {"ok", "fail"}, Outcome(t, what),
         pc' \in [Thread -> Places], \A u \in Thread \ {t} : pc'[u] = pc[u],
         out' \in [Thread -> Seq(Chunk)], \A u \in Thread \ {t} : out'[u] = out[u],
         ThreadInv(t)'
  PROVE  IInv'
<1>1. Typed /\ now \in Nat /\ failures \in Nat /\ openUntil \in Int /\ charged \in Nat
  BY Known
<1>2. UNCHANGED readinessVars
      /\ UNCHANGED <<now, kind, fallback, askedAt, charged, paid, early>>
  BY DEF Outcome
<1>3. ReadinessInv' /\ Steady
  BY <1>2, ReadinessUntouched DEF IInv
<1>4. failures' \in Nat /\ openUntil' \in Int
  BY <1>1, RecordTyped DEF Outcome
<1>5. /\ marks' \in [Thread -> Seq({"ok", "fail"})]
      /\ \A u \in Thread \ {t} : marks'[u] = marks[u]
  BY <1>1, MarkDoes DEF Outcome
<1>6. Typed' /\ Others(t)
  BY <1>1, <1>2, <1>5 DEF Typed, Others, Still
<1> QED BY <1>1, <1>2, <1>3, <1>4, <1>6, OneThread

-----------------------------------------------------------------------------
(* The calls.                                                              *)

LEMMA ChatKeeps ==
  ASSUME IInv, NEW t \in Thread, Chat(t)
  PROVE  IInv'
<1>1. PICK text \in Texts, n \in Nat : End(t, Answer(t, n, text))
  <2>1. PICK ok \in Answers("chat"), text \in Texts, n \in 0..MaxSlices : End(t, Answer(t, n, text))
    BY DEF Chat
  <2>2. n \in Nat
    BY RpcAssumption
  <2> QED BY <2>1, <2>2
<1>2. /\ pc[t] = "chat" /\ RecordSuccess /\ Mark(t, "ok")
      /\ UNCHANGED <<now, readinessVars, kind, fallback, askedAt, charged, paid, early>>
  BY DEF Chat
<1>3. Typed /\ ThreadInv(t)
  BY Known
<1>4. out[t] = << >> /\ marks[t] = Before(t) /\ (kind[t] = "stream" => fallback[t])
      /\ (fallback[t] => kind[t] = "stream")
  BY <1>2, <1>3 DEF ThreadInv, Silent, Shape, Quiet, Entered, Calling
<1>5. /\ Answer(t, n, text) \in Seq(Chunk) /\ Told(t, Answer(t, n, text))
      /\ Answer(t, n, text)[Len(Answer(t, n, text))].error = ""
      /\ << >> \o Answer(t, n, text) = Answer(t, n, text)
  BY <1>4, AnswerTold, FirstSent
<1>6. /\ pc' \in [Thread -> Places] /\ pc'[t] = Returned(t)
      /\ \A u \in Thread \ {t} : pc'[u] = pc[u]
      /\ out' \in [Thread -> Seq(Chunk)] /\ out'[t] = Answer(t, n, text)
      /\ \A u \in Thread \ {t} : out'[u] = out[u]
  BY <1>1, <1>3, <1>4, <1>5, EndDoes
<1>7. pc'[t] \in {"done", "polish"}
  BY <1>6 DEF Returned
<1>8. Outcome(t, "ok")
  BY <1>2, <1>7 DEF Outcome
<1>9. /\ Gated(t)' /\ Solvent(t)' /\ marks'[t] = Append(marks[t], "ok")
      /\ kind'[t] = kind[t] /\ fallback'[t] = fallback[t]
  BY <1>8, OutcomeDoes
<1>10. Shape(t)' /\ pc'[t] = Returned(t)'
  BY <1>4, <1>6, <1>9 DEF Shape, Returned
<1>11. marks'[t] = Before(t)' \o <<"ok">>
  BY <1>4, <1>9 DEF Before
<1>12. Told(t, out[t])'
  BY <1>5, <1>6, <1>9 DEF Told
<1>13. ThreadInv(t)'
  BY <1>5, <1>6, <1>9, <1>10, <1>11, <1>12, AnsweredInv
<1> QED BY <1>6, <1>8, <1>13, OutcomeStep

LEMMA LoadFailedKeeps ==
  ASSUME IInv, NEW t \in Thread, LoadFailed(t)
  PROVE  IInv'
<1>1. /\ pc[t] = "loadfailed" /\ (kind[t] = "stream" => fallback[t])
      /\ RecordFailure /\ Mark(t, "fail") /\ End(t, <<Failed("model_load_failed")>>)
      /\ UNCHANGED <<now, readinessVars, kind, fallback, askedAt, charged, paid, early>>
  BY DEF LoadFailed
<1>2. Typed /\ ThreadInv(t)
  BY Known
<1>3. out[t] = << >> /\ marks[t] = Before(t) /\ (fallback[t] => kind[t] = "stream")
  BY <1>1, <1>2 DEF ThreadInv, Silent, Shape, Quiet, Entered, Calling
<1>4. "model_load_failed" \in Errors
  BY DEF Errors
<1>5. Failed("model_load_failed") \in Chunk /\ Failed("model_load_failed").final
  BY <1>4, Chunks
<1>6. <<Failed("model_load_failed")>> \in Seq(Chunk)
  BY <1>5, OneChunk
<1>7. << >> \o <<Failed("model_load_failed")>> = <<Failed("model_load_failed")>>
  BY <1>6, FirstSent
<1>8. /\ pc' \in [Thread -> Places] /\ pc'[t] = Returned(t)
      /\ \A u \in Thread \ {t} : pc'[u] = pc[u]
      /\ out' \in [Thread -> Seq(Chunk)] /\ out'[t] = <<Failed("model_load_failed")>>
      /\ \A u \in Thread \ {t} : out'[u] = out[u]
  BY <1>1, <1>2, <1>3, <1>6, <1>7, EndDoes
<1>9. pc'[t] \in {"done", "polish"}
  BY <1>8 DEF Returned
<1>10. Outcome(t, "fail")
  BY <1>1, <1>9 DEF Outcome
<1>11. /\ Gated(t)' /\ Solvent(t)' /\ marks'[t] = Append(marks[t], "fail")
       /\ kind'[t] = kind[t] /\ fallback'[t] = fallback[t]
  BY <1>10, OutcomeDoes
<1>12. Shape(t)' /\ pc'[t] = Returned(t)'
  BY <1>1, <1>3, <1>8, <1>11 DEF Shape, Returned
<1>13. marks'[t] = Before(t)' \o <<"fail">>
  BY <1>3, <1>11 DEF Before
<1>14. ThreadInv(t)'
  BY <1>8, <1>11, <1>12, <1>13, LoadFailedInv
<1> QED BY <1>8, <1>10, <1>14, OutcomeStep

(* A stream's last chunk. *)
LEMMA StreamClosed ==
  ASSUME IInv, NEW t \in Thread, NEW what \in {"ok", "fail"}, NEW c \in Chunk,
         \/ what = "ok" /\ c = Stop
         \/ what = "fail" /\ c = Failed("generation_failed"),
         pc[t] = "streaming", RecordSuccess \/ RecordFailure, Mark(t, what), End(t, <<c>>),
         UNCHANGED <<now, readinessVars, kind, fallback, askedAt, charged, paid, early>>
  PROVE  IInv'
<1>1. Typed /\ ThreadInv(t)
  BY Known
<1>2. /\ kind[t] = "stream" /\ ~fallback[t] /\ marks[t] = << >>
      /\ \A i \in 1..Len(out[t]) : out[t][i] = Delta
  BY <1>1 DEF ThreadInv, Silent, Shape
<1>3. "generation_failed" \in Errors
  BY DEF Errors
<1>4. c.final /\ c.from = "none"
  BY <1>3, Chunks
<1>5. out[t] \in Seq(Chunk) /\ <<c>> \in Seq(Chunk)
  BY <1>1, <1>4, OneChunk DEF Typed
<1>6. /\ WellFormed(out[t] \o <<c>>) /\ (out[t] \o <<c>>)[Len(out[t] \o <<c>>)] = c
  BY <1>2, <1>4, <1>5, StreamTold
<1>7. /\ pc' \in [Thread -> Places] /\ pc'[t] = "done"
      /\ \A u \in Thread \ {t} : pc'[u] = pc[u]
      /\ out' \in [Thread -> Seq(Chunk)] /\ out'[t] = out[t] \o <<c>>
      /\ \A u \in Thread \ {t} : out'[u] = out[u]
  BY <1>1, <1>2, <1>5, EndDoes DEF Returned
<1>8. Outcome(t, what)
  BY <1>7 DEF Outcome
<1>9. /\ Gated(t)' /\ Solvent(t)' /\ marks'[t] = Append(marks[t], what)
      /\ kind'[t] = kind[t] /\ fallback'[t] = fallback[t]
  BY <1>8, OutcomeDoes
<1>10. marks'[t] = <<what>>
  BY <1>2, <1>9
<1>11. Shape(t)'
  BY <1>2, <1>7, <1>9 DEF Shape
<1>12. ThreadInv(t)'
  BY <1>2, <1>6, <1>7, <1>9, <1>10, <1>11, StreamedInv
<1> QED BY <1>7, <1>8, <1>12, OutcomeStep

LEMMA StreamEndKeeps ==
  ASSUME IInv, NEW t \in Thread, StreamEnd(t)
  PROVE  IInv'
<1>1. /\ pc[t] = "streaming" /\ RecordSuccess /\ Mark(t, "ok") /\ End(t, <<Stop>>)
      /\ UNCHANGED <<now, readinessVars, kind, fallback, askedAt, charged, paid, early>>
  BY DEF StreamEnd
<1>2. Stop \in Chunk /\ "ok" \in {"ok", "fail"}
  BY Chunks
<1>3. RecordSuccess \/ RecordFailure
  BY <1>1
<1> QED BY <1>1, <1>2, <1>3, StreamClosed

LEMMA StreamBreakKeeps ==
  ASSUME IInv, NEW t \in Thread, StreamBreak(t)
  PROVE  IInv'
<1>1. /\ \/ pc[t] = "streaming"
         \/ pc[t] = "loadfailed" /\ kind[t] = "stream" /\ ~fallback[t]
      /\ RecordFailure /\ Mark(t, "fail") /\ AfterBreak(t)
      /\ UNCHANGED <<now, readinessVars, kind, fallback, askedAt, charged, paid, early>>
  BY DEF StreamBreak
<1>2. Typed /\ ThreadInv(t)
  BY Known
<1>3. /\ pc[t] = "loadfailed" => out[t] = << >>
      /\ kind[t] = "stream" /\ ~fallback[t] /\ marks[t] = << >>
  BY <1>1, <1>2 DEF ThreadInv, Silent, Shape, Quiet, Entered, Before
<1>4. CASE out[t] = << >>
  <2>1. Goto(t, "refall") /\ UNCHANGED out /\ "refall" \in Places
    BY <1>1, <1>4 DEF AfterBreak, Places
  <2>2. /\ pc' \in [Thread -> Places] /\ pc'[t] = "refall"
        /\ \A u \in Thread \ {t} : pc'[u] = pc[u]
    BY <1>2, <2>1, GotoDoes
  <2>3. /\ out' \in [Thread -> Seq(Chunk)] /\ out'[t] = << >>
        /\ \A u \in Thread \ {t} : out'[u] = out[u]
    BY <1>2, <1>4, <2>1 DEF Typed
  <2>4. Outcome(t, "fail")
    BY <1>1, <2>2 DEF Outcome
  <2>5. /\ Gated(t)' /\ Solvent(t)' /\ marks'[t] = Append(marks[t], "fail")
        /\ kind'[t] = kind[t] /\ fallback'[t] = fallback[t]
    BY <2>4, OutcomeDoes
  <2>6. marks'[t] = <<"fail">>
    BY <1>3, <2>5
  <2>7. Shape(t)'
    BY <1>3, <2>2, <2>5 DEF Shape
  <2>8. ThreadInv(t)'
    BY <2>2, <2>3, <2>5, <2>6, <2>7, ToFallBackInv
  <2> QED BY <2>2, <2>3, <2>4, <2>8, OutcomeStep
<1>5. CASE out[t] # << >>
  <2>1. pc[t] = "streaming" /\ End(t, <<Failed("generation_failed")>>)
    BY <1>1, <1>3, <1>5 DEF AfterBreak
  <2>2. "generation_failed" \in Errors
    BY DEF Errors
  <2>3. Failed("generation_failed") \in Chunk
    BY <2>2, Chunks
  <2> QED BY <1>1, <2>1, <2>3, StreamClosed
<1> QED BY <1>4, <1>5

LEMMA StreamDeltaKeeps ==
  ASSUME IInv, NEW t \in Thread, StreamDelta(t)
  PROVE  IInv'
<1>1. pc[t] = "streaming" /\ Send(t, <<Delta>>)
  BY DEF StreamDelta
<1>2. /\ UNCHANGED <<pc, kind, fallback, askedAt, charged, paid, marks, early>>
      /\ UNCHANGED <<now, breakerVars>> /\ UNCHANGED readinessVars
  BY DEF StreamDelta
<1>3. ReadinessInv' /\ Steady
  BY <1>2, ReadinessUntouched DEF IInv
<1>4. /\ Typed /\ now' \in Nat /\ failures' \in Nat /\ openUntil' \in Int
      /\ ThreadInv(t) /\ charged \in Nat /\ charged <= charged'
  BY <1>2, Known DEF breakerVars
<1>5. out[t] \in Seq(Chunk) /\ Delta \in Chunk
  BY <1>4, Chunks DEF Typed
<1>6. <<Delta>> \in Seq(Chunk)
  BY <1>5
<1>7. /\ out' \in [Thread -> Seq(Chunk)] /\ out'[t] = out[t] \o <<Delta>>
      /\ \A u \in Thread \ {t} : out'[u] = out[u]
  BY <1>1, <1>4, <1>6, SendDoes
<1>8. Typed' /\ Others(t)
  BY <1>2, <1>4, <1>7 DEF Typed, Others, Still
<1>9. Gated(t)'
  BY <1>2, <1>4 DEF ThreadInv, Gated, readinessVars, Decided
<1>10. Solvent(t)' /\ Shape(t)'
  BY <1>2, <1>4 DEF ThreadInv, Solvent, Shape
<1>11. Silent(t)'
  <2>1. marks'[t] = << >> /\ pc'[t] = "streaming" /\ \A i \in 1..Len(out[t]) : out[t][i] = Delta
    BY <1>1, <1>2, <1>4 DEF ThreadInv, Silent
  <2>2. \A i \in 1..Len(out'[t]) : out'[t][i] = Delta
    BY <1>5, <1>7, <2>1
  <2> QED BY <2>1, <2>2 DEF Silent, Quiet, Entered, Calling
<1>12. Said(t)'
  BY <1>1, <1>2 DEF Said, Returned
<1>13. ThreadInv(t)'
  BY <1>9, <1>10, <1>11, <1>12 DEF ThreadInv
<1> QED BY <1>3, <1>4, <1>8, <1>13, OneThread

-----------------------------------------------------------------------------
(* The end of an RPC.                                                      *)

LEMMA DeliverKeeps ==
  ASSUME IInv, NEW t \in Thread, Deliver(t)
  PROVE  IInv'
<1>1. pc[t] = "polish" /\ Goto(t, "done") /\ "done" \in Places
  BY DEF Deliver, Places
<1>2. /\ UNCHANGED <<kind, fallback, askedAt, charged, paid, marks, early>>
      /\ UNCHANGED <<now, breakerVars>> /\ UNCHANGED readinessVars
  BY DEF Deliver
<1>3. ReadinessInv' /\ Steady
  BY <1>2, ReadinessUntouched DEF IInv
<1>4. /\ Typed /\ now' \in Nat /\ failures' \in Nat /\ openUntil' \in Int
      /\ ThreadInv(t) /\ charged \in Nat /\ charged <= charged' /\ paid[t] \in Nat
  BY <1>2, Known DEF breakerVars
<1>5. PICK from \in {"template"} \cup Texts :
        /\ out' = [out EXCEPT ![t] = <<Report(from)>>]
        /\ from \in Texts => out[t][1].from \in Texts
  <2> DEFINE from == IF out[t][1].from \in Texts THEN out[t][1].from ELSE "template"
  <2>1. out' = [out EXCEPT ![t] = <<Report(from)>>]
    BY DEF Deliver
  <2>2. from \in {"template"} \cup Texts
    OBVIOUS
  <2>3. from \in Texts => out[t][1].from \in Texts
    BY DEF Texts
  <2> QED BY <2>1, <2>2, <2>3
<1>6. from \in Texts => marks[t] = <<"ok">>
  BY <1>1, <1>4, <1>5 DEF ThreadInv, Said
<1>7. Report(from) \in Chunk
  BY Chunks
<1>8. <<Report(from)>> \in Seq(Chunk)
  BY <1>7
<1>9. /\ out' \in [Thread -> Seq(Chunk)] /\ out'[t] = <<Report(from)>>
      /\ \A u \in Thread \ {t} : out'[u] = out[u]
  BY <1>4, <1>5, <1>8 DEF Typed
<1>10. /\ pc' \in [Thread -> Places] /\ pc'[t] = "done"
       /\ \A u \in Thread \ {t} : pc'[u] = pc[u]
  BY <1>1, <1>4, GotoDoes
<1>11. Typed' /\ Others(t)
  BY <1>2, <1>4, <1>9, <1>10 DEF Typed, Others, Still
<1>12. Gated(t)'
  BY <1>1, <1>2, <1>4, <1>10 DEF ThreadInv, Gated, readinessVars, Calling
<1>13. Solvent(t)' /\ Shape(t)' /\ kind'[t] = "report"
  BY <1>1, <1>2, <1>4, <1>10 DEF ThreadInv, Solvent, Shape, Entered, Calling
<1>14. ReportTold(t)'
  BY <1>2, <1>6, <1>9 DEF ReportTold
<1>15. ThreadInv(t)'
  BY <1>10, <1>12, <1>13, <1>14, DeliveredInv
<1> QED BY <1>3, <1>4, <1>11, <1>15, OneThread

LEMMA CancelKeeps ==
  ASSUME IInv, NEW t \in Thread, Cancel(t)
  PROVE  IInv'
<1>1. pc[t] = "streaming" /\ Goto(t, "gone") /\ "gone" \in Places
  BY DEF Cancel, Places
<1>2. /\ UNCHANGED <<kind, fallback, askedAt, out, charged, paid, marks, early>>
      /\ UNCHANGED <<now, breakerVars>> /\ UNCHANGED readinessVars
  BY DEF Cancel
<1>3. ReadinessInv' /\ Steady
  BY <1>2, ReadinessUntouched DEF IInv
<1>4. /\ Typed /\ now' \in Nat /\ failures' \in Nat /\ openUntil' \in Int
      /\ ThreadInv(t) /\ charged \in Nat /\ charged <= charged' /\ paid[t] \in Nat
  BY <1>2, Known DEF breakerVars
<1>5. /\ pc' \in [Thread -> Places] /\ pc'[t] = "gone"
      /\ \A u \in Thread \ {t} : pc'[u] = pc[u]
  BY <1>1, <1>4, GotoDoes
<1>6. Typed' /\ Others(t)
  BY <1>2, <1>4, <1>5 DEF Typed, Others, Still
<1>7. Gated(t)'
  BY <1>1, <1>2, <1>4, <1>5 DEF ThreadInv, Gated, readinessVars, Calling
<1>8. Solvent(t)' /\ Shape(t)'
  BY <1>1, <1>2, <1>4, <1>5 DEF ThreadInv, Solvent, Shape, Entered, Calling
<1>9. Silent(t)' /\ Said(t)'
  BY <1>1, <1>2, <1>4, <1>5 DEF ThreadInv, Silent, Said, Quiet, Entered, Calling, Returned
<1>10. ThreadInv(t)'
  BY <1>7, <1>8, <1>9 DEF ThreadInv
<1> QED BY <1>3, <1>4, <1>6, <1>10, OneThread

LEMMA ResetKeeps ==
  ASSUME IInv, NEW t \in Thread, Reset(t)
  PROVE  IInv'
<1>1. UNCHANGED readinessVars /\ UNCHANGED <<now, breakerVars, charged>>
  BY DEF Reset
<1>2. ReadinessInv' /\ Steady
  BY <1>1, ReadinessUntouched DEF IInv
<1>3. /\ Typed /\ now' \in Nat /\ failures' \in Nat /\ openUntil' \in Int
      /\ charged \in Nat /\ charged <= charged' /\ Limit \in Nat
  BY <1>1, Known DEF breakerVars
<1>4. /\ "idle" \in Places /\ "generate" \in Kinds /\ 0 \in 0..Limit
      /\ << >> \in Seq(Chunk) /\ << >> \in Seq({"ok", "fail"})
  BY <1>3 DEF Places, Kinds
<1>5. /\ Typed' /\ pc'[t] = "idle" /\ kind'[t] = "generate" /\ fallback'[t] = FALSE
      /\ out'[t] = << >> /\ paid'[t] = 0 /\ marks'[t] = << >>
  BY <1>1, <1>3, <1>4 DEF Reset, Goto, Typed
<1>6. Others(t)
  BY <1>3 DEF Reset, Goto, Typed, Others, Still
<1>7. Gated(t)' /\ Shape(t)'
  BY <1>5 DEF Gated, Shape
<1>8. Solvent(t)'
  BY <1>1, <1>3, <1>5 DEF Solvent, Entered, Calling
<1>9. ThreadInv(t)'
  BY <1>5, <1>7, <1>8, MovedInv DEF Quiet, Before
<1> QED BY <1>2, <1>3, <1>5, <1>6, <1>9, OneThread

-----------------------------------------------------------------------------
(* The steps of no thread.                                                 *)

LEMMA NoThread ==
  ASSUME IInv, Steady, ReadinessInv', now' \in Nat, UNCHANGED <<breakerVars, rpcVars>>
  PROVE  IInv'
<1>1. TypeOK'
  BY DEF IInv, TypeOK, ReadinessInv, breakerVars, rpcVars
<1>2. ASSUME NEW u \in Thread PROVE ThreadInv(u)'
  <2>1. Still(u) /\ charged' = charged /\ charged \in Nat
    BY Known DEF Still, rpcVars
  <2> QED BY <2>1, StillKeeps DEF IInv
<1> QED BY <1>1, <1>2 DEF IInv

LEMMA SystemKeeps == ASSUME IInv, System PROVE IInv'
<1>1. now' \in Nat /\ UNCHANGED <<breakerVars, rpcVars>>
  BY DEF System, IInv, TypeOK
<1>2. ReadinessInv' /\ Steady
  BY ReadinessPreserved DEF System, IInv
<1> QED BY <1>1, <1>2, NoThread

LEMMA AdvanceKeeps == ASSUME IInv, Advance PROVE IInv'
<1>1. now' \in Nat /\ UNCHANGED <<breakerVars, rpcVars>> /\ UNCHANGED readinessVars
  BY DEF Advance, Tick, IInv, TypeOK
<1> QED BY <1>1, ReadinessUntouched, NoThread DEF IInv

LEMMA StutterKeeps == ASSUME IInv, UNCHANGED vars PROVE IInv'
<1>1. now' \in Nat /\ UNCHANGED <<breakerVars, rpcVars>> /\ UNCHANGED readinessVars
  BY DEF vars, IInv, TypeOK
<1> QED BY <1>1, ReadinessUntouched, NoThread DEF IInv

LEMMA InitHolds == ASSUME Init PROVE IInv
<1>1. ReadinessInv
  BY DEF Init, ReadinessInit, ReadinessInv, ReadinessType
<1>2. /\ "idle" \in Places /\ "generate" \in Kinds /\ 0 \in 0..Limit
      /\ << >> \in Seq(Chunk) /\ << >> \in Seq({"ok", "fail"})
  BY RpcAssumption DEF Places, Kinds
<1>3. TypeOK
  BY <1>1, <1>2 DEF Init, TypeOK, BreakerInit, ReadinessInv
<1>4. ASSUME NEW t \in Thread PROVE ThreadInv(t)
  <2>1. /\ pc[t] = "idle" /\ kind[t] = "generate" /\ fallback[t] = FALSE
        /\ out[t] = << >> /\ paid[t] = 0 /\ marks[t] = << >> /\ charged = 0
    BY DEF Init
  <2>2. Gated(t) /\ Shape(t)
    BY <2>1 DEF Gated, Shape
  <2>3. Solvent(t)
    BY <2>1 DEF Solvent, Entered, Calling
  <2>4. Silent(t) /\ Said(t)
    BY <2>1 DEF Silent, Said, Before, Returned
  <2> QED BY <2>2, <2>3, <2>4 DEF ThreadInv
<1> QED BY <1>1, <1>3, <1>4 DEF IInv

LEMMA NextKeeps == ASSUME IInv, [Next]_vars PROVE IInv'
<1>1. CASE System
  BY <1>1, SystemKeeps
<1>2. CASE Advance
  BY <1>2, AdvanceKeeps
<1>3. ASSUME NEW t \in Thread, Begin(t) \/ OperatorStatsChat(t) \/ GenerateReport(t)
      PROVE  IInv'
  BY <1>3, BeginKeeps, OperatorStatsChatKeeps, GenerateReportKeeps
<1>4. ASSUME NEW t \in Thread, Cancel(t) \/ Leave(t)
      PROVE  IInv'
  BY <1>4, CancelKeeps, ResetKeeps DEF Leave
<1>5. ASSUME NEW t \in Thread, Handle(t)
      PROVE  IInv'
  <2>1. CASE CheckBreaker(t) \/ CheckLoading(t) \/ CheckUnavailable(t)
    BY <2>1, CheckBreakerKeeps, CheckLoadingKeeps, CheckUnavailableKeeps
  <2>2. CASE GateProbe(t) \/ GateVerdict(t) \/ EnsureLoaded(t)
    BY <2>2, GateProbeKeeps, GateVerdictKeeps, EnsureLoadedKeeps
  <2>3. CASE Chat(t) \/ LoadFailed(t)
    BY <2>3, ChatKeeps, LoadFailedKeeps
  <2>4. CASE StreamDelta(t) \/ StreamEnd(t) \/ StreamBreak(t)
    BY <2>4, StreamDeltaKeeps, StreamEndKeeps, StreamBreakKeeps
  <2>5. CASE FallBack(t) \/ FetchPublicStats(t) \/ Polish(t) \/ Deliver(t)
    BY <2>5, FallBackKeeps, FetchPublicStatsKeeps, PolishKeeps, DeliverKeeps
  <2> QED BY <1>5, <2>1, <2>2, <2>3, <2>4, <2>5 DEF Handle
<1>6. CASE UNCHANGED vars
  BY <1>6, StutterKeeps
<1> QED BY <1>1, <1>2, <1>3, <1>4, <1>5, <1>6 DEF Next

LEMMA IInvHolds == Spec => []IInv
<1>1. Init => IInv
  BY InitHolds
<1>2. IInv /\ [Next]_vars => IInv'
  BY NextKeeps
<1> QED BY <1>1, <1>2, PTL DEF Spec

-----------------------------------------------------------------------------
(* The theorems.                                                           *)

(* The RPCs' state keeps its types through every interleaving of the       *)
(* handlers of rpc_handlers.py; and the rate limiter is never overdrawn.   *)
THEOREM GenerateTypeCorrect == Spec => []TypeOK
<1>1. IInv => TypeOK
  BY DEF IInv
<1> QED BY <1>1, IInvHolds, PTL

(* An RPC that began after a background warm-up was kicked off never talks *)
(* to Ollama before the warm-up's own generation has succeeded, although   *)
(* the three checks of _check_ollama_ready are passed one at a time.       *)
THEOREM GateKeepsOut == Spec => []NoUseBeforeReady
<1>1. IInv => NoUseBeforeReady
  <2> SUFFICES ASSUME IInv, NEW t \in Thread,
                      pc[t] \in Calling \cup {"loadfailed", "refall"}, ~early[t]
               PROVE  readiness = "ready" /\ proven
    BY DEF NoUseBeforeReady
  <2>1. pc[t] # "idle"
    BY DEF Calling
  <2>2. readiness = "ready"
    BY <2>1 DEF IInv, ThreadInv, Gated
  <2> QED BY <2>2 DEF IInv, ReadinessInv
<1> QED BY <1>1, IInvHolds, PTL

(* Every Generate, GenerateStream, OperatorStatsChat and GenerateReport    *)
(* that ran to its end told the client so in its last chunk and in no      *)
(* other, and no streamed text is followed by the text of                  *)
(* _stream_chunked_fallback; except that a fallback whose call generate()  *)
(* swallowed ends its stream with two final chunks.                        *)
THEOREM ClientsAreToldTheEnd == Spec => []AnswerWellFormed
<1>1. ASSUME IInv, NEW t \in Thread, pc[t] = "done"
      PROVE  /\ out[t] # << >>
             /\ \/ \A i \in 1..Len(out[t]) : out[t][i].final <=> i = Len(out[t])
                \/ fallback[t] /\ out[t] = <<Stop, Stop>>
             /\ \A i \in 1..(Len(out[t]) - 1) : out[t][i].error = ""
             /\ \A i, j \in 1..Len(out[t]) :
                  ~(out[t][i].from = "delta" /\ out[t][j].from \in Texts)
  <2>1. Told(t, out[t])
    BY <1>1 DEF IInv, ThreadInv, Said
  <2>2. CASE WellFormed(out[t])
    BY <2>2 DEF WellFormed
  <2>3. CASE fallback[t] /\ out[t] = <<Stop, Stop>>
    <3>1. Len(out[t]) = 2 /\ out[t] # << >> /\ \A i \in 1..2 : out[t][i] = Stop
      BY <2>3, StoppedTwice
    <3>2. \A i \in 1..(Len(out[t]) - 1) : i \in 1..2
      BY <3>1
    <3> QED BY <2>3, <3>1, <3>2, Chunks
  <2> QED BY <2>1, <2>2, <2>3 DEF Told
<1>2. IInv => AnswerWellFormed
  BY <1>1 DEF AnswerWellFormed
<1> QED BY <1>2, IInvHolds, PTL

(* The breaker is told once of every call that reached Ollama and ended,   *)
(* and of nothing else: record_success and record_failure match what the   *)
(* client was told, a call that generate() swallowed counting as a         *)
(* success.  Of a stream whose client left it is told nothing.             *)
THEOREM BreakerHearsWhatClientsHear == Spec => []BreakerHearsEachOnce
<1>1. IInv => BreakerHearsEachOnce
  <2>1. ASSUME IInv, NEW t \in Thread, pc[t] = Returned(t) PROVE Heard(t, out[t])
    BY <2>1 DEF IInv, ThreadInv, Said
  <2>2. ASSUME IInv, NEW t \in Thread, pc[t] = "gone" PROVE marks[t] = << >>
    BY <2>2 DEF IInv, ThreadInv, Silent
  <2> QED BY <2>1, <2>2 DEF BreakerHearsEachOnce, Heard, Before
<1> QED BY <1>1, IInvHolds, PTL

(* Whatever RPC a generation is part of, _rate_limit was passed for it.    *)
THEOREM NoFreeGeneration == Spec => []PaysForEachCall
<1>1. IInv => PaysForEachCall
  <2> SUFFICES ASSUME IInv, NEW t \in Thread
               PROVE  Len(marks[t]) + (IF pc[t] \in Calling \cup {"loadfailed", "gone"} THEN 1 ELSE 0)
                        <= paid[t]
    BY DEF PaysForEachCall
  <2>1. paid[t] \in Nat /\ Len(marks[t]) \in Nat
    BY Known
  <2>2. Len(marks[t]) <= paid[t] /\ (pc[t] \in Entered \cup {"gone"} => Len(marks[t]) < paid[t])
    BY DEF IInv, ThreadInv, Solvent
  <2>3. CASE pc[t] \in Calling \cup {"loadfailed", "gone"}
    <3>1. pc[t] \in Entered \cup {"gone"}
      BY <2>3 DEF Entered
    <3>2. Len(marks[t]) + 1 <= paid[t]
      BY <2>1, <2>2, <3>1
    <3> QED BY <2>3, <3>2
  <2>4. CASE pc[t] \notin Calling \cup {"loadfailed", "gone"}
    <3>1. Len(marks[t]) + 0 <= paid[t]
      BY <2>1, <2>2
    <3> QED BY <2>4, <3>1
  <2> QED BY <2>3, <2>4
<1> QED BY <1>1, IInvHolds, PTL

(* GenerateReport delivers the template it filled in, or what the nested   *)
(* generate() made of the model's answer ("..." for an empty one), and     *)
(* fails only for its input.                                               *)
THEOREM ReportsAreDelivered == Spec => []ReportAlwaysDelivered
<1>1. IInv => ReportAlwaysDelivered
  BY DEF IInv, ThreadInv, Said, ReportAlwaysDelivered, ReportTold
<1> QED BY <1>1, IInvHolds, PTL


-----------------------------------------------------------------------------
(* The breaker, as the handlers use it.                                    *)

(* What one thread's step may do to the breaker and its own place.         *)
Tells == UNCHANGED breakerVars \/ RecordSuccess \/ RecordFailure

Asks(t) == UNCHANGED askedAt \/ \E at \in {0, now} : askedAt' = [askedAt EXCEPT ![t] = at]

Moves(t) == UNCHANGED pc \/ \E place \in Places : Goto(t, place)

PassesGate(t) == pc[t] = "gate" /\ pc'[t] = "loading"

ThreadStep(t) ==
  /\ UNCHANGED now
  /\ Tells /\ Asks(t) /\ Moves(t)
  /\ PassesGate(t) => AllowRequest(askedAt[t]) /\ UNCHANGED breakerVars

LEMMA PlacesAre ==
  /\ "idle" \in Places /\ "gate" \in Places /\ "loading" \in Places /\ "unavailable" \in Places
  /\ "probe" \in Places /\ "verdict" \in Places /\ "ensure" \in Places /\ "chat" \in Places
  /\ "streaming" \in Places /\ "loadfailed" \in Places /\ "refall" \in Places
  /\ "fetching" \in Places /\ "drafted" \in Places /\ "polish" \in Places /\ "done" \in Places
  /\ "gone" \in Places
  BY DEF Places

(* A step that tells the breaker nothing and starts before or after the gate. *)
LEMMA ElsewhereSteps ==
  ASSUME NEW t \in Thread, pc[t] # "gate", UNCHANGED now, Tells, Asks(t), Moves(t)
  PROVE  ThreadStep(t)
  BY DEF ThreadStep, PassesGate

LEMMA EndMoves ==
  ASSUME NEW t \in Thread, NEW chunks, End(t, chunks)
  PROVE  Moves(t)
  BY PlacesAre DEF End, Returned, Moves

LEMMA EnterAsks ==
  ASSUME NEW t \in Thread, NEW unfit \in BOOLEAN, Enter(t, unfit)
  PROVE  Asks(t) /\ Moves(t)
<1>1. CASE charged >= Limit
  BY <1>1, EndMoves DEF Enter, Asks
<1>2. CASE ~(charged >= Limit) /\ unfit
  BY <1>2, EndMoves DEF Enter, Asks
<1>3. CASE ~(charged >= Limit) /\ ~unfit
  BY <1>3, PlacesAre DEF Enter, Asks, Moves
<1> QED BY <1>1, <1>2, <1>3

LEMMA ArrivalSteps ==
  ASSUME NEW t \in Thread, Begin(t) \/ OperatorStatsChat(t) \/ GenerateReport(t)
  PROVE  ThreadStep(t)
<1>1. pc[t] # "gate" /\ UNCHANGED now /\ Tells
  BY DEF Begin, OperatorStatsChat, GenerateReport, Arrive, Tells
<1>2. CASE Begin(t)
  BY <1>1, <1>2, EnterAsks, ElsewhereSteps DEF Begin
<1>3. CASE OperatorStatsChat(t)
  <2>1. CASE Enter(t, FALSE)
    BY <1>1, <2>1, EnterAsks, ElsewhereSteps
  <2>2. CASE \E code \in {"rate_limited", "bad_request"} : Refuse(t, code) /\ UNCHANGED askedAt
    BY <1>1, <2>2, EndMoves, ElsewhereSteps DEF Refuse, Asks
  <2>3. CASE Goto(t, "fetching") /\ UNCHANGED askedAt
    BY <1>1, <2>3, PlacesAre, ElsewhereSteps DEF Asks, Moves
  <2> QED BY <1>3, <2>1, <2>2, <2>3 DEF OperatorStatsChat
<1>4. CASE GenerateReport(t)
  <2>1. Goto(t, "drafted") \/ Goto(t, "done")
    BY <1>4 DEF GenerateReport
  <2>2. UNCHANGED askedAt
    BY <1>4 DEF GenerateReport
  <2> QED BY <1>1, <2>1, <2>2, PlacesAre, ElsewhereSteps DEF Asks, Moves
<1> QED BY <1>2, <1>3, <1>4

LEMMA CheckBreakerSteps ==
  ASSUME IInv, NEW t \in Thread, CheckBreaker(t)
  PROVE  ThreadStep(t)
<1>1. UNCHANGED now /\ UNCHANGED breakerVars /\ Asks(t)
  BY DEF CheckBreaker, Asks
<1>2. CASE AllowRequest(askedAt[t])
  <2>1. Goto(t, "loading")
    BY <1>2 DEF CheckBreaker
  <2> QED BY <1>1, <1>2, <2>1, PlacesAre DEF ThreadStep, Tells, Moves
<1>3. CASE ~AllowRequest(askedAt[t])
  <2>1. End(t, <<Failed("circuit_open")>>)
    BY <1>3 DEF CheckBreaker, Refuse
  <2>2. pc'[t] # "loading"
    BY <2>1, Known DEF End, Goto, Returned, Typed
  <2> QED BY <1>1, <2>1, <2>2, EndMoves DEF ThreadStep, Tells, PassesGate
<1> QED BY <1>2, <1>3

LEMMA GateSteps ==
  ASSUME NEW t \in Thread, CheckLoading(t) \/ CheckUnavailable(t) \/ GateProbe(t) \/ GateVerdict(t)
  PROVE  ThreadStep(t)
<1>1. pc[t] # "gate" /\ UNCHANGED now /\ Tells /\ Asks(t)
  BY DEF CheckLoading, CheckUnavailable, GateProbe, GateVerdict, Tells, Asks
<1>2. Moves(t)
  <2>1. CASE CheckLoading(t)
    BY <2>1, EndMoves, PlacesAre DEF CheckLoading, Refuse, Moves
  <2>2. CASE CheckUnavailable(t)
    BY <2>2, EndMoves, PlacesAre DEF CheckUnavailable, Refuse, Moves
  <2>3. CASE GateProbe(t)
    BY <2>3, PlacesAre DEF GateProbe, Moves
  <2>4. CASE GateVerdict(t)
    BY <2>4, EndMoves, PlacesAre DEF GateVerdict, Refuse, Moves
  <2> QED BY <2>1, <2>2, <2>3, <2>4
<1> QED BY <1>1, <1>2, ElsewhereSteps

LEMMA CallSteps ==
  ASSUME NEW t \in Thread,
         EnsureLoaded(t) \/ Chat(t) \/ LoadFailed(t) \/ StreamDelta(t) \/ StreamEnd(t) \/ StreamBreak(t)
  PROVE  ThreadStep(t)
<1>1. pc[t] # "gate" /\ UNCHANGED now /\ Tells /\ Asks(t)
  BY DEF EnsureLoaded, Chat, LoadFailed, StreamDelta, StreamEnd, StreamBreak, Tells, Asks
<1>2. Moves(t)
  <2>1. CASE EnsureLoaded(t)
    BY <2>1, PlacesAre DEF EnsureLoaded, Moves
  <2>2. CASE Chat(t)
    BY <2>2, EndMoves DEF Chat
  <2>3. CASE LoadFailed(t)
    BY <2>3, EndMoves DEF LoadFailed
  <2>4. CASE StreamDelta(t)
    BY <2>4 DEF StreamDelta, Moves
  <2>5. CASE StreamEnd(t)
    BY <2>5, EndMoves DEF StreamEnd
  <2>6. CASE StreamBreak(t)
    BY <2>6, EndMoves, PlacesAre DEF StreamBreak, AfterBreak, Moves
  <2> QED BY <2>1, <2>2, <2>3, <2>4, <2>5, <2>6
<1> QED BY <1>1, <1>2, ElsewhereSteps

LEMMA OtherSteps ==
  ASSUME NEW t \in Thread,
         FallBack(t) \/ FetchPublicStats(t) \/ Polish(t) \/ Deliver(t) \/ Cancel(t) \/ Leave(t)
  PROVE  ThreadStep(t)
<1>1. pc[t] # "gate" /\ UNCHANGED now /\ Tells
  BY DEF FallBack, FetchPublicStats, Polish, Deliver, Cancel, Leave, Reset, Tells
<1>2. Asks(t) /\ Moves(t)
  <2>1. CASE FallBack(t)
    BY <2>1, EnterAsks DEF FallBack
  <2>2. CASE FetchPublicStats(t)
    <3>1. CASE \E unfit \in BOOLEAN : Enter(t, unfit)
      BY <3>1, EnterAsks
    <3>2. CASE Refuse(t, "bad_request") /\ UNCHANGED askedAt
      BY <3>2, EndMoves DEF Refuse, Asks
    <3> QED BY <2>2, <3>1, <3>2 DEF FetchPublicStats
  <2>3. CASE Polish(t)
    BY <2>3, EnterAsks DEF Polish
  <2>4. CASE Deliver(t)
    BY <2>4, PlacesAre DEF Deliver, Asks, Moves
  <2>5. CASE Cancel(t)
    BY <2>5, PlacesAre DEF Cancel, Asks, Moves
  <2>6. CASE Reset(t)
    BY <2>6, PlacesAre DEF Reset, Asks, Moves
  <2> QED BY <2>1, <2>2, <2>3, <2>4, <2>5, <2>6 DEF Leave
<1> QED BY <1>1, <1>2, ElsewhereSteps

(* Every step, seen from the breaker. *)
LEMMA BreakerSteps ==
  ASSUME IInv, [Next]_vars
  PROVE  \/ \E t \in Thread : ThreadStep(t)
         \/ now' \in {now, now + 1} /\ UNCHANGED <<breakerVars, pc, askedAt>>
<1>1. CASE System
  BY <1>1 DEF System, rpcVars
<1>2. CASE Advance
  BY <1>2 DEF Advance, Tick, rpcVars
<1>3. ASSUME NEW t \in Thread, Begin(t) \/ OperatorStatsChat(t) \/ GenerateReport(t)
      PROVE  ThreadStep(t)
  BY <1>3, ArrivalSteps
<1>4. ASSUME NEW t \in Thread, Handle(t) \/ Cancel(t) \/ Leave(t)
      PROVE  ThreadStep(t)
  BY <1>4, CheckBreakerSteps, GateSteps, CallSteps, OtherSteps DEF Handle
<1>5. CASE UNCHANGED vars
  BY <1>5 DEF vars, rpcVars
<1> QED BY <1>1, <1>2, <1>3, <1>4, <1>5 DEF Next

(* The window never stacks, the count never outgrows the threshold, and no *)
(* reading of the clock is ahead of it.                                    *)
BreakerInv ==
  /\ openUntil = 0 \/ openUntil <= now + OpenSeconds
  /\ failures = 0 \/ failures < Threshold
  /\ \A t \in Thread : askedAt[t] <= now

LEMMA Later ==
  ASSUME NEW deadline \in Int, NEW a \in Int, NEW b \in Int, NEW c \in Int,
         deadline <= a + c, a <= b
  PROVE  deadline <= b + c
  OBVIOUS

LEMMA BreakerInvKept == ASSUME IInv, BreakerInv, [Next]_vars PROVE BreakerInv'
<1>1. /\ now \in Nat /\ failures \in Nat /\ openUntil \in Int /\ askedAt \in [Thread -> Nat]
      /\ Threshold \in Int /\ OpenSeconds \in Int
  BY BreakerAssumption DEF IInv, TypeOK
<1>2. ASSUME NEW t \in Thread, ThreadStep(t) PROVE BreakerInv'
  <2>1. now' = now
    BY <1>2 DEF ThreadStep
  <2>2. \A u \in Thread : askedAt'[u] <= now
    <3>1. CASE UNCHANGED askedAt
      BY <3>1 DEF BreakerInv
    <3>2. ASSUME NEW at \in {0, now}, askedAt' = [askedAt EXCEPT ![t] = at]
          PROVE  \A u \in Thread : askedAt'[u] <= now
      BY <1>1, <3>2 DEF BreakerInv
    <3> QED BY <1>2, <3>1, <3>2 DEF ThreadStep, Asks
  <2>3. /\ openUntil' = 0 \/ openUntil' <= now + OpenSeconds
        /\ failures' = 0 \/ failures' < Threshold
    <3>1. CASE UNCHANGED breakerVars
      BY <3>1 DEF breakerVars, BreakerInv
    <3>2. CASE RecordSuccess
      BY <3>2 DEF RecordSuccess
    <3>3. CASE RecordFailure
      BY <1>1, <3>3 DEF RecordFailure, BreakerInv
    <3> QED BY <1>2, <3>1, <3>2, <3>3 DEF ThreadStep, Tells
  <2> QED BY <2>1, <2>2, <2>3 DEF BreakerInv
<1>3. CASE now' \in {now, now + 1} /\ UNCHANGED <<breakerVars, pc, askedAt>>
  <2>1. failures' = failures /\ openUntil' = openUntil /\ askedAt' = askedAt
    BY <1>3 DEF breakerVars
  <2>2. now' \in Nat /\ now <= now'
    BY <1>1, <1>3
  <2>3. ASSUME NEW u \in Thread PROVE askedAt[u] <= now'
    <3>1. askedAt[u] \in Nat /\ askedAt[u] <= now
      BY <1>1 DEF BreakerInv
    <3> QED BY <1>1, <2>2, <3>1
  <2>4. openUntil = 0 \/ openUntil <= now' + OpenSeconds
    <3>1. openUntil = 0 \/ openUntil <= now + OpenSeconds
      BY DEF BreakerInv
    <3>2. now \in Int /\ now' \in Int /\ openUntil \in Int /\ OpenSeconds \in Int
      BY <1>1, <2>2
    <3> QED BY <2>2, <3>1, <3>2, Later
  <2> QED BY <2>1, <2>3, <2>4 DEF BreakerInv
<1> QED BY <1>2, <1>3, BreakerSteps

LEMMA BreakerInvHolds == Spec => []BreakerInv
<1>1. Init => BreakerInv
  BY DEF Init, BreakerInit, BreakerInv
<1>2. IInv /\ BreakerInv /\ [Next]_vars => BreakerInv'
  BY BreakerInvKept
<1> QED BY <1>1, <1>2, IInvHolds, PTL DEF Spec

(* With four kinds of RPC, fallbacks and nested calls about, no thread is  *)
(* let past the breaker while an opening runs, however old its reading of  *)
(* the clock is by the time it decides.                                    *)
THEOREM NoCallPassesAnOpenBreaker ==
  Spec => [][\A t \in Thread : PassesGate(t) => openUntil <= now]_vars
<1>1. ASSUME IInv, BreakerInv, [Next]_vars, NEW t \in Thread, PassesGate(t)
      PROVE  openUntil <= now
  <2>1. now \in Nat /\ openUntil \in Int /\ askedAt[t] \in Nat /\ askedAt[t] <= now
    BY <1>1 DEF IInv, TypeOK, BreakerInv
  <2>2. PICK u \in Thread : ThreadStep(u)
    BY <1>1, BreakerSteps DEF PassesGate
  <2>3. u = t
    BY <1>1, <2>2, Known DEF ThreadStep, Moves, Goto, PassesGate, Typed
  <2>4. AllowRequest(askedAt[t])
    BY <1>1, <2>2, <2>3 DEF ThreadStep
  <2> QED BY <2>1, <2>4 DEF AllowRequest, BreakerState
<1>2. IInv /\ BreakerInv /\ [Next]_vars => [\A t \in Thread : PassesGate(t) => openUntil <= now]_vars
  BY <1>1
<1> QED BY <1>2, IInvHolds, BreakerInvHolds, PTL DEF Spec

(* ... and whatever these RPCs tell it and when, an opening ends at most   *)
(* OpenSeconds from now, and the failures it counts stay below the         *)
(* threshold.                                                              *)
THEOREM OpeningsEndForRpcs ==
  Spec => [](/\ openUntil = 0 \/ openUntil <= now + OpenSeconds
             /\ failures = 0 \/ failures < Threshold)
<1>1. BreakerInv => (/\ openUntil = 0 \/ openUntil <= now + OpenSeconds
                     /\ failures = 0 \/ failures < Threshold)
  BY DEF BreakerInv
<1> QED BY <1>1, BreakerInvHolds, PTL

=============================================================================
