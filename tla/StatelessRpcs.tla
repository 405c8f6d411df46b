--------------------------- MODULE StatelessRpcs ---------------------------
(***************************************************************************)
(* The RPCs that keep nothing from one request to the next: ReviewContent  *)
(* (ReviewPipeline), EmbedText, ChatRiskScore, and what Generate makes of  *)
(* a prompt (Prompts).  One request after another.                         *)
(***************************************************************************)
EXTENDS ReviewPipeline, Prompts

CONSTANTS ChatFlags,   \* what the text rules may find in a chat message
          TurnTexts,   \* what a turn of a conversation may have on its first line
          Embeddable,  \* texts; the model's vector of one is the text itself
          BatchMax,    \* OLLAMA_EMBED_MAX_BATCH
          MaxTexts,    \* bound on the texts of one EmbedText
          MaxTurns     \* bound on the turns before the question

ASSUME StatelessAssumption ==
  BatchMax \in Nat /\ MaxTexts \in Nat /\ MaxTurns \in Nat

(* The text of a further line, of a turn or of a hit's title. *)
Strays == {"more", "title"}

ASSUME StrayAssumption == TurnTexts \cap Strays = {}

VARIABLE call          \* the request under way, with its answer so far

statelessVars == <<vars, call>>

NoCall == [rpc |-> "none"]

StatelessInit == Init /\ call = NoCall

(* The pool's thread is free. *)
Free == pc = "idle" /\ call = NoCall

-----------------------------------------------------------------------------
(* Prompts.                                                                *)

(* A further line or none; it may begin like a turn. *)
Further(text) == {<< >>} \cup {<<[label |-> l, text |-> text]>> : l \in Speakers \cup {"none"}}

Labelled(lines) == \E i \in DOMAIN lines : lines[i].label \in Speakers

Turn(roles, firsts) == [role : roles, first : firsts, more : Further("more")]

History == SeqOf(Turn(Speakers, TurnTexts), MaxTurns)

Hits == {<< >>} \cup {HitsBlock(title) : title \in Further("title")}

(* A conversation, with statistics and search hits or without. *)
AskInChat ==
  /\ Free
  /\ \E history \in History, question \in Turn({"user"}, {"q"}), stats \in BOOLEAN, hits \in Hits :
       call' = [rpc |-> "chat", turns |-> Append(history, question), stats |-> stats, hits |-> hits,
                messages |-> Messages(FullPrompt(stats, hits, ChatPrompt(history, question)))]
  /\ UNCHANGED vars

(* A prompt that is no conversation (a report to polish, a content to      *)
(* review); a line of it may look like a turn all the same.                *)
AskPlainly ==
  /\ Free
  /\ \E stats, alike \in BOOLEAN, hits \in Hits :
       LET lines == <<[label |-> "none", text |-> "task"]>>
                      \o (IF alike THEN <<[label |-> "user", text |-> "a"]>> ELSE << >>)
       IN  call' = [rpc |-> "plain", alike |-> alike, stats |-> stats, hits |-> hits,
                    messages |-> Messages(FullPrompt(stats, hits, lines))]
  /\ UNCHANGED vars

-----------------------------------------------------------------------------
(* EmbedText.                                                              *)

EmbedCall(texts, error) ==
  [rpc |-> "embed", texts |-> texts, todo |-> IF error = "" THEN texts ELSE << >>,
   vectors |-> << >>, error |-> error]

(* Blank texts are dropped before anything is counted. *)
EmbedText ==
  /\ Free
  /\ \E texts \in SeqOf(Embeddable \cup {""}, MaxTexts) :
       LET clean == Only(texts, Embeddable \ {""})
       IN  call' = EmbedCall(clean, IF clean = << >> THEN "texts required"
                                    ELSE IF Len(clean) > BatchMax THEN "batch exceeds" ELSE "")
  /\ UNCHANGED vars

(* Mutant: a text that cannot be embedded is passed over. *)
EmbedSkipping ==
  /\ call.rpc = "embed" /\ call.todo # << >>
  /\ \/ call' = [call EXCEPT !.todo = Tail(@), !.vectors = Append(@, Head(call.todo))]
     \/ call' = [call EXCEPT !.todo = Tail(@)]
  /\ UNCHANGED vars

(* One text after the other; the first that fails ends it.  What is no     *)
(* URLError (no JSON, a read that times out) raises out of the RPC.        *)
EmbedOne ==
  /\ call.rpc = "embed" /\ call.todo # << >>
  /\ \/ call' = [call EXCEPT !.todo = Tail(@), !.vectors = Append(@, Head(call.todo))]
     \/ \E error \in {"unavailable", "invalid response", "missing vector", "raised"} :
          call' = [call EXCEPT !.todo = << >>, !.vectors = << >>, !.error = error]
  /\ UNCHANGED vars

-----------------------------------------------------------------------------
(* ChatRiskScore, scores in percent.                                       *)

Weight(flag) == CASE flag = "spam" -> 35
                  [] flag = "harassment" -> 50
                  [] flag = "external_link" -> 45
                  [] flag = "pi_pattern" -> 60
                  [] flag = "low_quality" -> 20
                  [] OTHER -> 25

(* Mutant: the mildest flag decides. *)
MildestFlag(flags) ==
  IF flags = {} THEN 5 ELSE CHOOSE w \in {Weight(f) : f \in flags} : \A f \in flags : w <= Weight(f)

ScoreFromFlags(flags) ==
  IF flags = {} THEN 5 ELSE CHOOSE w \in {Weight(f) : f \in flags} : \A f \in flags : w >= Weight(f)

RiskAction(flags) ==
  IF flags \cap {"hate", "violence", "self_harm", "scam", "phishing"} # {} THEN "block"
  ELSE IF ScoreFromFlags(flags) >= 55 \/ flags \cap {"external_link", "pi_pattern", "spam"} # {}
       THEN "flag" ELSE "allow"

ChatRiskScore ==
  /\ Free
  /\ \E flags \in SUBSET (ChatFlags \cup {"external_link", "pi_pattern", "unknown_channel"}) :
       call' = [rpc |-> "risk", flags |-> flags, score |-> ScoreFromFlags(flags),
                action |-> RiskAction(flags)]
  /\ UNCHANGED vars

-----------------------------------------------------------------------------

Answered == call.rpc \in {"chat", "plain", "risk"} \/ (call.rpc = "embed" /\ call.todo = << >>)

Finish == Answered /\ call' = NoCall /\ UNCHANGED vars

Review == call = NoCall /\ Next /\ UNCHANGED call

StatelessNext == \/ AskInChat \/ AskPlainly \/ EmbedText \/ EmbedOne \/ ChatRiskScore
                 \/ Finish \/ Review

StatelessSpec == StatelessInit /\ [][StatelessNext]_statelessVars

-----------------------------------------------------------------------------

(* What is put together as one text and read back line by line is the      *)
(* conversation it was: every turn that has a text on its first line, in   *)
(* its order and with its role, and no search hit or further line in       *)
(* between.  The exception: a further line, of a turn or of the title of a *)
(* hit, that itself begins like a turn is heard as one; the turns around   *)
(* it keep their order and their roles.  A prompt that is no conversation  *)
(* arrives whole, unless statistics are in front of it or a line of it     *)
(* looks like a turn.                                                      *)
PromptReadBack ==
  LET heard == Only(call.messages, {m \in Range(call.messages) : m.role \in Speakers})
      own   == Only(call.messages, {m \in Range(call.messages) :
                                      m.role \in Speakers /\ m.content \notin Strays})
      turns == Only(call.turns, {t \in Range(call.turns) : t.first # ""})
  IN  /\ call.rpc = "chat" => own = [i \in DOMAIN turns |-> Message(turns[i].role, turns[i].first)]
      /\ call.rpc = "chat" /\ ~Labelled(call.hits)
           /\ (\A i \in DOMAIN call.turns : ~Labelled(call.turns[i].more)) => heard = own
      /\ call.rpc = "plain" /\ ~call.stats /\ ~call.alike /\ ~Labelled(call.hits) =>
           heard = <<Message("user", "whole prompt")>>

(* However long the conversation, whoever spoke last in it and whatever it *)
(* or a search hit looks like, the statistics are the message before the   *)
(* question, and the question ends what the model is asked.  The           *)
(* exception: a further line of the question itself begins like a turn.    *)
StatsPrecedeQuestion ==
  call.rpc = "chat" /\ call.stats /\ ~Labelled(call.turns[Len(call.turns)].more) =>
    LET n == Len(call.messages)
    IN  call.messages[n - 1] = Statistics /\ call.messages[n] = Message("user", "q")

(* A batch is embedded as a whole or refused as a whole, whichever of its  *)
(* texts fails: no caller ever pairs its texts with the vectors of others. *)
EmbedAnswersWhole ==
  call.rpc = "embed" /\ Answered =>
    IF call.error = "" THEN call.vectors = call.texts /\ Len(call.texts) \in 1..BatchMax
                       ELSE call.vectors = << >>

Severity(action) == CASE action = "allow" -> 0 [] action = "flag" -> 1 [] action = "block" -> 2

(* Nothing found in addition makes a chat message look better: neither the *)
(* score nor the action of a message is beaten by one with fewer flags.    *)
RiskMonotone ==
  call.rpc = "risk" =>
    \A fewer \in SUBSET call.flags :
      ScoreFromFlags(fewer) <= call.score /\ Severity(RiskAction(fewer)) <= Severity(call.action)

=============================================================================
