------------------------------ MODULE Prompts ------------------------------
(***************************************************************************)
(* From the prompt of a request to the messages of /api/chat.  The handler *)
(* joins statistics, search hits and prompt into one text, and             *)
(* AIModelService reads that text back line by line: what begins with      *)
(* "User:" or "AI:" is a message, and any other line of a text that has    *)
(* such lines is left out.                                                 *)
(*                                                                         *)
(* A line is what it begins with and its text ("" when there is none).     *)
(***************************************************************************)
EXTENDS Naturals, Sequences, SequencesExt

(* The elements of s that are in K, in their order. *)
Only(s, K) == FlattenSeq([i \in DOMAIN s |-> IF s[i] \in K THEN <<s[i]>> ELSE << >>])

Speakers == {"user", "assistant"}

(* The further lines of a turn are written as they are, with or without a  *)
(* label in front of them.                                                 *)
Written(turn) == <<[label |-> turn.role, text |-> turn.first]>> \o turn.more

(* compose_operator_chat_prompt, and the backend's transcripts: the        *)
(* history, the question, and "AI:" for the model to go on from.           *)
ChatPrompt(history, question) ==
  FlattenSeq([i \in DOMAIN history |-> Written(history[i])])
    \o Written(question) \o <<[label |-> "assistant", text |-> ""]>>

(* The search hits, whose titles may break the line: what is left of one   *)
(* goes in as it is.                                                       *)
HitsBlock(title) == <<[label |-> "none", text |-> "hits"]>> \o title

(* _compose_full_prompt; the statistics come first, up to a separator, and *)
(* are cut off at it again.                                                *)
FullPrompt(stats, hits, lines) ==
  [stats |-> stats, lines |-> hits \o lines]

Message(role, content) == [role |-> role, content |-> content]

SystemPrompt == Message("system", "instructions")
Statistics == Message("system", "statistics")

MessagesOf(lines) == [i \in DOMAIN lines |-> Message(lines[i].label, lines[i].text)]

(* Mutant: a label with nothing after it is a message too. *)
LabelledLines(lines) == MessagesOf(Only(lines, {l \in Range(lines) : l.label \in Speakers}))

Spoken(lines) ==
  MessagesOf(Only(lines, {l \in Range(lines) : l.label \in Speakers /\ l.text # ""}))

(* Mutant: the first message of the user is looked for. *)
FirstUser(messages) ==
  LET users == {i \in 2..Len(messages) : messages[i].role = "user"}
  IN  IF users = {} THEN Len(messages) + 1 ELSE CHOOSE i \in users : \A j \in users : i <= j

LastUser(messages) ==
  LET users == {i \in 2..Len(messages) : messages[i].role = "user"}
  IN  IF users = {} THEN Len(messages) + 1 ELSE CHOOSE i \in users : \A j \in users : j <= i

ParsePrompt(full) ==
  LET messages == <<SystemPrompt>> \o Spoken(full.lines)
  IN  IF full.stats THEN InsertAt(messages, LastUser(messages), Statistics) ELSE messages

(* generate() and generate_stream(): a text without any labelled line is   *)
(* one message of the user's.                                              *)
Messages(full) ==
  LET messages == ParsePrompt(full)
  IN  IF Len(messages) <= 1 THEN Append(messages, Message("user", "whole prompt")) ELSE messages

=============================================================================
