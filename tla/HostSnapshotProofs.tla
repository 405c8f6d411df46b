------------------------- MODULE HostSnapshotProofs -------------------------
(***************************************************************************)
(* What the snapshot file promises, for any number of collectors at work.  *)
(***************************************************************************)
EXTENDS HostSnapshot, TLAPS

(* The places in the scripts the container can be at. *)
Places == {<<"off", "off">>, <<"clean", "read">>, <<"clean", "remove">>, <<"clean", "again">>}
            \cup (Asking \X {"ask", "wait"}) \cup (Kinds \X {"check"})
            \cup ({"fallback"} \X {"build", "open", "write", "check", "remove"})
            \cup ({"gate"} \X {"ok", "failed", "crashed"})
            \cup ({"refresh"} \X {"read", "build", "open", "write", "written"})
            \cup {Serving, Exited}

(* The container waits for one collector at a time, and for none when it   *)
(* is not waiting; nothing removes the file under a collector waited for.  *)
OneWaited ==
  \A c \in Collector : Own(c) =>
    /\ pc[1] \in Asking /\ pc[2] = "wait" /\ collector[c].kind = KindOf(pc[1])
    /\ collector[c].at = "open" => collector[c].attached
    /\ \A d \in Collector : Own(d) => d = c

Honest(f) == Valid(f) => f.about = "host" \/ PassesForHost

(* What the container writes is fit to be written. *)
DraftFit ==
  /\ pc \in {"fallback"} \X {"open", "write"} => Valid(draft)
  /\ pc \in {"refresh"} \X {"open", "write", "written"} => draft \in Snapshot /\ draft.current

(* What the container makes of the file, if no collector that it had given *)
(* up on touches it.                                                       *)
Undisturbed ==
  /\ pc[2] = "write" => file = Empty
  /\ pc = <<"refresh", "written">> => file = draft
  /\ pc = Serving /\ deploy.require => Valid(file)

(* Where the container has found no valid snapshot. *)
Vain == {<<"clean", "remove">>, <<"fallback", "build">>, <<"fallback", "remove">>, <<"fallback", "open">>,
         <<"gate", "failed">>, <<"refresh", "build">>}
          \cup (Asking \X {"ask"})

(* What it knows of the file, if it also hears of all that is written.     *)
Known ==
  /\ pc \in Vain => ~Valid(file)
  /\ pc[2] = "wait" /\ Valid(file) => \E c \in Collector : Own(c) /\ collector[c].at = "ended"
  /\ pc = <<"refresh", "wait">> =>
       \A c \in Collector : Own(c) /\ collector[c].at = "ended" => file \in {AgentSnapshot, Torn}
  /\ pc = <<"refresh", "open">> /\ Valid(file) => draft = file
  /\ pc = <<"gate", "crashed">> => amiss # {}
  /\ pc = Exited /\ amiss = {} => ~Valid(file)

(* At most the container itself has failed to write. *)
Heard == amiss \subseteq {"unwritten"}

IInv == /\ TypeOK
        /\ pc \in Places
        /\ OneWaited
        /\ Honest(file) /\ Honest(draft)
        /\ DraftFit
        /\ HostMeansHost
        /\ "late" \notin amiss => Undisturbed
        /\ Heard => Known

-----------------------------------------------------------------------------
(* The snapshots.                                                          *)

(* What is no complete snapshot is not valid. *)
LEMMA InvalidFiles == ~Valid(None) /\ ~Valid(Empty) /\ ~Valid(Torn)
  BY DEF Valid, None, Empty, Torn

(* What the container builds is a snapshot of this version, which is the   *)
(* host's wherever it is valid and the container goes by its id.           *)
LEMMA BuiltTyped ==
  ASSUME deploy \in Deployment
  PROVE  Built \in Snapshot /\ Built.current /\ Honest(Built)
<1> DEFINE profile == LiveProfile(Container)
<1>1. deploy.id \in BOOLEAN /\ deploy.scope \in Scopes
  BY DEF Deployment
<1>2. Container.docker /\ Container.drive = deploy.drive /\ Container.id = deploy.id
      /\ Container.scope = deploy.scope /\ Container.current
  BY DEF Container
<1>3. CASE deploy.drive # NoDrive
  <2>1. profile = [kind |-> "snapshot", current |-> TRUE, scope |-> "host",
                   id |-> "hostname" \notin deploy.drive /\ deploy.id,
                   about |-> IF "powershell" \in deploy.drive THEN "host" ELSE "container"]
    BY <1>2, <1>3 DEF LiveProfile, DriveProfile, Container
  <2>2. Built = [profile EXCEPT !.scope = "host"]
    BY <1>2, <1>3 DEF Built, BuiltOn
  <2> HIDE DEF profile
  <2>3. Built \in Snapshot /\ Built.current
    BY <1>1, <2>1, <2>2 DEF Snapshot, Scopes
  <2>4. Valid(Built) => ~("hostname" \notin deploy.drive /\ deploy.id)
    BY <2>1, <2>2 DEF Valid
  <2>5. Built.about = IF "powershell" \in deploy.drive THEN "host" ELSE "container"
    BY <2>1, <2>2
  <2> QED BY <1>1, <1>3, <2>3, <2>4, <2>5 DEF Honest, PassesForHost
<1>4. CASE deploy.drive = NoDrive
  <2>1. profile = [kind |-> "snapshot", current |-> TRUE, scope |-> deploy.scope, id |-> deploy.id,
                   about |-> "container"]
    BY <1>2, <1>4 DEF LiveProfile, Container
  <2>2. Built = [profile EXCEPT !.scope = profile.scope]
    BY <1>2, <1>4 DEF Built, BuiltOn
  <2> HIDE DEF profile
  <2> QED BY <1>1, <1>4, <2>1, <2>2 DEF Snapshot, Scopes, Honest, Valid, PassesForHost
<1> QED BY <1>3, <1>4

(* What the agent collects is a snapshot of its host. *)
LEMMA AgentTyped ==
  ASSUME deploy \in Deployment
  PROVE  AgentSnapshot \in Snapshot /\ AgentSnapshot.about = "host"
<1>1. /\ deploy.agent.current \in BOOLEAN /\ deploy.agent.id \in BOOLEAN
      /\ deploy.agent.scope \in Scopes
  <2>1. deploy.agent \in Agents
    BY DEF Deployment
  <2>2. Agents \subseteq [current : BOOLEAN, id : BOOLEAN, scope : Scopes]
    BY DEF Agents, Scopes
  <2> QED BY <2>1, <2>2
<1>2. ~AgentHost.docker /\ AgentHost.drive = NoDrive
  BY DEF AgentHost
<1>3. LiveProfile(AgentHost) =
        [kind |-> "snapshot", current |-> deploy.agent.current, scope |-> deploy.agent.scope,
         id |-> deploy.agent.id, about |-> "host"]
  BY <1>2 DEF LiveProfile, AgentHost
<1>4. \E s \in Scopes : AgentSnapshot = [LiveProfile(AgentHost) EXCEPT !.scope = s]
  BY <1>1, <1>3 DEF AgentSnapshot, BuiltOn, Scopes
<1> QED BY <1>1, <1>3, <1>4 DEF Snapshot, Scopes

(* All a collector delivers is a snapshot of the host. *)
LEMMA DeliveredTyped ==
  ASSUME deploy \in Deployment, NEW kind \in Kinds, NEW s \in Delivered(kind)
  PROVE  s \in Snapshot /\ s.about = "host"
<1>1. \A id \in BOOLEAN : WindowsSnapshot(id) \in Snapshot /\ WindowsSnapshot(id).about = "host"
  BY DEF WindowsSnapshot, Snapshot, Scopes
<1> QED BY <1>1, AgentTyped DEF Delivered, Kinds

(* A write leaves what was written, or no JSON. *)
LEMMA OverlaidCases ==
  ASSUME NEW new, NEW f \in Overlaid(new)
  PROVE  f = new \/ f = Torn
BY DEF Overlaid

-----------------------------------------------------------------------------
(* Each part of the invariant is preserved.                                *)

Slots == [at : {"off", "collecting", "open", "ended", "failed"}, kind : Kinds,
          waited : BOOLEAN, attached : BOOLEAN]

(* The updates of a slot keep its type. *)
LEMMA SlotsTyped ==
  /\ Off \in Slots
  /\ \A s \in Slots : /\ [s EXCEPT !.waited = FALSE] \in Slots
                      /\ [s EXCEPT !.attached = FALSE] \in Slots
                      /\ [s EXCEPT !.at = "open", !.attached = TRUE] \in Slots
                      /\ [s EXCEPT !.at = "ended"] \in Slots
                      /\ [s EXCEPT !.at = "failed"] \in Slots
  BY DEF Slots, Off, Kinds

(* The places are among those of the type invariant. *)
LEMMA PlacesTyped ==
  Places \subseteq {"off", "clean", "agent", "powershell", "docker", "fallback", "gate", "refresh",
                    "serving", "exited"}
                     \X {"off", "read", "remove", "again", "ask", "wait", "check", "build", "open",
                         "write", "ok", "failed", "crashed", "written", "serving", "exited"}
  BY DEF Places, Asking, Kinds, Serving, Exited

(* Where the scripts go on is a place. *)
LEMMA AfterPlaces ==
  ASSUME NEW stage \in Asking \cup {"fallback"}
  PROVE  After(stage) \subseteq Places
<1>1. CASE stage = "agent"
  BY <1>1 DEF After, Places, Asking, Kinds
<1>2. CASE stage = "powershell"
  BY <1>2 DEF After, Places, Asking, Kinds
<1>3. CASE stage = "docker"
  BY <1>3 DEF After, Places
<1>4. CASE stage = "refresh"
  BY <1>4 DEF After, Places
<1>5. CASE stage = "fallback"
  BY <1>5 DEF After, Places
<1> QED BY <1>1, <1>2, <1>3, <1>4, <1>5 DEF Asking, Kinds

(* The scripts go from place to place. *)
LEMMA PlacesPreserved ==
  ASSUME pc \in Places, Next
  PROVE  pc' \in Places
<1> USE DEF Places, Serving, Exited
<1>1. CASE Start
  BY <1>1 DEF Start
<1>2. CASE NobodyToAsk
  BY <1>2, AfterPlaces DEF NobodyToAsk
<1>3. CASE Check
  BY <1>3, AfterPlaces DEF Check, Asking
<1>4. CASE CleanRead \/ CleanRemove \/ CleanAgain
  BY <1>4 DEF CleanRead, CleanRemove, CleanAgain, Asking, Kinds
<1>5. CASE FallbackBuild \/ FallbackRemove \/ RemoveFails
  BY <1>5 DEF FallbackBuild, FallbackRemove, RemoveFails
<1>6. CASE DraftOpen \/ DraftWrite \/ DraftFails
  BY <1>6 DEF DraftOpen, DraftWrite, DraftFails, Done, Failed
<1>7. CASE Gate
  BY <1>7 DEF Gate
<1>8. CASE RefreshRead \/ RefreshBuild \/ RefreshWritten
  BY <1>8 DEF RefreshRead, RefreshBuild, RefreshWritten, Failed, Asking
<1>9. ASSUME NEW c \in Collector, Ask(c) \/ GiveUp(c) \/ Answered(c) \/ RefreshAnswered(c)
      PROVE  pc' \in Places
  <2>1. CASE Ask(c)
    BY <2>1 DEF Ask
  <2>2. CASE GiveUp(c)
    <3>1. pc[1] \in Asking
      BY <2>2 DEF GiveUp
    <3> QED BY <2>2, <3>1, AfterPlaces DEF GiveUp
  <2>3. CASE Answered(c)
    BY <2>3 DEF Answered
  <2>4. CASE RefreshAnswered(c)
    BY <2>4 DEF RefreshAnswered, Failed
  <2> QED BY <1>9, <2>1, <2>2, <2>3, <2>4
<1>10. CASE Serve \/ Stop
  BY <1>10 DEF Serve, Stop
<1>11. ASSUME NEW c \in Collector, OpenFile(c) \/ WriteFile(c) \/ CollectorFails(c)
       PROVE  pc' \in Places
  BY <1>11 DEF OpenFile, WriteFile, CollectorFails
<1> QED BY <1>1, <1>2, <1>3, <1>4, <1>5, <1>6, <1>7, <1>8, <1>9, <1>10, <1>11 DEF Next, Boot

(* Collectors are only ever started, moved on, left alone or ended. *)
LEMMA CollectorPreserved ==
  ASSUME collector \in [Collector -> Slots], pc \in Places, Next
  PROVE  collector' \in [Collector -> Slots]
<1>1. CASE CleanRemove \/ FallbackRemove
  BY <1>1, SlotsTyped DEF CleanRemove, FallbackRemove, Remove
<1>2. ASSUME NEW c \in Collector, Ask(c)
      PROVE  collector' \in [Collector -> Slots]
  <2>1. KindOf(pc[1]) \in Kinds
    BY <1>2 DEF Ask, KindOf, Asking, Kinds
  <2> QED BY <1>2, <2>1 DEF Ask, Slots
<1>3. ASSUME NEW c \in Collector,
             \/ GiveUp(c) \/ Answered(c) \/ RefreshAnswered(c)
             \/ OpenFile(c) \/ WriteFile(c) \/ CollectorFails(c)
      PROVE  collector' \in [Collector -> Slots]
  <2>1. PICK new \in Slots : collector' = [collector EXCEPT ![c] = new]
    <3>1. CASE GiveUp(c)
      BY <3>1, SlotsTyped DEF GiveUp
    <3>2. CASE Answered(c) \/ RefreshAnswered(c)
      BY <3>2, SlotsTyped DEF Answered, RefreshAnswered
    <3>3. CASE OpenFile(c)
      <4>1. collector' = [collector EXCEPT ![c] = [@ EXCEPT !.at = "open", !.attached = TRUE]]
        BY <3>3 DEF OpenFile
      <4> QED BY <4>1, SlotsTyped
    <3>4. CASE WriteFile(c) \/ CollectorFails(c)
      BY <3>4, SlotsTyped DEF WriteFile, CollectorFails
    <3> QED BY <1>3, <3>1, <3>2, <3>3, <3>4
  <2> QED BY <2>1
<1>4. CASE Stop
  BY <1>4, SlotsTyped DEF Stop
<1>5. CASE \/ Start \/ NobodyToAsk \/ Check \/ CleanRead \/ CleanAgain \/ FallbackBuild
           \/ DraftOpen \/ DraftWrite \/ RemoveFails \/ DraftFails \/ Gate \/ RefreshRead \/ RefreshBuild
           \/ RefreshWritten \/ Serve
  BY <1>5 DEF Start, NobodyToAsk, Check, CleanRead, CleanAgain, FallbackBuild, DraftOpen, DraftWrite,
              RemoveFails, DraftFails, Gate, RefreshRead, RefreshBuild, RefreshWritten, Serve
<1> QED BY <1>1, <1>2, <1>3, <1>4, <1>5 DEF Next, Boot

(* Where the next file comes from, in any step. *)
LEMMA FileCases ==
  ASSUME TypeOK, Next
  PROVE  \/ file' = file
         \/ file' \in {None, Empty, Torn}
         \/ file' = draft /\ pc[2] = "write"
         \/ file' \in Snapshot /\ file'.about = "host"
<1>1. CASE CleanRemove \/ FallbackRemove
  BY <1>1 DEF CleanRemove, FallbackRemove, Remove
<1>2. ASSUME NEW c \in Collector, OpenFile(c)
      PROVE  file' = Empty
  BY <1>2 DEF OpenFile, Truncate
<1>3. ASSUME NEW c \in Collector, WriteFile(c)
      PROVE  file' = file \/ file' = Torn \/ (file' \in Snapshot /\ file'.about = "host")
  <2>1. CASE ~collector[c].attached
    BY <1>3, <2>1 DEF WriteFile
  <2>2. CASE collector[c].attached
    <3>1. collector[c].kind \in Kinds /\ deploy \in Deployment
      BY DEF TypeOK
    <3>2. PICK new \in Delivered(collector[c].kind) : file' \in Overlaid(new)
      BY <1>3, <2>2 DEF WriteFile
    <3>3. new \in Snapshot /\ new.about = "host"
      BY <3>1, <3>2, DeliveredTyped
    <3> QED BY <3>2, <3>3, OverlaidCases
  <2> QED BY <2>1, <2>2
<1>4. CASE DraftOpen
  BY <1>4 DEF DraftOpen, Truncate
<1>5. CASE DraftWrite
  BY <1>5, OverlaidCases DEF DraftWrite
<1>6. CASE \/ Start \/ NobodyToAsk \/ Check \/ CleanRead \/ CleanAgain \/ FallbackBuild \/ RemoveFails
           \/ DraftFails \/ Gate \/ RefreshRead \/ RefreshBuild \/ RefreshWritten \/ Serve \/ Stop
  BY <1>6 DEF Start, NobodyToAsk, Check, CleanRead, CleanAgain, FallbackBuild, RemoveFails, DraftFails,
              Gate, RefreshRead, RefreshBuild, RefreshWritten, Serve, Stop
<1>7. ASSUME NEW c \in Collector,
             Ask(c) \/ GiveUp(c) \/ Answered(c) \/ RefreshAnswered(c) \/ CollectorFails(c)
      PROVE  file' = file
  BY <1>7 DEF Ask, GiveUp, Answered, RefreshAnswered, CollectorFails
<1> QED BY <1>1, <1>2, <1>3, <1>4, <1>5, <1>6, <1>7 DEF Next, Boot

(* Where the next draft comes from. *)
LEMMA DraftCases ==
  ASSUME Next
  PROVE  \/ draft' = draft
         \/ Stop /\ draft' = None
         \/ (FallbackBuild \/ RefreshBuild) /\ draft' = Built
         \/ /\ \E c \in Collector : RefreshAnswered(c)
            /\ draft' \in {AgentSnapshot, None} \/ (draft' = file /\ HostScope(file))
<1>1. CASE Stop
  BY <1>1 DEF Stop
<1>2. CASE FallbackBuild \/ RefreshBuild
  BY <1>2 DEF FallbackBuild, RefreshBuild
<1>3. ASSUME NEW c \in Collector, RefreshAnswered(c)
      PROVE  draft' \in {AgentSnapshot, None} \/ (draft' = file /\ HostScope(file))
  BY <1>3 DEF RefreshAnswered
<1>4. ASSUME NEW c \in Collector,
             Ask(c) \/ GiveUp(c) \/ Answered(c) \/ OpenFile(c) \/ WriteFile(c) \/ CollectorFails(c)
      PROVE  draft' = draft
  BY <1>4 DEF Ask, GiveUp, Answered, OpenFile, WriteFile, CollectorFails
<1>5. CASE \/ Start \/ NobodyToAsk \/ Check \/ CleanRead \/ CleanRemove \/ CleanAgain
           \/ FallbackRemove \/ DraftOpen \/ DraftWrite \/ RemoveFails \/ DraftFails \/ Gate
           \/ RefreshRead \/ RefreshWritten \/ Serve
  BY <1>5 DEF Start, NobodyToAsk, Check, CleanRead, CleanRemove, CleanAgain, FallbackRemove,
              DraftOpen, DraftWrite, RemoveFails, DraftFails, Gate, RefreshRead, RefreshWritten, Serve
<1> QED BY <1>1, <1>2, <1>3, <1>4, <1>5 DEF Next, Boot

(* Nothing the worker does changes the deployment. *)
LEMMA DeployFixed ==
  ASSUME Next
  PROVE  deploy' = deploy
BY DEF Next, Boot, Start, NobodyToAsk, Check, CleanRead, CleanRemove, CleanAgain, FallbackBuild,
       FallbackRemove, DraftOpen, DraftWrite, RemoveFails, DraftFails, Gate, RefreshRead, RefreshBuild,
       RefreshWritten, Ask,
       GiveUp, Answered, RefreshAnswered, Serve, Stop, OpenFile, WriteFile, CollectorFails

(* Only GetHostProfile answers. *)
LEMMA AnswerCases ==
  ASSUME Next
  PROVE  answer' = answer \/ answer' = NoAnswer \/ (pc = Serving /\ answer' = Profile)
<1>1. CASE Serve
  BY <1>1 DEF Serve
<1>2. CASE Stop
  BY <1>2 DEF Stop
<1>3. CASE \E c \in Collector : \/ Ask(c) \/ GiveUp(c) \/ Answered(c) \/ RefreshAnswered(c)
                                \/ OpenFile(c) \/ WriteFile(c) \/ CollectorFails(c)
  BY <1>3 DEF Ask, GiveUp, Answered, RefreshAnswered, OpenFile, WriteFile, CollectorFails
<1>4. CASE \/ Start \/ NobodyToAsk \/ Check \/ CleanRead \/ CleanRemove \/ CleanAgain \/ FallbackBuild
           \/ FallbackRemove \/ DraftOpen \/ DraftWrite \/ RemoveFails \/ DraftFails \/ Gate
           \/ RefreshRead \/ RefreshBuild \/ RefreshWritten
  BY <1>4 DEF Start, NobodyToAsk, Check, CleanRead, CleanRemove, CleanAgain, FallbackBuild,
              FallbackRemove, DraftOpen, DraftWrite, RemoveFails, DraftFails, Gate, RefreshRead,
              RefreshBuild, RefreshWritten
<1> QED BY <1>1, <1>2, <1>3, <1>4 DEF Next, Boot

(* A start forgets what went wrong in the one before; nothing else does. *)
LEMMA AmissCases ==
  ASSUME Next
  PROVE  /\ amiss \in SUBSET Mishaps => amiss' \in SUBSET Mishaps
         /\ Start \/ amiss \subseteq amiss'
<1>1. CASE Start
  BY <1>1 DEF Start
<1>2. ASSUME NEW c \in Collector, OpenFile(c) \/ WriteFile(c) \/ GiveUp(c)
      PROVE  amiss' \in {amiss, amiss \cup {"late"}, amiss \cup {"unheard"}}
  <2>1. CASE OpenFile(c)
    BY <2>1 DEF OpenFile, Late
  <2>2. CASE WriteFile(c)
    BY <2>2 DEF WriteFile, Late
  <2>3. CASE GiveUp(c)
    BY <2>3 DEF GiveUp
  <2> QED BY <1>2, <2>1, <2>2, <2>3
<1>3. ASSUME NEW c \in Collector, Ask(c) \/ Answered(c) \/ RefreshAnswered(c) \/ CollectorFails(c)
      PROVE  amiss' = amiss
  BY <1>3 DEF Ask, Answered, RefreshAnswered, CollectorFails
<1>4. CASE RemoveFails \/ DraftFails
  BY <1>4 DEF RemoveFails, DraftFails, Mishaps
<1>5. CASE \/ NobodyToAsk \/ Check \/ CleanRead \/ CleanRemove \/ CleanAgain \/ FallbackBuild
           \/ FallbackRemove \/ DraftOpen \/ DraftWrite \/ Gate \/ RefreshRead \/ RefreshBuild
           \/ RefreshWritten \/ Serve \/ Stop
  BY <1>5 DEF NobodyToAsk, Check, CleanRead, CleanRemove, CleanAgain, FallbackBuild,
              FallbackRemove, DraftOpen, DraftWrite, Gate, RefreshRead, RefreshBuild, RefreshWritten,
              Serve, Stop
<1> QED BY <1>1, <1>2, <1>3, <1>4, <1>5 DEF Next, Boot, Mishaps

(* No step breaks the type invariant. *)
LEMMA TypePreserved ==
  ASSUME TypeOK, pc \in Places, Next
  PROVE  TypeOK'
<1>1. deploy' \in Deployment
  BY DeployFixed DEF TypeOK
<1>2. file' \in Snapshot \cup {None, Empty, Torn}
  BY FileCases DEF TypeOK
<1>3. collector' \in [Collector -> Slots]
  BY CollectorPreserved DEF TypeOK, Slots
<1>4. pc' \in Places
  BY PlacesPreserved
<1>5. draft' \in Snapshot \cup {None}
  <2>1. HostScope(file) => file \in Snapshot
    BY DEF TypeOK, HostScope, None, Empty, Torn
  <2> QED BY <2>1, DraftCases, BuiltTyped, AgentTyped DEF TypeOK
<1>6. answer' \in [injected : BOOLEAN, about : Scopes]
  <2>1. answer' = answer \/ answer' = NoAnswer \/ answer' = Profile
    BY AnswerCases
  <2>2. Profile \in [injected : BOOLEAN, about : Scopes]
    <3>1. CASE Valid(file)
      <4>1. file \in Snapshot
        BY <3>1, InvalidFiles DEF TypeOK
      <4> QED BY <3>1, <4>1 DEF Profile, Snapshot
    <3>2. CASE ~Valid(file)
      <4>1. LiveProfile(Container).about \in Scopes
        BY DEF LiveProfile, DriveProfile, Scopes
      <4> QED BY <3>2, <4>1 DEF Profile
    <3> QED BY <3>1, <3>2
  <2>3. NoAnswer \in [injected : BOOLEAN, about : Scopes]
    BY DEF NoAnswer, Scopes
  <2> QED BY <2>1, <2>2, <2>3 DEF TypeOK
<1>7. amiss' \in SUBSET Mishaps
  BY AmissCases DEF TypeOK
<1> QED BY <1>1, <1>2, <1>3, <1>4, <1>5, <1>6, <1>7, PlacesTyped DEF TypeOK, Slots

(* The hardware in a valid file, and in what is written, is the host's     *)
(* unless the container passes for it.                                     *)
LEMMA HonestPreserved ==
  ASSUME TypeOK, Honest(file), Honest(draft), Next
  PROVE  Honest(file)' /\ Honest(draft)'
<1>1. PassesForHost' = PassesForHost
  BY DeployFixed DEF PassesForHost
<1>2. Honest(file)'
  BY <1>1, FileCases, InvalidFiles DEF Honest, Valid
<1>3. Honest(Built) /\ Honest(AgentSnapshot) /\ Honest(None)
  BY BuiltTyped, AgentTyped, InvalidFiles DEF TypeOK, Honest
<1>4. Honest(draft)'
  BY <1>1, <1>3, DraftCases DEF Honest, Valid
<1> QED BY <1>2, <1>4

(* An answer that passes for the host's comes from a file that does. *)
LEMMA AnswerPreserved ==
  ASSUME HostMeansHost, Honest(file), Next
  PROVE  HostMeansHost'
<1>1. deploy' = deploy
  BY DeployFixed
<1>2. CASE answer' = answer
  BY <1>1, <1>2 DEF HostMeansHost, PassesForHost
<1>3. CASE answer' = NoAnswer
  BY <1>3 DEF HostMeansHost, NoAnswer
<1>4. CASE answer' = Profile
  BY <1>1, <1>4 DEF HostMeansHost, Profile, Honest, PassesForHost
<1> QED BY <1>2, <1>3, <1>4, AnswerCases

(* A way that has brought nothing leads to the next one. *)
LEMMA AfterVain ==
  ASSUME NEW stage
  PROVE  After(stage) \subseteq Vain
<1>1. CASE stage = "agent"
  BY <1>1 DEF After, Vain, Asking, Kinds
<1>2. CASE stage = "powershell"
  BY <1>2 DEF After, Vain, Asking, Kinds
<1>3. CASE stage = "docker"
  BY <1>3 DEF After, Vain
<1>4. CASE stage = "refresh"
  BY <1>4 DEF After, Vain
<1>5. CASE stage \notin {"agent", "powershell", "docker", "refresh"}
  BY <1>5 DEF After, Vain
<1> QED BY <1>1, <1>2, <1>3, <1>4, <1>5

(* It asks, builds or ends there. *)
LEMMA AfterSteps ==
  ASSUME NEW stage, NEW place \in After(stage)
  PROVE  place[2] \in {"ask", "build", "failed"}
<1>1. CASE stage = "agent"
  BY <1>1 DEF After
<1>2. CASE stage = "powershell"
  BY <1>2 DEF After
<1>3. CASE stage = "docker"
  BY <1>3 DEF After
<1>4. CASE stage = "refresh"
  BY <1>4 DEF After
<1>5. CASE stage \notin {"agent", "powershell", "docker", "refresh"}
  BY <1>5 DEF After
<1> QED BY <1>1, <1>2, <1>3, <1>4, <1>5

(* A place where nothing valid was found is not one where something is     *)
(* being waited for or has been written.                                   *)
LEMMA VainPlaces ==
  ASSUME NEW place \in Vain
  PROVE  /\ place[2] \notin {"wait", "write", "written", "crashed", "serving", "exited"}
         /\ place # <<"refresh", "open">>
BY DEF Vain, Asking, Kinds

(* What the container comes to write has been seen to be fit. *)
LEMMA DraftFitPreserved ==
  ASSUME TypeOK, pc \in Places, DraftFit, Next
  PROVE  DraftFit'
<1> USE DEF DraftFit, Serving, Exited
<1>1. CASE FallbackBuild
  BY <1>1 DEF FallbackBuild, Valid
<1>2. CASE RefreshBuild
  <2>1. Built \in Snapshot /\ Built.current
    BY BuiltTyped DEF TypeOK
  <2> QED BY <1>2, <2>1 DEF RefreshBuild
<1>3. ASSUME NEW c \in Collector, RefreshAnswered(c)
      PROVE  DraftFit'
  <2>1. \A given \in {AgentSnapshot, file} : HostScope(given) => given \in Snapshot
    BY AgentTyped DEF TypeOK, HostScope, None, Empty, Torn
  <2>2. PICK given \in {AgentSnapshot, file} :
          /\ draft' = IF HostScope(given) THEN given ELSE None
          /\ pc' = IF ~HostScope(given) THEN <<"refresh", "build">>
                   ELSE IF given.current THEN <<"refresh", "open">> ELSE Failed
    BY <1>3 DEF RefreshAnswered
  <2>3. CASE HostScope(given) /\ given.current
    BY <2>1, <2>2, <2>3
  <2>4. CASE ~(HostScope(given) /\ given.current)
    <3>1. pc' \in {<<"refresh", "build">>, Exited, Serving}
      BY <2>2, <2>4 DEF Failed
    <3> QED BY <3>1
  <2> QED BY <2>3, <2>4
<1>4. CASE DraftOpen
  <2>1. pc \in {<<"fallback", "open">>, <<"refresh", "open">>}
    BY <1>4 DEF DraftOpen, Places, Asking, Kinds
  <2> QED BY <1>4, <2>1 DEF DraftOpen, Valid
<1>5. CASE DraftWrite
  <2>1. CASE pc[1] = "fallback"
    BY <1>5, <2>1 DEF DraftWrite, Done
  <2>2. CASE pc[1] # "fallback"
    <3>1. pc \in {"refresh"} \X {"open", "write", "written"}
      BY <1>5, <2>2 DEF DraftWrite, Places, Asking, Kinds
    <3> QED BY <1>5, <2>2, <3>1 DEF DraftWrite, Done
  <2> QED BY <2>1, <2>2
<1>6. CASE Serve \/ \E c \in Collector : OpenFile(c) \/ WriteFile(c) \/ CollectorFails(c)
  BY <1>6 DEF Serve, OpenFile, WriteFile, CollectorFails, Valid
<1>7. CASE Check \/ NobodyToAsk \/ \E c \in Collector : GiveUp(c)
  <2>1. pc' = <<"gate", "ok">> \/ pc'[2] \in {"ask", "build", "failed"}
    BY <1>7, AfterSteps DEF Check, NobodyToAsk, GiveUp
  <2> QED BY <2>1
<1>8. CASE \/ Start \/ CleanRead \/ CleanRemove \/ CleanAgain \/ FallbackRemove \/ RemoveFails
           \/ DraftFails \/ Gate \/ RefreshRead \/ RefreshWritten \/ Stop
  BY <1>8 DEF Start, CleanRead, CleanRemove, CleanAgain, FallbackRemove, RemoveFails, DraftFails, Gate,
              RefreshRead, RefreshWritten, Failed, Stop
<1>9. CASE \E c \in Collector : Ask(c) \/ Answered(c)
  BY <1>9 DEF Ask, Answered
<1> QED BY <1>1, <1>2, <1>3, <1>4, <1>5, <1>6, <1>7, <1>8, <1>9 DEF Next, Boot

(* Nobody is waited for outside the waits. *)
LEMMA NotWaiting ==
  ASSUME OneWaited, pc[2] # "wait", NEW c \in Collector
  PROVE  ~Own(c)
BY DEF OneWaited

(* A new wait begins where none was; a wait that ends was the only one. *)
LEMMA OneWaitedPreserved ==
  ASSUME TypeOK, pc \in Places, OneWaited, Next
  PROVE  OneWaited'
<1> USE DEF OneWaited, Own
<1>1. ASSUME NEW c \in Collector, Ask(c)
      PROVE  OneWaited'
  <2>1. collector' = [collector EXCEPT ![c] = [at |-> "collecting", kind |-> KindOf(pc[1]),
                                               waited |-> TRUE, attached |-> FALSE]]
        /\ pc' = <<pc[1], "wait">> /\ pc[1] \in Asking /\ pc[2] # "wait"
    BY <1>1 DEF Ask
  <2>2. \A d \in Collector : ~Own(d)
    BY <2>1, NotWaiting
  <2>3. \A d \in Collector : Own(d)' => d = c
    BY <2>1, <2>2 DEF TypeOK
  <2>4. collector'[c].kind = KindOf(pc[1]) /\ collector'[c].at # "open"
    BY <2>1 DEF TypeOK
  <2> QED BY <2>1, <2>3, <2>4
<1>2. ASSUME NEW c \in Collector, GiveUp(c) \/ Answered(c) \/ RefreshAnswered(c)
      PROVE  OneWaited'
  <2>1. Own(c)
    BY <1>2 DEF GiveUp, Answered, RefreshAnswered
  <2>2. PICK new \in {Off, [collector[c] EXCEPT !.waited = FALSE]} :
          collector' = [collector EXCEPT ![c] = new]
    BY <1>2 DEF GiveUp, Answered, RefreshAnswered
  <2>3. ~new.waited
    BY DEF Off, TypeOK
  <2>4. \A d \in Collector : ~Own(d)'
    BY <2>1, <2>2, <2>3 DEF TypeOK
  <2> QED BY <2>4
<1>3. ASSUME NEW c \in Collector, OpenFile(c) \/ WriteFile(c) \/ CollectorFails(c)
      PROVE  OneWaited'
  <2>1. /\ \A d \in Collector \ {c} : collector'[d] = collector[d]
        /\ collector'[c].waited => Own(c) /\ collector'[c].kind = collector[c].kind
        /\ collector'[c].at = "open" => collector'[c].attached
    <3>1. CASE OpenFile(c)
      <4>1. collector' = [collector EXCEPT ![c] = [@ EXCEPT !.at = "open", !.attached = TRUE]]
        BY <3>1 DEF OpenFile
      <4> QED BY <4>1 DEF TypeOK
    <3>2. CASE WriteFile(c) \/ CollectorFails(c)
      <4>1. PICK at \in {"ended", "failed"} :
              collector' = [collector EXCEPT ![c] = IF Own(c) THEN [@ EXCEPT !.at = at] ELSE Off]
        BY <3>2 DEF WriteFile, CollectorFails
      <4>2. CASE Own(c)
        BY <4>1, <4>2 DEF TypeOK
      <4>3. CASE ~Own(c)
        BY <4>1, <4>3 DEF TypeOK, Off
      <4> QED BY <4>2, <4>3
    <3> QED BY <1>3, <3>1, <3>2
  <2>2. pc' = pc
    BY <1>3 DEF OpenFile, WriteFile, CollectorFails
  <2> QED BY <2>1, <2>2
<1>4. CASE Stop
  <2>1. \A c \in Collector : ~Own(c)'
    BY <1>4 DEF Stop, Off, TypeOK
  <2> QED BY <2>1
<1>5. CASE CleanRemove \/ FallbackRemove
  <2>1. pc[2] # "wait"
    BY <1>5 DEF CleanRemove, FallbackRemove
  <2>2. \A c \in Collector : ~Own(c)
    BY <2>1, NotWaiting
  <2>3. \A c \in Collector : ~Own(c)'
    BY <1>5, <2>2 DEF CleanRemove, FallbackRemove, Remove, TypeOK
  <2> QED BY <2>3
<1>6. CASE \/ Start \/ NobodyToAsk \/ Check \/ CleanRead \/ CleanAgain \/ FallbackBuild \/ DraftOpen
           \/ DraftWrite \/ RemoveFails \/ DraftFails \/ Gate \/ RefreshRead \/ RefreshBuild
           \/ RefreshWritten \/ Serve
  <2>1. pc[2] # "wait"
    <3>1. CASE Gate
      BY <1>6, <3>1 DEF Gate, Places, Asking, Kinds, Serving, Exited
    <3>2. CASE ~Gate
      BY <1>6, <3>2 DEF Start, NobodyToAsk, Check, CleanRead, CleanAgain, FallbackBuild, DraftOpen,
                        DraftWrite, RemoveFails, DraftFails, RefreshRead, RefreshBuild, RefreshWritten,
                        Serve, Serving
    <3> QED BY <3>1, <3>2
  <2>2. collector' = collector
    BY <1>6 DEF Start, NobodyToAsk, Check, CleanRead, CleanAgain, FallbackBuild, DraftOpen, DraftWrite,
                RemoveFails, DraftFails, Gate, RefreshRead, RefreshBuild, RefreshWritten, Serve
  <2>3. \A c \in Collector : ~Own(c)'
    BY <2>1, <2>2, NotWaiting
  <2> QED BY <2>3
<1> QED BY <1>1, <1>2, <1>3, <1>4, <1>5, <1>6 DEF Next, Boot

(* Without a late collector, what the container makes of the file stays    *)
(* what it has made of it.                                                 *)
LEMMA UndisturbedPreserved ==
  ASSUME IInv, "late" \notin amiss', Next
  PROVE  Undisturbed'
<1>1. TypeOK /\ pc \in Places /\ OneWaited /\ DraftFit
  BY DEF IInv
<1>2. Start \/ Undisturbed
  BY AmissCases DEF IInv
<1>3. deploy' = deploy
  BY DeployFixed
<1>4. ASSUME pc'[2] \notin {"write", "written", "serving"}
      PROVE  Undisturbed'
  BY <1>4 DEF Undisturbed, Serving
<1>5. CASE Start \/ Stop
  BY <1>4, <1>5 DEF Start, Stop
<1>6. CASE Check \/ NobodyToAsk \/ \E c \in Collector : GiveUp(c)
  <2>1. pc' = <<"gate", "ok">> \/ pc'[2] \in {"ask", "build", "failed"}
    BY <1>6, AfterSteps DEF Check, NobodyToAsk, GiveUp
  <2> QED BY <1>4, <2>1
<1>7. CASE CleanRead \/ CleanRemove \/ CleanAgain
  BY <1>4, <1>7 DEF CleanRead, CleanRemove, CleanAgain
<1>8. CASE FallbackBuild \/ FallbackRemove \/ RemoveFails
  BY <1>4, <1>8 DEF FallbackBuild, FallbackRemove, RemoveFails
<1>9. CASE DraftOpen
  BY <1>9 DEF DraftOpen, Truncate, Undisturbed, Serving
<1>10. CASE DraftWrite
  <2>1. file = Empty
    BY <1>2, <1>10 DEF DraftWrite, Start, Undisturbed
  <2>2. file' = draft /\ draft' = draft
    BY <1>10, <2>1 DEF DraftWrite, Overlaid
  <2>3. pc' \in {<<"fallback", "check">>, <<"refresh", "written">>}
    BY <1>10 DEF DraftWrite, Done
  <2> QED BY <2>2, <2>3 DEF Undisturbed, Serving
<1>11. CASE DraftFails
  <2>1. pc' \in {<<"gate", "crashed">>, Exited} \/ (pc' = Serving /\ ~deploy.require)
    BY <1>11 DEF DraftFails, Failed
  <2> QED BY <1>3, <2>1 DEF Undisturbed, Serving, Exited
<1>12. CASE Gate
  <2>1. pc' \in {Exited, <<"refresh", "read">>} \/ (pc' = Serving /\ ~deploy.require)
    BY <1>12 DEF Gate
  <2> QED BY <1>3, <2>1 DEF Undisturbed, Serving, Exited
<1>13. CASE RefreshRead
  <2>1. (pc' = Serving /\ Valid(file) /\ file' = file) \/ pc' = <<"refresh", "ask">>
    BY <1>13 DEF RefreshRead
  <2> QED BY <2>1 DEF Undisturbed, Serving, Valid
<1>14. CASE RefreshBuild
  BY <1>4, <1>14 DEF RefreshBuild, Exited
<1>15. CASE RefreshWritten
  <2>1. file = draft /\ draft \in Snapshot /\ draft.current /\ file' = file
    BY <1>1, <1>2, <1>15 DEF RefreshWritten, Start, Undisturbed, DraftFit
  <2>2. \/ pc' = Serving /\ draft.scope = "host" /\ ~draft.id
        \/ pc' = Exited
        \/ pc' = Serving /\ ~deploy.require
    BY <1>15 DEF RefreshWritten, Failed
  <2> QED BY <1>3, <2>1, <2>2 DEF Undisturbed, Serving, Exited, Valid, Snapshot
<1>16. ASSUME NEW c \in Collector, Ask(c) \/ Answered(c)
       PROVE  Undisturbed'
  BY <1>4, <1>16 DEF Ask, Answered
<1>17. ASSUME NEW c \in Collector, RefreshAnswered(c)
       PROVE  Undisturbed'
  <2>1. pc' \in {<<"refresh", "build">>, <<"refresh", "open">>, Exited} \/ (pc' = Serving /\ ~deploy.require)
    BY <1>17 DEF RefreshAnswered, Failed
  <2> QED BY <1>3, <2>1 DEF Undisturbed, Serving, Exited
<1>18. CASE Serve
  BY <1>2, <1>18 DEF Serve, Start, Undisturbed, Serving, Valid
<1>19. ASSUME NEW c \in Collector, OpenFile(c) \/ WriteFile(c) \/ CollectorFails(c)
       PROVE  Undisturbed'
  <2>1. pc' = pc /\ draft' = draft
    BY <1>19 DEF OpenFile, WriteFile, CollectorFails
  <2>2. CASE Own(c)
    <3>1. pc[2] = "wait"
      BY <1>1, <2>2 DEF OneWaited
    <3> QED BY <1>4, <2>1, <3>1
  <2>3. CASE ~Own(c)
    <3>1. file' = file
      BY <1>19, <2>3 DEF OpenFile, WriteFile, CollectorFails, Late
    <3>2. Undisturbed \/ pc = <<"off", "off">>
      BY <1>2 DEF Start
    <3> QED BY <1>3, <1>4, <2>1, <3>1, <3>2 DEF Undisturbed, Valid, Serving
  <2> QED BY <2>2, <2>3
<1> QED BY <1>5, <1>6, <1>7, <1>8, <1>9, <1>10, <1>11, <1>12, <1>13, <1>14, <1>15, <1>16, <1>17, <1>18,
           <1>19 DEF Next, Boot

(* A place where nothing valid has been found asks for nothing else. *)
LEMMA KnownInVain ==
  ASSUME pc' \in Vain \cup {Exited}, ~Valid(file')
  PROVE  Known'
<1>1. pc'[2] \notin {"wait", "crashed"} /\ pc' # <<"refresh", "open">>
  BY VainPlaces DEF Exited
<1>2. pc' \notin {<<"refresh", "wait">>, <<"gate", "crashed">>}
  BY <1>1
<1> QED BY <1>1, <1>2 DEF Known, Valid

(* Other places ask nothing of the file. *)
LEMMA KnownElsewhere ==
  ASSUME pc' \notin Vain, pc'[2] \notin {"wait", "exited", "crashed"}, pc' # <<"refresh", "open">>
  PROVE  Known'
<1>1. Vain' = Vain
  BY DEF Vain
<1>2. pc' \notin {<<"refresh", "wait">>, <<"gate", "crashed">>, Exited}
  BY DEF Exited
<1> QED BY <1>1, <1>2 DEF Known, Exited

(* Nor does the end of a script that could not write. *)
LEMMA KnownAtCrash ==
  ASSUME pc' \in {<<"gate", "crashed">>, Exited}, amiss' # {}
  PROVE  Known'
<1>1. pc' \notin Vain
  BY VainPlaces DEF Exited, Vain, Asking, Kinds
<1>2. Vain' = Vain
  BY DEF Vain
<1> QED BY <1>1, <1>2 DEF Known, Exited

(* What the steps of the collectors leave known. *)
LEMMA KnownByCollectors ==
  ASSUME IInv, Heard', NEW c \in Collector, OpenFile(c) \/ WriteFile(c) \/ CollectorFails(c)
  PROVE  Known'
<1>1. /\ TypeOK /\ OneWaited /\ pc' = pc /\ deploy' = deploy /\ draft' = draft
      /\ collector[c].at \in {"collecting", "open"}
  BY DEF IInv, OpenFile, WriteFile, CollectorFails
<1>2. amiss \subseteq amiss' /\ "late" \notin amiss'
  <2>1. ~Start
    BY DEF Start, OpenFile, WriteFile, CollectorFails
  <2>2. amiss \subseteq amiss'
    BY <2>1, AmissCases DEF Next
  <2> QED BY <2>2 DEF Heard
<1>3. Known
  BY <1>2 DEF IInv, Heard
<1>4. ASSUME \A d \in Collector \ {c} : collector'[d] = collector[d],
             collector'[c].at # "ended" \/ ~collector'[c].waited,
             file' = file
      PROVE  Known'
  <2>1. AgentSnapshot' = AgentSnapshot
    BY <1>1 DEF AgentSnapshot, BuiltOn, AgentHost, LiveProfile, DriveProfile
  <2>2. Vain' = Vain
    BY DEF Vain
  <2>3. \A d \in Collector : Own(d)' /\ collector'[d].at = "ended" <=> Own(d) /\ collector[d].at = "ended"
    BY <1>1, <1>4 DEF Own
  <2>4. amiss' = {} => amiss = {}
    BY <1>2
  <2> QED BY <1>1, <1>3, <1>4, <2>1, <2>2, <2>3, <2>4 DEF Known, Valid, Exited
<1>5. CASE CollectorFails(c)
  <2>1. collector' = [collector EXCEPT ![c] = IF Own(c) THEN [@ EXCEPT !.at = "failed"] ELSE Off]
        /\ file' = file
    BY <1>5 DEF CollectorFails
  <2>2. collector'[c].at # "ended"
    BY <1>1, <2>1 DEF TypeOK, Off
  <2> QED BY <1>1, <1>4, <2>1, <2>2 DEF TypeOK
<1>6. CASE OpenFile(c)
  <2>1. Own(c)
    BY <1>2, <1>6 DEF OpenFile, Late
  <2>2. pc[2] = "wait" /\ \A d \in Collector : Own(d) => d = c
    BY <1>1, <2>1 DEF OneWaited
  <2>3. file' = Empty /\ collector' = [collector EXCEPT ![c].at = "open", ![c].attached = TRUE]
    BY <1>6 DEF OpenFile, Truncate
  <2>4. \A d \in Collector : ~(collector'[d].waited /\ collector'[d].at = "ended")
    BY <1>1, <2>2, <2>3 DEF TypeOK, Own
  <2>5. pc' \notin Vain \cup {<<"refresh", "open">>, <<"gate", "crashed">>, Exited}
    BY <1>1, <2>2, VainPlaces DEF Exited
  <2> QED BY <2>3, <2>4, <2>5, InvalidFiles DEF Known, Own, Valid
<1>7. CASE WriteFile(c)
  <2>1. CASE ~Own(c)
    <3>1. ~collector[c].attached
      BY <1>2, <1>7, <2>1 DEF WriteFile, Late
    <3>2. file' = file /\ collector' = [collector EXCEPT ![c] = Off]
      BY <1>7, <2>1, <3>1 DEF WriteFile
    <3>3. collector'[c].at # "ended"
      BY <1>1, <3>2 DEF TypeOK, Off
    <3> QED BY <1>1, <1>4, <3>2, <3>3 DEF TypeOK
  <2>2. CASE Own(c)
    <3>1. /\ pc[2] = "wait" /\ collector[c].kind = KindOf(pc[1]) /\ collector[c].attached
          /\ \A d \in Collector : Own(d) => d = c
      BY <1>1, <1>7, <2>2 DEF OneWaited, WriteFile
    <3>2. PICK new \in Delivered(collector[c].kind) : file' \in Overlaid(new)
      BY <1>7, <3>1 DEF WriteFile
    <3>3. collector' = [collector EXCEPT ![c].at = "ended"]
      BY <1>7, <2>2 DEF WriteFile
    <3>4. collector'[c].waited /\ collector'[c].at = "ended"
      BY <1>1, <2>2, <3>3 DEF TypeOK, Own
    <3>5. pc = <<"refresh", "wait">> => file' \in {AgentSnapshot, Torn}
      <4>1. ASSUME pc = <<"refresh", "wait">>
            PROVE  new = AgentSnapshot
        BY <3>1, <3>2, <4>1 DEF KindOf, Delivered
      <4> QED BY <3>2, <4>1, OverlaidCases
    <3>6. AgentSnapshot' = AgentSnapshot
      BY <1>1 DEF AgentSnapshot, BuiltOn, AgentHost, LiveProfile, DriveProfile
    <3>7. pc' \notin Vain \cup {<<"refresh", "open">>, <<"gate", "crashed">>, Exited}
      BY <1>1, <3>1, VainPlaces DEF Exited
    <3> QED BY <1>1, <3>1, <3>4, <3>5, <3>6, <3>7 DEF Known, Own, Valid, Torn
  <2> QED BY <2>1, <2>2
<1> QED BY <1>5, <1>6, <1>7

(* What the steps of the container leave known. *)
LEMMA KnownByContainer ==
  ASSUME IInv, Heard', Boot
  PROVE  Known'
<1>1. TypeOK /\ pc \in Places /\ OneWaited /\ DraftFit
  BY DEF IInv
<1>2. Start \/ (Known /\ Undisturbed)
  <2>1. Start \/ amiss \subseteq amiss'
    BY AmissCases DEF Next
  <2> QED BY <2>1 DEF IInv, Heard
<1>3. deploy' = deploy
  BY DeployFixed DEF Next
<1>4. CASE Start
  BY <1>4, KnownElsewhere DEF Start, Vain, Asking, Kinds
<1>5. CASE NobodyToAsk
  <2>1. pc \in Vain
    <3>1. pc = <<pc[1], "ask">> /\ pc[1] \in Asking
      BY <1>1, <1>5, PlacesTyped DEF NobodyToAsk
    <3> QED BY <3>1 DEF Vain
  <2>2. ~Valid(file) /\ file' = file
    BY <1>2, <1>5, <2>1 DEF NobodyToAsk, Start, Known, Asking, Kinds
  <2> QED BY <1>5, <2>2, AfterVain, KnownInVain DEF NobodyToAsk
<1>6. CASE Check
  <2>1. CASE Valid(file)
    <3>1. pc' = <<"gate", "ok">>
      BY <1>6, <2>1 DEF Check
    <3> QED BY <3>1, KnownElsewhere DEF Vain, Asking, Kinds
  <2>2. CASE ~Valid(file)
    BY <1>6, <2>2, AfterVain, KnownInVain DEF Check
  <2> QED BY <2>1, <2>2
<1>7. CASE CleanRead \/ CleanRemove \/ CleanAgain
  <2>1. CASE pc' = <<"clean", "again">> \/ pc' = <<"gate", "ok">>
    BY <2>1, KnownElsewhere DEF Vain, Asking, Kinds
  <2>2. CASE pc' = <<"clean", "remove">> \/ pc' = <<"agent", "ask">>
    BY <1>7, <2>2, KnownInVain DEF CleanRead, CleanRemove, CleanAgain, Vain, Asking, Kinds
  <2> QED BY <1>7, <2>1, <2>2 DEF CleanRead, CleanRemove, CleanAgain
<1>8. CASE FallbackBuild
  <2>1. ~Valid(file)
    BY <1>2, <1>8 DEF FallbackBuild, Start, Known, Vain
  <2>2. file' = file /\ pc' \in {<<"fallback", "open">>, <<"fallback", "remove">>, <<"gate", "failed">>}
    BY <1>8 DEF FallbackBuild
  <2> QED BY <2>1, <2>2, KnownInVain DEF Vain
<1>9. CASE FallbackRemove
  BY <1>9, KnownInVain, InvalidFiles DEF FallbackRemove, Remove, Vain
<1>10. CASE RemoveFails
  BY <1>10, KnownAtCrash DEF RemoveFails
<1>11. CASE DraftOpen
  <2>1. pc' = <<pc[1], "write">>
    BY <1>11 DEF DraftOpen
  <2>2. pc' \notin Vain
    BY <2>1, VainPlaces
  <2> QED BY <2>1, <2>2, KnownElsewhere
<1>12. CASE DraftWrite
  <2>1. pc' \in {<<"fallback", "check">>, <<"refresh", "written">>}
    BY <1>12 DEF DraftWrite, Done
  <2> QED BY <2>1, KnownElsewhere DEF Vain, Asking, Kinds
<1>13. CASE DraftFails
  <2>1. pc' \in {<<"gate", "crashed">>, Exited, Serving} /\ amiss' # {}
    BY <1>13 DEF DraftFails, Failed
  <2>2. CASE pc' = Serving
    BY <2>2, KnownElsewhere DEF Vain, Asking, Kinds, Serving
  <2> QED BY <2>1, <2>2, KnownAtCrash
<1>14. CASE Gate
  <2>1. file' = file /\ amiss' = amiss /\ pc' \in {Exited, <<"refresh", "read">>, Serving}
    BY <1>14 DEF Gate
  <2>2. CASE pc' = Exited
    <3>1. pc \in {<<"gate", "failed">>, <<"gate", "crashed">>}
      BY <1>1, <1>14, <2>2, PlacesTyped DEF Gate, InitFailed, Exited, Serving
    <3>2. CASE pc = <<"gate", "failed">>
      <4>1. ~Valid(file)
        BY <1>2, <1>14, <3>2 DEF Gate, Start, Known, Vain
      <4> QED BY <2>1, <2>2, <4>1, KnownInVain
    <3>3. CASE pc = <<"gate", "crashed">>
      <4>1. amiss # {}
        BY <1>2, <1>14, <3>3 DEF Gate, Start, Known
      <4> QED BY <2>1, <2>2, <4>1, KnownAtCrash
    <3> QED BY <3>1, <3>2, <3>3
  <2>3. CASE pc' # Exited
    BY <2>1, <2>3, KnownElsewhere DEF Vain, Asking, Kinds, Serving
  <2> QED BY <2>2, <2>3
<1>15. CASE RefreshRead
  <2>1. CASE Valid(file)
    BY <1>15, <2>1, KnownElsewhere DEF RefreshRead, Vain, Asking, Kinds, Serving
  <2>2. CASE ~Valid(file)
    BY <1>15, <2>2, KnownInVain DEF RefreshRead, Vain, Asking
  <2> QED BY <2>1, <2>2
<1>16. CASE RefreshBuild
  <2>1. ~Valid(file) /\ file' = file
    BY <1>2, <1>16 DEF RefreshBuild, Start, Known, Vain
  <2>2. CASE pc' = Exited
    BY <2>1, <2>2, KnownInVain
  <2>3. CASE pc' = <<"refresh", "open">>
    BY <2>1, <2>3, VainPlaces DEF Known, Exited
  <2> QED BY <1>16, <2>2, <2>3 DEF RefreshBuild
<1>17. CASE RefreshWritten
  <2>1. file = draft /\ draft \in Snapshot /\ draft.current /\ file' = file
    BY <1>1, <1>2, <1>17 DEF RefreshWritten, Start, Undisturbed, DraftFit
  <2>2. CASE pc' = Exited
    <3>1. ~(draft.scope = "host" /\ ~draft.id)
      BY <1>17, <2>2 DEF RefreshWritten, Exited, Serving
    <3>2. ~Valid(file)
      BY <2>1, <3>1 DEF Valid
    <3> QED BY <2>1, <2>2, <3>2, KnownInVain
  <2>3. CASE pc' # Exited
    <3>1. pc' = Serving
      BY <1>17, <2>3 DEF RefreshWritten, Failed
    <3> QED BY <3>1, KnownElsewhere DEF Vain, Asking, Kinds, Serving
  <2> QED BY <2>2, <2>3
<1>18. ASSUME NEW c \in Collector, Ask(c)
       PROVE  Known'
  <2>1. pc \in Vain
    <3>1. pc = <<pc[1], "ask">> /\ pc[1] \in Asking
      BY <1>1, <1>18, PlacesTyped DEF Ask
    <3> QED BY <3>1 DEF Vain
  <2>2. ~Valid(file) /\ file' = file /\ pc' = <<pc[1], "wait">>
    BY <1>2, <1>18, <2>1 DEF Ask, Start, Known
  <2>3. \A d \in Collector : ~Own(d)
    BY <1>1, <1>18, NotWaiting DEF Ask
  <2>4. \A d \in Collector : ~(collector'[d].waited /\ collector'[d].at = "ended")
    BY <1>1, <1>18, <2>3 DEF Ask, TypeOK, Own
  <2> QED BY <2>2, <2>4, VainPlaces DEF Known, Valid, Own, Exited
<1>19. ASSUME NEW c \in Collector, GiveUp(c)
       PROVE  Known'
  <2>1. /\ collector[c].at # "ended" /\ Own(c) /\ pc[2] = "wait" /\ pc' \in After(pc[1])
        /\ file' = file
    BY <1>19 DEF GiveUp, Heard
  <2>2. ~Valid(file)
    BY <1>1, <1>2, <2>1 DEF Known, OneWaited, Start
  <2> QED BY <2>1, <2>2, AfterVain, KnownInVain
<1>20. ASSUME NEW c \in Collector, Answered(c)
       PROVE  Known'
  BY <1>20, KnownElsewhere DEF Answered, Vain, Asking, Kinds
<1>21. ASSUME NEW c \in Collector, RefreshAnswered(c)
       PROVE  Known'
  <2>1. file \in {AgentSnapshot, Torn} /\ file' = file
    BY <1>2, <1>21 DEF RefreshAnswered, Start, Known
  <2>2. PICK given \in {AgentSnapshot, file} :
          /\ draft' = IF HostScope(given) THEN given ELSE None
          /\ pc' = IF ~HostScope(given) THEN <<"refresh", "build">>
                   ELSE IF given.current THEN <<"refresh", "open">> ELSE Failed
    BY <1>21 DEF RefreshAnswered
  <2>3. Valid(file) => file = given
    <3>1. Valid(file) => file = AgentSnapshot
      BY <2>1, InvalidFiles
    <3> QED BY <3>1
  <2>4. CASE HostScope(given) /\ given.current
    <3>1. pc' = <<"refresh", "open">> /\ draft' = given
      BY <2>2, <2>4
    <3>2. pc' \notin Vain /\ pc'[2] # "wait" /\ pc' # Exited
      BY <3>1, VainPlaces DEF Exited
    <3> QED BY <2>1, <2>3, <3>1, <3>2 DEF Known, Valid, Vain, Asking, Kinds
  <2>5. CASE ~(HostScope(given) /\ given.current)
    <3>1. ~Valid(file)
      BY <2>3, <2>5 DEF Valid, HostScope
    <3>2. pc' \in {<<"refresh", "build">>, Exited, Serving}
      BY <2>2, <2>5 DEF Failed
    <3>3. CASE pc' \in {<<"refresh", "build">>, Exited}
      BY <2>1, <3>1, <3>3, KnownInVain DEF Vain
    <3>4. CASE pc' = Serving
      BY <3>4, KnownElsewhere DEF Vain, Asking, Kinds, Serving
    <3> QED BY <3>2, <3>3, <3>4
  <2> QED BY <2>4, <2>5
<1> QED BY <1>4, <1>5, <1>6, <1>7, <1>8, <1>9, <1>10, <1>11, <1>12, <1>13, <1>14, <1>15, <1>16, <1>17, <1>18,
           <1>19, <1>20, <1>21 DEF Boot

-----------------------------------------------------------------------------
(* The invariant, and what it gives.                                       *)

(* The invariant holds before the first start. *)
LEMMA IInvInitially == Init => IInv
<1> SUFFICES ASSUME Init PROVE IInv
  OBVIOUS
<1>1. TypeOK
  BY SlotsTyped DEF Init, TypeOK, Slots, NoAnswer, Scopes
<1>2. pc \in Places /\ OneWaited
  BY DEF Init, Places, OneWaited, Own, Off
<1>3. Honest(file) /\ Honest(draft) /\ DraftFit
  BY InvalidFiles DEF Init, Honest, DraftFit
<1>4. HostMeansHost
  BY DEF Init, HostMeansHost, NoAnswer
<1>5. Undisturbed /\ Known
  BY DEF Init, Undisturbed, Known, Vain, Asking, Kinds, Exited, Serving
<1> QED BY <1>1, <1>2, <1>3, <1>4, <1>5 DEF IInv

(* No step of the container or of a collector breaks the invariant. *)
LEMMA IInvPreserved == IInv /\ [Next]_vars => IInv'
<1>1. ASSUME IInv, Next
      PROVE  IInv'
  <2>1. /\ TypeOK /\ pc \in Places /\ OneWaited /\ Honest(file) /\ Honest(draft) /\ DraftFit
        /\ HostMeansHost
    BY <1>1 DEF IInv
  <2>2. TypeOK' /\ (pc \in Places)' /\ OneWaited' /\ DraftFit'
    BY <1>1, <2>1, TypePreserved, PlacesPreserved, OneWaitedPreserved, DraftFitPreserved DEF Places
  <2>3. Honest(file)' /\ Honest(draft)' /\ HostMeansHost'
    BY <1>1, <2>1, HonestPreserved, AnswerPreserved
  <2>4. "late" \notin amiss' => Undisturbed'
    BY <1>1, UndisturbedPreserved
  <2>5. ASSUME Heard'
        PROVE  Known'
    <3>1. CASE Boot
      BY <1>1, <2>5, <3>1, KnownByContainer
    <3>2. CASE \E c \in Collector : OpenFile(c) \/ WriteFile(c) \/ CollectorFails(c)
      BY <1>1, <2>5, <3>2, KnownByCollectors
    <3>3. CASE Serve
      BY <3>3, KnownElsewhere DEF Serve, Serving, Vain, Asking, Kinds
    <3>4. CASE Stop
      BY <3>4, KnownElsewhere DEF Stop, Vain, Asking, Kinds
    <3> QED BY <1>1, <3>1, <3>2, <3>3, <3>4 DEF Next
  <2> QED BY <2>2, <2>3, <2>4, <2>5 DEF IInv, Heard
<1>2. ASSUME IInv, UNCHANGED vars
      PROVE  IInv'
  BY <1>2 DEF vars, IInv, TypeOK, Places, OneWaited, Own, Honest, PassesForHost, Valid, DraftFit,
              HostMeansHost, Undisturbed, Heard, Known, AgentSnapshot, BuiltOn, AgentHost, LiveProfile,
              DriveProfile, Vain
<1> QED BY <1>1, <1>2

(* The invariant holds at all times. *)
LEMMA IInvHolds == Spec => []IInv
BY IInvInitially, IInvPreserved, PTL DEF Spec

(* Everything keeps its type, whatever the collectors do. *)
THEOREM SnapshotTypeCorrect == Spec => []TypeOK
<1>1. IInv => TypeOK
  BY DEF IInv
<1> QED BY IInvHolds, <1>1, PTL

(* No interleaving of collectors, starts and stops makes GetHostProfile    *)
(* serve the container's processor and memory as the host's, but in the    *)
(* deployments PassesForHost names: a container with a name, under the     *)
(* host scope and without a drive; or one whose drive does not run         *)
(* PowerShell, with a name or the drive's.                                 *)
THEOREM ServedAsHostIsHost == Spec => []HostMeansHost
<1>1. IInv => HostMeansHost
  BY DEF IInv
<1> QED BY IInvHolds, <1>1, PTL

(* MFAI_REQUIRE_HOST_SNAPSHOT: what is served on is valid, unless a late   *)
(* collector has been at the file.                                         *)
THEOREM RequiredSnapshotIsThere == Spec => []RequireHolds
<1>1. IInv => RequireHolds
  BY DEF IInv, Undisturbed, RequireHolds
<1> QED BY IInvHolds, <1>1, PTL

(* The container refuses to start only where no valid snapshot is, unless  *)
(* a collector was late or unheard or the container could not write.       *)
THEOREM NoVainStop == Spec => []StopsOnlyInVain
<1>1. IInv => StopsOnlyInVain
  BY DEF IInv, Heard, Known, StopsOnlyInVain
<1> QED BY IInvHolds, <1>1, PTL

(* The start-up scripts take no valid snapshot away, unless a collector    *)
(* was late or unheard, but for the moment in which the refresh empties    *)
(* the file to write again the snapshot that is in it.                     *)
THEOREM ValidSnapshotKept == Spec => KeepsValid
<1>1. ASSUME IInv, Boot, Valid(file), Heard
      PROVE  Valid(file') \/ (pc = <<"refresh", "open">> /\ file' = Empty /\ draft = file)
  <2>1. Known /\ Undisturbed /\ pc \in Places
    BY <1>1 DEF IInv, Heard
  <2>2. CASE CleanRemove \/ FallbackRemove
    BY <1>1, <2>1, <2>2 DEF CleanRemove, FallbackRemove, Known, Vain
  <2>3. CASE DraftOpen
    <3>1. pc \in {<<"fallback", "open">>, <<"refresh", "open">>}
      BY <2>1, <2>3 DEF DraftOpen, Places, Asking, Kinds, Serving, Exited
    <3>2. pc = <<"refresh", "open">> /\ draft = file
      BY <1>1, <2>1, <3>1 DEF Known, Vain
    <3> QED BY <2>3, <3>2 DEF DraftOpen, Truncate
  <2>4. CASE DraftWrite
    BY <1>1, <2>1, <2>4, InvalidFiles DEF DraftWrite, Undisturbed
  <2>5. CASE DraftFails
    <3>1. pc[2] = "open"
      BY <1>1, <2>1, <2>5, InvalidFiles DEF DraftFails, Undisturbed
    <3> QED BY <1>1, <2>5, <3>1 DEF DraftFails
  <2>6. CASE \/ Start \/ NobodyToAsk \/ Check \/ CleanRead \/ CleanAgain \/ FallbackBuild \/ RemoveFails
             \/ Gate \/ RefreshRead \/ RefreshBuild \/ RefreshWritten
             \/ \E c \in Collector : Ask(c) \/ GiveUp(c) \/ Answered(c) \/ RefreshAnswered(c)
    <3>1. file' = file
      BY <2>6 DEF Start, NobodyToAsk, Check, CleanRead, CleanAgain, FallbackBuild, RemoveFails, Gate,
                  RefreshRead, RefreshBuild, RefreshWritten, Ask, GiveUp, Answered, RefreshAnswered
    <3> QED BY <1>1, <3>1
  <2> QED BY <1>1, <2>2, <2>3, <2>4, <2>5, <2>6 DEF Boot
<1>2. IInv /\ [Next]_vars =>
        [Boot /\ Valid(file) /\ Heard =>
           Valid(file') \/ (pc = <<"refresh", "open">> /\ file' = Empty /\ draft = file)]_vars
  BY <1>1
<1> QED BY IInvHolds, <1>2, PTL DEF Spec, KeepsValid, Heard

=============================================================================
