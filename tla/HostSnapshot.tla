---------------------------- MODULE HostSnapshot ----------------------------
(***************************************************************************)
(* The host profile snapshot: one JSON file on a bind mount.  The worker's *)
(* container writes, removes and reads it while it starts (entrypoint.sh,  *)
(* run_host_profile_init.py, refresh_host_snapshot.py) and reads it for    *)
(* GetHostProfile; what it asks to collect on the host writes it too: the  *)
(* host agent, a PowerShell, a Windows container.  A collector goes on     *)
(* when the container has stopped waiting for it, or has restarted.        *)
(***************************************************************************)
CONSTANT Collector \* slots for requests to collect on the host

Scopes == {"host", "container"}
Kinds == {"agent", "powershell", "docker"}

-----------------------------------------------------------------------------
(* Snapshots.  "id": the hostname looks like a container id.  "about" is   *)
(* history: the machine that processor, cores and memory are really of     *)
(* (disks and machine id are always those of where the collector runs).    *)

Snapshot == [kind : {"snapshot"}, current : BOOLEAN, scope : Scopes, id : BOOLEAN, about : Scopes]

None == [kind |-> "none"]
Empty == [kind |-> "empty"]
Torn == [kind |-> "torn"] \* the mixture two writers leave: no JSON

(* Mutant: a hostname like a container's passes. *)
ValidWhateverName(f) == f.kind = "snapshot" /\ f.current /\ f.scope = "host"

(* Every collector writes os, cpu, gpu and memory: the marks of detection  *)
(* that would also do decide nothing more.                                 *)
Valid(f) == f.kind = "snapshot" /\ f.current /\ f.scope = "host" /\ ~f.id

(* The deployment: the agent's version, hostname and scope; the container's *)
(* hostname, and the scope its collectors resolve to; the C: drive, if it  *)
(* is mounted, and which of its programs run; the repository's Windows     *)
(* path as found; MFAI_REQUIRE_HOST_SNAPSHOT.                              *)
Agents == {[current |-> TRUE, id |-> FALSE, scope |-> "host"],
           [current |-> FALSE, id |-> FALSE, scope |-> "host"],
           [current |-> TRUE, id |-> TRUE, scope |-> "host"],
           [current |-> TRUE, id |-> TRUE, scope |-> "container"]}

NoDrive == {}
Drives == {NoDrive} \cup {{"mounted"} \cup programs : programs \in SUBSET {"hostname", "powershell"}}

Deployment == [agent : Agents, id : BOOLEAN, scope : Scopes,
               drive : Drives, winRoot : BOOLEAN, require : BOOLEAN]

VARIABLES deploy,
          file,
          collector, \* per slot: what runs there, how far it is, who waits
          pc,        \* of the container: <<stage, step>>
          draft,     \* the snapshot the container is about to write
          answer,    \* of the last GetHostProfile
          amiss      \* history: what has gone wrong in this start

vars == <<deploy, file, collector, pc, draft, answer, amiss>>

(* "late": a collector the container had given up on touched the file.     *)
(* "unheard": one wrote it while it was waited for, and was not believed.  *)
(* "unwritten": the container could not write or remove it itself.         *)
Mishaps == {"late", "unheard", "unwritten"}

(* The machines a collector runs on: the container, and the agent's host.  *)
Container == [docker |-> TRUE, drive |-> deploy.drive, id |-> deploy.id, scope |-> deploy.scope,
              current |-> TRUE]
AgentHost == [docker |-> FALSE, drive |-> NoDrive, id |-> deploy.agent.id, scope |-> deploy.agent.scope,
              current |-> deploy.agent.current]

(* The Windows host probed through its drive.  Without hostname.exe it     *)
(* goes by the container's name; without PowerShell the data are the       *)
(* container's.                                                            *)
DriveProfile(m) == [kind |-> "snapshot", current |-> m.current, scope |-> "host",
                    id |-> "hostname" \notin m.drive /\ m.id,
                    about |-> IF "powershell" \in m.drive THEN "host" ELSE "container"]

LiveProfile(m) ==
  IF m.docker /\ m.drive # NoDrive THEN DriveProfile(m)
  ELSE [kind |-> "snapshot", current |-> m.current, scope |-> m.scope, id |-> m.id,
        about |-> IF m.docker THEN "container" ELSE "host"]

(* build_host_snapshot: a real host is one whatever the configured scope.  *)
BuiltOn(m) ==
  LET profile == LiveProfile(m)
      isRealHost == m.drive # NoDrive \/ (~profile.id /\ ~m.docker)
  IN  [profile EXCEPT !.scope = IF isRealHost THEN "host" ELSE @]

Built == BuiltOn(Container)
AgentSnapshot == BuiltOn(AgentHost)

WindowsSnapshot(id) == [kind |-> "snapshot", current |-> TRUE, scope |-> "host", id |-> id,
                        about |-> "host"]

(* A Windows container may be named after its id. *)
Delivered(kind) == CASE kind = "agent" -> {AgentSnapshot}
                     [] kind = "powershell" -> {WindowsSnapshot(FALSE)}
                     [] kind = "docker" -> {WindowsSnapshot(FALSE), WindowsSnapshot(TRUE)}

Off == [at |-> "off", kind |-> "agent", waited |-> FALSE, attached |-> FALSE]
NoAnswer == [injected |-> FALSE, about |-> "container"]

Init == /\ deploy \in Deployment
        /\ file = None /\ draft = None /\ answer = NoAnswer /\ amiss = {}
        /\ collector = [c \in Collector |-> Off]
        /\ pc = <<"off", "off">>

-----------------------------------------------------------------------------
(* Writing in place: open() truncates, and what is written goes over what  *)
(* another writer wrote since; a removed file takes it along.              *)

Overlaid(new) == IF file = Empty THEN {new} ELSE {new, Torn}

Truncate == file' = Empty

Remove == /\ file' = None
          /\ collector' = [c \in Collector |-> [collector[c] EXCEPT !.attached = FALSE]]

-----------------------------------------------------------------------------
(* The collectors.                                                         *)

Own(c) == collector[c].waited

Late(c) == IF Own(c) THEN amiss ELSE amiss \cup {"late"}

OpenFile(c) == /\ collector[c].at = "collecting"
               /\ collector' = [collector EXCEPT ![c].at = "open", ![c].attached = TRUE]
               /\ Truncate
               /\ amiss' = Late(c)
               /\ UNCHANGED <<deploy, pc, draft, answer>>

WriteFile(c) ==
  /\ collector[c].at = "open"
  /\ IF collector[c].attached THEN \E new \in Delivered(collector[c].kind) : file' \in Overlaid(new)
                              ELSE UNCHANGED file
  /\ collector' = [collector EXCEPT ![c] = IF Own(c) THEN [@ EXCEPT !.at = "ended"] ELSE Off]
  /\ amiss' = IF collector[c].attached THEN Late(c) ELSE amiss
  /\ UNCHANGED <<deploy, pc, draft, answer>>

(* It cannot collect or write. *)
CollectorFails(c) ==
  /\ collector[c].at \in {"collecting", "open"}
  /\ collector' = [collector EXCEPT ![c] = IF Own(c) THEN [@ EXCEPT !.at = "failed"] ELSE Off]
  /\ UNCHANGED <<deploy, file, pc, draft, answer, amiss>>

-----------------------------------------------------------------------------
(* The container asks for a collection, waits, and gives up in the end.    *)

(* Where main goes when a way to collect has brought nothing; there is     *)
(* more than one PowerShell to try.                                        *)
After(stage) == CASE stage = "agent" -> IF deploy.winRoot THEN {<<"powershell", "ask">>}
                                                          ELSE {<<"fallback", "build">>}
                  [] stage = "powershell" -> {<<"powershell", "ask">>, <<"docker", "ask">>}
                  [] stage = "docker" -> {<<"fallback", "build">>}
                  [] stage = "refresh" -> {<<"refresh", "build">>}
                  [] OTHER -> {<<"gate", "failed">>}

Asking == Kinds \cup {"refresh"}
KindOf(stage) == IF stage = "refresh" THEN "agent" ELSE stage

Start == /\ pc = <<"off", "off">>
         /\ pc' = <<"clean", "read">>
         /\ amiss' = {}
         /\ UNCHANGED <<deploy, file, collector, draft, answer>>

Ask(c) == /\ pc[1] \in Asking /\ pc[2] = "ask"
          /\ collector[c] = Off
          /\ collector' = [collector EXCEPT ![c] = [at |-> "collecting", kind |-> KindOf(pc[1]),
                                                    waited |-> TRUE, attached |-> FALSE]]
          /\ pc' = <<pc[1], "wait">>
          /\ UNCHANGED <<deploy, file, draft, answer, amiss>>

(* Nobody there: no agent, no PowerShell, no Docker socket. *)
NobodyToAsk == /\ pc[1] \in Asking /\ pc[2] = "ask"
               /\ pc' \in After(pc[1])
               /\ UNCHANGED <<deploy, file, collector, draft, answer, amiss>>

(* The timeout, a failure, or an answer that got lost; a PowerShell may    *)
(* have written and failed after that.  Only a PowerShell is killed with   *)
(* the wait.                                                               *)
GiveUp(c) ==
  /\ pc[2] = "wait" /\ Own(c)
  /\ collector' = [collector EXCEPT ![c] =
                     IF @.at \in {"ended", "failed"} \/ @.kind = "powershell" THEN Off
                     ELSE [@ EXCEPT !.waited = FALSE]]
  /\ amiss' = IF collector[c].at = "ended" THEN amiss \cup {"unheard"} ELSE amiss
  /\ pc' \in After(pc[1])
  /\ UNCHANGED <<deploy, file, draft, answer>>

(* Init goes by the file, and for the Windows container by nothing else.   *)
Answered(c) ==
  /\ pc[1] \in Kinds /\ pc[2] = "wait" /\ Own(c)
  /\ collector[c].at = "ended" \/ (collector[c].at = "failed" /\ pc[1] = "docker")
  /\ collector' = [collector EXCEPT ![c] = Off]
  /\ pc' = <<pc[1], "check">>
  /\ UNCHANGED <<deploy, file, draft, answer, amiss>>

Check == /\ pc[1] \in Kinds \cup {"fallback"} /\ pc[2] = "check"
         /\ IF Valid(file) THEN pc' = <<"gate", "ok">> ELSE pc' \in After(pc[1])
         /\ UNCHANGED <<deploy, file, collector, draft, answer, amiss>>

-----------------------------------------------------------------------------
(* run_host_profile_init.py.                                               *)

(* Mutant: whatever is there is stale. *)
CleanAlways ==
  /\ pc = <<"clean", "read">>
  /\ pc' = IF file # None THEN <<"clean", "remove">> ELSE <<"clean", "again">>
  /\ UNCHANGED <<deploy, file, collector, draft, answer, amiss>>

CleanRead ==
  /\ pc = <<"clean", "read">>
  /\ pc' = IF file # None /\ ~Valid(file) THEN <<"clean", "remove">> ELSE <<"clean", "again">>
  /\ UNCHANGED <<deploy, file, collector, draft, answer, amiss>>

CleanRemove == /\ pc = <<"clean", "remove">>
               /\ Remove
               /\ pc' = <<"clean", "again">>
               /\ UNCHANGED <<deploy, draft, answer, amiss>>

CleanAgain == /\ pc = <<"clean", "again">>
              /\ pc' = IF Valid(file) THEN <<"gate", "ok">> ELSE <<"agent", "ask">>
              /\ UNCHANGED <<deploy, file, collector, draft, answer, amiss>>

FallbackBuild ==
  /\ pc = <<"fallback", "build">>
  /\ draft' = Built
  /\ pc' = CASE Valid(Built) -> <<"fallback", "open">>
             [] ~Valid(Built) /\ file # None -> <<"fallback", "remove">>
             [] OTHER -> <<"gate", "failed">>
  /\ UNCHANGED <<deploy, file, collector, answer, amiss>>

FallbackRemove == /\ pc = <<"fallback", "remove">>
                  /\ Remove
                  /\ pc' = <<"gate", "failed">>
                  /\ UNCHANGED <<deploy, draft, answer, amiss>>

(* OSError: the script ends with a traceback. *)
RemoveFails == /\ pc[1] \in {"clean", "fallback"} /\ pc[2] = "remove"
               /\ amiss' = amiss \cup {"unwritten"}
               /\ pc' = <<"gate", "crashed">>
               /\ UNCHANGED <<deploy, file, collector, draft, answer>>

-----------------------------------------------------------------------------
(* write_host_snapshot, by the fallback and by the refresh.                *)

DraftOpen == /\ pc[1] \in {"fallback", "refresh"} /\ pc[2] = "open"
             /\ Truncate
             /\ pc' = <<pc[1], "write">>
             /\ UNCHANGED <<deploy, collector, draft, answer, amiss>>

Done == IF pc[1] = "fallback" THEN <<"fallback", "check">> ELSE <<"refresh", "written">>

DraftWrite == /\ pc[2] = "write"
              /\ file' \in Overlaid(draft)
              /\ pc' = Done
              /\ UNCHANGED <<deploy, collector, draft, answer, amiss>>

Serving == <<"serving", "serving">>
Exited == <<"exited", "exited">>
Failed == IF deploy.require THEN Exited ELSE Serving

(* OSError, of the script that writes; a full disk takes a part.           *)
DraftFails == /\ pc[1] \in {"fallback", "refresh"} /\ pc[2] \in {"open", "write"}
              /\ file' \in IF pc[2] = "open" THEN {file} ELSE {file, Torn}
              /\ amiss' = amiss \cup {"unwritten"}
              /\ pc' = IF pc[1] = "fallback" THEN <<"gate", "crashed">> ELSE Failed
              /\ UNCHANGED <<deploy, collector, draft, answer>>

-----------------------------------------------------------------------------
(* entrypoint.sh and refresh_host_snapshot.py.                             *)

OnWindows == deploy.winRoot \/ deploy.drive # NoDrive

InitFailed == pc[2] = "crashed" \/ (pc[2] = "failed" /\ OnWindows)

Gate == /\ pc[1] = "gate"
        /\ pc' = IF InitFailed /\ deploy.require THEN Exited
                 ELSE IF deploy.require \/ file \in {None, Empty} THEN <<"refresh", "read">>
                 ELSE Serving
        /\ UNCHANGED <<deploy, file, collector, draft, answer, amiss>>

(* Mutant: the refresh does not look at what is there. *)
RefreshAnew == /\ pc = <<"refresh", "read">>
               /\ pc' = <<"refresh", "ask">>
               /\ UNCHANGED <<deploy, file, collector, draft, answer, amiss>>

RefreshRead == /\ pc = <<"refresh", "read">>
               /\ pc' = IF Valid(file) THEN Serving ELSE <<"refresh", "ask">>
               /\ UNCHANGED <<deploy, file, collector, draft, answer, amiss>>

(* Mutant: what is read back is not looked at. *)
RefreshReadsBack(c) ==
  /\ pc = <<"refresh", "wait">> /\ Own(c) /\ collector[c].at = "ended"
  /\ collector' = [collector EXCEPT ![c] = Off]
  /\ draft' = file
  /\ pc' = <<"refresh", "open">>
  /\ UNCHANGED <<deploy, file, answer, amiss>>

HostScope(f) == f.kind = "snapshot" /\ f.scope = "host"

(* The agent's snapshot, or the file if it answers without one, is written *)
(* again; one of another schema raises.                                    *)
RefreshAnswered(c) ==
  /\ pc = <<"refresh", "wait">> /\ Own(c) /\ collector[c].at = "ended"
  /\ collector' = [collector EXCEPT ![c] = Off]
  /\ \E given \in {AgentSnapshot, file} :
       /\ draft' = IF HostScope(given) THEN given ELSE None
       /\ pc' = IF ~HostScope(given) THEN <<"refresh", "build">>
                ELSE IF given.current THEN <<"refresh", "open">> ELSE Failed
  /\ UNCHANGED <<deploy, file, answer, amiss>>

RefreshBuild ==
  /\ pc = <<"refresh", "build">>
  /\ draft' = Built
  /\ pc' = IF deploy.require /\ ~Valid(Built) THEN Exited ELSE <<"refresh", "open">>
  /\ UNCHANGED <<deploy, file, collector, answer, amiss>>

(* Mutant: the exit status says nothing of what was written. *)
RefreshSatisfied == /\ pc = <<"refresh", "written">>
                    /\ pc' = Serving
                    /\ UNCHANGED <<deploy, file, collector, draft, answer, amiss>>

(* The exit status of main. *)
RefreshWritten == /\ pc = <<"refresh", "written">>
                  /\ pc' = IF draft.scope = "host" /\ ~draft.id THEN Serving ELSE Failed
                  /\ UNCHANGED <<deploy, file, collector, draft, answer, amiss>>

-----------------------------------------------------------------------------

(* The snapshot, or else the container's own hardware. *)
Profile == IF Valid(file) THEN [injected |-> TRUE, about |-> file.about]
                          ELSE [injected |-> FALSE, about |-> LiveProfile(Container).about]

(* GetHostProfile. *)
Serve == /\ pc = Serving
         /\ answer' = Profile
         /\ UNCHANGED <<deploy, file, collector, pc, draft, amiss>>

(* The container is stopped, at any moment; a PowerShell of its goes with it. *)
Stop == /\ pc # <<"off", "off">>
        /\ pc' = <<"off", "off">> /\ draft' = None /\ answer' = NoAnswer
        /\ collector' = [c \in Collector |->
             IF Own(c) /\ (collector[c].at \in {"ended", "failed"} \/ collector[c].kind = "powershell")
             THEN Off ELSE [collector[c] EXCEPT !.waited = FALSE]]
        /\ UNCHANGED <<deploy, file, amiss>>

Boot == \/ Start \/ NobodyToAsk \/ Check
        \/ CleanRead \/ CleanRemove \/ CleanAgain \/ FallbackBuild \/ FallbackRemove
        \/ RemoveFails \/ DraftOpen \/ DraftWrite \/ DraftFails
        \/ Gate \/ RefreshRead \/ RefreshBuild \/ RefreshWritten
        \/ \E c \in Collector : Ask(c) \/ GiveUp(c) \/ Answered(c) \/ RefreshAnswered(c)

Next == \/ Boot \/ Serve \/ Stop
        \/ \E c \in Collector : OpenFile(c) \/ WriteFile(c) \/ CollectorFails(c)

Spec == Init /\ [][Next]_vars

-----------------------------------------------------------------------------

TypeOK ==
  /\ deploy \in Deployment
  /\ file \in Snapshot \cup {None, Empty, Torn}
  /\ collector \in [Collector -> [at : {"off", "collecting", "open", "ended", "failed"}, kind : Kinds,
                                  waited : BOOLEAN, attached : BOOLEAN]]
  /\ pc \in {"off", "clean", "agent", "powershell", "docker", "fallback", "gate", "refresh", "serving",
             "exited"}
            \X {"off", "read", "remove", "again", "ask", "wait", "check", "build", "open", "write",
                "ok", "failed", "crashed", "written", "serving", "exited"}
  /\ draft \in Snapshot \cup {None}
  /\ answer \in [injected : BOOLEAN, about : Scopes]
  /\ amiss \in SUBSET Mishaps

(* A container that goes by a name that is no container id and collects    *)
(* under the default scope; or one that has a drive to probe, on which     *)
(* PowerShell does not run, and a name of its own or the drive's.          *)
PassesForHost ==
  IF deploy.drive = NoDrive THEN ~deploy.id /\ deploy.scope = "host"
  ELSE "powershell" \notin deploy.drive /\ (~deploy.id \/ "hostname" \in deploy.drive)

(* A profile served as the host's is of the host: a snapshot with the      *)
(* container's processor and memory never passes for one, whoever wrote    *)
(* it, in whatever order.  The exceptions: PassesForHost.                  *)
HostMeansHost == answer.injected => answer.about = "host" \/ PassesForHost

(* Where a host snapshot is required, the worker serves on a valid one.    *)
(* The exception: a collector that was given up on comes back to the file. *)
RequireHolds == pc = Serving /\ deploy.require /\ "late" \notin amiss => Valid(file)

(* The container refuses to start only when there is nothing it could have *)
(* started on.  The exceptions: a collector that was given up on comes     *)
(* back to the file; one has written it and is not believed, so that the   *)
(* refresh asks no more what is there; the refresh cannot write again what *)
(* the agent has written.                                                  *)
StopsOnlyInVain == pc = Exited /\ amiss = {} => ~Valid(file)

(* Starting takes no valid snapshot away.  The exceptions: one that a      *)
(* collector wrote after it was given up on is removed as what it replaced *)
(* was judged (clean) or as no collector was believed (fallback); one that *)
(* a collector wrote in time without being believed is removed or          *)
(* overwritten by the fallback or the refresh; and the refresh empties the *)
(* file to write the agent's snapshot again, so that a stop or an error    *)
(* right then loses it.                                                    *)
KeepsValid ==
  [][Boot /\ Valid(file) /\ amiss \subseteq {"unwritten"} =>
       Valid(file') \/ (pc = <<"refresh", "open">> /\ file' = Empty /\ draft = file)]_vars

=============================================================================
