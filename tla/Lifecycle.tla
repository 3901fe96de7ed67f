---------------------------- MODULE Lifecycle -----------------------------
(***************************************************************************)
(* The product's commands (product/src/cli.mjs) over one installation: its *)
(* version pointer, configuration, capability packs, frozen flag and       *)
(* background services, with the realtime pipeline running meanwhile.      *)
(*                                                                         *)
(* A command is a script, a sequence of steps <<what, roles>>.  A step may *)
(* fail, and the command then follows its recovery script; a command may   *)
(* also be killed between two steps, or between two roles of one.          *)
(***************************************************************************)
EXTENDS Services, Provisioning, Sequences

CONSTANTS
  Configs,      \* contents of the private configuration, each with its packs
  Allows,       \* those that allow the internal capabilities of the packs
  MaxCommands,  \* bound: commands issued
  MaxFaults     \* bound: steps and processes that fail, commands killed

(* What a command can find: an installation, or None.                       *)
Place == [config : Configs \cup {None}, packs : Configs \cup {None},
          frozen : BOOLEAN, installed : SUBSET Roles, loaded : SUBSET Roles,
          active : Versions \cup {None}, previous : Versions \cup {None},
          runs : Versions \cup {None}]

ASSUME LifecycleAssumption ==
  /\ None \notin Configs \cup Place /\ Allows \subseteq Configs
  /\ MaxCommands \in Nat /\ MaxFaults \in Nat

VARIABLES
  root,      \* "empty", "partial" (no installation.json), "ready", or "data"
             \* (the private data an uninstall leaves)
  active,    \* the pointer installation.json holds, and the version before
  previous,
  config,    \* private/config.json
  packs,     \* the capability packs, named by the configuration they came with
  frozen,    \* the frozen flag in the state database
  cmd,       \* the command that runs
  goal,      \* the configuration or version it is to bring
  note,      \* what it found when it began, which a recovery restores
  todo,      \* its remaining steps
  phase,     \* "enter", "act" or "wait" within the first of them
  left,      \* the roles that step has still to treat
  begun,     \* the jobs this start has bootstrapped
  mood,      \* "forward", "recover", or "broken": a step of the recovery failed
  outcome,   \* "none" while it runs; "done", "failed", "unrecovered", "killed"
  vetted,    \* the <<configuration, packs, version>> a doctor has passed
  approved,  \* the packs whose internal capabilities an operator has approved
  issued, faults

placeVars == <<root, active, previous, config, packs, frozen>>
scriptVars == <<cmd, goal, note, todo, phase, left, begun, mood, outcome, issued>>
records == <<vetted, approved>>
lifecycleVars == <<placeVars, scriptVars, records, faults, servicesVars, provisioningVars>>

Commands == {"none", "setup", "init", "configure", "config update", "service",
             "enable", "freeze", "switch", "uninstall"}

Steps == {"provision", "note", "init", "freeze", "stop", "packs", "config",
          "doctor", "plists", "start", "healthy", "resume", "final", "unplists",
          "unpacks", "unconfig", "thaw", "clear", "vet", "point", "unpoint",
          "remove"}

LifecycleTypeOK ==
  /\ ServicesTypeOK /\ ProvisioningTypeOK
  /\ root \in {"empty", "partial", "ready", "data"}
  /\ active \in Versions \cup {None} /\ previous \in Versions \cup {None}
  /\ config \in Configs \cup {None} /\ packs \in Configs \cup {None}
  /\ frozen \in BOOLEAN
  /\ cmd \in Commands
  /\ goal \in Configs \cup Versions \cup {None}
  /\ note = None \/ note \in Place
  /\ \A i \in 1..Len(todo) : todo[i] \in Steps \X SUBSET Roles
  /\ phase \in {"enter", "act", "wait"}
  /\ left \subseteq Roles /\ begun \subseteq Roles
  /\ mood \in {"forward", "recover", "broken"}
  /\ outcome \in {"none", "done", "failed", "unrecovered", "killed"}
  /\ vetted \subseteq (Configs \X (Configs \cup {None}) \X Versions)
  /\ approved \subseteq Configs
  /\ issued \in 0..MaxCommands /\ faults \in 0..MaxFaults
  /\ (root = "ready") <=> (active # None)
  /\ (outcome = "none") <=> (todo # <<>>)
  /\ phase # "enter" => left # {}
  /\ outcome # "none" => missing = {} /\ doing = "none"

Finished == outcome # "none"
Fault == faults < MaxFaults /\ faults' = faults + 1

(* What the command line reads of the installation.                         *)
Found == [config |-> config, packs |-> packs, frozen |-> frozen,
          installed |-> plist, loaded |-> LoadedRoles,
          active |-> active, previous |-> previous, runs |-> runs]

-----------------------------------------------------------------------------
(* The scripts.                                                             *)

Do(what) == <<what, {}>>
All(what) == <<what, Roles>>

(* The roles of S in their order, each stopped and started.                 *)
Nth(S, i) == CHOOSE r \in S : Cardinality({s \in S : RoleRank[s] <= RoleRank[r]}) = i

PerRole(S) ==
  [i \in 1..(2 * Cardinality(S)) |->
     <<IF i % 2 = 1 THEN "stop" ELSE "start", {Nth(S, (i + 1) \div 2)}>>]

SetupScript(exists) ==
  <<Do("provision"), IF exists THEN Do("note") ELSE Do("init"),
    Do("freeze"), All("stop"), Do("packs"), Do("config"), Do("doctor"),
    All("plists"), All("start"), All("healthy"), Do("resume"), Do("final")>>

(* Mutant: the flag is left as the recovery set it. *)
SetupRecoveryFrozen ==
  <<Do("freeze"), All("stop"), All("unplists"), Do("unpacks"), Do("unconfig"),
    <<"plists", note.installed>>, <<"start", note.loaded>>>>

SetupRecovery ==
  <<Do("freeze"), All("stop"), All("unplists"), Do("unpacks"), Do("unconfig"),
    <<"plists", note.installed>>, <<"start", note.loaded>>, Do("thaw")>>

FreshRecovery == <<All("stop"), All("unplists"), Do("clear")>>

SwitchScript(S) ==
  <<Do("vet"), Do("point")>> \o
    (IF S = {} THEN <<>> ELSE PerRole(S) \o <<<<"healthy", S>>>>)

(* The roles the switch has begun to restart: their stop is not ahead.      *)
Touched ==
  {r \in note.loaded : <<"stop", {r}>> \notin {todo[i] : i \in 2..Len(todo)}}

(* Mutant: the services are restarted before the pointer is put back. *)
SwitchRecoveryLate ==
  (IF Head(todo) = Do("point") THEN <<>> ELSE PerRole(Touched) \o <<Do("unpoint")>>)
    \o <<<<"healthy", note.loaded>>>>

SwitchRecovery ==
  (IF Head(todo) = Do("point") THEN <<>> ELSE <<Do("unpoint")>> \o PerRole(Touched))
    \o <<<<"healthy", note.loaded>>>>

-----------------------------------------------------------------------------
(* How a command goes on, fails and ends.                                   *)

At(what) == ~Finished /\ Head(todo)[1] = what
Those == Head(todo)[2]

Enter(script) ==
  /\ todo' = script /\ phase' = "enter" /\ left' = {} /\ begun' = {}

Finish(result) ==
  /\ Enter(<<>>)
  /\ cmd' = "none" /\ goal' = None /\ note' = None /\ mood' = "forward"
  /\ outcome' = result

(* What a command that has treated its last step reports.                   *)
Result == CASE mood = "forward" -> "done"
            [] mood = "recover" -> "failed"
            [] OTHER -> "unrecovered"

Advance ==
  /\ IF Len(todo) = 1 THEN Finish(Result)
     ELSE Enter(Tail(todo)) /\ UNCHANGED <<cmd, goal, note, mood, outcome>>
  /\ UNCHANGED issued

Recovery ==
  CASE cmd = "setup" ->
         IF Head(todo)[1] \in {"provision", "note", "init"} THEN <<>>
         ELSE IF note = None THEN FreshRecovery ELSE SetupRecovery
    [] cmd = "configure" -> <<Do("unpacks"), Do("unconfig")>>
    [] cmd = "switch" /\ Head(todo)[1] # "vet" /\ note.loaded # {} -> SwitchRecovery
    [] OTHER -> <<>>

(* What is left of a recovery one of whose steps failed.  A fresh setup     *)
(* removes what it installed in any case; configure removes the             *)
(* configuration; a switch whose pointer is back goes on with the next role *)
(* but looks no more at the end; an existing setup gives up.                *)
Salvage ==
  CASE cmd = "setup" /\ note = None /\ Head(todo) # Do("clear") -> <<Do("clear")>>
    [] cmd = "configure" -> Tail(todo)
    [] cmd = "switch" /\ Head(todo)[1] \in {"stop", "start"} ->
         SubSeq(todo, IF Head(todo)[1] = "stop" THEN 3 ELSE 2,
                Len(todo) - (IF mood = "recover" THEN 1 ELSE 0))
    [] OTHER -> <<>>

StepFails ==
  LET rest == IF mood = "forward" THEN Recovery ELSE Salvage
  IN  /\ IF rest = <<>>
         THEN Finish(IF mood = "forward" THEN "failed" ELSE "unrecovered")
         ELSE /\ Enter(rest)
              /\ mood' = IF mood = "forward" THEN "recover" ELSE "broken"
              /\ UNCHANGED <<cmd, goal, note, outcome>>
      /\ UNCHANGED issued

(* A step that treats roles one by one: it begins with those it has to      *)
(* treat, and ends with the last of them.                                   *)
BeginRoles(S) ==
  IF S = {} THEN Advance
  ELSE /\ left' = S /\ phase' = "act"
       /\ UNCHANGED <<cmd, goal, note, todo, begun, mood, outcome, issued>>

RoleDone ==
  IF left = {FirstRole(left)} THEN Advance
  ELSE /\ left' = left \ {FirstRole(left)} /\ phase' = "act"
       /\ UNCHANGED <<cmd, goal, note, todo, begun, mood, outcome, issued>>

AwaitRole ==
  /\ phase' = "wait"
  /\ UNCHANGED <<cmd, goal, note, todo, left, mood, outcome, issued>>
-----------------------------------------------------------------------------
(* The steps over files and over the flag.                                  *)

FileStep ==
  /\ \/ At("config") /\ config' = goal /\ UNCHANGED <<active, previous, frozen>>
     \/ At("unconfig") /\ config' = note.config /\ UNCHANGED <<active, previous, frozen>>
     \/ /\ At("point") /\ active' = goal /\ previous' = active
        /\ UNCHANGED <<config, frozen>>
     \/ /\ At("unpoint") /\ active' = note.active /\ previous' = note.previous
        /\ UNCHANGED <<config, frozen>>
     \/ At("freeze") /\ frozen' = TRUE /\ UNCHANGED <<active, previous, config>>
     \/ At("resume") /\ frozen' = FALSE /\ UNCHANGED <<active, previous, config>>
     \/ At("thaw") /\ frozen' = note.frozen /\ UNCHANGED <<active, previous, config>>
  /\ Advance
  /\ UNCHANGED <<root, packs, records, faults, servicesVars, provisioningVars>>

(* What a configuration brings that was not allowed before, or with other   *)
(* packs, an operator approves.                                             *)
NewlyEnabled == goal \in Allows /\ (config \notin Allows \/ packs # goal)

PlacePacks ==
  /\ At("packs")
  /\ packs' = goal
  /\ approved' = IF NewlyEnabled THEN approved \cup {goal} ELSE approved
  /\ Advance
  /\ UNCHANGED <<root, active, previous, config, frozen, vetted, faults,
                 servicesVars, provisioningVars>>

RestorePacks ==
  /\ At("unpacks")
  /\ packs' = note.packs
  /\ Advance
  /\ UNCHANGED <<root, active, previous, config, frozen, records, faults,
                 servicesVars, provisioningVars>>

(* The candidate's environment, model or identities are not ready, or its   *)
(* packs cannot be written.                                                 *)
CandidateFails ==
  /\ At("packs")
  /\ Fault /\ StepFails
  /\ UNCHANGED <<placeVars, records, servicesVars, provisioningVars>>

(* init writes installation.json last.                                      *)
InitStep ==
  /\ At("init")
  /\ root' = "ready" /\ active' \in Versions /\ frozen' = TRUE
  /\ Advance
  /\ UNCHANGED <<previous, config, packs, records, faults, servicesVars, provisioningVars>>

(* The installation is removed: all of it, or all but the private data.     *)
RemoveStep ==
  /\ \/ At("clear") /\ root' = "empty"
     \/ At("remove") /\ root' \in {"empty", "data"}
  /\ active' = None /\ previous' = None /\ frozen' = TRUE
  /\ config' = None /\ packs' = None
  /\ Advance
  /\ UNCHANGED <<records, faults, servicesVars, provisioningVars>>

(* An initialisation or a removal fails half way.                           *)
HalfDone ==
  /\ At("init") \/ At("clear") \/ At("remove")
  /\ root' = "partial" /\ active' = None /\ previous' = None
  /\ config' = None /\ packs' = None /\ frozen' = TRUE
  /\ Fault /\ StepFails
  /\ UNCHANGED <<records, servicesVars, provisioningVars>>

(* Any step may fail before it changes anything, one that treats roles also *)
(* between two, and one that waits for a role because it waited too long or *)
(* cannot read its status.  The bootstrap of a job is StartRefused's.       *)
StepErrs ==
  /\ ~Finished
  /\ Head(todo)[1] \notin {"init", "clear", "remove", "provision", "packs", "doctor", "vet"}
  /\ At("start") => phase # "act"
  /\ Fault /\ StepFails
  /\ UNCHANGED <<placeVars, records, servicesVars, provisioningVars>>

(* setup reads the state it will restore.                                   *)
TakeNote ==
  /\ At("note")
  /\ note' = Found
  /\ Enter(Tail(todo))
  /\ UNCHANGED <<cmd, goal, mood, outcome, issued>>
  /\ UNCHANGED <<placeVars, records, faults, servicesVars, provisioningVars>>

-----------------------------------------------------------------------------
(* The steps that only look.                                                *)

(* The doctor of the active version passes only with a configuration.       *)
DoctorPasses ==
  /\ At("doctor") /\ config # None
  /\ vetted' = vetted \cup {<<config, packs, active>>}
  /\ Advance
  /\ UNCHANGED <<approved, placeVars, faults, servicesVars, provisioningVars>>

(* A switch asks the doctor of the version it is to bring, unless there is  *)
(* neither a configuration nor a job.                                       *)
VetPasses ==
  /\ At("vet")
  /\ \/ config # None /\ vetted' = vetted \cup {<<config, packs, goal>>}
     \/ config = None /\ note.loaded = {} /\ UNCHANGED vetted
  /\ Advance
  /\ UNCHANGED <<approved, placeVars, faults, servicesVars, provisioningVars>>

DoctorRefuses ==
  /\ At("doctor") \/ (At("vet") /\ note.loaded # {})
  /\ config = None
  /\ StepFails
  /\ UNCHANGED <<placeVars, records, faults, servicesVars, provisioningVars>>

(* A capability's server or tool does not answer in time, or not as its     *)
(* pack says, or another check fails.                                       *)
DoctorFinds ==
  /\ At("doctor") \/ At("vet")
  /\ config # None
  /\ Fault /\ StepFails
  /\ UNCHANGED <<placeVars, records, servicesVars, provisioningVars>>

(* requireServicesReady, and a switch's last look.                          *)
HealthCheck ==
  /\ At("healthy")
  /\ IF \A r \in Those : Healthy(r) THEN Advance ELSE StepFails
  /\ UNCHANGED <<placeVars, records, faults, servicesVars, provisioningVars>>

(* setup's last look: a status that is degraded fails it.                   *)
FinalStatus ==
  /\ At("final")
  /\ IF config # None /\ \A r \in Roles : Healthy(r) THEN Advance ELSE StepFails
  /\ UNCHANGED <<placeVars, records, faults, servicesVars, provisioningVars>>

-----------------------------------------------------------------------------
(* stopServices, startServices, and the service definitions.                *)

Acting(what) == At(what) /\ phase = "act"
Awaiting(what) == At(what) /\ phase = "wait"
Role == FirstRole(left)

BeginStep ==
  /\ ~Finished /\ phase = "enter"
  /\ \/ /\ At("stop") /\ BeginRoles({r \in Those : Loaded(r)})
     \/ /\ At("start") /\ BeginRoles({r \in Those : r \notin plist \/ ~Loaded(r)})
     \/ /\ At("plists") \/ At("unplists")
        /\ BeginRoles(Those)
  /\ UNCHANGED <<placeVars, records, faults, servicesVars, provisioningVars>>

Define ==
  /\ \/ Acting("plists") /\ plist' = plist \cup {Role}
     \/ Acting("unplists") /\ plist' = plist \ {Role}
  /\ RoleDone
  /\ UNCHANGED <<placeVars, records, faults, jobVars, supervisorVars, provisioningVars>>

StopRole ==
  /\ Acting("stop") /\ Loaded(Role)
  /\ Bootout({Role})
  /\ AwaitRole
  /\ UNCHANGED <<begun, placeVars, records, faults, provisioningVars>>

(* bootout refuses a job that is gone, and may refuse one that is going.    *)
StopRefused ==
  /\ Acting("stop") /\ job[Role] \in {"absent", "leaving"}
  /\ StepFails
  /\ UNCHANGED <<placeVars, records, faults, servicesVars, provisioningVars>>

(* Mutant: a job that was told to stop is taken to be gone. *)
StoppedUnwaited ==
  /\ Awaiting("stop")
  /\ RoleDone
  /\ UNCHANGED <<placeVars, records, faults, servicesVars, provisioningVars>>

Stopped ==
  /\ Awaiting("stop") /\ ~Loaded(Role)
  /\ RoleDone
  /\ UNCHANGED <<placeVars, records, faults, servicesVars, provisioningVars>>

StartRole ==
  /\ Acting("start") /\ Role \in plist
  /\ job[Role] = "absent" /\ active # None
  /\ Bootstrap(Role, active)
  /\ begun' = begun \cup {Role}
  /\ AwaitRole
  /\ UNCHANGED <<placeVars, records, faults, provisioningVars>>

(* The role is not installed: what was started before it is left running.   *)
StartMissing ==
  /\ Acting("start") /\ Role \notin plist
  /\ StepFails
  /\ UNCHANGED <<placeVars, records, faults, servicesVars, provisioningVars>>

(* bootstrap fails: what this start has begun is booted out.                *)
StartRefused ==
  /\ Acting("start") /\ Role \in plist
  /\ Bootout(begun)
  /\ Fault /\ StepFails
  /\ UNCHANGED <<placeVars, records, provisioningVars>>

Started ==
  /\ Awaiting("start") /\ HealthyAfterStart(Role)
  /\ RoleDone
  /\ UNCHANGED <<placeVars, records, faults, servicesVars, provisioningVars>>

(* waitForHealthyStart saw the process fail, or waited for three seconds.   *)
StartGivesUp ==
  /\ Awaiting("start") /\ ~HealthyAfterStart(Role)
  /\ Bootout(begun)
  /\ StepFails
  /\ UNCHANGED <<placeVars, records, faults, provisioningVars>>

-----------------------------------------------------------------------------
(* setup's resources: a configuration in force names its own.               *)

Provision ==
  /\ At("provision") /\ cmd = "setup"
  /\ \/ /\ phase = "enter" /\ doing = "none"
        /\ BeginProvisioning(IF config = None THEN Things ELSE {})
        /\ UNCHANGED <<scriptVars, faults>>
     \/ /\ Provisioned /\ EndProvisioning
        /\ Enter(Tail(todo)) /\ issued' = issued + 1
        /\ UNCHANGED <<cmd, goal, note, mood, outcome, faults>>
     \/ /\ Reuse \/ Create \/ ReadBack
        /\ UNCHANGED <<scriptVars, faults>>
     \/ /\ \E done \in BOOLEAN : CreateUncertain(done)
        /\ Fault /\ UNCHANGED scriptVars
     \/ /\ Ambiguous \/ Unverified \/ Unrecovered
        /\ StepFails /\ UNCHANGED faults
     \/ /\ \/ LookFails \/ RowsUnreadable \/ SchemaConflicts \/ RowsConflict
           \/ CreateRefused \/ ReadBackFails
        /\ Fault /\ StepFails
  /\ UNCHANGED <<placeVars, records, servicesVars>>
-----------------------------------------------------------------------------
(* The commands an operator gives, one at a time; one that is refused at    *)
(* its start changes nothing and is left out.  A setup counts as a command   *)
(* once it has its resources.                                               *)

Issue(command, aim, script) ==
  /\ Finished /\ issued < MaxCommands
  /\ issued' = IF command = "setup" THEN issued ELSE issued + 1
  /\ cmd' = command /\ goal' = aim
  /\ note' = IF root = "ready" THEN Found ELSE None
  /\ Enter(script)
  /\ mood' = "forward" /\ outcome' = "none"
  /\ UNCHANGED <<placeVars, records, faults, servicesVars, provisioningVars>>

(* A new installation needs a place with nothing in it.                     *)
Vacant == root = "empty"

(* setup runs again only when its last error calls a retry safe, or the     *)
(* operator has seen everything that was created.                           *)
Setup(c) ==
  /\ Vacant \/ root = "ready"
  /\ MayRetry
  /\ Issue("setup", c, SetupScript(root = "ready"))

InitCommand ==
  /\ Vacant
  /\ Issue("init", None, <<Do("init")>>)

Configure(c) ==
  /\ root = "ready" /\ config = None
  /\ Issue("configure", c, <<Do("packs"), Do("config")>>)

(* Mutant: it is enough that no service is loaded. *)
UpdateConfigLive(c) ==
  /\ root = "ready" /\ config # None /\ c # config
  /\ LoadedRoles = {} /\ (c \in Allows => config \in Allows)
  /\ Issue("config update", c, <<Do("config")>>)

(* Mutant: the ceiling of the capabilities may be raised. *)
UpdateConfigWidens(c) ==
  /\ root = "ready" /\ config # None /\ c # config
  /\ frozen /\ LoadedRoles = {}
  /\ Issue("config update", c, <<Do("config")>>)

UpdateConfig(c) ==
  /\ root = "ready" /\ config # None /\ c # config
  /\ frozen /\ LoadedRoles = {} /\ (c \in Allows => config \in Allows)
  /\ Issue("config update", c, <<Do("config")>>)

ServiceScripts ==
  {<<Do("doctor"), All("plists")>>,
   <<Do("doctor"), All("plists"), All("start")>>,
   <<Do("doctor"), All("start")>>,
   <<All("stop")>>,
   <<Do("doctor"), All("stop"), All("start")>>,
   <<All("stop"), All("unplists")>>}

ServiceCommand ==
  /\ root = "ready"
  /\ \E script \in ServiceScripts : Issue("service", None, script)

Enable ==
  /\ root = "ready"
  /\ Issue("enable", None, <<Do("doctor"), All("healthy"), Do("resume")>>)

Freeze ==
  /\ root = "ready"
  /\ Issue("freeze", None, <<Do("freeze")>>)

(* upgrade to another version, or rollback to the previous one.             *)
Switch(v) ==
  /\ root = "ready" /\ v # active
  /\ Issue("switch", v, SwitchScript(LoadedRoles))

Uninstall ==
  /\ root = "ready"
  /\ Issue("uninstall", None, <<All("stop"), All("unplists"), Do("remove")>>)

(* The command's process is killed.                                         *)
Kill ==
  /\ ~Finished
  /\ Fault /\ Finish("killed")
  /\ root' = IF At("init") THEN "partial" ELSE root
  /\ IF doing = "none" THEN UNCHANGED provisioningVars
     ELSE GiveUp(FALSE) /\ UNCHANGED <<remoteVars, blind>>
  /\ UNCHANGED <<issued, active, previous, config, packs, frozen, records, servicesVars>>

-----------------------------------------------------------------------------
(* What happens by itself.                                                  *)

Launch(r) ==
  /\ IF active = None
     THEN /\ job[r] = "idle" /\ lastOk' = [lastOk EXCEPT ![r] = FALSE]
          /\ UNCHANGED <<plist, job, runs, supervisorVars>>
     ELSE LaunchJob(r, active)
  /\ UNCHANGED <<placeVars, scriptVars, records, faults, provisioningVars>>

TimedJobOver(r, well) ==
  /\ TimedJobEnds(r, well)
  /\ IF well THEN UNCHANGED faults ELSE Fault
  /\ UNCHANGED <<placeVars, scriptVars, records, provisioningVars>>

ChildIsReady(c) ==
  /\ ChildReady(c)
  /\ UNCHANGED <<placeVars, scriptVars, records, faults, plist, jobVars, provisioningVars>>

(* A child that ends while nothing has happened is a fault.                 *)
ChildEnds(c, how) ==
  /\ ChildExit(c, how)
  /\ IF event = "none" THEN Fault ELSE UNCHANGED faults
  /\ UNCHANGED <<placeVars, scriptVars, records, plist, jobVars, provisioningVars>>

StartupTimesOut ==
  /\ StartupTimeout
  /\ UNCHANGED <<placeVars, scriptVars, records, faults, plist, jobVars, provisioningVars>>

PipelineEnds ==
  /\ RealtimeEnds
  /\ UNCHANGED <<placeVars, scriptVars, records, faults, provisioningVars>>

Shows(x) ==
  /\ Appear(x)
  /\ UNCHANGED <<placeVars, scriptVars, records, faults, servicesVars>>

-----------------------------------------------------------------------------

(* An empty place, or an installation in use.                               *)
LifecycleInit ==
  /\ SupervisorInit /\ ProvisioningInit
  /\ plist = {} /\ job = [r \in Roles |-> "absent"]
  /\ lastOk = [r \in Roles |-> TRUE] /\ runs = None
  /\ root = "empty" /\ active = None /\ previous = None
  /\ config = None /\ packs = None /\ frozen = TRUE
  /\ cmd = "none" /\ goal = None /\ note = None
  /\ todo = <<>> /\ phase = "enter" /\ left = {} /\ begun = {}
  /\ mood = "forward" /\ outcome = "done"
  /\ vetted = {} /\ approved = {} /\ issued = 0 /\ faults = 0

Step ==
  \/ FileStep \/ PlacePacks \/ RestorePacks \/ InitStep \/ RemoveStep \/ TakeNote
  \/ DoctorPasses \/ VetPasses \/ DoctorRefuses \/ HealthCheck \/ FinalStatus
  \/ BeginStep \/ Define
  \/ StopRole \/ StopRefused \/ Stopped
  \/ StartRole \/ StartMissing \/ Started \/ StartGivesUp
  \/ Provision

Failure == StepErrs \/ CandidateFails \/ DoctorFinds \/ HalfDone \/ StartRefused \/ Kill

Command ==
  \/ \E c \in Configs : Setup(c) \/ Configure(c) \/ UpdateConfig(c)
  \/ \E v \in Versions : Switch(v)
  \/ InitCommand \/ ServiceCommand \/ Enable \/ Freeze \/ Uninstall

Background ==
  \/ \E r \in Roles : Launch(r)
  \/ \E r \in Roles, well \in BOOLEAN : TimedJobOver(r, well)
  \/ \E c \in Children : ChildIsReady(c) \/ \E how \in Ends : ChildEnds(c, how)
  \/ StartupTimesOut \/ PipelineEnds
  \/ \E x \in Things : Shows(x)

LifecycleNext == Step \/ Failure \/ Command \/ Background

(* The pipeline's own course: the startup timer runs out, what is           *)
(* terminated ends, and the supervisor ends when both children have.        *)
PipelineStep ==
  \/ StartupTimesOut \/ PipelineEnds
  \/ event # "none" /\ \E c \in Children, how \in Ends : ChildEnds(c, how)

LifecycleFairness == WF_lifecycleVars(PipelineStep)

(* From any place no command is at work on and nothing was provisioned for. *)
AtRestSpec ==
  ProvisioningInit /\ cmd = "none" /\ [][LifecycleNext]_lifecycleVars

-----------------------------------------------------------------------------

(* While automatic processing is on, the configuration, the packs and the   *)
(* version in force have passed a doctor together, whatever commands were   *)
(* given, failed, were undone or were killed before (setup, updateConfig,   *)
(* activateVersion, controlCommand).                                        *)
LiveIsVerified ==
  root = "ready" /\ ~frozen => <<config, packs, active>> \in vetted

(* No job is loaded whose service definition is gone: the services that     *)
(* stop, uninstall and setup leave behind can be started again or restored  *)
(* (uninstallServices, installServices, setup).                             *)
JobsHaveDefinitions == LoadedRoles \subseteq plist

(* A failed setup whose recovery succeeded leaves an installation with the  *)
(* configuration, packs, frozen flag, service definitions and jobs it had,  *)
(* and a new place empty, with no job left behind (setup).                  *)
SetupRestores ==
  [][cmd = "setup" /\ mood = "recover" /\ outcome' = "failed" =>
       IF note = None
       THEN root' = "empty" /\ plist' = {} /\ LoadedRoles' = {}
       ELSE /\ <<root', active', previous'>> = <<"ready", note.active, note.previous>>
            /\ <<config', packs', frozen'>> = <<note.config, note.packs, note.frozen>>
            /\ plist' = note.installed /\ LoadedRoles' = note.loaded]_lifecycleVars

(* A command that ends or recovers leaves no internal capability allowed    *)
(* with packs nobody approved, where it found none; a setup that is killed  *)
(* or cannot recover may leave the packs of one configuration under another *)
(* (prepareCapabilityCandidate, installCapabilityPacks, updateConfig).      *)
Trusted(c, p) == c \in Allows => p \in approved
FoundTrusted == note = None \/ Trusted(note.config, note.packs)

TrustIsApproved ==
  [][~Finished /\ FoundTrusted /\ outcome' \in {"done", "failed"} =>
       Trusted(config, packs)']_lifecycleVars

(* A version switch that succeeds leaves every job that was loaded healthy  *)
(* and the pipeline on the new version; one that fails and recovers leaves  *)
(* the old pointer and the pipeline on it, or on what it ran before         *)
(* (activateVersion).                                                       *)
SwitchRestores ==
  [][cmd = "switch" /\ outcome' \in {"done", "failed"} =>
       /\ active' = IF outcome' = "done" THEN goal ELSE note.active
       /\ previous' = IF outcome' = "done" THEN note.active ELSE note.previous
       /\ outcome' = "done" \/ mood = "recover" =>
            \A r \in note.loaded : Healthy(r)'
       /\ Realtime \in note.loaded /\ outcome' = "done" => runs' = goal
       /\ outcome' = "failed" => runs' \in {None, note.active, note.runs}]_lifecycleVars

(* A pipeline that starts gets ready or ends, and one that has to end ends  *)
(* with both its children (runSupervisor).                                  *)
PipelineSettles ==
  /\ (Up /\ ~started) ~> (started \/ ~Up)
  /\ (event # "none") ~> (event = "none")

=============================================================================
