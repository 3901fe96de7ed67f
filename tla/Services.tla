----------------------------- MODULE Services -----------------------------
(***************************************************************************)
(* The background services of an installation: the launchd jobs of its     *)
(* roles (external) and what product/src/service-host.mjs does to them.    *)
(* launchd keeps the realtime job running; the other jobs are run on a     *)
(* timer.  A job that is booted out stays loaded until its process ends.   *)
(***************************************************************************)
EXTENDS Naturals, FiniteSets, Supervisor

CONSTANTS
  Roles,      \* SERVICE_ROLES
  Realtime,   \* the role that is kept running, the first of them
  RoleRank,   \* the place of a role in SERVICE_ROLES
  Versions,   \* versions of the product
  None

ASSUME RolesAssumption ==
  /\ IsFiniteSet(Roles) /\ Realtime \in Roles
  /\ RoleRank \in [Roles -> Nat]
  /\ \A r, s \in Roles : RoleRank[r] = RoleRank[s] => r = s
  /\ \A r \in Roles : RoleRank[Realtime] <= RoleRank[r]
  /\ None \notin Versions

VARIABLES
  plist,   \* the roles whose service definition is written
  job,     \* launchd's job: "absent", "idle", "running", or "leaving"
  lastOk,  \* the job's last exit is not a failure
  runs     \* the version the realtime process was started from

jobVars == <<job, lastOk, runs>>
servicesVars == <<plist, jobVars, supervisorVars>>

ServicesTypeOK ==
  /\ SupervisorTypeOK
  /\ plist \subseteq Roles
  /\ job \in [Roles -> {"absent", "idle", "running", "leaving"}]
  /\ lastOk \in [Roles -> BOOLEAN]
  /\ runs \in Versions \cup {None}
  /\ Up <=> job[Realtime] \in {"running", "leaving"}
  /\ Up <=> runs # None
  /\ job[Realtime] = "leaving" => event # "none"

-----------------------------------------------------------------------------

Loaded(r) == job[r] # "absent"
LoadedRoles == {r \in Roles : Loaded(r)}
Running(r) == job[r] \in {"running", "leaving"}

(* serviceHealthy                                                           *)
Healthy(r) ==
  r \in plist /\ Loaded(r) /\ lastOk[r] /\ (r = Realtime => Running(r))

(* healthyAfterStart and terminalStartFailure                               *)
HealthyAfterStart(r) == Loaded(r) /\ (r = Realtime => Running(r))

FirstRole(S) == CHOOSE r \in S : \A s \in S : RoleRank[r] <= RoleRank[s]

-----------------------------------------------------------------------------
(* What the services do to launchd, as the next values of its variables.    *)

(* bootstrap: the job is loaded; the realtime job runs at once.             *)
Bootstrap(r, version) ==
  /\ job' = [job EXCEPT ![r] = IF r = Realtime THEN "running" ELSE "idle"]
  /\ lastOk' = [lastOk EXCEPT ![r] = TRUE]
  /\ IF r = Realtime THEN SpawnChildren /\ runs' = version
     ELSE UNCHANGED <<supervisorVars, runs>>
  /\ UNCHANGED plist

(* bootout of some roles: a job that runs is sent SIGTERM and stays until   *)
(* its process ends.                                                        *)
Bootout(S) ==
  /\ job' = [r \in Roles |->
               CASE r \in S /\ job[r] = "idle" -> "absent"
                 [] r \in S /\ job[r] = "running" -> "leaving"
                 [] OTHER -> job[r]]
  /\ IF Realtime \in S THEN Interrupt ELSE UNCHANGED supervisorVars
  /\ UNCHANGED <<plist, lastOk, runs>>

-----------------------------------------------------------------------------
(* What launchd and the processes do by themselves.                         *)

(* KeepAlive and StartInterval: the job's process is started, from the      *)
(* version the pointer names when it is.                                    *)
LaunchJob(r, version) ==
  /\ job[r] = "idle"
  /\ job' = [job EXCEPT ![r] = "running"]
  /\ IF r = Realtime THEN SpawnChildren /\ runs' = version
     ELSE UNCHANGED <<supervisorVars, runs>>
  /\ UNCHANGED <<plist, lastOk>>

(* The job's process ends, well or not.                                     *)
JobEnds(r, well) ==
  /\ Running(r)
  /\ job' = [job EXCEPT ![r] = IF job[r] = "leaving" THEN "absent" ELSE "idle"]
  /\ lastOk' = [lastOk EXCEPT ![r] = well]
  /\ UNCHANGED plist

TimedJobEnds(r, well) ==
  /\ r # Realtime
  /\ JobEnds(r, well)
  /\ UNCHANGED <<supervisorVars, runs>>

RealtimeEnds ==
  /\ Over
  /\ JobEnds(Realtime, CodeIsZero)
  /\ Return
  /\ runs' = None

=============================================================================
