--------------------------- MODULE MCOperations ---------------------------
EXTENDS Lifecycle
CONSTANTS realtime, supplement, v1, v2, c1, c2, table, record
TheRank == [r \in Roles |-> IF r = realtime THEN 1 ELSE 2]
TheThings == [x \in Things |-> IF x = table THEN 1 ELSE 2]

(* An installation: in use; with its services stopped or removed, and maybe *)
(* the packs of a setup that was killed; or only initialised.  The rarer    *)
(* ones have one fault behind them.                                         *)
Installed ==
  /\ ProvisioningInit
  /\ lastOk = [r \in Roles |-> TRUE]
  /\ root = "ready" /\ active = v1 /\ previous = None
  /\ cmd = "none" /\ goal = None /\ note = None
  /\ todo = <<>> /\ phase = "enter" /\ left = {} /\ begun = {}
  /\ mood = "forward" /\ outcome = "done"
  /\ issued = 0

InUse ==
  /\ Installed
  /\ config = c1 /\ packs = c1 /\ frozen = FALSE
  /\ vetted = {<<c1, c1, v1>>} /\ approved = {}
  /\ plist = Roles
  /\ job = [r \in Roles |-> IF r = Realtime THEN "running" ELSE "idle"]
  /\ child = [c \in Children |-> "ready"] /\ started = TRUE /\ event = "none"
  /\ runs = v1 /\ faults = 0

NoJob ==
  /\ Installed /\ SupervisorInit
  /\ job = [r \in Roles |-> "absent"] /\ runs = None

AtRest ==
  /\ NoJob
  /\ config \in Configs /\ packs \in {c2, config}
  /\ frozen \in {packs # config, TRUE}
  /\ vetted = {<<config, config, v1>>} /\ plist \in {{}, Roles}
  /\ approved = {config, packs} \cap Allows
  /\ faults = IF packs = c1 /\ plist = Roles THEN 0 ELSE 1

Initialised ==
  /\ NoJob
  /\ config = None /\ packs = None /\ frozen = TRUE
  /\ vetted = {} /\ approved = {} /\ plist = {} /\ faults = 1

MCInit == LifecycleInit \/ InUse \/ AtRest \/ Initialised

Spec == MCInit /\ [][LifecycleNext]_lifecycleVars
FairSpec == Spec /\ LifecycleFairness

=============================================================================
