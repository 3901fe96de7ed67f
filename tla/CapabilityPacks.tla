-------------------------- MODULE CapabilityPacks --------------------------
(***************************************************************************)
(* Private capability packs (private-capability-pack.mjs): what a pack     *)
(* must declare, what its MCP server must say of its own tools, and which  *)
(* of the pack's capabilities are ready then.                              *)
(*                                                                         *)
(* A pack is [declared |-> tool :> risk, uses |-> slot :> tool], a slot    *)
(* being <<capability, use>>: the use is a read operation, "prepare" or    *)
(* "confirm" for the two tools of an action; <<"pack", "check">> is that   *)
(* of the readiness check.  A server is the function of the hints it gives *)
(* of each tool it lists; <<>> stands for a server that is not resolved.   *)
(* The pack's texts, constraints and limits on input are left out.         *)
(***************************************************************************)
EXTENDS Functions

ReadUses == {"fetch", "get", "inspect", "list", "lookup", "read", "search"}
ActionUses == {"prepare", "confirm"}
Risks == {"read", "prepare", "write"}

UsesOf(pack, c) == {s[2] : s \in {t \in DOMAIN pack.uses : t[1] = c}}
Named(pack) == {s[1] : s \in {t \in DOMAIN pack.uses : t[2] # "check"}}
Checked(pack) == {s \in DOMAIN pack.uses : s[2] = "check"}

(* The risk that the tool of a slot must have.                              *)
Needed(use) ==
  CASE use = "confirm" -> "write"
    [] use = "prepare" -> "prepare"
    [] OTHER           -> "read"

-----------------------------------------------------------------------------
(* validatePrivateCapabilityPack.                                           *)

ToolsAreRisks(pack) == \A t \in DOMAIN pack.declared : pack.declared[t] \in Risks

(* A capability reads or is an action: an action has both its tools.        *)
UsesAreKnown(pack) ==
  /\ \A c \in Named(pack) :
       \/ UsesOf(pack, c) \subseteq ReadUses
       \/ UsesOf(pack, c) = ActionUses
  /\ \A s, t \in Checked(pack) : s = t

(* Each tool has one use, and each use a tool of the list.                  *)
ToolsAreMapped(pack) ==
  /\ IsInjective(pack.uses)
  /\ Range(pack.uses) = DOMAIN pack.declared

RisksAgree(pack) ==
  \A s \in DOMAIN pack.uses : pack.declared[pack.uses[s]] = Needed(s[2])

ValidPack(pack) ==
  /\ DOMAIN pack.declared # {}
  /\ Named(pack) # {}
  /\ ToolsAreRisks(pack)
  /\ UsesAreKnown(pack)
  /\ ToolsAreMapped(pack)
  /\ RisksAgree(pack)

-----------------------------------------------------------------------------
(* advertisedMcpToolRisks: what the server says of a tool.  Hints that do   *)
(* not say enough give no risk.                                             *)

AdvertisedRisk(hints) ==
  CASE hints.readOnly = "yes" /\ hints.destructive # "yes" -> "read"
    [] hints.readOnly = "no" /\ hints.destructive = "no"   -> "prepare"
    [] hints.readOnly = "no" /\ hints.destructive = "yes"  -> "write"
    [] OTHER                                               -> "unknown"

RiskAt(server, tool) ==
  IF tool \in DOMAIN server THEN AdvertisedRisk(server[tool]) ELSE "unknown"

(* checkPrivateCapabilityReadiness: the check is called only if the server  *)
(* says that it reads; a pack without a check passes.                       *)
CheckCallable(pack, server) ==
  \A s \in Checked(pack) : RiskAt(server, pack.uses[s]) = "read"

CheckPasses(pack, server, login) ==
  Checked(pack) = {} \/ (CheckCallable(pack, server) /\ login)

(* compilePrivateCapabilityPacks: a capability has an adapter if the check  *)
(* passed when the process started and the server confirms the risk of each *)
(* of its tools.                                                            *)

(* Mutant: the pack's own word is taken. *)
ConfirmedByPack(pack, server, c) == TRUE
ConfirmedByServer(pack, server, c) ==
  \A u \in UsesOf(pack, c) : RiskAt(server, pack.uses[<<c, u>>]) = Needed(u)

Compiled(pack, server, login) ==
  {c \in Named(pack) :
     ConfirmedByServer(pack, server, c) /\ CheckPasses(pack, server, login)}

=============================================================================
