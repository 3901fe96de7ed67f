--------------------------- MODULE Provisioning ---------------------------
(***************************************************************************)
(* setup --create-missing-resources: for each missing resource, in order,  *)
(* look it up by its exact name, create it when there is none, and read it *)
(* back.  What is created appears in the listings only after a while       *)
(* (external); a call may fail after it took effect.  The rows are the     *)
(* records setup writes into the control Base's tables, where people may   *)
(* have put others; the other things are spaces, folders, Bases and        *)
(* tables.  Setup's last look at all the rows is left out.                 *)
(***************************************************************************)
EXTENDS Naturals, FiniteSets

CONSTANTS
  Things,     \* the resources, tables and records setup can create
  Rows,       \* those that are records
  Tables,     \* those that are tables, with a schema
  ThingRank   \* the order in which setup ensures them

ASSUME ThingsAssumption ==
  /\ IsFiniteSet(Things) /\ Rows \subseteq Things
  /\ Tables \subseteq Things \ Rows
  /\ ThingRank \in [Things -> Nat]
  /\ \A x, y \in Things : ThingRank[x] = ThingRank[y] => x = y

VARIABLES
  made,      \* how many of each exist
  seen,      \* how many of each a listing shows
  missing,   \* the things this setup has still to ensure
  doing,     \* "look", "verify" or "recover" the first of them; "none"
  safe,      \* what the last setup's error said of a retry (retry_safe)
  blind      \* the rows whose outcome no setup could read

remoteVars == <<made, seen>>
provisioningVars == <<remoteVars, missing, doing, safe, blind>>

ProvisioningTypeOK ==
  /\ made \in [Things -> Nat] /\ seen \in [Things -> Nat]
  /\ \A x \in Things : seen[x] <= made[x]
  /\ missing \subseteq Things
  /\ doing \in {"none", "look", "verify", "recover"}
  /\ doing = "none" => missing = {}
  /\ safe \in BOOLEAN
  /\ blind \subseteq Rows

ProvisioningInit ==
  /\ made = [x \in Things |-> 0] /\ seen = made
  /\ missing = {} /\ doing = "none"
  /\ safe = TRUE /\ blind = {}

-----------------------------------------------------------------------------

Current == CHOOSE x \in missing : \A y \in missing : ThingRank[x] <= ThingRank[y]
Looking(stage) == doing = stage /\ missing # {}

(* How many have its exact name, or its values, in what is listed.          *)
Matches == seen[Current]

(* The setup goes on with the next thing.                                   *)
Ensured ==
  /\ missing' = missing \ {Current}
  /\ doing' = "look"

(* The setup ends with an error that says whether a retry is safe.          *)
GiveUp(retrySafe) ==
  /\ missing' = {} /\ doing' = "none"
  /\ safe' = retrySafe

BeginProvisioning(S) ==
  /\ missing' = S /\ doing' = "look"
  /\ safe' = TRUE
  /\ UNCHANGED <<remoteVars, blind>>

EndProvisioning ==
  /\ doing' = "none" /\ missing' = {}
  /\ UNCHANGED <<remoteVars, safe, blind>>

Provisioned == doing = "look" /\ missing = {}

(* One exact match is reused.                                               *)
Reuse ==
  /\ Looking("look") /\ Matches = 1
  /\ Ensured
  /\ UNCHANGED <<remoteVars, safe, blind>>

(* Several matches: nothing is written.                                     *)
Ambiguous ==
  /\ Looking("look") /\ Matches > 1
  /\ GiveUp(TRUE)
  /\ UNCHANGED <<remoteVars, blind>>

(* The listing fails.                                                       *)
LookFails ==
  /\ Looking("look") /\ Current \notin Rows
  /\ GiveUp(TRUE)
  /\ UNCHANGED <<remoteVars, blind>>

(* A page of the records fails or does not fit the pages before it.         *)
RowsUnreadable ==
  /\ Looking("look") /\ Current \in Rows
  /\ GiveUp(TRUE)
  /\ UNCHANGED <<remoteVars, blind>>

(* The table, found or created, has not the fields it must have.            *)
SchemaConflicts ==
  /\ missing # {} /\ Current \in Tables /\ Matches = 1
  /\ GiveUp(TRUE)
  /\ UNCHANGED <<remoteVars, blind>>

(* Rows of other people are in the way, before the row is written or when   *)
(* it is read back.                                                         *)
RowsConflict ==
  /\ missing # {} /\ Current \in Rows
  /\ GiveUp(doing = "look")
  /\ UNCHANGED <<remoteVars, blind>>

(* The dry run, or the call itself, is refused: nothing was created.        *)
CreateRefused ==
  /\ Looking("look") /\ Matches = 0
  /\ GiveUp(TRUE)
  /\ UNCHANGED <<remoteVars, blind>>

Create ==
  /\ Looking("look") /\ Matches = 0
  /\ made' = [made EXCEPT ![Current] = @ + 1]
  /\ doing' = "verify"
  /\ UNCHANGED <<seen, missing, safe, blind>>

(* The call fails otherwise: it may have created the thing.                 *)
CreateUncertain(done) ==
  /\ Looking("look") /\ Matches = 0
  /\ made' = [made EXCEPT ![Current] = @ + (IF done THEN 1 ELSE 0)]
  /\ doing' = "recover"
  /\ UNCHANGED <<seen, missing, safe, blind>>

(* Exactly one match is the thing that was created.                         *)
ReadBack ==
  /\ Looking("verify") \/ Looking("recover")
  /\ Matches = 1
  /\ Ensured
  /\ UNCHANGED <<remoteVars, safe, blind>>

(* None or several after a call that succeeded: what was created may exist, *)
(* and a retry is not safe.                                                 *)
Unverified ==
  /\ Looking("verify") /\ Matches # 1
  /\ GiveUp(FALSE)
  /\ UNCHANGED <<remoteVars, blind>>

(* Mutant: what cannot be found was not created. *)
UnrecoveredSafely ==
  /\ Looking("recover") /\ Matches # 1
  /\ GiveUp(TRUE)
  /\ UNCHANGED <<remoteVars, blind>>

(* None or several after a call that failed: the outcome is not known.      *)
Unrecovered ==
  /\ Looking("recover") /\ Matches # 1
  /\ GiveUp(FALSE)
  /\ UNCHANGED <<remoteVars, blind>>

(* The listing fails: createControlBaseRecord lets its error through, which *)
(* withRetainedResourceDetails calls safe to retry; the others do not.      *)
ReadBackFails ==
  /\ Looking("verify") \/ Looking("recover")
  /\ GiveUp(Current \in Rows)
  /\ blind' = blind \cup ({Current} \cap Rows)
  /\ UNCHANGED remoteVars

(* What was created shows in the listings.                                  *)
Appear(x) ==
  /\ seen[x] < made[x]
  /\ seen' = [seen EXCEPT ![x] = made[x]]
  /\ UNCHANGED <<made, missing, doing, safe, blind>>

(* Setup runs again only when the last error calls it safe, or when all     *)
(* that was created can be seen.                                            *)
MayRetry == safe \/ \A x \in Things : seen[x] = made[x]

-----------------------------------------------------------------------------

(* Setup never creates a second space, folder, Base or table of its name,   *)
(* and writes a second record only where an earlier setup could not read    *)
(* back whether it had written the first, however calls fail after taking   *)
(* effect and listings lag (createLarkResourceWithReadback,                 *)
(* verifyCreatedLarkResource, withRetainedResourceDetails).                 *)
NoSecondResource == \A x \in Things : made[x] > 1 => x \in blind

=============================================================================
