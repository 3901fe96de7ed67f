-------------------------- MODULE OperationsProofs --------------------------
(***************************************************************************)
(* Proofs about the product's commands: setup, however often it is run,    *)
(* fails and is killed, creates nothing twice but what no setup could read *)
(* back.                                                                   *)
(***************************************************************************)
EXTENDS Lifecycle, TLAPS

-----------------------------------------------------------------------------
(* Provisioning by itself.                                                  *)

(* What was created but is not yet listed is known to be in doubt: the row  *)
(* could not be read back, the last error called a retry unsafe, or it is   *)
(* the thing a setup is reading back.                                       *)
ReadingBack == Looking("verify") \/ Looking("recover")

InDoubt(x) ==
  \/ x \in blind
  \/ ~safe
  \/ ReadingBack /\ x = Current

ProvisioningInv ==
  /\ made \in [Things -> Nat] /\ seen \in [Things -> Nat]
  /\ \A x \in Things : seen[x] <= made[x]
  /\ blind \subseteq Rows /\ safe \in BOOLEAN
  /\ doing = "none" => missing = {}
  /\ doing # "none" => safe
  /\ \A x \in Things : made[x] > seen[x] => InDoubt(x)
  /\ \A x \in Things : made[x] <= 1 \/ x \in blind

LEMMA ProvisioningInitInv == ProvisioningInit => ProvisioningInv
  BY DEF ProvisioningInit, ProvisioningInv, InDoubt

LEMMA InvNoSecond == ProvisioningInv => NoSecondResource
  BY DEF ProvisioningInv, NoSecondResource

(* A setup that ends keeps the invariant if it calls a retry unsafe, or has *)
(* nothing in doubt but blind rows.                                         *)
LEMMA GiveUpInv ==
  ASSUME ProvisioningInv, NEW b \in BOOLEAN, GiveUp(b), UNCHANGED remoteVars,
         blind \subseteq blind', blind' \subseteq Rows,
         b => \A x \in Things : made[x] > seen[x] => x \in blind'
  PROVE  ProvisioningInv'
  BY DEF remoteVars, ProvisioningInv, InDoubt, GiveUp

(* While a setup looks, only blind rows are in doubt; and what it found     *)
(* while reading back is all there is.                                      *)
LEMMA LookingKnows ==
  ASSUME ProvisioningInv, Looking("look"), NEW x \in Things, made[x] > seen[x]
  PROVE  x \in blind
  BY DEF ProvisioningInv, InDoubt, ReadingBack, Looking

LEMMA MatchKnows ==
  ASSUME ProvisioningInv, missing # {}, Matches = 1,
         NEW x \in Things, made[x] > seen[x]
  PROVE  x \in blind
<1>1. doing # "none"
  BY DEF ProvisioningInv
<1>2. CASE x = Current
  BY <1>2 DEF ProvisioningInv, Matches
<1>3. CASE x # Current
  BY <1>1, <1>3 DEF ProvisioningInv, InDoubt
<1> QED BY <1>2, <1>3

(* The ends of a setup.                                                     *)
ProvisioningFails ==
  \/ Ambiguous \/ LookFails \/ RowsUnreadable \/ SchemaConflicts \/ RowsConflict
  \/ CreateRefused \/ Unverified \/ Unrecovered \/ ReadBackFails

LEMMA FailsInv == ProvisioningInv /\ ProvisioningFails => ProvisioningInv'
<1> SUFFICES ASSUME ProvisioningInv, ProvisioningFails PROVE ProvisioningInv'
  OBVIOUS
<1>1. CASE Ambiguous
  BY <1>1, LookingKnows, GiveUpInv DEF Ambiguous, ProvisioningInv
<1>2. CASE LookFails
  BY <1>2, LookingKnows, GiveUpInv DEF LookFails, ProvisioningInv
<1>3. CASE RowsUnreadable
  BY <1>3, LookingKnows, GiveUpInv DEF RowsUnreadable, ProvisioningInv
<1>4. CASE SchemaConflicts
  BY <1>4, MatchKnows, GiveUpInv DEF SchemaConflicts, ProvisioningInv
<1>5. CASE RowsConflict
  <2>1. doing = "look" => \A x \in Things : made[x] > seen[x] => x \in blind'
    BY <1>5, LookingKnows DEF RowsConflict, Looking
  <2> QED
    BY <1>5, <2>1, GiveUpInv DEF RowsConflict, ProvisioningInv
<1>6. CASE CreateRefused
  BY <1>6, LookingKnows, GiveUpInv DEF CreateRefused, ProvisioningInv
<1>7. CASE Unverified
  BY <1>7, GiveUpInv DEF Unverified, ProvisioningInv
<1>8. CASE Unrecovered
  BY <1>8, GiveUpInv DEF Unrecovered, ProvisioningInv
<1>9. CASE ReadBackFails
  <2>1. ASSUME Current \in Rows, NEW x \in Things, made[x] > seen[x] PROVE x \in blind'
    BY <1>9, <2>1 DEF ReadBackFails, ProvisioningInv, InDoubt, Looking
  <2>2. (Current \in Rows) \in BOOLEAN
    OBVIOUS
  <2>3. GiveUp(Current \in Rows) /\ UNCHANGED remoteVars
    BY <1>9 DEF ReadBackFails
  <2>4. blind \subseteq blind' /\ blind' \subseteq Rows
    BY <1>9 DEF ReadBackFails, ProvisioningInv
  <2> HIDE DEF GiveUp
  <2> QED
    BY <2>1, <2>2, <2>3, <2>4, GiveUpInv
<1> QED
  BY <1>1, <1>2, <1>3, <1>4, <1>5, <1>6, <1>7, <1>8, <1>9 DEF ProvisioningFails

(* The steps of a setup that goes on.                                       *)
LEMMA ReuseInv == ProvisioningInv /\ Reuse => ProvisioningInv'
<1> SUFFICES ASSUME ProvisioningInv, Reuse PROVE ProvisioningInv'
  OBVIOUS
<1>1. \A x \in Things : made[x] > seen[x] => x \in blind
  BY LookingKnows DEF Reuse
<1> QED
  BY <1>1 DEF Reuse, Ensured, Looking, ProvisioningInv, InDoubt, remoteVars

LEMMA ReadBackInv == ProvisioningInv /\ ReadBack => ProvisioningInv'
<1> SUFFICES ASSUME ProvisioningInv, ReadBack PROVE ProvisioningInv'
  OBVIOUS
<1>1. missing # {} /\ Matches = 1 /\ doing # "none"
  BY DEF ReadBack, Looking
<1>2. \A x \in Things : made[x] > seen[x] => x \in blind
  BY <1>1, MatchKnows
<1> QED
  BY <1>1, <1>2 DEF ReadBack, Ensured, ProvisioningInv, InDoubt, remoteVars

(* A thing that is created was not there, unless it is a blind row.         *)
LEMMA CreateInv ==
  ASSUME ProvisioningInv, Looking("look"), Matches = 0, NEW k \in {0, 1},
         made' = [made EXCEPT ![Current] = @ + k],
         doing' \in {"verify", "recover"},
         UNCHANGED <<seen, missing, safe, blind>>
  PROVE  ProvisioningInv'
<1>1. Current' = Current
  BY DEF Current
<1>2. missing # {} /\ doing = "look" /\ safe
  BY DEF Looking, ProvisioningInv
<1>3. \A x \in Things : x # Current => made'[x] = made[x]
  BY DEF ProvisioningInv
<1>4. Current \in Things => made'[Current] = made[Current] + k
  BY DEF ProvisioningInv
<1>5. made' \in [Things -> Nat]
  <2>1. made' = [x \in Things |-> made'[x]]
    BY DEF ProvisioningInv
  <2>2. \A x \in Things : made'[x] \in Nat
    BY <1>3, <1>4 DEF ProvisioningInv
  <2> QED BY <2>1, <2>2
<1>6. ASSUME NEW x \in Things PROVE made'[x] <= 1 \/ x \in blind
  <2>1. CASE x # Current
    BY <1>3, <2>1 DEF ProvisioningInv
  <2>2. CASE x = Current
    <3>1. seen[x] = 0
      BY <2>2 DEF Matches
    <3>2. made[x] = 0 \/ x \in blind
      BY <3>1, LookingKnows DEF ProvisioningInv
    <3> QED BY <1>4, <2>2, <3>2
  <2> QED BY <2>1, <2>2
<1>7. ASSUME NEW x \in Things, made'[x] > seen'[x] PROVE InDoubt(x)'
  <2>1. CASE x # Current
    BY <1>3, <1>7, <2>1, LookingKnows DEF InDoubt
  <2>2. CASE x = Current
    BY <1>1, <1>2, <2>2 DEF InDoubt, ReadingBack, Looking
  <2> QED BY <2>1, <2>2
<1>8. \A x \in Things : seen'[x] <= made'[x]
  BY <1>3, <1>4 DEF ProvisioningInv
<1> QED
  BY <1>2, <1>5, <1>6, <1>7, <1>8 DEF ProvisioningInv

LEMMA AppearInv ==
  ASSUME ProvisioningInv, NEW x \in Things, Appear(x)
  PROVE  ProvisioningInv'
<1>1. /\ seen' = [seen EXCEPT ![x] = made[x]]
      /\ UNCHANGED <<made, missing, doing, safe, blind>>
  BY DEF Appear
<1>2. \A y \in Things : InDoubt(y) => InDoubt(y)'
  BY <1>1 DEF InDoubt, ReadingBack, Looking, Current
<1>3. \A y \in Things : seen'[y] = IF y = x THEN made[x] ELSE seen[y]
  BY <1>1 DEF ProvisioningInv
<1>4. seen' \in [Things -> Nat]
  BY <1>1 DEF ProvisioningInv
<1> QED
  BY <1>1, <1>2, <1>3, <1>4 DEF ProvisioningInv

(* A setup begins when the operator may retry.                              *)
LEMMA BeginInv ==
  ASSUME ProvisioningInv, MayRetry, doing = "none", NEW S, BeginProvisioning(S)
  PROVE  ProvisioningInv'
<1>1. safe' /\ doing' = "look" /\ UNCHANGED <<made, seen, blind>>
  BY DEF BeginProvisioning, remoteVars
<1>2. \A x \in Things : made[x] > seen[x] => x \in blind
  BY DEF MayRetry, ProvisioningInv, InDoubt, ReadingBack, Looking
<1> QED
  BY <1>1, <1>2 DEF ProvisioningInv, InDoubt

-----------------------------------------------------------------------------
(* The commands: only a setup provisions, as the first of its steps, and    *)
(* when it begins to, the operator may retry.                               *)

Free(script) ==
  /\ \E S : script \in Seq(S)
  /\ script # <<>> /\ script[Len(script)][1] \notin {"provision", "note"}
  /\ \A i \in 1..Len(script) : script[i][1] # "provision"

ScriptInv ==
  cmd = "setup" =>
    /\ \E S : todo \in Seq(S)
    /\ todo # <<>> /\ todo[Len(todo)][1] \notin {"provision", "note"}
    /\ \A i \in 2..Len(todo) : todo[i][1] # "provision"
    /\ Head(todo)[1] = "provision" /\ doing = "none" => MayRetry

LEMMA TailFree ==
  ASSUME NEW s, NEW S, s \in Seq(S), Len(s) > 1,
         s[Len(s)][1] \notin {"provision", "note"},
         \A i \in 2..Len(s) : s[i][1] # "provision"
  PROVE  Free(Tail(s))
<1>1. Tail(s) \in Seq(S) /\ Len(Tail(s)) = Len(s) - 1 /\ Len(s) \in Nat
  OBVIOUS
<1>2. \A i \in 1..Len(Tail(s)) : Tail(s)[i] = s[i + 1] /\ i + 1 \in 2..Len(s)
  BY <1>1
<1>3. Tail(s) # <<>> /\ Tail(s)[Len(Tail(s))] = s[Len(s)]
  <2> DEFINE n == Len(Tail(s))
  <2>1. n \in 1..n /\ n + 1 = Len(s)
    BY <1>1
  <2>2. Tail(s)[n] = s[n + 1]
    BY <1>2, <2>1
  <2>3. Tail(s) # <<>>
    <3>1. Len(<<>>) = 0
      OBVIOUS
    <3>2. Len(Tail(s)) # 0
      BY <1>1
    <3> QED BY <3>1, <3>2
  <2> QED BY <2>1, <2>2, <2>3
<1> QED BY <1>1, <1>2, <1>3 DEF Free

LEMMA RecoveryFree ==
  Free(FreshRecovery) /\ Free(SetupRecovery) /\ Free(<<Do("clear")>>)
<1>1. Free(FreshRecovery)
  <2> DEFINE S == {All("stop"), All("unplists"), Do("clear")}
  <2>1. FreshRecovery \in Seq(S) /\ FreshRecovery # <<>>
    BY DEF FreshRecovery
  <2>2. \A x \in S : x[1] \notin {"provision", "note"}
    BY DEF All, Do
  <2>3. \A i \in 1..Len(FreshRecovery) : FreshRecovery[i] \in S
    BY <2>1
  <2>4. Len(FreshRecovery) \in 1..Len(FreshRecovery)
    BY <2>1
  <2> QED BY <2>1, <2>2, <2>3, <2>4 DEF Free
<1>2. Free(SetupRecovery)
  <2> DEFINE S == {Do("freeze"), All("stop"), All("unplists"), Do("unpacks"),
                   Do("unconfig"), <<"plists", note.installed>>,
                   <<"start", note.loaded>>, Do("thaw")}
  <2>1. SetupRecovery \in Seq(S) /\ SetupRecovery # <<>>
    BY DEF SetupRecovery
  <2>2. \A x \in S : x[1] \notin {"provision", "note"}
    BY DEF All, Do
  <2>3. \A i \in 1..Len(SetupRecovery) : SetupRecovery[i] \in S
    BY <2>1
  <2>4. Len(SetupRecovery) \in 1..Len(SetupRecovery)
    BY <2>1
  <2> HIDE DEF S
  <2> QED BY <2>1, <2>2, <2>3, <2>4 DEF Free
<1>3. Free(<<Do("clear")>>)
  <2> DEFINE S == {Do("clear")}
             script == <<Do("clear")>>
  <2>1. script \in Seq(S) /\ Len(script) = 1 /\ script # <<>>
    OBVIOUS
  <2>2. \A x \in S : x[1] \notin {"provision", "note"}
    BY DEF Do
  <2>3. \A i \in 1..Len(script) : script[i] \in S
    BY <2>1
  <2> HIDE DEF S, script
  <2>4. Free(script)
    BY <2>1, <2>2, <2>3 DEF Free
  <2> QED BY <2>4 DEF script
<1> QED BY <1>1, <1>2, <1>3

LEMMA FreeScriptInv ==
  ASSUME Free(todo') PROVE ScriptInv'
<1>1. Head(todo')[1] # "provision"
  BY DEF Free
<1> QED BY <1>1 DEF Free, ScriptInv

LEMMA GoOnScript ==
  ASSUME ScriptInv, Enter(Tail(todo)), UNCHANGED cmd,
         Len(todo) # 1 \/ Head(todo)[1] \in {"provision", "note"}
  PROVE  ScriptInv'
<1>1. CASE cmd' # "setup"
  BY <1>1 DEF ScriptInv
<1>2. CASE cmd' = "setup"
  <2>1. cmd = "setup" /\ todo' = Tail(todo)
    BY <1>2 DEF Enter
  <2>2. PICK S : todo \in Seq(S)
    BY <2>1 DEF ScriptInv
  <2>3. Len(todo) > 1
    <3>1. todo # <<>> /\ todo[Len(todo)][1] \notin {"provision", "note"}
      BY <2>1 DEF ScriptInv
    <3>2. Len(todo) = 1 => Head(todo) = todo[Len(todo)]
      BY <2>2
    <3>3. Len(todo) # 1
      BY <3>1, <3>2
    <3>4. Len(todo) \in Nat /\ (Len(todo) = 0 => todo = <<>>)
      BY <2>2
    <3>5. Len(todo) # 0
      BY <3>1, <3>4
    <3>6. \A n \in Nat : n # 0 /\ n # 1 => n > 1
      OBVIOUS
    <3> QED BY <3>3, <3>4, <3>5, <3>6, Zenon
  <2> QED BY <2>1, <2>2, <2>3, TailFree, FreeScriptInv DEF ScriptInv
<1> QED BY <1>1, <1>2

LEMMA AdvanceScript ==
  ASSUME ScriptInv, Advance PROVE ScriptInv'
<1>1. CASE cmd' # "setup"
  BY <1>1 DEF ScriptInv
<1>2. CASE cmd' = "setup"
  <2>1. Enter(Tail(todo)) /\ UNCHANGED cmd /\ Len(todo) # 1
    BY <1>2 DEF Advance, Finish
  <2> QED BY <2>1, GoOnScript
<1> QED BY <1>1, <1>2

LEMMA FailsScript ==
  ASSUME StepFails PROVE ScriptInv'
<1>1. CASE cmd' # "setup"
  BY <1>1 DEF ScriptInv
<1>2. CASE cmd' = "setup"
  <2> DEFINE rest == IF mood = "forward" THEN Recovery ELSE Salvage
  <2>1. cmd = "setup" /\ todo' = rest /\ rest # <<>>
    BY <1>2 DEF StepFails, Finish, Enter
  <2>2. Recovery \in {<<>>, FreshRecovery, SetupRecovery}
    BY <2>1 DEF Recovery
  <2>3. Salvage \in {<<>>, <<Do("clear")>>}
    BY <2>1 DEF Salvage
  <2> QED BY <2>1, <2>2, <2>3, RecoveryFree, FreeScriptInv
<1> QED BY <1>1, <1>2

(* Steps that leave the provisioning alone.                                 *)
LEMMA QuietProvisioning ==
  ProvisioningInv /\ UNCHANGED provisioningVars => ProvisioningInv'
  BY DEF provisioningVars, remoteVars, ProvisioningInv, InDoubt, ReadingBack,
         Looking, Current

LEMMA SameScript ==
  ScriptInv /\ UNCHANGED <<cmd, todo, provisioningVars>> => ScriptInv'
  BY DEF provisioningVars, remoteVars, ScriptInv, MayRetry

(* The ways a step that leaves the provisioning alone leaves the script.    *)
ScriptSame == UNCHANGED <<cmd, goal, note, todo, mood, outcome, issued>>

ScriptStep ==
  \/ (Advance \/ StepFails) /\ ~Finished /\ Head(todo)[1] # "provision"
  \/ ScriptSame
  \/ TakeNote

LEMMA ScriptStepInv ==
  ASSUME ScriptInv, ScriptStep, UNCHANGED provisioningVars PROVE ScriptInv'
<1>1. CASE Advance
  BY <1>1, AdvanceScript
<1>2. CASE StepFails
  BY <1>2, FailsScript
<1>3. CASE ScriptSame
  BY <1>3, SameScript DEF ScriptSame
<1>4. CASE TakeNote
  BY <1>4, GoOnScript DEF TakeNote, At
<1> QED BY <1>1, <1>2, <1>3, <1>4 DEF ScriptStep

LEMMA RolesStep ==
  /\ ~Finished /\ Head(todo)[1] # "provision" =>
       /\ \A S : BeginRoles(S) => ScriptStep
       /\ RoleDone => ScriptStep
  /\ AwaitRole => ScriptStep
  BY DEF BeginRoles, RoleDone, AwaitRole, ScriptStep, ScriptSame

-----------------------------------------------------------------------------
(* The steps of a command.                                                  *)

LEMMA StepInv ==
  ASSUME ScriptInv, Step, ~Provision
  PROVE  ScriptStep /\ UNCHANGED provisioningVars
<1>1. CASE FileStep
  BY <1>1 DEF FileStep, ScriptStep, At
<1>2. CASE PlacePacks \/ RestorePacks
  BY <1>2 DEF PlacePacks, RestorePacks, ScriptStep, At
<1>3. CASE InitStep \/ RemoveStep
  BY <1>3 DEF InitStep, RemoveStep, ScriptStep, At
<1>4. CASE TakeNote
  BY <1>4 DEF TakeNote, ScriptStep
<1>5. CASE DoctorPasses \/ VetPasses \/ DoctorRefuses
  BY <1>5 DEF DoctorPasses, VetPasses, DoctorRefuses, ScriptStep, At
<1>6. CASE HealthCheck \/ FinalStatus
  BY <1>6 DEF HealthCheck, FinalStatus, ScriptStep, At
<1>7. CASE BeginStep
  BY <1>7, RolesStep DEF BeginStep, At
<1>8. CASE Define \/ Stopped \/ Started
  BY <1>8, RolesStep DEF Define, Stopped, Started, Acting, Awaiting, At
<1>9. CASE StopRole \/ StartRole
  BY <1>9, RolesStep DEF StopRole, StartRole
<1>10. CASE StopRefused \/ StartMissing \/ StartGivesUp
  BY <1>10 DEF StopRefused, StartMissing, StartGivesUp, ScriptStep,
                 Acting, Awaiting, At
<1> QED
  BY <1>1, <1>2, <1>3, <1>4, <1>5, <1>6, <1>7, <1>8, <1>9, <1>10 DEF Step

LEMMA FailureInv ==
  ASSUME Failure, ~Kill
  PROVE  ScriptStep /\ UNCHANGED provisioningVars
<1>1. CASE StepErrs \/ CandidateFails
  BY <1>1 DEF StepErrs, CandidateFails, ScriptStep, At
<1>2. CASE DoctorFinds \/ HalfDone
  BY <1>2 DEF DoctorFinds, HalfDone, ScriptStep, At
<1>3. CASE StartRefused
  BY <1>3 DEF StartRefused, ScriptStep, Acting, At
<1> QED BY <1>1, <1>2, <1>3 DEF Failure

LEMMA BackgroundInv ==
  ASSUME Background, NEW shows, shows = (\E x \in Things : Shows(x)), ~shows
  PROVE  ScriptStep /\ UNCHANGED provisioningVars
<1>1. ASSUME NEW r \in Roles, Launch(r)
      PROVE  ScriptStep /\ UNCHANGED provisioningVars
  BY <1>1 DEF Launch, ScriptStep, ScriptSame, scriptVars
<1>2. ASSUME NEW r \in Roles, NEW well \in BOOLEAN, TimedJobOver(r, well)
      PROVE  ScriptStep /\ UNCHANGED provisioningVars
  BY <1>2 DEF TimedJobOver, ScriptStep, ScriptSame, scriptVars
<1>3. ASSUME NEW c \in Children, ChildIsReady(c) \/ \E how \in Ends : ChildEnds(c, how)
      PROVE  ScriptStep /\ UNCHANGED provisioningVars
  BY <1>3 DEF ChildIsReady, ChildEnds, ScriptStep, ScriptSame, scriptVars
<1>4. CASE StartupTimesOut \/ PipelineEnds
  BY <1>4 DEF StartupTimesOut, PipelineEnds, ScriptStep, ScriptSame, scriptVars
<1> QED
  BY <1>1, <1>2, <1>3, <1>4 DEF Background

(* What setup is made of after its first step.                              *)
LEMMA SetupScriptFree ==
  ASSUME NEW exists \in BOOLEAN
  PROVE  /\ \E S : SetupScript(exists) \in Seq(S)
         /\ SetupScript(exists) # <<>>
         /\ SetupScript(exists)[Len(SetupScript(exists))][1] \notin {"provision", "note"}
         /\ \A i \in 2..Len(SetupScript(exists)) : SetupScript(exists)[i][1] # "provision"
<1> DEFINE script == SetupScript(exists)
           first == IF exists THEN Do("note") ELSE Do("init")
           R == {first, Do("freeze"), All("stop"), Do("packs"), Do("config"),
                 Do("doctor"), All("plists"), All("start"), All("healthy"),
                 Do("resume"), Do("final")}
<1>1. script \in Seq(R \cup {Do("provision")}) /\ Len(script) = 12
  BY DEF script, SetupScript
<1>2. \A i \in 2..12 : script[i] \in R
  <2>1. \A i \in 2..12 : i \in {2, 3, 4, 5, 6, 7, 8, 9, 10, 11, 12}
    OBVIOUS
  <2> HIDE DEF first
  <2>2. script = <<Do("provision"), first, Do("freeze"), All("stop"),
                        Do("packs"), Do("config"), Do("doctor"), All("plists"),
                        All("start"), All("healthy"), Do("resume"), Do("final")>>
    BY DEF script, SetupScript, first
  <2> QED BY <2>1, <2>2
<1>3. \A x \in R : x[1] # "provision"
  BY DEF Do, All
<1>4. script[12][1] \notin {"provision", "note"}
  BY DEF script, SetupScript, Do
<1>5. script # <<>>
  BY DEF script, SetupScript
<1> HIDE DEF R
<1>6. /\ \E S : script \in Seq(S)
      /\ script # <<>> /\ script[Len(script)][1] \notin {"provision", "note"}
      /\ \A i \in 2..Len(script) : script[i][1] # "provision"
  <2> HIDE DEF script
  <2> QED BY <1>1, <1>2, <1>3, <1>4, <1>5
<1> QED BY <1>6

LEMMA CommandInv ==
  ASSUME Command
  PROVE  ScriptInv' /\ UNCHANGED provisioningVars
<1>1. ASSUME NEW c \in Configs, Setup(c)
      PROVE  ScriptInv' /\ UNCHANGED provisioningVars
  <2>1. todo' = SetupScript(root = "ready") /\ MayRetry /\ UNCHANGED provisioningVars
    BY <1>1 DEF Setup, Issue, Enter
  <2>2. MayRetry'
    BY <2>1 DEF MayRetry, provisioningVars, remoteVars
  <2> DEFINE script == SetupScript(root = "ready")
  <2>3. /\ \E S : script \in Seq(S)
        /\ script # <<>> /\ script[Len(script)][1] \notin {"provision", "note"}
        /\ \A i \in 2..Len(script) : script[i][1] # "provision"
    <3>1. (root = "ready") \in BOOLEAN
      OBVIOUS
    <3> QED BY <3>1, SetupScriptFree
  <2>4. todo' = script
    BY <2>1
  <2> HIDE DEF script
  <2> QED BY <2>1, <2>2, <2>3, <2>4 DEF ScriptInv
<1>2. ASSUME NEW c \in Configs, Configure(c) \/ UpdateConfig(c)
      PROVE  ScriptInv' /\ UNCHANGED provisioningVars
  BY <1>2 DEF Configure, UpdateConfig, Issue, ScriptInv
<1>3. ASSUME NEW v \in Versions, Switch(v)
      PROVE  ScriptInv' /\ UNCHANGED provisioningVars
  BY <1>3 DEF Switch, Issue, ScriptInv
<1>4. CASE InitCommand \/ ServiceCommand \/ Enable \/ Freeze \/ Uninstall
  BY <1>4 DEF InitCommand, ServiceCommand, Enable, Freeze, Uninstall, Issue, ScriptInv
<1> QED BY <1>1, <1>2, <1>3, <1>4 DEF Command

LEMMA KillInv ==
  ASSUME ProvisioningInv, Kill PROVE ProvisioningInv' /\ ScriptInv'
<1>1. ScriptInv'
  BY DEF Kill, Finish, ScriptInv
<1>2. ProvisioningInv'
  <2>1. CASE UNCHANGED provisioningVars
    BY <2>1, QuietProvisioning
  <2>2. CASE GiveUp(FALSE) /\ UNCHANGED <<remoteVars, blind>>
    BY <2>2, GiveUpInv DEF ProvisioningInv
  <2> QED BY <2>1, <2>2 DEF Kill
<1> QED BY <1>1, <1>2

LEMMA ShowsInv ==
  ASSUME ProvisioningInv, ScriptInv, NEW x \in Things, Shows(x)
  PROVE  ProvisioningInv' /\ ScriptInv'
<1>1. Appear(x) /\ UNCHANGED <<cmd, todo, doing, safe, made>>
  BY DEF Shows, Appear, scriptVars
<1>2. MayRetry => MayRetry'
  <2>1. \A y \in Things : seen'[y] = IF y = x THEN made[x] ELSE seen[y]
    BY <1>1 DEF Appear, ProvisioningInv
  <2> QED BY <1>1, <2>1 DEF MayRetry
<1> QED BY <1>1, <1>2, AppearInv DEF ScriptInv

(* Provisioning begins only when the operator may retry, and goes on alone. *)
LEMMA ProvisionInv ==
  ASSUME ProvisioningInv, ScriptInv, Provision
  PROVE  ProvisioningInv' /\ ScriptInv'
<1> DEFINE S == IF config = None THEN Things ELSE {}
<1>1. cmd = "setup" /\ Head(todo)[1] = "provision"
  BY DEF Provision, At
<1>2. CASE phase = "enter" /\ doing = "none" /\ BeginProvisioning(S) /\ UNCHANGED scriptVars
  <2>1. ProvisioningInv'
    BY <1>1, <1>2, BeginInv DEF ScriptInv
  <2> QED BY <1>2, <2>1 DEF ScriptInv, scriptVars, BeginProvisioning
<1>3. CASE Provisioned /\ EndProvisioning /\ Enter(Tail(todo)) /\ UNCHANGED cmd
  <2>1. ProvisioningInv'
    BY <1>3 DEF Provisioned, EndProvisioning, remoteVars, ProvisioningInv,
                InDoubt, ReadingBack, Looking
  <2> QED BY <1>1, <1>3, <2>1, GoOnScript
<1>4. CASE (Reuse \/ Create \/ ReadBack) /\ UNCHANGED scriptVars
  <2>1. ProvisioningInv'
    <3>1. CASE Create
      <4>1. made \in [Things -> Nat]
        BY DEF ProvisioningInv
      <4> QED BY <3>1, <4>1, CreateInv DEF Create
    <3> QED BY <1>4, <3>1, ReuseInv, ReadBackInv
  <2>2. doing' # "none"
    BY <1>4 DEF Reuse, Create, ReadBack, Ensured
  <2> QED BY <1>4, <2>1, <2>2 DEF ScriptInv, scriptVars
<1>5. ASSUME NEW done \in BOOLEAN, CreateUncertain(done), UNCHANGED scriptVars
      PROVE  ProvisioningInv' /\ ScriptInv'
  <2> DEFINE k == IF done THEN 1 ELSE 0
  <2>1. k \in {0, 1} /\ made' = [made EXCEPT ![Current] = @ + k]
    BY <1>5 DEF CreateUncertain
  <2> HIDE DEF k
  <2>2. ProvisioningInv'
    BY <1>5, <2>1, CreateInv DEF CreateUncertain
  <2> QED BY <1>5, <2>2 DEF CreateUncertain, ScriptInv, scriptVars
<1>6. CASE ProvisioningFails /\ StepFails
  BY <1>6, FailsInv, FailsScript
<1> QED
  BY <1>2, <1>3, <1>4, <1>5, <1>6 DEF Provision, ProvisioningFails

OperationsInv == ProvisioningInv /\ ScriptInv

THEOREM OperationsStep ==
  OperationsInv /\ [LifecycleNext]_lifecycleVars => OperationsInv'
<1> SUFFICES ASSUME OperationsInv, [LifecycleNext]_lifecycleVars PROVE OperationsInv'
  OBVIOUS
<1> USE DEF OperationsInv
<1>1. CASE Provision
  BY <1>1, ProvisionInv
<1>2. CASE Step /\ ~Provision
  BY <1>2, StepInv, ScriptStepInv, QuietProvisioning
<1>3. CASE Kill
  BY <1>3, KillInv
<1>4. CASE Failure /\ ~Kill
  BY <1>4, FailureInv, ScriptStepInv, QuietProvisioning
<1>5. CASE Command
  BY <1>5, CommandInv, QuietProvisioning
<1>6. ASSUME NEW x \in Things, Shows(x) PROVE OperationsInv'
  BY <1>6, ShowsInv
<1>7. CASE Background /\ ~\E x \in Things : Shows(x)
  BY <1>7, BackgroundInv, ScriptStepInv, QuietProvisioning
<1>8. CASE UNCHANGED lifecycleVars
  BY <1>8, SameScript, QuietProvisioning DEF lifecycleVars, scriptVars
<1> QED
  BY <1>1, <1>2, <1>3, <1>4, <1>5, <1>6, <1>7, <1>8 DEF LifecycleNext, Step

(* Setup creates no resource twice, but for records that no setup could     *)
(* read back, for any resources in any order, any configurations, roles and *)
(* versions, and any number of commands, failures and kills.                *)
THEOREM NoSecondResourceHolds == AtRestSpec => []NoSecondResource
<1>1. ProvisioningInit /\ cmd = "none" => OperationsInv
  BY ProvisioningInitInv DEF OperationsInv, ScriptInv
<1>2. OperationsInv => NoSecondResource
  BY InvNoSecond DEF OperationsInv
<1> QED
  BY <1>1, <1>2, OperationsStep, PTL DEF AtRestSpec

=============================================================================
