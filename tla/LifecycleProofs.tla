--------------------------- MODULE LifecycleProofs ---------------------------
(***************************************************************************)
(* Proofs about the product's commands and the place they leave: what is   *)
(* in force while processing is on, the jobs and their definitions, and    *)
(* what a setup that fails restores.                                       *)
(***************************************************************************)
EXTENDS OperationsProofs, WellFoundedInduction, FiniteSetTheorems

(* A place where no command is at work: what the commands read of it fits   *)
(* together.                                                                *)
SoundPlace ==
  /\ LifecycleTypeOK /\ Finished
  /\ JobsHaveDefinitions /\ LiveIsVerified
  /\ root # "ready" => config = None

SoundSpec == SoundPlace /\ AtRestSpec

-----------------------------------------------------------------------------
(* The scripts: the steps ahead are the end of a script.                    *)

Now == Head(todo)[1]

AnyStep == Steps \X SUBSET Roles

Pairs(script) == {<<script[i], script[i + 1]>> : i \in 1..(Len(script) - 1)}

EndOf(s, script) ==
  /\ s # <<>> /\ s[Len(s)] = script[Len(script)]
  /\ \A i \in 1..(Len(s) - 1) : <<s[i], s[i + 1]>> \in Pairs(script)

On(script) == EndOf(todo, script)

(* The steps of a switch, and which follows which.                          *)
RolesOf(S) == {<<"stop", {r}>> : r \in S} \cup {<<"start", {r}>> : r \in S}

SwitchSteps ==
  RolesOf(note.loaded) \cup
    CASE mood = "forward" -> {Do("vet"), Do("point"), <<"healthy", note.loaded>>}
      [] mood = "recover" -> {Do("unpoint"), <<"healthy", note.loaded>>}
      [] OTHER -> {}

SwitchPair(x, y) ==
  \/ x = Do("vet") /\ y = Do("point")
  \/ x[1] = "stop" /\ y = <<"start", x[2]>>
  \/ x[1] \in {"point", "unpoint", "start"} /\ y[1] \in {"stop", "healthy"}

SwitchChain(s, X) ==
  /\ \A i \in 1..Len(s) : s[i] \in X
  /\ \A i \in 1..(Len(s) - 1) : SwitchPair(s[i], s[i + 1])

OnSwitch ==
  /\ SwitchChain(todo, SwitchSteps)
  /\ mood = "forward" =>
       todo[Len(todo)] = IF note.loaded = {} THEN Do("point") ELSE <<"healthy", note.loaded>>
  /\ mood = "recover" => todo[Len(todo)] = <<"healthy", note.loaded>>

OtherScripts(command) ==
  CASE command = "init" -> {<<Do("init")>>}
    [] command = "config update" -> {<<Do("config")>>}
    [] command = "service" -> ServiceScripts
    [] command = "enable" -> {<<Do("doctor"), All("healthy"), Do("resume")>>}
    [] command = "freeze" -> {<<Do("freeze")>>}
    [] OTHER -> {<<All("stop"), All("unplists"), Do("remove")>>}

ScriptOK ==
  /\ cmd = "none" <=> Finished
  /\ todo \in Seq(AnyStep) /\ (todo = <<>> <=> Finished)
  /\ doing # "none" => At("provision")
  /\ cmd \in {"setup", "configure", "config update"} => goal \in Configs
  /\ cmd = "switch" => goal \in Versions
  /\ note = None => cmd \in {"none", "setup", "init"}
  /\ cmd = "setup" /\ mood = "forward" => On(SetupScript(note # None))
  /\ cmd = "setup" /\ mood = "recover" /\ note = None => On(FreshRecovery)
  /\ cmd = "setup" /\ mood = "recover" /\ note # None => On(SetupRecovery)
  /\ cmd = "setup" /\ mood = "broken" => note = None /\ todo = <<Do("clear")>>
  /\ cmd = "configure" /\ mood = "forward" => On(<<Do("packs"), Do("config")>>)
  /\ cmd = "configure" /\ mood # "forward" => On(<<Do("unpacks"), Do("unconfig")>>)
  /\ cmd = "switch" => OnSwitch
  /\ cmd \notin {"none", "setup", "configure", "switch"} =>
       mood = "forward" /\ \E script \in OtherScripts(cmd) : On(script)

-----------------------------------------------------------------------------
(* The place while a command works on it.                                   *)

Live == <<config, packs, active>> \in vetted

NoteOK ==
  /\ root = "ready" /\ note \in Place /\ note.active \in Versions
  /\ note.frozen \/ <<note.config, note.packs, note.active>> \in vetted

SetupPlace ==
  /\ note # None => active = note.active /\ previous = note.previous
  /\ note = None => (root = "ready") = (Now \notin {"provision", "init"})
  /\ mood = "forward" =>
       /\ Now \in {"provision", "note", "init", "freeze", "stop", "packs"} =>
            IF note = None THEN config = None
            ELSE config = note.config /\ packs = note.packs
       /\ Now \in {"stop", "packs", "config", "doctor", "plists", "start", "healthy",
                   "resume"} => frozen
       /\ Now \in {"config", "doctor", "plists", "start", "healthy", "resume", "final"} =>
            packs = goal /\ (FoundTrusted => Trusted(goal, goal))
       /\ Now \in {"doctor", "plists", "start", "healthy", "resume", "final"} =>
            config = goal
       /\ Now \in {"plists", "start", "healthy", "resume"} => Live
  /\ mood = "recover" /\ note # None =>
       /\ Now # "freeze" => frozen
       /\ Now \in {"unconfig", "plists", "start", "thaw"} => packs = note.packs
       /\ Now \in {"plists", "start", "thaw"} => config = note.config

ConfigurePlace ==
  /\ frozen /\ note.config = None
  /\ mood = "forward" => config = None
  /\ mood = "forward" /\ Now = "config" => packs = goal /\ Trusted(goal, goal)

SwitchPlace ==
  /\ frozen = note.frozen
  /\ mood = "forward" /\ Now = "point" => frozen \/ <<config, packs, goal>> \in vetted

PlaceOK ==
  /\ LiveIsVerified
  /\ root # "ready" => config = None
  /\ cmd # "none" /\ note # None => NoteOK
  /\ cmd = "setup" => SetupPlace
  /\ cmd = "configure" => ConfigurePlace
  /\ cmd = "config update" => frozen /\ (goal \in Allows => config \in Allows)
  /\ cmd = "init" => root # "ready"
  /\ cmd = "enable" /\ Now \in {"healthy", "resume"} => Live
  /\ cmd = "switch" => SwitchPlace
  /\ cmd \in {"config update", "service", "enable", "freeze", "switch", "uninstall"} =>
       config = note.config /\ packs = note.packs

-----------------------------------------------------------------------------
(* The jobs while a command works on them.                                  *)

NoneLeaving == \A r \in Roles : job[r] # "leaving"

RestoredJobs ==
  /\ Now = "unplists" /\ phase # "enter" => plist \subseteq left
  /\ note = None /\ Now = "clear" => plist = {} /\ LoadedRoles = {}
  /\ note # None =>
       /\ Now \in {"unpacks", "unconfig", "plists"} => LoadedRoles = {}
       /\ Now \in {"unpacks", "unconfig"} \/ (Now = "plists" /\ phase = "enter") => plist = {}
       /\ Now = "plists" /\ phase # "enter" =>
            left \subseteq note.installed /\ plist = note.installed \ left
       /\ Now \in {"start", "thaw"} => plist = note.installed /\ NoneLeaving
       /\ Now = "start" => LoadedRoles \subseteq note.loaded
       /\ Now = "start" /\ phase = "enter" => LoadedRoles = {}
       /\ Now = "start" /\ phase # "enter" =>
            left \subseteq note.loaded /\ note.loaded \ left \subseteq LoadedRoles
       /\ Now = "thaw" => LoadedRoles = note.loaded

JobsOK ==
  /\ JobsHaveDefinitions
  /\ At("unplists") => LoadedRoles = {}
  /\ At("stop") /\ Those = Roles /\ phase # "enter" => LoadedRoles \subseteq left
  /\ cmd = "setup" /\ mood = "recover" => RestoredJobs

-----------------------------------------------------------------------------
(* Roles in their order, and sequences.                                     *)

LEMMA FirstRoleIn ==
  ASSUME NEW S \in SUBSET Roles, S # {} PROVE FirstRole(S) \in S
<1> DEFINE R == {RoleRank[r] : r \in S}
           Less == OpToRel(<, Nat)
<1>1. R \subseteq Nat /\ R # {}
  BY RolesAssumption
<1>2. PICK n \in R : \A m \in R : ~(<<m, n>> \in Less)
  BY <1>1, NatLessThanWellFounded, WFMin
<1>3. \A m \in R : n <= m
  <2> SUFFICES ASSUME NEW m \in R, m < n PROVE FALSE
    BY <1>1
  <2>1. <<m, n>> \in Nat \X Nat
    BY <1>1
  <2> QED BY <1>2, <2>1 DEF OpToRel
<1>4. PICK r \in S : RoleRank[r] = n
  BY DEF R
<1>5. \A s \in S : RoleRank[r] <= RoleRank[s]
  BY <1>3, <1>4
<1> QED BY <1>5 DEF FirstRole

LEMMA SeqFacts ==
  ASSUME NEW X, NEW s \in Seq(X), s # <<>>
  PROVE  /\ Len(s) \in Nat /\ Len(s) >= 1
         /\ Head(s) = s[1] /\ \A i \in 1..Len(s) : s[i] \in X
         /\ Tail(s) \in Seq(X) /\ Len(Tail(s)) = Len(s) - 1
         /\ \A i \in 1..(Len(s) - 1) : Tail(s)[i] = s[i + 1]
         /\ Len(s) # 1 => Tail(s) # <<>> /\ Head(Tail(s)) = s[2]
<1>1. Len(s) \in Nat /\ Len(s) >= 1
  OBVIOUS
<1>2. Head(s) = s[1] /\ \A i \in 1..Len(s) : s[i] \in X
  OBVIOUS
<1>3. Tail(s) \in Seq(X) /\ Len(Tail(s)) = Len(s) - 1
  OBVIOUS
<1>4. \A i \in 1..(Len(s) - 1) : Tail(s)[i] = s[i + 1]
  BY <1>3
<1>5. ASSUME Len(s) # 1 PROVE Tail(s) # <<>> /\ Head(Tail(s)) = s[2]
  <2> DEFINE t == Tail(s)
             n == Len(s)
  <2>1. t \in Seq(X) /\ Len(t) = n - 1 /\ n \in Nat /\ n >= 2
    BY <1>1, <1>3, <1>5
  <2>2. \A i \in 1..(n - 1) : t[i] = s[i + 1]
    BY <1>4
  <2>3. Len(<<>>) = 0
    OBVIOUS
  <2> HIDE DEF t, n
  <2>4. Len(t) # 0
    BY <2>1
  <2>5. t # <<>>
    BY <2>3, <2>4, Zenon
  <2>6. Head(t) = t[1]
    BY <2>1, <2>5
  <2>7. 1 \in 1..(n - 1)
    BY <2>1
  <2>8. t[1] = s[1 + 1]
    BY <2>2, <2>7
  <2> QED BY <2>5, <2>6, <2>8 DEF t
<1> QED BY <1>1, <1>2, <1>3, <1>4, <1>5

LEMMA EndOfTail ==
  ASSUME NEW X, NEW s \in Seq(X), NEW script, EndOf(s, script)
  PROVE  /\ Len(s) # 1 => /\ EndOf(Tail(s), script)
                          /\ <<Head(s), Head(Tail(s))>> \in Pairs(script)
         /\ Len(s) = 1 => Head(s) = script[Len(script)]
<1>1. s # <<>> /\ s[Len(s)] = script[Len(script)]
  BY DEF EndOf
<1>2. Len(s) = 1 => Head(s) = script[Len(script)]
  BY <1>1, SeqFacts
<1>3. ASSUME Len(s) # 1
      PROVE  EndOf(Tail(s), script) /\ <<Head(s), Head(Tail(s))>> \in Pairs(script)
  <2> DEFINE n == Len(s)
             t == Tail(s)
  <2>1. n \in Nat /\ n >= 2 /\ Len(t) = n - 1 /\ t # <<>>
    BY <1>1, <1>3, SeqFacts
  <2>2. \A i \in 1..(n - 1) : t[i] = s[i + 1]
    BY <1>1, SeqFacts
  <2>3. \A i \in 1..(n - 1) : <<s[i], s[i + 1]>> \in Pairs(script)
    BY DEF EndOf
  <2>4. Head(s) = s[1] /\ Head(t) = s[2]
    BY <1>1, <1>3, SeqFacts
  <2>5. s[n] = script[Len(script)]
    BY <1>1
  <2> HIDE DEF n, t
  <2>6. t[Len(t)] = script[Len(script)]
    BY <2>1, <2>2, <2>5
  <2>7. \A i \in 1..(Len(t) - 1) : <<t[i], t[i + 1]>> \in Pairs(script)
    <3> SUFFICES ASSUME NEW i \in 1..(Len(t) - 1)
                 PROVE  <<t[i], t[i + 1]>> \in Pairs(script)
      OBVIOUS
    <3>1. i \in 1..(n - 1) /\ i + 1 \in 1..(n - 1)
      BY <2>1
    <3>2. t[i] = s[i + 1] /\ t[i + 1] = s[(i + 1) + 1]
      BY <2>2, <3>1
    <3>3. <<s[i + 1], s[(i + 1) + 1]>> \in Pairs(script)
      BY <2>3, <3>1
    <3> QED BY <3>2, <3>3
  <2>8. EndOf(t, script)
    BY <2>1, <2>6, <2>7 DEF EndOf
  <2>9. <<Head(s), Head(t)>> \in Pairs(script)
    <3>1. 1 \in 1..(n - 1)
      BY <2>1
    <3>2. <<s[1], s[1 + 1]>> \in Pairs(script)
      BY <2>3, <3>1
    <3> QED BY <2>4, <3>2
  <2> QED BY <2>8, <2>9 DEF t
<1> QED BY <1>2, <1>3

LEMMA EndOfSelf ==
  ASSUME NEW X, NEW script \in Seq(X), script # <<>> PROVE EndOf(script, script)
  BY DEF EndOf, Pairs

-----------------------------------------------------------------------------
(* The scripts, by the names of their steps: which follows which.           *)

NamesOf(script) == {<<p[1][1], p[2][1]>> : p \in Pairs(script)}

LEMMA NamesIn ==
  ASSUME NEW script, NEW P,
         \A i \in 1..(Len(script) - 1) : <<script[i][1], script[i + 1][1]>> \in P
  PROVE  NamesOf(script) \subseteq P
<1> SUFFICES ASSUME NEW q \in Pairs(script) PROVE <<q[1][1], q[2][1]>> \in P
  BY DEF NamesOf
<1>1. PICK i \in 1..(Len(script) - 1) : q = <<script[i], script[i + 1]>>
  BY DEF Pairs
<1>2. q[1] = script[i] /\ q[2] = script[i + 1]
  BY <1>1
<1> QED BY <1>2

Second(exists) == IF exists THEN "note" ELSE "init"

SetupPairs(exists) ==
  {<<"provision", Second(exists)>>, <<Second(exists), "freeze">>, <<"freeze", "stop">>,
   <<"stop", "packs">>, <<"packs", "config">>, <<"config", "doctor">>,
   <<"doctor", "plists">>, <<"plists", "start">>, <<"start", "healthy">>,
   <<"healthy", "resume">>, <<"resume", "final">>}

LEMMA SetupNames ==
  ASSUME NEW exists \in BOOLEAN
  PROVE  /\ SetupScript(exists) \in Seq(AnyStep)
         /\ SetupScript(exists) # <<>>
         /\ Len(SetupScript(exists)) = 12 /\ SetupScript(exists)[12] = Do("final")
         /\ Head(SetupScript(exists))[1] = "provision"
         /\ NamesOf(SetupScript(exists)) \subseteq SetupPairs(exists)
<1> DEFINE script == SetupScript(exists)
<1>1. script \in Seq(AnyStep) /\ script # <<>> /\ Len(script) = 12
  BY DEF script, SetupScript, Do, All, Steps, AnyStep
<1>2. script[12] = Do("final") /\ Head(script)[1] = "provision"
  BY DEF script, SetupScript, Do
<1> DEFINE P == SetupPairs(exists)
<1>3. ASSUME NEW i \in 1..11
      PROVE  <<script[i][1], script[i + 1][1]>> \in P
  <2> i \in {1, 2, 3, 4, 5, 6, 7, 8, 9, 10, 11}
    OBVIOUS
  <2> QED BY DEF script, SetupScript, Do, All, SetupPairs, Second
<1> HIDE DEF script, P
<1>4. Len(script) - 1 = 11
  BY <1>1
<1>5. NamesOf(script) \subseteq P
  BY <1>3, <1>4, NamesIn
<1> QED BY <1>1, <1>2, <1>5 DEF script, P

LEMMA FreshNames ==
  /\ FreshRecovery \in Seq(AnyStep) /\ FreshRecovery # <<>>
  /\ Len(FreshRecovery) = 3 /\ FreshRecovery[3] = Do("clear")
  /\ Pairs(FreshRecovery) =
       {<<All("stop"), All("unplists")>>, <<All("unplists"), Do("clear")>>}
  BY DEF FreshRecovery, Pairs, Do, All, Steps, AnyStep

LEMMA SetupRecoveryNames ==
  ASSUME note \in Place
  PROVE  /\ SetupRecovery \in Seq(AnyStep) /\ SetupRecovery # <<>>
         /\ Len(SetupRecovery) = 8 /\ SetupRecovery[8] = Do("thaw")
         /\ Pairs(SetupRecovery) \subseteq
              {<<Do("freeze"), All("stop")>>, <<All("stop"), All("unplists")>>,
               <<All("unplists"), Do("unpacks")>>, <<Do("unpacks"), Do("unconfig")>>,
               <<Do("unconfig"), <<"plists", note.installed>>>>,
               <<<<"plists", note.installed>>, <<"start", note.loaded>>>>,
               <<<<"start", note.loaded>>, Do("thaw")>>}
<1>1. SetupRecovery \in Seq(AnyStep) /\ SetupRecovery # <<>>
  BY DEF SetupRecovery, Do, All, Steps, AnyStep, Place
<1>2. Len(SetupRecovery) = 8 /\ SetupRecovery[8] = Do("thaw")
  BY DEF SetupRecovery
<1>3. ASSUME NEW i \in 1..7
      PROVE  <<SetupRecovery[i], SetupRecovery[i + 1]>> \in
              {<<Do("freeze"), All("stop")>>, <<All("stop"), All("unplists")>>,
               <<All("unplists"), Do("unpacks")>>, <<Do("unpacks"), Do("unconfig")>>,
               <<Do("unconfig"), <<"plists", note.installed>>>>,
               <<<<"plists", note.installed>>, <<"start", note.loaded>>>>,
               <<<<"start", note.loaded>>, Do("thaw")>>}
  <2> i \in {1, 2, 3, 4, 5, 6, 7}
    OBVIOUS
  <2> QED BY DEF SetupRecovery
<1>4. Len(SetupRecovery) - 1 = 7
  BY <1>2
<1> QED BY <1>1, <1>2, <1>3, <1>4 DEF Pairs

LEMMA ConfigureNames ==
  ASSUME NEW a \in Steps, NEW b \in Steps
  PROVE  LET script == <<Do(a), Do(b)>>
         IN  /\ script \in Seq(AnyStep) /\ script # <<>>
             /\ Len(script) = 2 /\ script[2] = Do(b)
             /\ Pairs(script) = {<<Do(a), Do(b)>>}
  BY DEF Do, Pairs, AnyStep

LEMMA OneStepNames ==
  ASSUME NEW a \in Steps
  PROVE  LET script == <<Do(a)>>
         IN  /\ script \in Seq(AnyStep) /\ script # <<>>
             /\ Len(script) = 1 /\ script[1] = Do(a)
             /\ Pairs(script) = {}
  BY DEF Do, Pairs, AnyStep

(* The other scripts.                                                       *)
LEMMA OtherNames ==
  ASSUME NEW command, NEW script \in OtherScripts(command)
  PROVE  /\ script \in Seq(AnyStep) /\ script # <<>>
         /\ command = "init" => script[Len(script)] = Do("init") /\ NamesOf(script) = {}
         /\ command = "config update" =>
              script[Len(script)] = Do("config") /\ NamesOf(script) = {}
         /\ command = "freeze" => script[Len(script)] = Do("freeze") /\ NamesOf(script) = {}
         /\ command = "enable" =>
              /\ script[Len(script)] = Do("resume")
              /\ NamesOf(script) = {<<"doctor", "healthy">>, <<"healthy", "resume">>}
         /\ command = "service" =>
              /\ script[Len(script)] \in {All("stop"), All("start"), All("plists"),
                                           All("unplists")}
              /\ Pairs(script) \subseteq
                  {<<Do("doctor"), All("plists")>>, <<All("plists"), All("start")>>,
                   <<Do("doctor"), All("start")>>, <<Do("doctor"), All("stop")>>,
                   <<All("stop"), All("start")>>, <<All("stop"), All("unplists")>>}
         /\ command = "uninstall" =>
              /\ script[Len(script)] = Do("remove")
              /\ Pairs(script) =
                  {<<All("stop"), All("unplists")>>, <<All("unplists"), Do("remove")>>}
<1>1. CASE command \in {"init", "config update", "freeze"}
  <2>1. PICK a \in {"init", "config", "freeze"} :
          /\ script = <<Do(a)>>
          /\ a = IF command = "config update" THEN "config" ELSE command
    BY <1>1 DEF OtherScripts
  <2>2. a \in Steps
    BY DEF Steps
  <2> QED BY <1>1, <2>1, <2>2, OneStepNames DEF NamesOf
<1>2. CASE command = "enable"
  <2>1. script = <<Do("doctor"), All("healthy"), Do("resume")>>
    BY <1>2 DEF OtherScripts
  <2>2. script \in Seq(AnyStep) /\ script # <<>> /\ Len(script) = 3
    BY <2>1 DEF Do, All, Steps, AnyStep
  <2>3. script[3] = Do("resume")
    BY <2>1
  <2>4. Pairs(script) = {<<Do("doctor"), All("healthy")>>, <<All("healthy"), Do("resume")>>}
    BY <2>1, <2>2 DEF Pairs
  <2>5. NamesOf(script) = {<<"doctor", "healthy">>, <<"healthy", "resume">>}
    BY <2>4 DEF NamesOf, Do, All
  <2> QED BY <1>2, <2>2, <2>3, <2>5
<1>3. CASE command = "service"
  <2> DEFINE P == {<<Do("doctor"), All("plists")>>, <<All("plists"), All("start")>>,
                   <<Do("doctor"), All("start")>>, <<Do("doctor"), All("stop")>>,
                   <<All("stop"), All("start")>>, <<All("stop"), All("unplists")>>}
  <2>1. script \in ServiceScripts
    BY <1>3 DEF OtherScripts
  <2>2. /\ script \in Seq(AnyStep) /\ script # <<>>
        /\ script[Len(script)] \in {All("stop"), All("start"), All("plists"),
                                    All("unplists")}
        /\ Pairs(script) \subseteq P
    <3>1. CASE script = <<Do("doctor"), All("plists")>>
      <4>1. script \in Seq(AnyStep) /\ script # <<>> /\ Len(script) = 2
        BY <3>1 DEF Do, All, Steps, AnyStep
      <4>2. script[2] = All("plists")
        BY <3>1
      <4>3. Pairs(script) \subseteq P
        BY <3>1, <4>1 DEF Pairs
      <4> QED BY <4>1, <4>2, <4>3
    <3>2. CASE script = <<Do("doctor"), All("plists"), All("start")>>
      <4>1. script \in Seq(AnyStep) /\ script # <<>> /\ Len(script) = 3
        BY <3>2 DEF Do, All, Steps, AnyStep
      <4>2. script[3] = All("start")
        BY <3>2
      <4>3. Pairs(script) \subseteq P
        BY <3>2, <4>1 DEF Pairs
      <4> QED BY <4>1, <4>2, <4>3
    <3>3. CASE script = <<Do("doctor"), All("start")>>
      <4>1. script \in Seq(AnyStep) /\ script # <<>> /\ Len(script) = 2
        BY <3>3 DEF Do, All, Steps, AnyStep
      <4>2. script[2] = All("start")
        BY <3>3
      <4>3. Pairs(script) \subseteq P
        BY <3>3, <4>1 DEF Pairs
      <4> QED BY <4>1, <4>2, <4>3
    <3>4. CASE script = <<All("stop")>>
      <4>1. script \in Seq(AnyStep) /\ script # <<>> /\ Len(script) = 1
        BY <3>4 DEF Do, All, Steps, AnyStep
      <4>2. script[1] = All("stop")
        BY <3>4
      <4>3. Pairs(script) \subseteq P
        BY <3>4, <4>1 DEF Pairs
      <4> QED BY <4>1, <4>2, <4>3
    <3>5. CASE script = <<Do("doctor"), All("stop"), All("start")>>
      <4>1. script \in Seq(AnyStep) /\ script # <<>> /\ Len(script) = 3
        BY <3>5 DEF Do, All, Steps, AnyStep
      <4>2. script[3] = All("start")
        BY <3>5
      <4>3. Pairs(script) \subseteq P
        BY <3>5, <4>1 DEF Pairs
      <4> QED BY <4>1, <4>2, <4>3
    <3>6. CASE script = <<All("stop"), All("unplists")>>
      <4>1. script \in Seq(AnyStep) /\ script # <<>> /\ Len(script) = 2
        BY <3>6 DEF Do, All, Steps, AnyStep
      <4>2. script[2] = All("unplists")
        BY <3>6
      <4>3. Pairs(script) \subseteq P
        BY <3>6, <4>1 DEF Pairs
      <4> QED BY <4>1, <4>2, <4>3
    <3> QED BY <2>1, <3>1, <3>2, <3>3, <3>4, <3>5, <3>6 DEF ServiceScripts
  <2> QED BY <1>3, <2>2
<1>4. CASE command \notin {"init", "config update", "freeze", "enable", "service"}
  <2>1. script = <<All("stop"), All("unplists"), Do("remove")>>
    BY <1>4 DEF OtherScripts
  <2>2. script \in Seq(AnyStep) /\ script # <<>> /\ Len(script) = 3
    BY <2>1 DEF Do, All, Steps, AnyStep
  <2>3. script[3] = Do("remove")
    BY <2>1
  <2>4. Pairs(script) =
          {<<All("stop"), All("unplists")>>, <<All("unplists"), Do("remove")>>}
    BY <2>1, <2>2 DEF Pairs
  <2> QED BY <1>4, <2>2, <2>3, <2>4
<1> QED BY <1>1, <1>2, <1>3, <1>4

-----------------------------------------------------------------------------
(* A switch stops and starts the roles in their order.                      *)

Upto(S, r) == {s \in S : RoleRank[s] <= RoleRank[r]}

LEMMA NthRole ==
  ASSUME NEW S \in SUBSET Roles, NEW i \in 1..Cardinality(S)
  PROVE  Nth(S, i) \in S /\ Cardinality(Upto(S, Nth(S, i))) = i
<1> DEFINE n == Cardinality(S)
           f == [r \in S |-> Cardinality(Upto(S, r))]
<1>1. IsFiniteSet(S) /\ n \in Nat
  BY RolesAssumption, FS_Subset, FS_CardinalityType
<1>2. ASSUME NEW r \in S
      PROVE  /\ IsFiniteSet(Upto(S, r)) /\ r \in Upto(S, r)
             /\ Cardinality(Upto(S, r)) \in 1..n
  <2>1. Upto(S, r) \in SUBSET S /\ r \in Upto(S, r)
    BY RolesAssumption DEF Upto
  <2>2. IsFiniteSet(Upto(S, r)) /\ Cardinality(Upto(S, r)) <= n
    BY <1>1, <2>1, FS_Subset
  <2>3. Cardinality(Upto(S, r)) \in Nat /\ Cardinality(Upto(S, r)) # 0
    BY <2>1, <2>2, FS_CardinalityType, FS_EmptySet
  <2> QED BY <1>1, <2>1, <2>2, <2>3
<1>3. ASSUME NEW r \in S, NEW q \in S, RoleRank[q] < RoleRank[r] PROVE f[q] # f[r]
  <2>1. Upto(S, q) \in SUBSET Upto(S, r) /\ r \notin Upto(S, q)
    BY <1>3, RolesAssumption DEF Upto
  <2>2. Cardinality(Upto(S, r)) # Cardinality(Upto(S, q))
    BY <1>2, <2>1, FS_Subset
  <2> QED BY <2>2
<1>4. f \in Injection(S, 1..n)
  <2>1. f \in [S -> 1..n]
    BY <1>2
  <2>2. ASSUME NEW r \in S, NEW q \in S, f[q] = f[r] PROVE q = r
    <3>1. RoleRank[q] \in Nat /\ RoleRank[r] \in Nat
      BY RolesAssumption
    <3>2. ~(RoleRank[q] < RoleRank[r]) /\ ~(RoleRank[r] < RoleRank[q])
      BY <1>3, <2>2
    <3>3. RoleRank[q] = RoleRank[r]
      BY <3>1, <3>2
    <3> QED BY <3>3, RolesAssumption
  <2> HIDE DEF f, n
  <2>3. DOMAIN f = S
    BY <2>1
  <2> QED BY <2>1, <2>2, <2>3 DEF Injection, IsInjective
<1>5. IsFiniteSet(1..n) /\ Cardinality(1..n) = n
  BY <1>1, FS_Interval
<1>6. f \in Surjection(S, 1..n)
  <2> HIDE DEF f
  <2> QED BY <1>4, <1>5, FS_Injection
<1>7. PICK r \in S : f[r] = i
  <2> HIDE DEF f
  <2> QED BY <1>6 DEF Surjection
<1>8. r \in S /\ Cardinality({s \in S : RoleRank[s] <= RoleRank[r]}) = i
  BY <1>7 DEF Upto
<1> QED BY <1>8 DEF Nth, Upto

LEMMA PerRoleSteps ==
  ASSUME NEW S \in SUBSET Roles
  PROVE  /\ Cardinality(S) \in Nat /\ (Cardinality(S) = 0 <=> S = {})
         /\ PerRole(S) \in Seq(AnyStep)
         /\ Len(PerRole(S)) = 2 * Cardinality(S)
         /\ \A k \in 1..Cardinality(S) :
              /\ PerRole(S)[2 * k - 1] = <<"stop", {Nth(S, k)}>>
              /\ PerRole(S)[2 * k] = <<"start", {Nth(S, k)}>>
<1> DEFINE n == Cardinality(S)
           m == 2 * n
           step(i) == <<IF i % 2 = 1 THEN "stop" ELSE "start", {Nth(S, (i + 1) \div 2)}>>
<1>1. n \in Nat /\ (n = 0 <=> S = {})
  BY RolesAssumption, FS_Subset, FS_CardinalityType, FS_EmptySet
<1>2. ASSUME NEW i \in 1..m PROVE step(i) \in AnyStep
  <2>1. (i + 1) \div 2 \in 1..n
    BY <1>1
  <2>2. Nth(S, (i + 1) \div 2) \in Roles
    BY <2>1, NthRole
  <2> QED BY <2>2 DEF Steps, AnyStep
<1>3. PerRole(S) = [i \in 1..m |-> step(i)]
  BY DEF PerRole
<1> HIDE DEF step
<1>4. PerRole(S) \in Seq(AnyStep) /\ Len(PerRole(S)) = m
  BY <1>1, <1>2, <1>3
<1>5. ASSUME NEW k \in 1..n
      PROVE  /\ PerRole(S)[2 * k - 1] = <<"stop", {Nth(S, k)}>>
             /\ PerRole(S)[2 * k] = <<"start", {Nth(S, k)}>>
  <2>1. 2 * k - 1 \in 1..m /\ 2 * k \in 1..m
    BY <1>1
  <2>2. (2 * k - 1) % 2 = 1 /\ ((2 * k - 1) + 1) \div 2 = k
    BY <1>1
  <2>3. (2 * k) % 2 # 1 /\ (2 * k + 1) \div 2 = k
    BY <1>1
  <2>4. step(2 * k - 1) = <<"stop", {Nth(S, k)}>> /\ step(2 * k) = <<"start", {Nth(S, k)}>>
    BY <2>2, <2>3 DEF step
  <2> QED BY <1>3, <2>1, <2>4
<1> QED BY <1>1, <1>4, <1>5

LEMMA ConcatOne ==
  ASSUME NEW X, NEW s \in Seq(X), NEW h \in X, NEW q, q = s \o <<h>>
  PROVE  /\ q \in Seq(X) /\ q # <<>> /\ Len(q) = Len(s) + 1
         /\ q[Len(s) + 1] = h /\ \A i \in 1..Len(s) : q[i] = s[i]
  OBVIOUS

(* The roles' steps with the last look behind them.                         *)
LEMMA PerRoleChain ==
  ASSUME NEW S \in SUBSET Roles, NEW h, h[1] = "healthy", h \in AnyStep
  PROVE  LET q == PerRole(S) \o <<h>>
         IN  /\ q \in Seq(AnyStep) /\ q # <<>>
             /\ q[Len(q)] = h /\ q[1][1] \in {"stop", "healthy"}
             /\ S # {} => q[1] = <<"stop", {Nth(S, 1)}>>
             /\ SwitchChain(q, RolesOf(S) \cup {h})
<1> DEFINE P == PerRole(S)
           n == Cardinality(S)
           m == 2 * n
           q == P \o <<h>>
           X == RolesOf(S) \cup {h}
<1>1. /\ n \in Nat /\ (n = 0 <=> S = {})
      /\ P \in Seq(AnyStep) /\ Len(P) = m
      /\ \A k \in 1..n : P[2 * k - 1] = <<"stop", {Nth(S, k)}>>
                        /\ P[2 * k] = <<"start", {Nth(S, k)}>>
  BY PerRoleSteps
<1>2. \A k \in 1..n : Nth(S, k) \in S
  BY NthRole
<1> HIDE DEF P, n
<1>q. q = P \o <<h>>
  OBVIOUS
<1> HIDE DEF q
<1>3. /\ q \in Seq(AnyStep) /\ q # <<>> /\ Len(q) = m + 1
      /\ q[m + 1] = h /\ \A i \in 1..m : q[i] = P[i]
  <2>1. /\ q \in Seq(AnyStep) /\ q # <<>> /\ Len(q) = Len(P) + 1
        /\ q[Len(P) + 1] = h /\ \A i \in 1..Len(P) : q[i] = P[i]
    <3>1. P \in Seq(AnyStep)
      BY <1>1
    <3> HIDE DEF m, X
    <3> QED BY ONLY h \in AnyStep, <3>1, <1>q, ConcatOne
  <2> QED BY <1>1, <2>1
<1>4. ASSUME NEW i \in 1..m
      PROVE  \E k \in 1..n : i = 2 * k - 1 \/ i = 2 * k
  <2> DEFINE j == i \div 2
  <2>1. j \in Int /\ (i = 2 * j \/ i = 2 * j + 1)
    OBVIOUS
  <2> HIDE DEF j
  <2>2. CASE i = 2 * j
    <3>1. j \in 1..n
      BY <1>1, <2>1, <2>2
    <3> QED BY <2>2, <3>1
  <2>3. CASE i = 2 * j + 1
    <3>1. j + 1 \in 1..n /\ i = 2 * (j + 1) - 1
      BY <1>1, <2>1, <2>3
    <3> QED BY <3>1
  <2> QED BY <2>1, <2>2, <2>3
<1>5. ASSUME NEW i \in 1..m
      PROVE  /\ q[i] \in RolesOf(S)
             /\ SwitchPair(q[i], q[i + 1])
  <2>1. PICK k \in 1..n : i = 2 * k - 1 \/ i = 2 * k
    BY <1>4
  <2>2. CASE i = 2 * k - 1
    <3>1. i + 1 = 2 * k /\ i + 1 \in 1..m
      BY <1>1, <2>2
    <3>2. q[i] = <<"stop", {Nth(S, k)}>> /\ q[i + 1] = <<"start", {Nth(S, k)}>>
      BY <1>1, <1>3, <2>2, <3>1
    <3> QED BY <1>2, <3>2 DEF RolesOf, SwitchPair
  <2>3. CASE i = 2 * k
    <3>1. q[i] = <<"start", {Nth(S, k)}>>
      BY <1>1, <1>3, <2>3
    <3>2. q[i + 1][1] \in {"stop", "healthy"}
      <4>1. CASE k = n
        <5>1. i + 1 = m + 1
          BY <2>3, <4>1
        <5> QED BY <1>3, <5>1
      <4>2. CASE k # n
        <5>1. k + 1 \in 1..n /\ i + 1 = 2 * (k + 1) - 1 /\ i + 1 \in 1..m
          BY <1>1, <2>3, <4>2
        <5>2. P[2 * (k + 1) - 1] = <<"stop", {Nth(S, k + 1)}>>
          BY <1>1, <5>1
        <5>3. q[i + 1] = P[i + 1]
          BY <1>3, <5>1
        <5> QED BY <5>1, <5>2, <5>3
      <4> QED BY <4>1, <4>2
    <3> QED BY <1>2, <3>1, <3>2 DEF RolesOf, SwitchPair
  <2> QED BY <2>1, <2>2, <2>3
<1>6. SwitchChain(q, X)
  <2>1. \A i \in 1..Len(q) : i \in 1..m \/ i = m + 1
    BY <1>1, <1>3
  <2>2. Len(q) - 1 = m
    BY <1>1, <1>3
  <2> QED BY <1>3, <1>5, <2>1, <2>2 DEF SwitchChain
<1>7. S # {} => q[1] = <<"stop", {Nth(S, 1)}>>
  <2> SUFFICES ASSUME S # {} PROVE q[1] = <<"stop", {Nth(S, 1)}>>
    OBVIOUS
  <2>1. 1 \in 1..n /\ 1 \in 1..m
    BY <1>1
  <2>2. P[2 * 1 - 1] = <<"stop", {Nth(S, 1)}>>
    BY <1>1, <2>1
  <2> QED BY <1>3, <2>1, <2>2
<1>8. S = {} => q[1] = h
  BY <1>1, <1>3
<1>9. q[1][1] \in {"stop", "healthy"}
  BY <1>7, <1>8
<1>10. q[Len(q)] = h
  BY <1>3
<1> QED BY <1>3, <1>6, <1>7, <1>9, <1>10 DEF q, P

(* A step in front of such a chain.                                         *)
LEMMA ChainCons ==
  ASSUME NEW q \in Seq(AnyStep), q # <<>>, NEW X, SwitchChain(q, X),
         NEW a \in AnyStep, SwitchPair(a, q[1])
  PROVE  LET p == <<a>> \o q
         IN  /\ p \in Seq(AnyStep) /\ p # <<>>
             /\ p[Len(p)] = q[Len(q)] /\ p[1] = a /\ p[2] = q[1]
             /\ SwitchChain(p, X \cup {a})
<1> DEFINE p == <<a>> \o q
           n == Len(q)
<1>1. n \in Nat /\ n >= 1
  BY SeqFacts
<1>2. /\ p \in Seq(AnyStep) /\ p # <<>> /\ Len(p) = n + 1
      /\ p[1] = a /\ \A i \in 1..n : p[i + 1] = q[i]
  BY <1>1
<1>3. /\ \A i \in 1..n : q[i] \in X
      /\ \A i \in 1..(n - 1) : SwitchPair(q[i], q[i + 1])
  BY DEF SwitchChain
<1> HIDE DEF p, n
<1>4. ASSUME NEW i \in 1..Len(p) PROVE p[i] \in X \cup {a}
  <2>1. CASE i = 1
    BY <1>2, <2>1
  <2>2. CASE i # 1
    <3>1. i - 1 \in 1..n /\ p[(i - 1) + 1] = q[i - 1]
      BY <1>1, <1>2, <2>2
    <3> QED BY <1>3, <3>1
  <2> QED BY <2>1, <2>2
<1>5. p[2] = q[1]
  <2>1. 1 \in 1..n
    BY <1>1
  <2>2. p[1 + 1] = q[1]
    BY <1>2, <2>1
  <2> QED BY <2>2
<1>6. ASSUME NEW i \in 1..(Len(p) - 1) PROVE SwitchPair(p[i], p[i + 1])
  <2>1. CASE i = 1
    BY <1>2, <1>5, <2>1
  <2>2. CASE i # 1
    <3>1. i - 1 \in 1..(n - 1) /\ i - 1 \in 1..n /\ i \in 1..n
      BY <1>1, <1>2, <2>2
    <3>2. p[(i - 1) + 1] = q[i - 1] /\ p[i + 1] = q[i]
      BY <1>2, <3>1
    <3>3. SwitchPair(q[i - 1], q[(i - 1) + 1])
      BY <1>3, <3>1
    <3> QED BY <3>1, <3>2, <3>3
  <2> QED BY <2>1, <2>2
<1>7. p[Len(p)] = q[n]
  BY <1>1, <1>2
<1> QED BY <1>2, <1>4, <1>5, <1>6, <1>7 DEF SwitchChain, p, n

LEMMA ChainWider ==
  ASSUME NEW q, NEW X, NEW Y, SwitchChain(q, X), X \subseteq Y
  PROVE  SwitchChain(q, Y)
  BY DEF SwitchChain

LEMMA SwitchScriptChain ==
  ASSUME NEW S \in SUBSET Roles
  PROVE  LET q == SwitchScript(S)
         IN  /\ q \in Seq(AnyStep) /\ q # <<>> /\ q[1] = Do("vet")
             /\ q[Len(q)] = IF S = {} THEN Do("point") ELSE <<"healthy", S>>
             /\ SwitchChain(q, RolesOf(S) \cup {Do("vet"), Do("point"), <<"healthy", S>>})
             /\ S # {} => q[2] = Do("point") /\ q[3] = <<"stop", {Nth(S, 1)}>>
<1> DEFINE q == SwitchScript(S)
           h == <<"healthy", S>>
           X == RolesOf(S) \cup {Do("vet"), Do("point"), h}
<1>1. /\ Do("vet") \in AnyStep /\ Do("point") \in AnyStep /\ h \in AnyStep
      /\ h[1] = "healthy"
  BY DEF AnyStep, Steps, Do
<1>2. CASE S = {}
  <2> DEFINE p == <<Do("vet"), Do("point")>>
  <2>1. p \in Seq(AnyStep) /\ p # <<>> /\ Len(p) = 2 /\ p[1] = Do("vet") /\ p[2] = Do("point")
    BY <1>1
  <2>2. q = p
    BY <1>2, <2>1 DEF SwitchScript
  <2>3. SwitchPair(Do("vet"), Do("point"))
    BY DEF SwitchPair
  <2> HIDE DEF p, q
  <2>4. \A i \in 1..Len(p) : p[i] \in X
    <3>1. \A i \in 1..Len(p) : i = 1 \/ i = 2
      BY <2>1
    <3> QED BY <2>1, <3>1
  <2>5. \A i \in 1..(Len(p) - 1) : SwitchPair(p[i], p[i + 1])
    <3>1. \A i \in 1..(Len(p) - 1) : i = 1 /\ i + 1 = 2
      BY <2>1
    <3> QED BY <2>1, <2>3, <3>1
  <2>6. SwitchChain(q, X)
    BY <2>2, <2>4, <2>5 DEF SwitchChain
  <2> QED BY <1>2, <2>1, <2>2, <2>6 DEF q
<1>3. CASE S # {}
  <2> DEFINE r == PerRole(S) \o <<h>>
             p == <<Do("point")>> \o r
             t == <<Do("vet")>> \o p
  <2>1. /\ r \in Seq(AnyStep) /\ r # <<>> /\ r[Len(r)] = h
        /\ r[1][1] \in {"stop", "healthy"} /\ r[1] = <<"stop", {Nth(S, 1)}>>
        /\ SwitchChain(r, RolesOf(S) \cup {h})
    BY <1>1, <1>3, PerRoleChain
  <2>2. q = <<Do("vet"), Do("point")>> \o r
    BY <1>3 DEF SwitchScript
  <2>3. SwitchPair(Do("point"), r[1])
    BY <2>1 DEF SwitchPair, Do
  <2> HIDE DEF r, h, q
  <2>4. /\ p \in Seq(AnyStep) /\ p # <<>> /\ p[Len(p)] = r[Len(r)] /\ p[1] = Do("point")
        /\ p[2] = r[1] /\ SwitchChain(p, (RolesOf(S) \cup {h}) \cup {Do("point")})
    BY <1>1, <2>1, <2>3, ChainCons
  <2>5. SwitchPair(Do("vet"), p[1])
    BY <2>4 DEF SwitchPair
  <2>6. t = <<Do("vet"), Do("point")>> \o r
    <3>1. t \in Seq(AnyStep) /\ <<Do("vet"), Do("point")>> \o r \in Seq(AnyStep)
      BY <1>1, <2>1
    <3> QED BY <1>1, <2>1, <3>1
  <2> HIDE DEF p
  <2>7. /\ t \in Seq(AnyStep) /\ t # <<>> /\ t[Len(t)] = p[Len(p)] /\ t[1] = Do("vet")
        /\ t[2] = p[1]
        /\ SwitchChain(t, ((RolesOf(S) \cup {h}) \cup {Do("point")}) \cup {Do("vet")})
    BY <1>1, <2>4, <2>5, ChainCons
  <2>8. t[3] = r[1]
    BY <1>1, <2>1, <2>6
  <2> HIDE DEF t
  <2>9. SwitchChain(t, X)
    <3>1. ((RolesOf(S) \cup {h}) \cup {Do("point")}) \cup {Do("vet")} \subseteq X
      OBVIOUS
    <3> QED BY <2>7, <3>1, ChainWider
  <2> HIDE DEF X
  <2>10. q = t
    BY <2>2, <2>6
  <2>11. /\ q \in Seq(AnyStep) /\ q # <<>> /\ q[1] = Do("vet") /\ q[2] = Do("point")
         /\ q[Len(q)] = h /\ q[3] = <<"stop", {Nth(S, 1)}>> /\ SwitchChain(q, X)
    BY <2>1, <2>4, <2>7, <2>8, <2>9, <2>10
  <2> QED BY <1>3, <2>11 DEF q, h, X
<1> QED BY <1>2, <1>3

(* What a switch that fails goes on with, and what is left of that if a     *)
(* role's step fails.                                                       *)
LEMMA SwitchRecoveryChain ==
  ASSUME note \in Place
  PROVE  LET q == SwitchRecovery
             h == <<"healthy", note.loaded>>
         IN  /\ q \in Seq(AnyStep) /\ q # <<>> /\ q[Len(q)] = h
             /\ SwitchChain(q, RolesOf(note.loaded) \cup {Do("unpoint"), h})
             /\ Head(todo) # Do("point") => q[1] = Do("unpoint")
             /\ Head(todo) = Do("point") => q[1] = h
<1> DEFINE q == SwitchRecovery
           h == <<"healthy", note.loaded>>
           L == RolesOf(note.loaded)
           X == L \cup {Do("unpoint"), h}
<1>1. note.loaded \in SUBSET Roles
  BY DEF Place
<1>2. Do("unpoint") \in AnyStep /\ h \in AnyStep /\ h[1] = "healthy"
  BY <1>1 DEF AnyStep, Steps, Do
<1>3. CASE Head(todo) = Do("point")
  <2> DEFINE p == <<h>>
  <2>1. p \in Seq(AnyStep) /\ p # <<>> /\ Len(p) = 1 /\ p[1] = h
    BY <1>2
  <2>2. q = p
    BY <1>3, <1>2 DEF SwitchRecovery
  <2> HIDE DEF p, q
  <2>3. SwitchChain(q, X)
    <3>1. (\A i \in 1..Len(p) : i = 1) /\ \A i \in 1..(Len(p) - 1) : FALSE
      BY <2>1
    <3>2. p[1] \in X
      BY <2>1
    <3> HIDE DEF X, h
    <3> QED BY <2>2, <3>1, <3>2 DEF SwitchChain
  <2>4. q \in Seq(AnyStep) /\ q # <<>> /\ q[Len(q)] = h /\ q[1] = h
    BY <2>1, <2>2
  <2> HIDE DEF X, h
  <2> QED BY <1>3, <2>3, <2>4 DEF q, X, h
<1>4. CASE Head(todo) # Do("point")
  <2> DEFINE T == Touched
             P == PerRole(T)
             r == P \o <<h>>
             t == <<Do("unpoint")>> \o r
  <2>1. T \in SUBSET Roles /\ T \subseteq note.loaded
    BY <1>1 DEF Touched
  <2>2. q = (<<Do("unpoint")>> \o P) \o <<h>>
    BY <1>4 DEF SwitchRecovery
  <2>3. RolesOf(T) \cup {h} \subseteq L \cup {h}
    BY <2>1 DEF RolesOf
  <2>4. P \in Seq(AnyStep)
    BY <2>1, PerRoleSteps
  <2> HIDE DEF T
  <2>5. /\ r \in Seq(AnyStep) /\ r # <<>> /\ r[Len(r)] = h
        /\ r[1][1] \in {"stop", "healthy"} /\ SwitchChain(r, RolesOf(T) \cup {h})
    BY <1>2, <2>1, PerRoleChain
  <2> HIDE DEF P, h, q
  <2>6. q = t
    BY <1>2, <2>2, <2>4
  <2> HIDE DEF r
  <2>7. SwitchPair(Do("unpoint"), r[1])
    BY <2>5 DEF SwitchPair, Do
  <2>8. SwitchChain(r, L \cup {h})
    BY <2>3, <2>5, ChainWider
  <2>9. /\ t \in Seq(AnyStep) /\ t # <<>> /\ t[Len(t)] = r[Len(r)] /\ t[1] = Do("unpoint")
        /\ SwitchChain(t, (L \cup {h}) \cup {Do("unpoint")})
    BY <1>2, <2>5, <2>7, <2>8, ChainCons
  <2> HIDE DEF t, L
  <2>10. (L \cup {h}) \cup {Do("unpoint")} = X
    OBVIOUS
  <2>11. /\ q \in Seq(AnyStep) /\ q # <<>> /\ q[Len(q)] = h /\ q[1] = Do("unpoint")
         /\ SwitchChain(q, X)
    BY <2>5, <2>6, <2>9, <2>10
  <2> QED BY <1>4, <2>11 DEF q, h, L, X
<1> QED BY <1>3, <1>4

-----------------------------------------------------------------------------
(* The ways a command goes on.                                              *)

GoesOn ==
  /\ ~Finished /\ Len(todo) # 1 /\ todo' = Tail(todo)
  /\ UNCHANGED <<cmd, goal, mood, outcome>>
  /\ note' = note \/ (cmd = "setup" /\ mood = "forward" /\ note # None /\ note' # None)

LEMMA EndsOK ==
  ASSUME NEW result, result # "none", Finish(result), doing' = "none" PROVE ScriptOK'
<1>1. cmd' = "none" /\ todo' = <<>> /\ outcome' = result
  BY DEF Finish, Enter
<1>2. <<>> \in Seq(AnyStep)
  OBVIOUS
<1> QED BY <1>1, <1>2 DEF ScriptOK, Finished

LEMMA ScriptSameOK ==
  ASSUME ScriptOK, ScriptSame, doing' \in {"none", doing} \/ At("provision")
  PROVE  ScriptOK'
<1>1. UNCHANGED <<Finished, SwitchSteps, SetupRecovery>>
  BY DEF ScriptSame, Finished, SwitchSteps, SetupRecovery
<1>2. doing' # "none" => At("provision")'
  BY DEF ScriptOK, ScriptSame, At, Finished
<1>3. UNCHANGED OnSwitch
  BY <1>1 DEF ScriptSame, OnSwitch
<1> QED BY <1>1, <1>2, <1>3 DEF ScriptOK, ScriptSame, On

LEMMA ChainTail ==
  ASSUME NEW s \in Seq(AnyStep), s # <<>>, Len(s) # 1, NEW X, SwitchChain(s, X)
  PROVE  SwitchChain(Tail(s), X) /\ SwitchPair(Head(s), Head(Tail(s)))
<1> DEFINE t == Tail(s)
           n == Len(s)
<1>1. /\ n \in Nat /\ n >= 2 /\ Len(t) = n - 1
      /\ \A i \in 1..(n - 1) : t[i] = s[i + 1]
      /\ Head(s) = s[1] /\ Head(t) = s[2]
  BY SeqFacts
<1>2. /\ \A i \in 1..n : s[i] \in X
      /\ \A i \in 1..(n - 1) : SwitchPair(s[i], s[i + 1])
  BY DEF SwitchChain
<1> HIDE DEF t, n
<1>3. ASSUME NEW i \in 1..Len(t) PROVE t[i] \in X
  <2>1. i \in 1..(n - 1) /\ i + 1 \in 1..n
    BY <1>1
  <2> QED BY <1>1, <1>2, <2>1
<1>4. ASSUME NEW i \in 1..(Len(t) - 1) PROVE SwitchPair(t[i], t[i + 1])
  <2>1. i \in 1..(n - 1) /\ i + 1 \in 1..(n - 1)
    BY <1>1
  <2>2. t[i] = s[i + 1] /\ t[i + 1] = s[(i + 1) + 1]
    BY <1>1, <2>1
  <2>3. SwitchPair(s[i + 1], s[(i + 1) + 1])
    BY <1>2, <2>1
  <2> QED BY <2>2, <2>3
<1>5. SwitchPair(s[1], s[2])
  <2>1. 1 \in 1..(n - 1)
    BY <1>1
  <2>2. SwitchPair(s[1], s[1 + 1])
    BY <1>2, <2>1
  <2> QED BY <2>2
<1> QED BY <1>1, <1>3, <1>4, <1>5 DEF SwitchChain, t

LEMMA TailLast ==
  ASSUME NEW s \in Seq(AnyStep), s # <<>>, Len(s) # 1
  PROVE  Tail(s) \in Seq(AnyStep) /\ Tail(s) # <<>> /\ Tail(s)[Len(Tail(s))] = s[Len(s)]
<1> DEFINE t == Tail(s)
           n == Len(s)
<1>1. /\ n \in Nat /\ n >= 2 /\ Len(t) = n - 1 /\ t \in Seq(AnyStep) /\ t # <<>>
      /\ \A i \in 1..(n - 1) : t[i] = s[i + 1]
  BY SeqFacts
<1> HIDE DEF t, n
<1>2. n - 1 \in 1..(n - 1) /\ (n - 1) + 1 = n
  BY <1>1
<1>3. t[n - 1] = s[n]
  BY <1>1, <1>2
<1> QED BY <1>1, <1>3 DEF t, n

LEMMA GoesOnOK ==
  ASSUME ScriptOK, GoesOn, doing' = "none" PROVE ScriptOK'
<1>1. todo \in Seq(AnyStep) /\ todo # <<>> /\ Len(todo) # 1 /\ todo' = Tail(todo)
  BY DEF ScriptOK, GoesOn
<1>2. todo' \in Seq(AnyStep) /\ todo' # <<>> /\ todo'[Len(todo')] = todo[Len(todo)]
  BY <1>1, TailLast
<1>3. \A script : EndOf(todo, script) => EndOf(todo', script)
  BY <1>1, EndOfTail
<1>4. UNCHANGED <<cmd, goal, mood, Finished>> /\ ~Finished
  BY DEF GoesOn, Finished
<1>5. (note' = None) = (note = None)
  BY DEF GoesOn
<1>6. cmd # "setup" \/ mood # "forward" => note' = note
  BY DEF GoesOn
<1>7. cmd = "setup" /\ mood = "forward" => On(SetupScript(note # None))'
  <2>1. (note # None)' = (note # None)
    BY <1>5
  <2> QED BY <1>3, <2>1 DEF ScriptOK, On
<1>8. cmd = "setup" /\ mood = "recover" => IF note = None THEN On(FreshRecovery)'
                                           ELSE On(SetupRecovery)'
  <2>1. cmd = "setup" /\ mood = "recover" => UNCHANGED <<SetupRecovery, FreshRecovery>>
    BY <1>6 DEF SetupRecovery, FreshRecovery
  <2> QED BY <1>3, <2>1 DEF ScriptOK, On
<1>9. ~(cmd = "setup" /\ mood = "broken")
  <2>1. Len(<<Do("clear")>>) = 1
    OBVIOUS
  <2> QED BY <1>1, <2>1 DEF ScriptOK
<1>10. cmd = "configure" => IF mood = "forward" THEN On(<<Do("packs"), Do("config")>>)'
                            ELSE On(<<Do("unpacks"), Do("unconfig")>>)'
  <2> DEFINE a == <<Do("packs"), Do("config")>>
             b == <<Do("unpacks"), Do("unconfig")>>
  <2>1. cmd = "configure" => IF mood = "forward" THEN EndOf(todo, a) ELSE EndOf(todo, b)
    BY DEF ScriptOK, On
  <2> HIDE DEF a, b
  <2>2. cmd = "configure" => IF mood = "forward" THEN EndOf(todo', a) ELSE EndOf(todo', b)
    BY <1>3, <2>1
  <2> QED BY <2>2 DEF On, a, b
<1>11. cmd = "switch" => OnSwitch'
  <2> SUFFICES ASSUME cmd = "switch" PROVE OnSwitch'
    OBVIOUS
  <2>1. UNCHANGED <<SwitchSteps, note>>
    BY <1>4, <1>6 DEF SwitchSteps
  <2>2. OnSwitch
    BY DEF ScriptOK
  <2>3. SwitchChain(todo', SwitchSteps)
    BY <1>1, <2>2, ChainTail DEF OnSwitch
  <2> QED BY <1>2, <1>4, <2>1, <2>2, <2>3 DEF OnSwitch
<1>12. ASSUME NEW script \in OtherScripts(cmd), On(script) PROVE On(script)'
  BY <1>3, <1>12 DEF On
<1> QED
  BY <1>2, <1>4, <1>5, <1>7, <1>8, <1>9, <1>10, <1>11, <1>12 DEF ScriptOK

(* What is left of a switch's recovery is stops and starts.                 *)
LEMMA SalvageChain ==
  ASSUME NEW s \in Seq(AnyStep), NEW S, NEW h, h[1] = "healthy",
         SwitchChain(s, RolesOf(S) \cup {Do("unpoint"), h}),
         NEW a \in {2, 3}, NEW b \in {Len(s), Len(s) - 1},
         b = Len(s) - 1 \/ SwitchChain(s, RolesOf(S)), SubSeq(s, a, b) # <<>>
  PROVE  SubSeq(s, a, b) \in Seq(AnyStep) /\ SwitchChain(SubSeq(s, a, b), RolesOf(S))
<1> DEFINE t == SubSeq(s, a, b)
           n == Len(s)
<1>1. n \in Nat /\ b \in Int
  OBVIOUS
<1>2. t \in Seq(AnyStep) /\ Len(t) \in Nat
  <2>1. \A i \in a..b : s[i] \in AnyStep
    <3>1. \A i \in a..b : i \in 1..n
      BY <1>1
    <3> QED BY <3>1
  <2> QED BY <1>1, <2>1
<1>3. a <= b /\ Len(t) = b - a + 1 /\ \A i \in 1..Len(t) : t[i] = s[a + i - 1]
  <2>1. CASE a <= b
    BY <1>1, <2>1
  <2>2. CASE ~(a <= b)
    <3>1. t = <<>>
      BY <1>1, <2>2
    <3> QED BY <3>1
  <2> QED BY <2>1, <2>2
<1> HIDE DEF t
<1>4. ASSUME NEW i \in a..b PROVE s[i] \in RolesOf(S)
  <2>1. CASE SwitchChain(s, RolesOf(S))
    <3>1. i \in 1..n
      BY <1>1
    <3> QED BY <2>1, <3>1 DEF SwitchChain
  <2>2. CASE b = n - 1
    <3>1. i \in 1..n /\ i \in 1..(n - 1) /\ i - 1 \in 1..(n - 1)
      BY <1>1, <2>2
    <3>2. s[i] \in RolesOf(S) \cup {Do("unpoint"), h}
      BY <3>1 DEF SwitchChain
    <3>3. SwitchPair(s[i], s[i + 1])
      BY <3>1 DEF SwitchChain
    <3>4. SwitchPair(s[i - 1], s[(i - 1) + 1])
      BY <3>1 DEF SwitchChain
    <3>5. s[i] # h
      BY <3>3 DEF SwitchPair, Do
    <3>6. s[i] # Do("unpoint")
      <4>1. (i - 1) + 1 = i
        BY <1>1
      <4> QED BY <3>4, <4>1 DEF SwitchPair, Do
    <3> QED BY <3>2, <3>5, <3>6
  <2> QED BY <2>1, <2>2
<1>5. ASSUME NEW i \in 1..Len(t) PROVE t[i] \in RolesOf(S)
  <2>1. a + i - 1 \in a..b
    BY <1>1, <1>2, <1>3
  <2> QED BY <1>3, <1>4, <2>1
<1>6. ASSUME NEW i \in 1..(Len(t) - 1) PROVE SwitchPair(t[i], t[i + 1])
  <2> DEFINE m == Len(t)
  <2>1. /\ m = b - a + 1 /\ a \in Nat /\ a >= 2 /\ b \in Nat /\ n \in Nat /\ b <= n
        /\ i \in 1..(m - 1)
    BY <1>1, <1>3, SMTT(30)
  <2> HIDE DEF m
  <2>2. i \in 1..m /\ i + 1 \in 1..m /\ a + i - 1 \in 1..(n - 1)
    BY <2>1
  <2>3. i \in 1..Len(t) /\ i + 1 \in 1..Len(t) /\ a + i - 1 \in 1..(n - 1)
    BY <2>2 DEF m
  <2>4. t[i] = s[a + i - 1] /\ t[i + 1] = s[a + (i + 1) - 1]
    BY <1>3, <2>3
  <2>5. a + (i + 1) - 1 = (a + i - 1) + 1
    BY <1>1
  <2>6. SwitchPair(s[a + i - 1], s[(a + i - 1) + 1])
    BY <2>3 DEF SwitchChain
  <2> QED BY <2>4, <2>5, <2>6
<1> QED BY <1>2, <1>5, <1>6 DEF SwitchChain, t

LEMMA FailsOK ==
  ASSUME ScriptOK, StepFails, ~Finished, doing' = "none",
         note = None \/ note \in Place, mood \in {"forward", "recover", "broken"}
  PROVE  ScriptOK'
<1> DEFINE rest == IF mood = "forward" THEN Recovery ELSE Salvage
<1>1. CASE rest = <<>>
  <2>1. Finish(IF mood = "forward" THEN "failed" ELSE "unrecovered")
    BY <1>1 DEF StepFails
  <2> QED BY <2>1, EndsOK
<1>2. CASE rest # <<>>
  <2>1. /\ todo' = rest /\ UNCHANGED <<cmd, goal, note, outcome>>
        /\ mood' = IF mood = "forward" THEN "recover" ELSE "broken"
    BY <1>2 DEF StepFails, Enter
  <2>2. todo \in Seq(AnyStep) /\ todo # <<>>
    BY DEF ScriptOK
  <2>3. cmd \in {"setup", "configure", "switch"}
    BY <1>2 DEF Recovery, Salvage
  <2>4. UNCHANGED <<Finished, SetupRecovery, FreshRecovery>>
    BY <2>1 DEF Finished, SetupRecovery, FreshRecovery
  <2> HIDE DEF rest
  <2>5. ASSUME cmd = "setup"
        PROVE  /\ todo' \in Seq(AnyStep) /\ todo' # <<>>
               /\ mood' = "recover" /\ note = None => On(FreshRecovery)'
               /\ mood' = "recover" /\ note # None => On(SetupRecovery)'
               /\ mood' = "broken" => note = None /\ todo' = <<Do("clear")>>
    <3>1. CASE mood = "forward"
      <4>1. todo' = IF note = None THEN FreshRecovery ELSE SetupRecovery
        BY <1>2, <2>1, <2>5, <3>1 DEF rest, Recovery
      <4>2. /\ FreshRecovery \in Seq(AnyStep) /\ FreshRecovery # <<>>
            /\ note # None => SetupRecovery \in Seq(AnyStep) /\ SetupRecovery # <<>>
        BY FreshNames, SetupRecoveryNames
      <4>3. mood' = "recover"
        BY <2>1, <3>1
      <4> QED BY <2>4, <4>1, <4>2, <4>3, EndOfSelf DEF On
    <3>2. CASE mood # "forward"
      <4>1. todo' = <<Do("clear")>> /\ note = None /\ mood' = "broken"
        BY <1>2, <2>1, <2>5, <3>2 DEF rest, Salvage
      <4>2. <<Do("clear")>> \in Seq(AnyStep) /\ <<Do("clear")>> # <<>>
        BY OneStepNames DEF Steps
      <4> QED BY <4>1, <4>2
    <3> QED BY <3>1, <3>2
  <2>6. ASSUME cmd = "configure"
        PROVE  /\ todo' \in Seq(AnyStep) /\ todo' # <<>>
               /\ On(<<Do("unpacks"), Do("unconfig")>>)'
    <3> DEFINE b == <<Do("unpacks"), Do("unconfig")>>
    <3>1. CASE mood = "forward"
      <4>1. todo' = b
        BY <1>2, <2>1, <2>6, <3>1 DEF rest, Recovery
      <4>2. b \in Seq(AnyStep) /\ b # <<>>
        BY ConfigureNames DEF Steps
      <4> HIDE DEF b
      <4>3. EndOf(todo', b)
        BY <4>1, <4>2, EndOfSelf
      <4> QED BY <4>1, <4>2, <4>3 DEF On, b
    <3>2. CASE mood # "forward"
      <4>1. todo' = Tail(todo) /\ Tail(todo) # <<>>
        BY <1>2, <2>1, <2>6, <3>2 DEF rest, Salvage
      <4>2. EndOf(todo, b)
        BY <2>6, <3>2 DEF ScriptOK, On
      <4> HIDE DEF b
      <4>3. Len(todo) # 1
        BY <2>2, <4>1
      <4>4. EndOf(todo', b)
        BY <2>2, <4>1, <4>2, <4>3, EndOfTail
      <4>5. Tail(todo) \in Seq(AnyStep)
        BY <2>2, SeqFacts
      <4> QED BY <4>1, <4>4, <4>5 DEF On, b
    <3> QED BY <3>1, <3>2
  <2>7. ASSUME cmd = "switch"
        PROVE  todo' \in Seq(AnyStep) /\ todo' # <<>> /\ OnSwitch'
    <3> DEFINE h == <<"healthy", note.loaded>>
    <3>1. note # None /\ note \in Place /\ OnSwitch
      BY <2>7 DEF ScriptOK
    <3>2. CASE mood = "forward"
      <4>1. todo' = SwitchRecovery /\ mood' = "recover"
        BY <1>2, <2>1, <2>7, <3>2 DEF rest, Recovery
      <4>2. /\ SwitchRecovery \in Seq(AnyStep) /\ SwitchRecovery # <<>>
            /\ SwitchRecovery[Len(SwitchRecovery)] = h
            /\ SwitchChain(SwitchRecovery, RolesOf(note.loaded) \cup {Do("unpoint"), h})
        BY <3>1, SwitchRecoveryChain
      <4>3. SwitchSteps' = RolesOf(note.loaded) \cup {Do("unpoint"), h}
        BY <2>1, <4>1 DEF SwitchSteps
      <4>4. note' = note
        BY <2>1
      <4> HIDE DEF h
      <4>5. SwitchChain(todo', SwitchSteps')
        BY <4>1, <4>2, <4>3
      <4>6. todo'[Len(todo')] = h
        BY <4>1, <4>2
      <4> QED BY <4>1, <4>2, <4>4, <4>5, <4>6 DEF OnSwitch, h
    <3>3. CASE mood # "forward"
      <4> DEFINE a == IF Head(todo)[1] = "stop" THEN 3 ELSE 2
                 b == Len(todo) - (IF mood = "recover" THEN 1 ELSE 0)
      <4>1. todo' = SubSeq(todo, a, b) /\ todo' # <<>> /\ mood' = "broken"
        BY <1>2, <2>1, <2>7, <3>3 DEF rest, Salvage
      <4>2. a \in {2, 3} /\ b \in {Len(todo), Len(todo) - 1}
        BY <2>2
      <4>3. SwitchChain(todo, SwitchSteps)
        BY <3>1 DEF OnSwitch
      <4>4. SwitchSteps' = RolesOf(note.loaded) /\ note' = note
        BY <2>1, <4>1 DEF SwitchSteps
      <4>5. CASE mood = "recover"
        <5>1. SwitchSteps = RolesOf(note.loaded) \cup {Do("unpoint"), h}
          BY <4>5 DEF SwitchSteps
        <5>2. b = Len(todo) - 1
          BY <4>5
        <5>3. h[1] = "healthy"
          OBVIOUS
        <5> HIDE DEF a, b, h
        <5>4. todo' \in Seq(AnyStep) /\ SwitchChain(todo', RolesOf(note.loaded))
          BY <2>2, <4>1, <4>2, <4>3, <5>1, <5>2, <5>3, SalvageChain
        <5> QED BY <4>1, <4>4, <5>4 DEF OnSwitch
      <4>6. CASE mood # "recover"
        <5>1. SwitchSteps = RolesOf(note.loaded)
          BY <3>3, <4>6 DEF SwitchSteps
        <5>2. SwitchChain(todo, RolesOf(note.loaded) \cup {Do("unpoint"), h})
          <6>1. RolesOf(note.loaded) \subseteq RolesOf(note.loaded) \cup {Do("unpoint"), h}
            OBVIOUS
          <6> QED BY <4>3, <5>1, <6>1, ChainWider
        <5>3. h[1] = "healthy"
          OBVIOUS
        <5> HIDE DEF a, b, h
        <5>4. todo' \in Seq(AnyStep) /\ SwitchChain(todo', RolesOf(note.loaded))
          BY <2>2, <4>1, <4>2, <4>3, <5>1, <5>2, <5>3, SalvageChain
        <5> QED BY <4>1, <4>4, <5>4 DEF OnSwitch
      <4> QED BY <4>5, <4>6
    <3> QED BY <3>2, <3>3
  <2>8. mood' \in {"recover", "broken"}
    BY <2>1
  <2>9. /\ cmd = "none" <=> Finished
        /\ cmd \in {"setup", "configure"} => goal \in Configs
        /\ cmd = "switch" => goal \in Versions
        /\ note = None => cmd \in {"none", "setup", "init"}
    BY DEF ScriptOK
  <2> QED BY <2>1, <2>3, <2>4, <2>5, <2>6, <2>7, <2>8, <2>9 DEF ScriptOK
<1> QED BY <1>1, <1>2

(* A command begins.                                                        *)
LEMMA FoundTyped ==
  ASSUME LifecycleTypeOK, root = "ready"
  PROVE  Found \in Place /\ Found # None /\ Found.active \in Versions
<1>1. /\ config \in Configs \cup {None} /\ packs \in Configs \cup {None}
      /\ active \in Versions \cup {None} /\ previous \in Versions \cup {None}
      /\ frozen \in BOOLEAN /\ active # None
  BY DEF LifecycleTypeOK
<1>2. plist \in SUBSET Roles /\ LoadedRoles \in SUBSET Roles
  BY DEF LifecycleTypeOK, ServicesTypeOK, LoadedRoles
<1>3. runs \in Versions \cup {None}
  BY DEF LifecycleTypeOK, ServicesTypeOK
<1>4. Found \in Place
  BY <1>1, <1>2, <1>3 DEF Found, Place
<1>5. Found.active = active
  BY DEF Found
<1> QED BY <1>1, <1>4, <1>5, LifecycleAssumption

LEMMA IssueOK ==
  ASSUME LifecycleTypeOK, ScriptOK, NEW command \in Commands \ {"none"}, NEW aim,
         NEW script \in Seq(AnyStep), script # <<>>, Issue(command, aim, script)
  PROVE  /\ cmd' = command /\ goal' = aim /\ todo' = script /\ mood' = "forward"
         /\ note' = IF root = "ready" THEN Found ELSE None
         /\ (note' = None) = (root # "ready")
         /\ cmd' # "none" /\ ~Finished' /\ doing' = "none"
         /\ EndOf(todo', script)
<1>1. /\ cmd' = command /\ goal' = aim /\ todo' = script /\ mood' = "forward"
      /\ note' = IF root = "ready" THEN Found ELSE None
      /\ outcome' = "none" /\ doing' = doing /\ Finished
  BY DEF Issue, Enter, provisioningVars
<1>2. doing = "none"
  BY <1>1 DEF ScriptOK, At
<1>3. (note' = None) = (root # "ready")
  BY <1>1, FoundTyped
<1>4. EndOf(todo', script)
  BY <1>1, EndOfSelf
<1> QED BY <1>1, <1>2, <1>3, <1>4 DEF Finished

LEMMA CommandOK ==
  ASSUME LifecycleTypeOK, ScriptOK, Command PROVE ScriptOK'
<1>1. ASSUME NEW c \in Configs, Setup(c) PROVE ScriptOK'
  <2> DEFINE script == SetupScript(root = "ready")
  <2>1. script \in Seq(AnyStep) /\ script # <<>>
    <3>1. (root = "ready") \in BOOLEAN
      OBVIOUS
    <3> QED BY <3>1, SetupNames
  <2>2. Issue("setup", c, script)
    BY <1>1 DEF Setup
  <2>3. (note # None)' = (root = "ready") => On(SetupScript(note # None))' = EndOf(todo', script)
    BY DEF On
  <2> HIDE DEF script
  <2>4. /\ cmd' = "setup" /\ goal' = c /\ todo' = script /\ mood' = "forward"
        /\ (note' = None) = (root # "ready")
        /\ ~Finished' /\ doing' = "none" /\ EndOf(todo', script)
    BY <2>1, <2>2, IssueOK DEF Commands
  <2>5. (note # None)' = (root = "ready")
    BY <2>4
  <2> QED BY <2>1, <2>3, <2>4, <2>5 DEF ScriptOK
<1>2. ASSUME NEW c \in Configs, Configure(c) PROVE ScriptOK'
  <2> DEFINE script == <<Do("packs"), Do("config")>>
  <2>1. script \in Seq(AnyStep) /\ script # <<>>
    BY ConfigureNames DEF Steps
  <2>2. Issue("configure", c, script) /\ root = "ready"
    BY <1>2 DEF Configure
  <2>3. On(script)' = EndOf(todo', script)
    BY DEF On
  <2> HIDE DEF script
  <2>4. /\ cmd' = "configure" /\ goal' = c /\ todo' = script /\ mood' = "forward"
        /\ note' # None /\ ~Finished' /\ doing' = "none" /\ EndOf(todo', script)
    BY <2>1, <2>2, IssueOK DEF Commands
  <2>5. On(<<Do("packs"), Do("config")>>)'
    BY <2>3, <2>4 DEF script
  <2> QED BY <2>1, <2>4, <2>5 DEF ScriptOK
<1>3. ASSUME NEW v \in Versions, Switch(v) PROVE ScriptOK'
  <2> DEFINE script == SwitchScript(LoadedRoles)
             h == <<"healthy", LoadedRoles>>
  <2>1. LoadedRoles \in SUBSET Roles
    BY DEF LoadedRoles
  <2>2. /\ script \in Seq(AnyStep) /\ script # <<>>
        /\ script[Len(script)] = IF LoadedRoles = {} THEN Do("point") ELSE h
        /\ SwitchChain(script, RolesOf(LoadedRoles) \cup {Do("vet"), Do("point"), h})
    BY <2>1, SwitchScriptChain
  <2>3. Issue("switch", v, script) /\ root = "ready"
    BY <1>3 DEF Switch
  <2> HIDE DEF script, h
  <2>4. /\ cmd' = "switch" /\ goal' = v /\ todo' = script /\ mood' = "forward"
        /\ note' # None /\ note' = Found /\ ~Finished' /\ doing' = "none"
    BY <2>2, <2>3, IssueOK DEF Commands
  <2>5. note'.loaded = LoadedRoles
    BY <2>4 DEF Found
  <2>6. SwitchSteps' = RolesOf(LoadedRoles) \cup {Do("vet"), Do("point"), h}
    BY <2>4, <2>5 DEF SwitchSteps, h
  <2>7. OnSwitch'
    BY <2>2, <2>4, <2>5, <2>6 DEF OnSwitch, h
  <2> QED BY <2>2, <2>4, <2>7 DEF ScriptOK
<1>4. ASSUME NEW command \in {"init", "config update", "service", "enable", "freeze",
                              "uninstall"},
             NEW script, NEW aim, Issue(command, aim, script),
             command = "config update" => aim \in Configs,
             root = "ready" \/ command = "init",
             CASE command = "init" -> script = <<Do("init")>>
               [] command = "config update" -> script = <<Do("config")>>
               [] command = "service" -> script \in ServiceScripts
               [] command = "enable" ->
                    script = <<Do("doctor"), All("healthy"), Do("resume")>>
               [] command = "freeze" -> script = <<Do("freeze")>>
               [] OTHER -> script = <<All("stop"), All("unplists"), Do("remove")>>
      PROVE  ScriptOK'
  <2>1. script \in OtherScripts(command)
    BY <1>4 DEF OtherScripts
  <2>2. script \in Seq(AnyStep) /\ script # <<>>
    BY <2>1, OtherNames
  <2>3. /\ cmd' = command /\ goal' = aim /\ todo' = script /\ mood' = "forward"
        /\ (note' = None) = (root # "ready")
        /\ ~Finished' /\ doing' = "none" /\ EndOf(todo', script)
    BY <1>4, <2>2, IssueOK DEF Commands
  <2>4. On(script)'
    BY <2>3 DEF On
  <2> QED BY <1>4, <2>1, <2>2, <2>3, <2>4 DEF ScriptOK
<1>5. ASSUME NEW c \in Configs, UpdateConfig(c) PROVE ScriptOK'
  BY <1>4, <1>5 DEF UpdateConfig
<1>6. CASE InitCommand
  BY <1>4, <1>6 DEF InitCommand
<1>7. CASE ServiceCommand
  BY <1>4, <1>7 DEF ServiceCommand
<1>8. CASE Enable \/ Freeze
  BY <1>4, <1>8 DEF Enable, Freeze
<1>9. CASE Uninstall
  BY <1>4, <1>9 DEF Uninstall
<1> QED BY <1>1, <1>2, <1>3, <1>5, <1>6, <1>7, <1>8, <1>9 DEF Command

-----------------------------------------------------------------------------
(* The step a command is at and the one that follows.                       *)

Following == Head(Tail(todo))[1]

LEMMA DoAll ==
  \A what : /\ Do(what)[1] = what /\ Do(what)[2] = {}
             /\ All(what)[1] = what /\ All(what)[2] = Roles
  BY DEF Do, All

LEMMA PairIs ==
  ASSUME NEW a, NEW b, NEW c, NEW d, <<a, b>> = <<c, d>> PROVE a = c /\ b = d
<1> DEFINE p == <<a, b>>
           q == <<c, d>>
<1>1. p = q /\ p[1] = a /\ p[2] = b /\ q[1] = c /\ q[2] = d
  OBVIOUS
<1> QED BY <1>1

LEMMA EndNames ==
  ASSUME ScriptOK, NEW script, On(script)
  PROVE  /\ Len(todo) = 1 => Head(todo) = script[Len(script)]
         /\ Len(todo) # 1 => /\ <<Head(todo), Head(Tail(todo))>> \in Pairs(script)
                             /\ <<Now, Following>> \in NamesOf(script)
<1>1. todo \in Seq(AnyStep)
  BY DEF ScriptOK
<1>2. /\ Len(todo) = 1 => Head(todo) = script[Len(script)]
      /\ Len(todo) # 1 => <<Head(todo), Head(Tail(todo))>> \in Pairs(script)
  BY <1>1, EndOfTail DEF On
<1> DEFINE p == <<Head(todo), Head(Tail(todo))>>
<1>3. p[1][1] = Now /\ p[2][1] = Following
  BY DEF Now, Following
<1> HIDE DEF p
<1>4. p \in Pairs(script) => <<Now, Following>> \in NamesOf(script)
  BY <1>3 DEF NamesOf
<1> QED BY <1>2, <1>4 DEF p

LEMMA SetupForward ==
  ASSUME ScriptOK, cmd = "setup", mood = "forward"
  PROVE  /\ Len(todo) = 1 => Now = "final"
         /\ Len(todo) # 1 => <<Now, Following>> \in SetupPairs(note # None)
<1> DEFINE exists == note # None
           script == SetupScript(exists)
<1>1. On(script)
  BY DEF ScriptOK
<1>2. exists \in BOOLEAN
  OBVIOUS
<1> HIDE DEF exists
<1>3. /\ Len(script) = 12 /\ script[12] = Do("final")
      /\ NamesOf(script) \subseteq SetupPairs(exists)
  BY <1>2, SetupNames
<1> HIDE DEF script
<1>4. Len(todo) = 1 => Head(todo) = Do("final")
  BY <1>1, <1>3, EndNames
<1>5. Len(todo) = 1 => Now = "final"
  BY <1>4, DoAll DEF Now
<1> QED BY <1>1, <1>3, <1>5, EndNames DEF exists

LEMMA SetupFresh ==
  ASSUME ScriptOK, cmd = "setup", mood = "recover", note = None
  PROVE  /\ Len(todo) = 1 => Now = "clear"
         /\ Len(todo) # 1 =>
              /\ <<Now, Following>> \in {<<"stop", "unplists">>, <<"unplists", "clear">>}
              /\ Those = Roles
<1>1. On(FreshRecovery)
  BY DEF ScriptOK
<1>2. Len(todo) = 1 => Head(todo) = Do("clear")
  BY <1>1, EndNames, FreshNames
<1>3. Len(todo) # 1 => <<Head(todo), Head(Tail(todo))>> \in
        {<<All("stop"), All("unplists")>>, <<All("unplists"), Do("clear")>>}
  BY <1>1, EndNames, FreshNames
<1> DEFINE a == Head(todo)
           b == Head(Tail(todo))
<1>4. Now = a[1] /\ Following = b[1] /\ Those = a[2]
  BY DEF Now, Following, Those
<1> HIDE DEF a, b
<1>5. Len(todo) # 1 => \/ a = All("stop") /\ b = All("unplists")
                       \/ a = All("unplists") /\ b = Do("clear")
  BY <1>3, PairIs DEF a, b
<1>6. Len(todo) = 1 => a = Do("clear")
  BY <1>2 DEF a
<1> QED BY <1>4, <1>5, <1>6, DoAll

LEMMA SetupRestoring ==
  ASSUME ScriptOK, cmd = "setup", mood = "recover", note # None, note \in Place
  PROVE  /\ Len(todo) = 1 => Now = "thaw"
         /\ Len(todo) # 1 =>
              <<Now, Following>> \in
                {<<"freeze", "stop">>, <<"stop", "unplists">>, <<"unplists", "unpacks">>,
                 <<"unpacks", "unconfig">>, <<"unconfig", "plists">>,
                 <<"plists", "start">>, <<"start", "thaw">>}
         /\ Now \in {"stop", "unplists"} => Those = Roles
         /\ Now = "plists" => Those = note.installed
         /\ Now = "start" => Those = note.loaded
<1>1. On(SetupRecovery)
  BY DEF ScriptOK
<1>2. Len(todo) = 1 => Head(todo) = Do("thaw")
  BY <1>1, EndNames, SetupRecoveryNames
<1>3. Len(todo) # 1 => <<Head(todo), Head(Tail(todo))>> \in
              {<<Do("freeze"), All("stop")>>, <<All("stop"), All("unplists")>>,
               <<All("unplists"), Do("unpacks")>>, <<Do("unpacks"), Do("unconfig")>>,
               <<Do("unconfig"), <<"plists", note.installed>>>>,
               <<<<"plists", note.installed>>, <<"start", note.loaded>>>>,
               <<<<"start", note.loaded>>, Do("thaw")>>}
  BY <1>1, EndNames, SetupRecoveryNames
<1> DEFINE a == Head(todo)
           b == Head(Tail(todo))
           plists == <<"plists", note.installed>>
           start == <<"start", note.loaded>>
<1>4. Now = a[1] /\ Following = b[1] /\ Those = a[2]
  BY DEF Now, Following, Those
<1>5. /\ plists[1] = "plists" /\ plists[2] = note.installed
      /\ start[1] = "start" /\ start[2] = note.loaded
  OBVIOUS
<1>6. Len(todo) # 1 => <<a, b>> \in
              {<<Do("freeze"), All("stop")>>, <<All("stop"), All("unplists")>>,
               <<All("unplists"), Do("unpacks")>>, <<Do("unpacks"), Do("unconfig")>>,
               <<Do("unconfig"), plists>>, <<plists, start>>, <<start, Do("thaw")>>}
  BY <1>3
<1>7. Len(todo) = 1 => a = Do("thaw")
  BY <1>2
<1> HIDE DEF a, b, plists, start
<1>8. Len(todo) # 1 => \/ a = Do("freeze") /\ b = All("stop")
                       \/ a = All("stop") /\ b = All("unplists")
                       \/ a = All("unplists") /\ b = Do("unpacks")
                       \/ a = Do("unpacks") /\ b = Do("unconfig")
                       \/ a = Do("unconfig") /\ b = plists
                       \/ a = plists /\ b = start
                       \/ a = start /\ b = Do("thaw")
  BY <1>6, PairIs
<1> QED BY <1>4, <1>5, <1>7, <1>8, DoAll

LEMMA SetupBroken ==
  ASSUME ScriptOK, cmd = "setup", mood = "broken"
  PROVE  note = None /\ Len(todo) = 1 /\ Now = "clear"
<1>1. note = None /\ todo = <<Do("clear")>>
  BY DEF ScriptOK
<1>2. Len(<<Do("clear")>>) = 1 /\ Head(<<Do("clear")>>) = Do("clear")
  OBVIOUS
<1> QED BY <1>1, <1>2 DEF Now, Do

LEMMA Configuring ==
  ASSUME ScriptOK, cmd = "configure"
  PROVE  /\ mood = "forward" =>
              IF Len(todo) = 1 THEN Now = "config" ELSE Now = "packs" /\ Following = "config"
         /\ mood # "forward" =>
              IF Len(todo) = 1 THEN Now = "unconfig"
              ELSE Now = "unpacks" /\ Following = "unconfig"
<1> DEFINE a == <<Do("packs"), Do("config")>>
           b == <<Do("unpacks"), Do("unconfig")>>
<1>1. IF mood = "forward" THEN On(a) ELSE On(b)
  BY DEF ScriptOK
<1>2. /\ Len(a) = 2 /\ a[2] = Do("config") /\ Pairs(a) = {<<Do("packs"), Do("config")>>}
      /\ Len(b) = 2 /\ b[2] = Do("unconfig") /\ Pairs(b) = {<<Do("unpacks"), Do("unconfig")>>}
  BY ConfigureNames DEF Steps
<1> HIDE DEF a, b
<1>3. IF mood = "forward"
      THEN /\ Len(todo) = 1 => Head(todo) = Do("config")
           /\ Len(todo) # 1 => <<Head(todo), Head(Tail(todo))>> = <<Do("packs"), Do("config")>>
      ELSE /\ Len(todo) = 1 => Head(todo) = Do("unconfig")
           /\ Len(todo) # 1 =>
                <<Head(todo), Head(Tail(todo))>> = <<Do("unpacks"), Do("unconfig")>>
  BY <1>1, <1>2, EndNames
<1> DEFINE c == Head(todo)
           d == Head(Tail(todo))
<1>4. Now = c[1] /\ Following = d[1]
  BY DEF Now, Following
<1>5. IF mood = "forward"
      THEN /\ Len(todo) = 1 => c = Do("config")
           /\ Len(todo) # 1 => c = Do("packs") /\ d = Do("config")
      ELSE /\ Len(todo) = 1 => c = Do("unconfig")
           /\ Len(todo) # 1 => c = Do("unpacks") /\ d = Do("unconfig")
  BY <1>3, PairIs
<1> HIDE DEF c, d
<1> QED BY <1>4, <1>5, DoAll

LEMMA Switching ==
  ASSUME ScriptOK, cmd = "switch", mood \in {"forward", "recover", "broken"}
  PROVE  /\ mood = "forward" /\ Len(todo) = 1 =>
              Head(todo) = IF note.loaded = {} THEN Do("point")
                           ELSE <<"healthy", note.loaded>>
         /\ mood = "recover" /\ Len(todo) = 1 => Head(todo) = <<"healthy", note.loaded>>
         /\ Head(todo) \in SwitchSteps
         /\ Now \in {"stop", "start"} \cup
                CASE mood = "forward" -> {"vet", "point", "healthy"}
                  [] mood = "recover" -> {"unpoint", "healthy"}
                  [] OTHER -> {}
         /\ Len(todo) # 1 =>
              /\ <<Now, Following>> \in
                   {<<"vet", "point">>, <<"point", "stop">>, <<"point", "healthy">>,
                    <<"unpoint", "stop">>, <<"unpoint", "healthy">>, <<"stop", "start">>,
                    <<"start", "stop">>, <<"start", "healthy">>}
              /\ SwitchPair(Head(todo), Head(Tail(todo)))
              /\ Head(Tail(todo)) \in SwitchSteps
<1>1. /\ todo \in Seq(AnyStep) /\ todo # <<>> /\ OnSwitch
  BY DEF ScriptOK, Finished
<1>2. Len(todo) \in Nat /\ Len(todo) >= 1 /\ Head(todo) = todo[1]
  BY <1>1, SeqFacts
<1>3. Head(todo) \in SwitchSteps
  BY <1>1, <1>2 DEF OnSwitch, SwitchChain
<1>4. /\ mood = "forward" /\ Len(todo) = 1 =>
           Head(todo) = IF note.loaded = {} THEN Do("point")
                        ELSE <<"healthy", note.loaded>>
      /\ mood = "recover" /\ Len(todo) = 1 => Head(todo) = <<"healthy", note.loaded>>
  BY <1>1, <1>2 DEF OnSwitch
<1>5. Now \in {"stop", "start"} \cup
                CASE mood = "forward" -> {"vet", "point", "healthy"}
                  [] mood = "recover" -> {"unpoint", "healthy"}
                  [] OTHER -> {}
  BY <1>3 DEF SwitchSteps, RolesOf, Now, Do
<1>6. ASSUME Len(todo) # 1
      PROVE  SwitchPair(Head(todo), Head(Tail(todo))) /\ Head(Tail(todo)) \in SwitchSteps
  <2>1. /\ SwitchChain(Tail(todo), SwitchSteps)
        /\ SwitchPair(Head(todo), Head(Tail(todo)))
    BY <1>1, <1>6, ChainTail DEF OnSwitch
  <2>2. Tail(todo) \in Seq(AnyStep) /\ Tail(todo) # <<>>
    BY <1>1, <1>6, TailLast
  <2>3. 1 \in 1..Len(Tail(todo)) /\ Head(Tail(todo)) = Tail(todo)[1]
    BY <2>2, SeqFacts
  <2>4. Tail(todo)[1] \in SwitchSteps
    BY <2>1, <2>3 DEF SwitchChain
  <2> QED BY <2>1, <2>3, <2>4
<1>7. Len(todo) # 1 => <<Now, Following>> \in
                   {<<"vet", "point">>, <<"point", "stop">>, <<"point", "healthy">>,
                    <<"unpoint", "stop">>, <<"unpoint", "healthy">>, <<"stop", "start">>,
                    <<"start", "stop">>, <<"start", "healthy">>}
  <2> DEFINE a == Head(todo)
             b == Head(Tail(todo))
  <2>1. Now = a[1] /\ Following = b[1] /\ (Len(todo) # 1 => SwitchPair(a, b))
    BY <1>6 DEF Now, Following
  <2> HIDE DEF a, b
  <2>2. \A r : <<"start", r>>[1] = "start"
    OBVIOUS
  <2> QED BY <2>1, <2>2, DoAll DEF SwitchPair
<1> QED BY <1>3, <1>4, <1>5, <1>6, <1>7

LEMMA Others ==
  ASSUME ScriptOK, cmd \notin {"none", "setup", "configure", "switch"}, cmd \in Commands
  PROVE  /\ mood = "forward"
         /\ cmd = "init" => Len(todo) = 1 /\ Now = "init"
         /\ cmd = "config update" => Len(todo) = 1 /\ Now = "config"
         /\ cmd = "freeze" => Len(todo) = 1 /\ Now = "freeze"
         /\ cmd = "enable" =>
              IF Len(todo) = 1 THEN Now = "resume"
              ELSE <<Now, Following>> \in {<<"doctor", "healthy">>, <<"healthy", "resume">>}
         /\ cmd = "service" =>
              /\ Now \in {"doctor", "stop", "start", "plists", "unplists"}
              /\ Len(todo) = 1 => Now # "doctor"
              /\ Len(todo) # 1 => Following \in {"plists", "start", "stop", "unplists"}
         /\ cmd = "uninstall" =>
              IF Len(todo) = 1 THEN Now = "remove"
              ELSE <<Now, Following>> \in {<<"stop", "unplists">>, <<"unplists", "remove">>}
<1>1. PICK script \in OtherScripts(cmd) : On(script)
  BY DEF ScriptOK
<1>2. /\ Len(todo) = 1 => Head(todo) = script[Len(script)]
      /\ Len(todo) # 1 => /\ <<Head(todo), Head(Tail(todo))>> \in Pairs(script)
                          /\ <<Now, Following>> \in NamesOf(script)
  BY <1>1, EndNames
<1> DEFINE a == Head(todo)
           b == Head(Tail(todo))
<1>6. Now = a[1] /\ Following = b[1] /\ mood = "forward"
  BY DEF Now, Following, ScriptOK
<1>3. CASE cmd \in {"init", "config update", "freeze", "enable"}
  BY <1>1, <1>2, <1>3, <1>6, OtherNames, DoAll, ZenonT(30)
<1>4. CASE cmd = "service"
  <2>1. Len(todo) = 1 => Head(todo) \in {All("stop"), All("start"), All("plists"),
                                         All("unplists")}
    BY <1>1, <1>2, <1>4, OtherNames
  <2>2. Len(todo) # 1 => <<Head(todo), Head(Tail(todo))>> \in
                  {<<Do("doctor"), All("plists")>>, <<All("plists"), All("start")>>,
                   <<Do("doctor"), All("start")>>, <<Do("doctor"), All("stop")>>,
                   <<All("stop"), All("start")>>, <<All("stop"), All("unplists")>>}
    BY <1>1, <1>2, <1>4, OtherNames
  <2>3. Len(todo) # 1 => \/ a = Do("doctor") /\ b = All("plists")
                         \/ a = All("plists") /\ b = All("start")
                         \/ a = Do("doctor") /\ b = All("start")
                         \/ a = Do("doctor") /\ b = All("stop")
                         \/ a = All("stop") /\ b = All("start")
                         \/ a = All("stop") /\ b = All("unplists")
    BY <2>2, PairIs
  <2>4. Len(todo) = 1 => a \in {All("stop"), All("start"), All("plists"), All("unplists")}
    BY <2>1
  <2> HIDE DEF a, b
  <2> QED BY <1>4, <1>6, <2>3, <2>4, DoAll
<1>5. CASE cmd = "uninstall"
  <2>1. Len(todo) = 1 => Head(todo) = Do("remove")
    BY <1>1, <1>2, <1>5, OtherNames
  <2>2. Len(todo) # 1 => <<Head(todo), Head(Tail(todo))>> \in
                  {<<All("stop"), All("unplists")>>, <<All("unplists"), Do("remove")>>}
    BY <1>1, <1>2, <1>5, OtherNames
  <2>3. Len(todo) # 1 => \/ a = All("stop") /\ b = All("unplists")
                         \/ a = All("unplists") /\ b = Do("remove")
    BY <2>2, PairIs
  <2>4. Len(todo) = 1 => a = Do("remove")
    BY <2>1
  <2> HIDE DEF a, b
  <2> QED BY <1>5, <1>6, <2>3, <2>4, DoAll
<1> QED BY <1>3, <1>4, <1>5 DEF Commands

(* Which command can be at a step, and what follows it.                     *)
Last == Len(todo) = 1

Whereabouts ==
  /\ Now \in Steps /\ (~Last => Following # "provision")
  /\ Now = "provision" =>
       cmd = "setup" /\ mood = "forward" /\ ~Last /\ Following = Second(note # None)
  /\ Now = "note" =>
       cmd = "setup" /\ mood = "forward" /\ note # None /\ ~Last /\ Following = "freeze"
  /\ Now = "init" =>
       /\ mood = "forward"
       /\ \/ cmd = "init" /\ Last
          \/ cmd = "setup" /\ note = None /\ ~Last /\ Following = "freeze"
  /\ Now = "freeze" =>
       \/ cmd = "freeze" /\ mood = "forward" /\ Last
       \/ cmd = "setup" /\ mood = "forward" /\ ~Last /\ Following = "stop"
       \/ cmd = "setup" /\ mood = "recover" /\ note # None /\ ~Last /\ Following = "stop"
  /\ Now = "packs" =>
       cmd \in {"setup", "configure"} /\ mood = "forward" /\ ~Last /\ Following = "config"
  /\ Now = "config" =>
       /\ mood = "forward"
       /\ \/ cmd = "setup" /\ ~Last /\ Following = "doctor"
          \/ cmd \in {"configure", "config update"} /\ Last
  /\ Now = "doctor" =>
       /\ mood = "forward" /\ ~Last
       /\ \/ cmd = "setup" /\ Following = "plists"
          \/ cmd = "enable" /\ Following = "healthy"
          \/ cmd = "service" /\ Following \in {"plists", "start", "stop", "unplists"}
  /\ Now = "healthy" =>
       \/ cmd \in {"setup", "enable"} /\ mood = "forward" /\ ~Last /\ Following = "resume"
       \/ cmd = "switch" /\ Last /\ mood \in {"forward", "recover"}
  /\ Now = "resume" =>
       /\ mood = "forward"
       /\ \/ cmd = "setup" /\ ~Last /\ Following = "final"
          \/ cmd = "enable" /\ Last
  /\ Now = "final" => cmd = "setup" /\ mood = "forward" /\ Last
  /\ Now = "unpacks" =>
       /\ ~Last /\ Following = "unconfig"
       /\ \/ cmd = "setup" /\ mood = "recover" /\ note # None
          \/ cmd = "configure" /\ mood # "forward"
  /\ Now = "unconfig" =>
       \/ cmd = "setup" /\ mood = "recover" /\ note # None /\ ~Last /\ Following = "plists"
       \/ cmd = "configure" /\ mood # "forward" /\ Last
  /\ Now = "thaw" => cmd = "setup" /\ mood = "recover" /\ note # None /\ Last
  /\ Now = "clear" => cmd = "setup" /\ mood # "forward" /\ note = None /\ Last
  /\ Now = "remove" => cmd = "uninstall" /\ mood = "forward" /\ Last
  /\ Now = "vet" => cmd = "switch" /\ mood = "forward" /\ ~Last /\ Following = "point"
  /\ Now = "point" =>
       cmd = "switch" /\ mood = "forward" /\ (~Last => Following \in {"stop", "healthy"})
  /\ Now = "unpoint" =>
       cmd = "switch" /\ mood = "recover" /\ ~Last /\ Following \in {"stop", "healthy"}

LEMMA StepsOf ==
  ASSUME LifecycleTypeOK, ScriptOK, ~Finished PROVE Whereabouts
<1> mood \in {"forward", "recover", "broken"} /\ cmd \in Commands
  BY DEF LifecycleTypeOK
<1> note = None \/ note \in Place
  BY DEF LifecycleTypeOK
<1> cmd # "none"
  BY DEF ScriptOK
<1>0. Now \in Steps
  <2>1. todo \in Seq(AnyStep) /\ todo # <<>>
    BY DEF ScriptOK
  <2>2. Head(todo) \in AnyStep
    BY <2>1
  <2> QED BY <2>2 DEF AnyStep, Now
<1>1. CASE cmd = "setup" /\ mood = "forward"
  BY <1>0, <1>1, SetupForward DEF Whereabouts, Last, SetupPairs, Second
<1>2. CASE cmd = "setup" /\ mood = "recover" /\ note = None
  BY <1>0, <1>2, SetupFresh DEF Whereabouts, Last
<1>3. CASE cmd = "setup" /\ mood = "recover" /\ note # None
  BY <1>0, <1>3, SetupRestoring DEF Whereabouts, Last
<1>4. CASE cmd = "setup" /\ mood = "broken"
  BY <1>0, <1>4, SetupBroken DEF Whereabouts, Last
<1>5. CASE cmd = "configure"
  BY <1>0, <1>5, Configuring DEF Whereabouts, Last
<1>6. CASE cmd = "switch"
  <2>1. Last => Now = IF mood = "forward" /\ note.loaded = {} THEN "point"
                      ELSE IF mood = "broken" THEN Now ELSE "healthy"
    <3>1. Last => Head(todo) = IF mood = "forward" /\ note.loaded = {} THEN Do("point")
                      ELSE IF mood = "broken" THEN Head(todo) ELSE <<"healthy", note.loaded>>
      BY <1>6, Switching DEF Last
    <3>2. <<"healthy", note.loaded>>[1] = "healthy"
      OBVIOUS
    <3> QED BY <3>1, <3>2, DoAll DEF Now
  <2> QED BY <1>0, <1>6, <2>1, Switching DEF Whereabouts, Last
<1>7. CASE cmd \notin {"setup", "configure", "switch"}
  <2>1. cmd \in {"init", "config update", "service", "enable", "freeze", "uninstall"}
    BY <1>7 DEF Commands
  <2> QED BY <1>0, <1>7, <2>1, Others DEF Whereabouts, Last
<1> QED BY <1>1, <1>2, <1>3, <1>4, <1>5, <1>6, <1>7

-----------------------------------------------------------------------------
(* Every step keeps the command on its script.                              *)

LEMMA AdvanceCases ==
  ASSUME ScriptOK, Advance, ~Finished
  PROVE  \/ Last /\ Finish(Result)
         \/ GoesOn /\ ~Last /\ Enter(Tail(todo)) /\ note' = note
  BY DEF Advance, Last, GoesOn, Enter

LEMMA AdvanceOK ==
  ASSUME ScriptOK, Advance, ~Finished, doing' = "none" PROVE ScriptOK'
<1>1. Result # "none"
  BY DEF Result
<1> QED BY <1>1, AdvanceCases, EndsOK, GoesOnOK

LEMMA NoteGoesOn ==
  ASSUME LifecycleTypeOK, ScriptOK, PlaceOK, TakeNote
  PROVE  GoesOn /\ note' = Found /\ Found # None /\ note # None /\ root = "ready"
<1>1. ~Finished /\ Now = "note"
  BY DEF TakeNote, At, Now
<1>2. cmd = "setup" /\ mood = "forward" /\ note # None /\ ~Last
  BY <1>1, StepsOf DEF Whereabouts
<1>3. root = "ready"
  BY <1>2 DEF PlaceOK, NoteOK
<1>4. Found # None
  BY <1>3, FoundTyped
<1> QED BY <1>1, <1>2, <1>3, <1>4 DEF TakeNote, GoesOn, Enter, Last

LEMMA ScriptStepOK ==
  ASSUME LifecycleTypeOK, ScriptOK, PlaceOK, ScriptStep, UNCHANGED provisioningVars
  PROVE  ScriptOK'
<1>1. doing' = doing
  BY DEF provisioningVars
<1>2. doing # "none" => At("provision")
  BY DEF ScriptOK
<1>3. CASE Advance /\ ~Finished /\ Head(todo)[1] # "provision"
  BY <1>1, <1>2, <1>3, AdvanceOK DEF At
<1>4. CASE StepFails /\ ~Finished /\ Head(todo)[1] # "provision"
  <2>1. note = None \/ note \in Place
    BY DEF LifecycleTypeOK
  <2>2. mood \in {"forward", "recover", "broken"}
    BY DEF LifecycleTypeOK
  <2> QED BY <1>1, <1>2, <1>4, <2>1, <2>2, FailsOK DEF At
<1>5. CASE ScriptSame
  BY <1>1, <1>5, ScriptSameOK
<1>6. CASE TakeNote
  <2>1. doing = "none"
    BY <1>2, <1>6 DEF TakeNote, At
  <2> QED BY <1>1, <1>6, <2>1, NoteGoesOn, GoesOnOK
<1> QED BY <1>3, <1>4, <1>5, <1>6 DEF ScriptStep

(* A setup that provisions goes on, ends, or stays where it is.             *)
LEMMA ProvisionCases ==
  ASSUME LifecycleTypeOK, ScriptOK, Provision
  PROVE  /\ cmd = "setup" /\ mood = "forward" /\ Now = "provision" /\ ~Finished
         /\ \/ ScriptSame /\ UNCHANGED <<phase, left, begun>>
            \/ /\ GoesOn /\ ~Last /\ Enter(Tail(todo)) /\ note' = note
               /\ issued' = issued + 1 /\ missing' = {} /\ doing' = "none"
            \/ Finish("failed") /\ issued' = issued /\ missing' = {} /\ doing' = "none"
<1>1. ~Finished /\ Now = "provision" /\ cmd = "setup"
  BY DEF Provision, At, Now
<1>2. mood = "forward" /\ ~Last
  BY <1>1, StepsOf DEF Whereabouts
<1>3. StepFails => Finish("failed") /\ issued' = issued
  BY <1>1, <1>2 DEF StepFails, Recovery, Now
<1>4. CASE UNCHANGED scriptVars
  BY <1>1, <1>2, <1>4 DEF scriptVars, ScriptSame
<1>5. CASE Provisioned /\ EndProvisioning /\ Enter(Tail(todo)) /\ issued' = issued + 1
           /\ UNCHANGED <<cmd, goal, note, mood, outcome, faults>>
  BY <1>1, <1>2, <1>5 DEF EndProvisioning, GoesOn, Enter, Last
<1>6. CASE ProvisioningFails /\ StepFails
  <2>1. missing' = {} /\ doing' = "none"
    BY <1>6 DEF ProvisioningFails, Ambiguous, LookFails, RowsUnreadable, SchemaConflicts,
                RowsConflict, CreateRefused, Unverified, Unrecovered, ReadBackFails, GiveUp
  <2> QED BY <1>1, <1>2, <1>3, <1>6, <2>1
<1> QED BY <1>4, <1>5, <1>6 DEF Provision, ProvisioningFails

LEMMA ScriptNext ==
  ASSUME LifecycleTypeOK, ScriptOK, PlaceOK, OperationsInv, [LifecycleNext]_lifecycleVars
  PROVE  ScriptOK'
<1>1. CASE Provision
  <2>1. CASE ScriptSame
    <3>1. At("provision")
      BY <1>1, ProvisionCases DEF At, Now
    <3> QED BY <2>1, <3>1, ScriptSameOK
  <2>2. CASE GoesOn /\ doing' = "none"
    BY <2>2, GoesOnOK
  <2>3. CASE Finish("failed") /\ doing' = "none"
    BY <2>3, EndsOK
  <2> QED BY <1>1, <2>1, <2>2, <2>3, ProvisionCases
<1>2. CASE Step /\ ~Provision
  BY <1>2, StepInv, ScriptStepOK DEF OperationsInv
<1>3. CASE Kill
  <2>1. Finish("killed") /\ doing' = "none"
    BY <1>3 DEF Kill, GiveUp, provisioningVars
  <2> QED BY <2>1, EndsOK
<1>4. CASE Failure /\ ~Kill
  BY <1>4, FailureInv, ScriptStepOK
<1>5. CASE Command
  BY <1>5, CommandOK
<1>6. ASSUME NEW x \in Things, Shows(x) PROVE ScriptOK'
  <2>1. ScriptSame /\ doing' = doing
    BY <1>6 DEF Shows, Appear, scriptVars, ScriptSame
  <2> QED BY <2>1, ScriptSameOK
<1>7. CASE Background /\ ~\E x \in Things : Shows(x)
  BY <1>7, BackgroundInv, ScriptStepOK
<1>8. CASE UNCHANGED lifecycleVars
  <2>1. ScriptSame /\ doing' = doing
    BY <1>8 DEF lifecycleVars, scriptVars, provisioningVars, ScriptSame
  <2> QED BY <2>1, ScriptSameOK
<1> QED
  BY <1>1, <1>2, <1>3, <1>4, <1>5, <1>6, <1>7, <1>8 DEF LifecycleNext, Step

-----------------------------------------------------------------------------
(* Types: the services.                                                     *)

LEMMA RoleIn ==
  ASSUME LifecycleTypeOK, phase # "enter" PROVE Role \in left /\ Role \in Roles
<1>1. left \in SUBSET Roles /\ left # {}
  BY DEF LifecycleTypeOK
<1> QED BY <1>1, FirstRoleIn DEF Role

LEMMA BootoutTyped ==
  ASSUME ServicesTypeOK, NEW S \in SUBSET Roles, Bootout(S) PROVE ServicesTypeOK'
<1> Realtime \in Roles
  BY RolesAssumption
<1>1. /\ \A r \in Roles : job'[r] = CASE r \in S /\ job[r] = "idle" -> "absent"
                                      [] r \in S /\ job[r] = "running" -> "leaving"
                                      [] OTHER -> job[r]
      /\ job' \in [Roles -> {"absent", "idle", "running", "leaving"}]
      /\ UNCHANGED <<plist, lastOk, runs, child, started, Up>>
      /\ event' = event \/ (Realtime \in S /\ Up /\ event = "none" /\ event' = "signal")
      /\ Realtime \in S /\ Up => event' # "none"
  BY DEF Bootout, Interrupt, supervisorVars, Up, ServicesTypeOK
<1>2. SupervisorTypeOK'
  BY <1>1 DEF ServicesTypeOK, SupervisorTypeOK, Up
<1>3. Up' <=> job'[Realtime] \in {"running", "leaving"}
  BY <1>1 DEF ServicesTypeOK
<1>4. job'[Realtime] = "leaving" => event' # "none"
  BY <1>1 DEF ServicesTypeOK
<1> QED BY <1>1, <1>2, <1>3, <1>4 DEF ServicesTypeOK

(* A job's process starts; of the realtime job, the pipeline's.             *)
LEMMA SpawnTyped ==
  ASSUME ServicesTypeOK, NEW r \in Roles, NEW state \in {"idle", "running"},
         NEW version \in Versions, job' = [job EXCEPT ![r] = state],
         lastOk' \in [Roles -> BOOLEAN], plist' = plist,
         job[r] \in {"absent", "idle"}, r = Realtime => state = "running",
         IF r = Realtime THEN SpawnChildren /\ runs' = version
         ELSE UNCHANGED <<supervisorVars, runs>>
  PROVE  ServicesTypeOK'
<1> Realtime \in Roles
  BY RolesAssumption
<1>1. CASE r = Realtime
  <2>1. /\ child' \in [Children -> {"none", "starting", "ready"} \cup Ends]
        /\ \A c \in Children : child'[c] = "starting"
        /\ started' = FALSE /\ event' = "none"
    BY <1>1 DEF SpawnChildren
  <2>2. SupervisorTypeOK'
    BY <2>1 DEF SupervisorTypeOK, Ends
  <2>3. Up'
    <3>1. "intake" \in Children /\ NoChild["intake"] = "none"
      BY DEF Children, NoChild
    <3>2. child' # NoChild
      BY <2>1, <3>1
    <3> QED BY <3>2 DEF Up
  <2>4. runs' \in Versions /\ runs' # None
    BY <1>1, RolesAssumption
  <2>5. job' \in [Roles -> {"absent", "idle", "running", "leaving"}]
        /\ job'[Realtime] = "running"
    BY <1>1 DEF ServicesTypeOK
  <2> QED BY <2>2, <2>3, <2>4, <2>5 DEF ServicesTypeOK
<1>2. CASE r # Realtime
  <2>1. /\ job' \in [Roles -> {"absent", "idle", "running", "leaving"}]
        /\ job'[Realtime] = job[Realtime] /\ UNCHANGED <<child, started, event, runs>>
    BY <1>2 DEF ServicesTypeOK, supervisorVars
  <2> QED BY <2>1 DEF ServicesTypeOK, SupervisorTypeOK, Up
<1> QED BY <1>1, <1>2

LEMMA BootstrapTyped ==
  ASSUME ServicesTypeOK, NEW r \in Roles, NEW version \in Versions, job[r] = "absent",
         Bootstrap(r, version)
  PROVE  ServicesTypeOK'
<1> DEFINE state == IF r = Realtime THEN "running" ELSE "idle"
<1>1. state \in {"idle", "running"} /\ (r = Realtime => state = "running")
  OBVIOUS
<1>2. lastOk' \in [Roles -> BOOLEAN]
  BY DEF Bootstrap, ServicesTypeOK
<1>3. job' = [job EXCEPT ![r] = state]
  BY DEF Bootstrap
<1> HIDE DEF state
<1> QED BY <1>1, <1>2, <1>3, SpawnTyped DEF Bootstrap

LEMMA LaunchTyped ==
  ASSUME ServicesTypeOK, NEW r \in Roles, NEW version \in Versions, LaunchJob(r, version)
  PROVE  ServicesTypeOK'
<1>1. lastOk' \in [Roles -> BOOLEAN]
  BY DEF LaunchJob, ServicesTypeOK
<1> QED BY <1>1, SpawnTyped DEF LaunchJob

LEMMA TimedJobTyped ==
  ASSUME ServicesTypeOK, NEW r \in Roles, NEW well \in BOOLEAN, TimedJobEnds(r, well)
  PROVE  ServicesTypeOK'
<1> Realtime \in Roles
  BY RolesAssumption
<1>1. /\ job' \in [Roles -> {"absent", "idle", "running", "leaving"}]
      /\ job'[Realtime] = job[Realtime] /\ UNCHANGED <<plist, child, started, event, runs>>
      /\ lastOk' \in [Roles -> BOOLEAN]
  BY DEF TimedJobEnds, JobEnds, ServicesTypeOK, supervisorVars
<1> QED BY <1>1 DEF ServicesTypeOK, SupervisorTypeOK, Up

LEMMA RealtimeTyped ==
  ASSUME ServicesTypeOK, RealtimeEnds PROVE ServicesTypeOK'
<1> Realtime \in Roles
  BY RolesAssumption
<1>1. child' = NoChild /\ started' = FALSE /\ event' = "none" /\ runs' = None
      /\ plist' = plist
  BY DEF RealtimeEnds, JobEnds, Return
<1>2. SupervisorTypeOK' /\ ~Up'
  BY <1>1 DEF SupervisorTypeOK, NoChild, Up, Ends, Children
<1>3. /\ job' \in [Roles -> {"absent", "idle", "running", "leaving"}]
      /\ job'[Realtime] \in {"absent", "idle"}
  BY DEF RealtimeEnds, JobEnds, ServicesTypeOK
<1>4. CodeIsZero \in BOOLEAN
  BY DEF CodeIsZero, ServicesTypeOK, SupervisorTypeOK
<1>5. lastOk' \in [Roles -> BOOLEAN]
  <2> DEFINE z == CodeIsZero
  <2>1. lastOk' = [lastOk EXCEPT ![Realtime] = z] /\ z \in BOOLEAN
    BY <1>4 DEF RealtimeEnds, JobEnds
  <2> HIDE DEF z
  <2> QED BY <2>1 DEF ServicesTypeOK
<1> QED BY <1>1, <1>2, <1>3, <1>5 DEF ServicesTypeOK

(* The pipeline's processes while the jobs stay as they are.                *)
LEMMA PipelineTyped ==
  ASSUME ServicesTypeOK, UNCHANGED <<plist, jobVars>>,
         \/ \E c \in Children : ChildReady(c)
         \/ \E c \in Children, how \in Ends : ChildExit(c, how)
         \/ StartupTimeout
  PROVE  ServicesTypeOK'
<1>1. /\ child \in [Children -> {"none", "starting", "ready"} \cup Ends]
      /\ started \in BOOLEAN
      /\ event \in Children \cup {"none", "signal", "timeout"}
      /\ (\E c \in Children : child[c] = "none") =>
           child = NoChild /\ ~started /\ event = "none"
      /\ started => \A c \in Children : child[c] # "starting"
      /\ event = "timeout" => ~started
      /\ event = "none" => \A c \in Children : child[c] \notin Ends
  BY DEF ServicesTypeOK, SupervisorTypeOK
<1>2. ASSUME NEW c \in Children, NEW state \in {"ready"} \cup Ends,
             child[c] \in {"starting", "ready"}, child' = [child EXCEPT ![c] = state]
      PROVE  /\ child' \in [Children -> {"none", "starting", "ready"} \cup Ends]
             /\ \A d \in Children : child[d] # "none"
             /\ \A d \in Children : child'[d] = IF d = c THEN state ELSE child[d]
             /\ \A d \in Children : child'[d] # "none"
             /\ Up /\ Up'
  <2>1. /\ child' \in [Children -> {"none", "starting", "ready"} \cup Ends]
        /\ \A d \in Children : child'[d] = IF d = c THEN state ELSE child[d]
    BY <1>1, <1>2
  <2>2. \A d \in Children : child[d] # "none"
    BY <1>1, <1>2 DEF NoChild
  <2>3. \A d \in Children : child'[d] # "none"
    BY <1>2, <2>1, <2>2 DEF Ends
  <2>4. child # NoChild /\ child' # NoChild
    BY <2>2, <2>3 DEF NoChild
  <2> QED BY <2>1, <2>2, <2>3, <2>4 DEF Up
<1>3. CASE \E c \in Children : ChildReady(c)
  <2>1. PICK c \in Children : ChildReady(c)
    BY <1>3
  <2>2. /\ child' \in [Children -> {"none", "starting", "ready"} \cup Ends]
        /\ \A d \in Children : child'[d] = IF d = c THEN "ready" ELSE child[d]
        /\ \A d \in Children : child'[d] # "none"
        /\ Up /\ Up' /\ event' = event /\ event = "none"
        /\ started' = (\A d \in Children : child'[d] = "ready")
    BY <1>2, <2>1 DEF ChildReady
  <2>3. started' \in BOOLEAN
    BY <2>2
  <2>4. SupervisorTypeOK'
    BY <1>1, <2>2, <2>3 DEF SupervisorTypeOK, Ends
  <2> QED BY <2>2, <2>4 DEF ServicesTypeOK, jobVars
<1>4. CASE \E c \in Children, how \in Ends : ChildExit(c, how)
  <2>1. PICK c \in Children, how \in Ends : ChildExit(c, how)
    BY <1>4
  <2>2. /\ child' \in [Children -> {"none", "starting", "ready"} \cup Ends]
        /\ \A d \in Children : child'[d] = IF d = c THEN how ELSE child[d]
        /\ \A d \in Children : child'[d] # "none"
        /\ Up /\ Up' /\ started' = started
        /\ event' = IF event = "none" THEN c ELSE event
    BY <1>2, <2>1 DEF ChildExit
  <2>3. event' # "none" /\ event' \in Children \cup {"none", "signal", "timeout"}
        /\ (event' = "timeout" => event = "timeout")
    BY <1>1, <2>2 DEF Children
  <2>4. SupervisorTypeOK'
    BY <1>1, <2>2, <2>3 DEF SupervisorTypeOK, Ends
  <2> QED BY <2>2, <2>3, <2>4 DEF ServicesTypeOK, jobVars
<1>5. CASE StartupTimeout
  BY <1>5 DEF StartupTimeout, ServicesTypeOK, SupervisorTypeOK, jobVars, Up
<1> QED BY <1>3, <1>4, <1>5

LEMMA ServicesSame ==
  ServicesTypeOK /\ UNCHANGED servicesVars => ServicesTypeOK'
  BY DEF servicesVars, jobVars, supervisorVars, ServicesTypeOK, SupervisorTypeOK, Up

-----------------------------------------------------------------------------
(* The steps of the commands in groups: those that change the place, those  *)
(* that change the jobs or nothing, and what happens by itself.             *)

PlaceStep ==
  \/ FileStep \/ PlacePacks \/ RestorePacks \/ InitStep \/ RemoveStep \/ HalfDone
  \/ DoctorPasses \/ VetPasses \/ TakeNote

LookStep ==
  \/ StepErrs \/ CandidateFails \/ DoctorFinds \/ DoctorRefuses
  \/ HealthCheck \/ FinalStatus \/ BeginStep \/ StopRefused \/ Stopped
  \/ StartMissing \/ Started

JobStep == Define \/ StopRole \/ StartRole \/ StartGivesUp \/ StartRefused

LEMMA Groups ==
  LifecycleNext <=> PlaceStep \/ LookStep \/ JobStep \/ Provision \/ Kill \/ Command
                    \/ Background
  BY DEF LifecycleNext, Step, Failure, PlaceStep, LookStep, JobStep

FaultOrNot == faults' = faults \/ Fault

LEMMA PlaceStepQuiet ==
  ASSUME PlaceStep
  PROVE  UNCHANGED <<servicesVars, provisioningVars>> /\ FaultOrNot /\ ~Finished
<1>1. CASE FileStep
  BY <1>1 DEF FileStep, FaultOrNot, At
<1>2. CASE PlacePacks \/ RestorePacks
  BY <1>2 DEF PlacePacks, RestorePacks, FaultOrNot, At
<1>3. CASE InitStep \/ RemoveStep \/ HalfDone
  BY <1>3 DEF InitStep, RemoveStep, HalfDone, FaultOrNot, At
<1>4. CASE DoctorPasses \/ VetPasses \/ TakeNote
  BY <1>4 DEF DoctorPasses, VetPasses, TakeNote, FaultOrNot, At
<1> QED BY <1>1, <1>2, <1>3, <1>4 DEF PlaceStep

(* How the others leave the script: a step that only looks, or treats       *)
(* roles, goes on, fails or stays.                                          *)
OnwardNow == Now \in {"healthy", "final", "stop", "start", "plists", "unplists"}

OnwardOrFails == ScriptSame \/ StepFails \/ (Advance /\ OnwardNow)

LEMMA RolesOnward ==
  /\ OnwardNow => (\A S : BeginRoles(S) => OnwardOrFails) /\ (RoleDone => OnwardOrFails)
  /\ AwaitRole => OnwardOrFails
  BY DEF BeginRoles, RoleDone, AwaitRole, OnwardOrFails, ScriptSame

LEMMA LookStepQuiet ==
  ASSUME LookStep
  PROVE  /\ UNCHANGED <<placeVars, records, servicesVars, provisioningVars>>
         /\ FaultOrNot /\ ~Finished /\ Now # "provision" /\ OnwardOrFails
<1>1. CASE StepErrs
  BY <1>1 DEF StepErrs, FaultOrNot, OnwardOrFails, Now
<1>2. CASE CandidateFails \/ DoctorFinds \/ DoctorRefuses
  BY <1>2 DEF CandidateFails, DoctorFinds, DoctorRefuses, FaultOrNot, OnwardOrFails, At, Now
<1>3. CASE HealthCheck \/ FinalStatus
  BY <1>3 DEF HealthCheck, FinalStatus, FaultOrNot, OnwardOrFails, OnwardNow, At, Now
<1>4. CASE StopRefused \/ StartMissing
  BY <1>4 DEF StopRefused, StartMissing, FaultOrNot, OnwardOrFails, Acting, At, Now
<1>5. CASE BeginStep
  <2>1. ~Finished /\ Now \in {"stop", "start", "plists", "unplists"}
    BY <1>5 DEF BeginStep, At, Now
  <2> QED BY <1>5, <2>1, RolesOnward DEF BeginStep, FaultOrNot, OnwardNow
<1>6. CASE Stopped \/ Started
  <2>1. ~Finished /\ Now \in {"stop", "start"}
    BY <1>6 DEF Stopped, Started, Awaiting, At, Now
  <2> QED BY <1>6, <2>1, RolesOnward DEF Stopped, Started, FaultOrNot, OnwardNow
<1> QED BY <1>1, <1>2, <1>3, <1>4, <1>5, <1>6 DEF LookStep

LEMMA JobStepQuiet ==
  ASSUME JobStep
  PROVE  /\ UNCHANGED <<placeVars, records, provisioningVars>>
         /\ FaultOrNot /\ ~Finished /\ Now # "provision" /\ OnwardOrFails
         /\ phase # "enter"
<1>1. ~Finished /\ Now \in {"stop", "start", "plists", "unplists"} /\ phase # "enter"
  BY DEF JobStep, Define, StopRole, StartRole, StartGivesUp, StartRefused, Acting, Awaiting,
         At, Now
<1>2. CASE Define
  BY <1>1, <1>2, RolesOnward DEF Define, FaultOrNot, OnwardNow
<1>3. CASE StopRole \/ StartRole
  BY <1>1, <1>3, RolesOnward DEF StopRole, StartRole, FaultOrNot
<1>4. CASE StartGivesUp \/ StartRefused
  BY <1>1, <1>4 DEF StartGivesUp, StartRefused, FaultOrNot, OnwardOrFails
<1> QED BY <1>1, <1>2, <1>3, <1>4 DEF JobStep

LEMMA BackgroundQuiet ==
  ASSUME Background
  PROVE  UNCHANGED <<placeVars, scriptVars, records, plist>> /\ FaultOrNot
<1>1. ASSUME NEW r \in Roles, Launch(r)
      PROVE  UNCHANGED <<placeVars, scriptVars, records, plist>> /\ FaultOrNot
  BY <1>1 DEF Launch, LaunchJob, FaultOrNot
<1>2. ASSUME NEW r \in Roles, NEW well \in BOOLEAN, TimedJobOver(r, well)
      PROVE  UNCHANGED <<placeVars, scriptVars, records, plist>> /\ FaultOrNot
  BY <1>2 DEF TimedJobOver, TimedJobEnds, JobEnds, FaultOrNot
<1>3. ASSUME NEW c \in Children, ChildIsReady(c) \/ \E how \in Ends : ChildEnds(c, how)
      PROVE  UNCHANGED <<placeVars, scriptVars, records, plist>> /\ FaultOrNot
  BY <1>3 DEF ChildIsReady, ChildEnds, FaultOrNot
<1>4. CASE StartupTimesOut \/ PipelineEnds
  BY <1>4 DEF StartupTimesOut, PipelineEnds, RealtimeEnds, JobEnds, FaultOrNot
<1>5. ASSUME NEW x \in Things, Shows(x)
      PROVE  UNCHANGED <<placeVars, scriptVars, records, plist>> /\ FaultOrNot
  BY <1>5 DEF Shows, servicesVars, FaultOrNot
<1> QED BY <1>1, <1>2, <1>3, <1>4, <1>5 DEF Background

LEMMA CommandQuiet ==
  ASSUME Command
  PROVE  /\ UNCHANGED <<placeVars, records, servicesVars, provisioningVars>> /\ FaultOrNot
         /\ \E command \in Commands \ {"none"}, aim \in Configs \cup Versions \cup {None} :
              \E script : Issue(command, aim, script)
<1> DEFINE P == /\ UNCHANGED <<placeVars, records, servicesVars, provisioningVars>>
                /\ FaultOrNot
           Given == \E command \in Commands \ {"none"},
                       aim \in Configs \cup Versions \cup {None} :
                      \E script : Issue(command, aim, script)
<1>1. \A command, aim, script : Issue(command, aim, script) => P
  BY DEF Issue, FaultOrNot
<1>2. Given => P
  <2> HIDE DEF P
  <2> QED BY <1>1
<1>3. ASSUME NEW command \in Commands \ {"none"},
             NEW aim \in Configs \cup Versions \cup {None}, NEW script,
             Issue(command, aim, script)
      PROVE  Given
  BY <1>3
<1> HIDE DEF Given
<1>4. ASSUME NEW c \in Configs, Setup(c) PROVE Given
  <2>1. "setup" \in Commands \ {"none"} /\ Issue("setup", c, SetupScript(root = "ready"))
    BY <1>4 DEF Setup, Commands
  <2> QED BY <1>3, <2>1
<1>5. ASSUME NEW c \in Configs, Configure(c) PROVE Given
  <2>1. /\ "configure" \in Commands \ {"none"}
        /\ Issue("configure", c, <<Do("packs"), Do("config")>>)
    BY <1>5 DEF Configure, Commands
  <2> QED BY <1>3, <2>1
<1>6. ASSUME NEW c \in Configs, UpdateConfig(c) PROVE Given
  <2>1. /\ "config update" \in Commands \ {"none"}
        /\ Issue("config update", c, <<Do("config")>>)
    BY <1>6 DEF UpdateConfig, Commands
  <2> QED BY <1>3, <2>1
<1>7. ASSUME NEW v \in Versions, Switch(v) PROVE Given
  <2>1. "switch" \in Commands \ {"none"} /\ Issue("switch", v, SwitchScript(LoadedRoles))
    BY <1>7 DEF Switch, Commands
  <2> QED BY <1>3, <2>1
<1>8. None \in Configs \cup Versions \cup {None}
  OBVIOUS
<1>9. ASSUME InitCommand PROVE Given
  <2>1. "init" \in Commands \ {"none"} /\ Issue("init", None, <<Do("init")>>)
    BY <1>9 DEF InitCommand, Commands
  <2> QED BY <1>3, <1>8, <2>1
<1>10. ASSUME ServiceCommand PROVE Given
  <2>1. /\ "service" \in Commands \ {"none"}
        /\ \E script \in ServiceScripts : Issue("service", None, script)
    BY <1>10 DEF ServiceCommand, Commands
  <2> QED BY <1>3, <1>8, <2>1
<1>11. ASSUME Enable PROVE Given
  <2>1. /\ "enable" \in Commands \ {"none"}
        /\ Issue("enable", None, <<Do("doctor"), All("healthy"), Do("resume")>>)
    BY <1>11 DEF Enable, Commands
  <2> QED BY <1>3, <1>8, <2>1
<1>12. ASSUME Freeze PROVE Given
  <2>1. "freeze" \in Commands \ {"none"} /\ Issue("freeze", None, <<Do("freeze")>>)
    BY <1>12 DEF Freeze, Commands
  <2> QED BY <1>3, <1>8, <2>1
<1>13. ASSUME Uninstall PROVE Given
  <2>1. /\ "uninstall" \in Commands \ {"none"}
        /\ Issue("uninstall", None, <<All("stop"), All("unplists"), Do("remove")>>)
    BY <1>13 DEF Uninstall, Commands
  <2> QED BY <1>3, <1>8, <2>1
<1>14. Given
  BY <1>4, <1>5, <1>6, <1>7, <1>9, <1>10, <1>11, <1>12, <1>13 DEF Command
<1> QED BY <1>2, <1>14 DEF Given

-----------------------------------------------------------------------------
(* Types: the services after a step.                                        *)

LEMMA ServicesNext ==
  ASSUME LifecycleTypeOK, LifecycleNext PROVE ServicesTypeOK'
<1> ServicesTypeOK /\ begun \in SUBSET Roles
  BY DEF LifecycleTypeOK
<1>1. CASE UNCHANGED servicesVars
  BY <1>1, ServicesSame
<1>2. CASE PlaceStep \/ LookStep \/ Command
  BY <1>1, <1>2, PlaceStepQuiet, LookStepQuiet, CommandQuiet
<1>3. CASE Provision \/ Kill
  BY <1>1, <1>3 DEF Provision, Kill
<1>4. CASE Define
  <2>1. Role \in Roles
    BY <1>4, RoleIn DEF Define, Acting
  <2>2. UNCHANGED <<jobVars, supervisorVars>> /\ plist' \subseteq Roles
    BY <1>4, <2>1 DEF Define, ServicesTypeOK
  <2> QED BY <2>2 DEF jobVars, supervisorVars, ServicesTypeOK, SupervisorTypeOK, Up
<1>5. CASE StopRole
  <2>1. {Role} \in SUBSET Roles /\ Bootout({Role})
    BY <1>5, RoleIn DEF StopRole, Acting
  <2> QED BY <2>1, BootoutTyped
<1>6. CASE StartRole
  <2>1. Role \in Roles /\ active \in Versions /\ job[Role] = "absent"
    BY <1>6, RoleIn DEF StartRole, Acting, LifecycleTypeOK
  <2> QED BY <1>6, <2>1, BootstrapTyped DEF StartRole
<1>7. CASE StartGivesUp \/ StartRefused
  BY <1>7, BootoutTyped DEF StartGivesUp, StartRefused
<1>8. ASSUME NEW r \in Roles, Launch(r) PROVE ServicesTypeOK'
  <2>1. CASE active = None
    <3>1. /\ UNCHANGED <<plist, job, runs, supervisorVars>>
          /\ lastOk' \in [Roles -> BOOLEAN]
      BY <1>8, <2>1 DEF Launch, ServicesTypeOK
    <3> QED BY <3>1 DEF supervisorVars, ServicesTypeOK, SupervisorTypeOK, Up
  <2>2. CASE active # None
    <3>1. active \in Versions
      BY <2>2 DEF LifecycleTypeOK
    <3> QED BY <1>8, <2>2, <3>1, LaunchTyped DEF Launch
  <2> QED BY <2>1, <2>2
<1>9. ASSUME NEW r \in Roles, NEW well \in BOOLEAN, TimedJobOver(r, well)
      PROVE  ServicesTypeOK'
  BY <1>9, TimedJobTyped DEF TimedJobOver
<1>10. ASSUME NEW c \in Children, ChildIsReady(c) \/ \E how \in Ends : ChildEnds(c, how)
       PROVE  ServicesTypeOK'
  BY <1>10, PipelineTyped DEF ChildIsReady, ChildEnds
<1>11. CASE StartupTimesOut
  BY <1>11, PipelineTyped DEF StartupTimesOut
<1>12. CASE PipelineEnds
  BY <1>12, RealtimeTyped DEF PipelineEnds
<1>13. ASSUME NEW x \in Things, Shows(x) PROVE ServicesTypeOK'
  BY <1>1, <1>13 DEF Shows
<1> QED
  BY <1>2, <1>3, <1>4, <1>5, <1>6, <1>7, <1>8, <1>9, <1>10, <1>11, <1>12, <1>13, Groups
     DEF JobStep, Background

-----------------------------------------------------------------------------
(* Types: the script.                                                       *)

ScriptTyped ==
  /\ cmd \in Commands /\ goal \in Configs \cup Versions \cup {None}
  /\ note = None \/ note \in Place
  /\ mood \in {"forward", "recover", "broken"}
  /\ outcome \in {"none", "done", "failed", "unrecovered", "killed"}
  /\ issued \in 0..MaxCommands

PhaseTyped ==
  /\ phase \in {"enter", "act", "wait"}
  /\ left \subseteq Roles /\ begun \subseteq Roles
  /\ phase # "enter" => left # {}

(* A setup is counted once it has its resources.                            *)
Unspent == At("provision") => issued < MaxCommands

LEMMA FinishTyped ==
  ASSUME ScriptTyped, NEW result \in {"done", "failed", "unrecovered", "killed"},
         Finish(result), issued' = issued
  PROVE  ScriptTyped'
  BY DEF ScriptTyped, Finish, Commands

LEMMA OnwardTyped ==
  ASSUME ScriptTyped, ScriptSame \/ StepFails \/ Advance PROVE ScriptTyped'
<1>1. CASE ScriptSame
  BY <1>1 DEF ScriptSame, ScriptTyped
<1>2. CASE StepFails
  <2> DEFINE rest == IF mood = "forward" THEN Recovery ELSE Salvage
  <2>1. issued' = issued
    BY <1>2 DEF StepFails
  <2>2. CASE rest = <<>>
    <3>1. Finish(IF mood = "forward" THEN "failed" ELSE "unrecovered")
      BY <1>2, <2>2 DEF StepFails
    <3> QED BY <2>1, <3>1, FinishTyped
  <2>3. CASE rest # <<>>
    <3>1. mood' \in {"recover", "broken"} /\ UNCHANGED <<cmd, goal, note, outcome>>
      BY <1>2, <2>3 DEF StepFails
    <3> QED BY <2>1, <3>1 DEF ScriptTyped
  <2> QED BY <2>2, <2>3
<1>3. CASE Advance
  <2>1. Result \in {"done", "failed", "unrecovered", "killed"}
    BY DEF Result
  <2>2. issued' = issued /\ (Finish(Result) \/ UNCHANGED <<cmd, goal, note, mood, outcome>>)
    BY <1>3 DEF Advance
  <2>3. CASE Finish(Result)
    BY <2>1, <2>2, <2>3, FinishTyped
  <2>4. CASE UNCHANGED <<cmd, goal, note, mood, outcome>>
    BY <2>2, <2>4 DEF ScriptTyped
  <2> QED BY <2>2, <2>3, <2>4
<1> QED BY <1>1, <1>2, <1>3

LEMMA PlaceStepScript ==
  ASSUME PlaceStep
  PROVE  /\ TakeNote \/ StepFails \/ Advance
         /\ Now \notin {"provision", "healthy", "final", "stop", "start", "plists", "unplists"}
<1>1. CASE FileStep \/ PlacePacks \/ RestorePacks
  BY <1>1 DEF FileStep, PlacePacks, RestorePacks, At, Now
<1>2. CASE InitStep \/ RemoveStep \/ HalfDone
  BY <1>2 DEF InitStep, RemoveStep, HalfDone, At, Now
<1>3. CASE DoctorPasses \/ VetPasses \/ TakeNote
  BY <1>3 DEF DoctorPasses, VetPasses, TakeNote, At, Now
<1> QED BY <1>1, <1>2, <1>3 DEF PlaceStep

LEMMA ScriptTypedNext ==
  ASSUME LifecycleTypeOK, ScriptOK, PlaceOK, Unspent, LifecycleNext PROVE ScriptTyped'
<1> ScriptTyped
  BY DEF LifecycleTypeOK, ScriptTyped
<1>1. CASE TakeNote
  <2>1. note' \in Place /\ UNCHANGED <<cmd, goal, mood, outcome, issued>>
    BY <1>1, NoteGoesOn, FoundTyped DEF TakeNote
  <2> QED BY <2>1 DEF ScriptTyped
<1>2. CASE PlaceStep \/ LookStep \/ JobStep
  BY <1>1, <1>2, PlaceStepScript, LookStepQuiet, JobStepQuiet, OnwardTyped
     DEF OnwardOrFails
<1>3. CASE Provision
  <2>1. CASE ScriptSame
    BY <2>1, OnwardTyped
  <2>2. CASE GoesOn /\ note' = note /\ issued' = issued + 1
    <3>1. issued < MaxCommands
      BY <1>3, ProvisionCases DEF Unspent, At, Now
    <3>2. issued' \in 0..MaxCommands
      BY <2>2, <3>1, LifecycleAssumption DEF ScriptTyped
    <3> QED BY <2>2, <3>2 DEF GoesOn, ScriptTyped
  <2>3. CASE Finish("failed") /\ issued' = issued
    BY <2>3, FinishTyped
  <2> QED BY <1>3, <2>1, <2>2, <2>3, ProvisionCases
<1>4. CASE Kill
  BY <1>4, FinishTyped DEF Kill
<1>5. CASE Command
  <2>1. PICK command \in Commands \ {"none"}, aim \in Configs \cup Versions \cup {None} :
          \E script : Issue(command, aim, script)
    BY <1>5, CommandQuiet
  <2>2. /\ cmd' = command /\ goal' = aim /\ mood' = "forward" /\ outcome' = "none"
        /\ note' = IF root = "ready" THEN Found ELSE None
        /\ issued < MaxCommands /\ issued' \in {issued, issued + 1}
    BY <2>1 DEF Issue
  <2>3. issued' \in 0..MaxCommands
    BY <2>2, LifecycleAssumption DEF ScriptTyped
  <2>4. note' = None \/ note' \in Place
    BY <2>2, FoundTyped
  <2> QED BY <2>1, <2>2, <2>3, <2>4 DEF ScriptTyped
<1>6. CASE Background
  BY <1>6, BackgroundQuiet DEF scriptVars, ScriptTyped
<1> QED BY <1>2, <1>3, <1>4, <1>5, <1>6, Groups

-----------------------------------------------------------------------------
(* Types: the roles a step treats.                                          *)

LEMMA EnterTyped == \A script : Enter(script) => PhaseTyped'
  BY DEF Enter, PhaseTyped

LEMMA MovesTyped ==
  ASSUME PhaseTyped
  PROVE  /\ Advance \/ StepFails => PhaseTyped'
         /\ \A S \in SUBSET Roles : BeginRoles(S) => PhaseTyped'
         /\ RoleDone /\ phase # "enter" => PhaseTyped'
         /\ AwaitRole /\ phase # "enter" /\ begun' \subseteq Roles => PhaseTyped'
<1>1. Advance \/ StepFails => PhaseTyped'
  BY EnterTyped DEF Advance, StepFails, Finish
<1>2. ASSUME NEW S \in SUBSET Roles, BeginRoles(S) PROVE PhaseTyped'
  BY <1>1, <1>2 DEF BeginRoles, PhaseTyped
<1>3. ASSUME RoleDone, phase # "enter" PROVE PhaseTyped'
  <2> DEFINE r == FirstRole(left)
  <2> HIDE DEF r
  <2>1. CASE left = {r}
    BY <1>1, <1>3, <2>1 DEF RoleDone, r
  <2>2. CASE left # {r}
    <3>1. left' = left \ {r} /\ phase' = "act" /\ begun' = begun
      BY <1>3, <2>2 DEF RoleDone, r
    <3>2. left # {}
      BY <1>3 DEF PhaseTyped
    <3>3. left' # {} /\ left' \subseteq Roles
      BY <2>2, <3>1, <3>2 DEF PhaseTyped
    <3> QED BY <3>1, <3>3 DEF PhaseTyped
  <2> QED BY <2>1, <2>2
<1>4. ASSUME AwaitRole, phase # "enter", begun' \subseteq Roles PROVE PhaseTyped'
  BY <1>4 DEF AwaitRole, PhaseTyped
<1> QED BY <1>1, <1>2, <1>3, <1>4

LEMMA PhaseTypedNext ==
  ASSUME LifecycleTypeOK, ScriptOK, LifecycleNext PROVE PhaseTyped'
<1> PhaseTyped
  BY DEF LifecycleTypeOK, PhaseTyped
<1>1. CASE Advance \/ StepFails
  BY <1>1, MovesTyped
<1>2. CASE PlaceStep
  <2>1. CASE TakeNote
    BY <2>1, EnterTyped DEF TakeNote
  <2> QED BY <1>1, <1>2, <2>1, PlaceStepScript
<1>3. CASE BeginStep
  <2>1. Those \in SUBSET Roles
    <3>1. todo \in Seq(AnyStep) /\ todo # <<>>
      BY <1>3 DEF BeginStep, ScriptOK
    <3>2. Head(todo) \in AnyStep
      BY <3>1
    <3> QED BY <3>2 DEF AnyStep, Those
  <2>2. \E S \in SUBSET Those : BeginRoles(S)
    BY <1>3 DEF BeginStep
  <2> QED BY <2>1, <2>2, MovesTyped
<1>4. CASE LookStep /\ ~BeginStep
  <2>1. CASE Stopped \/ Started
    BY <2>1, MovesTyped DEF Stopped, Started, Awaiting
  <2>2. CASE StepErrs \/ CandidateFails \/ DoctorFinds \/ DoctorRefuses
    BY <1>1, <2>2 DEF StepErrs, CandidateFails, DoctorFinds, DoctorRefuses
  <2>3. CASE HealthCheck \/ FinalStatus \/ StopRefused \/ StartMissing
    BY <1>1, <2>3 DEF HealthCheck, FinalStatus, StopRefused, StartMissing
  <2> QED BY <1>4, <2>1, <2>2, <2>3 DEF LookStep
<1>5. CASE JobStep
  <2>1. CASE Define
    BY <2>1, MovesTyped DEF Define, Acting
  <2>2. CASE StopRole
    BY <2>2, MovesTyped DEF StopRole, Acting, PhaseTyped
  <2>3. CASE StartRole
    <3>1. begun' \subseteq Roles /\ phase # "enter" /\ AwaitRole
      BY <2>3, RoleIn DEF StartRole, Acting, PhaseTyped
    <3> QED BY <3>1, MovesTyped
  <2>4. CASE StartGivesUp \/ StartRefused
    BY <1>1, <2>4 DEF StartGivesUp, StartRefused
  <2> QED BY <1>5, <2>1, <2>2, <2>3, <2>4 DEF JobStep
<1>6. CASE Provision
  <2>1. CASE UNCHANGED <<phase, left, begun>>
    BY <2>1 DEF PhaseTyped
  <2>2. CASE Enter(Tail(todo)) \/ Finish("failed")
    BY <2>2, EnterTyped DEF Finish
  <2> QED BY <1>6, <2>1, <2>2, ProvisionCases
<1>7. CASE Kill
  BY <1>7, EnterTyped DEF Kill, Finish
<1>8. CASE Command
  BY <1>8, CommandQuiet, EnterTyped DEF Issue
<1>9. CASE Background
  BY <1>9, BackgroundQuiet DEF scriptVars, PhaseTyped
<1> QED BY <1>2, <1>3, <1>4, <1>5, <1>6, <1>7, <1>8, <1>9, Groups

-----------------------------------------------------------------------------
(* Types: the resources.                                                    *)

LEMMA ProvisioningTypedNext ==
  ASSUME ProvisioningTypeOK, OperationsInv, OperationsInv', LifecycleNext
  PROVE  ProvisioningTypeOK'
<1> DEFINE Goal == missing' \subseteq Things
                   /\ doing' \in {"none", "look", "verify", "recover"}
<1>1. UNCHANGED provisioningVars => Goal
  BY DEF provisioningVars, ProvisioningTypeOK
<1>2. ASSUME PlaceStep \/ LookStep \/ JobStep \/ Command PROVE Goal
  BY <1>1, <1>2, PlaceStepQuiet, LookStepQuiet, JobStepQuiet, CommandQuiet
<1>3. ASSUME Kill PROVE Goal
  BY <1>1, <1>3 DEF Kill, GiveUp
<1>4. ASSUME Provision PROVE Goal
  <2>1. ASSUME \E S \in SUBSET Things : BeginProvisioning(S) PROVE Goal
    BY <2>1 DEF BeginProvisioning
  <2>2. ASSUME EndProvisioning PROVE Goal
    BY <2>2 DEF EndProvisioning
  <2>3. ASSUME Reuse \/ Create \/ ReadBack \/ \E done \in BOOLEAN : CreateUncertain(done) PROVE Goal
    BY <2>3 DEF Reuse, Create, ReadBack, CreateUncertain, Ensured, ProvisioningTypeOK
  <2>4. ASSUME ProvisioningFails PROVE Goal
    BY <2>4 DEF ProvisioningFails, Ambiguous, LookFails, RowsUnreadable, SchemaConflicts,
                RowsConflict, CreateRefused, Unverified, Unrecovered, ReadBackFails, GiveUp
  <2>5. Things \in SUBSET Things /\ {} \in SUBSET Things
    OBVIOUS
  <2> HIDE DEF Goal
  <2> QED BY <1>4, <2>1, <2>2, <2>3, <2>4, <2>5 DEF Provision, ProvisioningFails
<1>5. ASSUME Background PROVE Goal
  <2>1. ASSUME \E x \in Things : Shows(x) PROVE Goal
    BY <2>1 DEF Shows, Appear, ProvisioningTypeOK
  <2>2. ASSUME ~\E x \in Things : Shows(x) PROVE Goal
    BY <1>1, <1>5, <2>2, BackgroundInv
  <2> QED BY <2>1, <2>2
<1>6. Goal
  <2> HIDE DEF Goal
  <2> QED BY <1>2, <1>3, <1>4, <1>5, Groups
<1> QED BY <1>6 DEF OperationsInv, ProvisioningInv, ProvisioningTypeOK

-----------------------------------------------------------------------------
(* Types: the place.                                                        *)

PlaceTyped ==
  /\ root \in {"empty", "partial", "ready", "data"}
  /\ active \in Versions \cup {None} /\ previous \in Versions \cup {None}
  /\ config \in Configs \cup {None} /\ packs \in Configs \cup {None}
  /\ frozen \in BOOLEAN
  /\ vetted \subseteq (Configs \X (Configs \cup {None}) \X Versions)
  /\ approved \subseteq Configs
  /\ (root = "ready") <=> (active # None)

LEMMA NoteTyped ==
  ASSUME LifecycleTypeOK, note # None
  PROVE  /\ note \in Place /\ note.frozen \in BOOLEAN
         /\ note.config \in Configs \cup {None} /\ note.packs \in Configs \cup {None}
         /\ note.active \in Versions \cup {None} /\ note.previous \in Versions \cup {None}
         /\ note.installed \subseteq Roles /\ note.loaded \subseteq Roles
<1>1. note \in Place
  BY DEF LifecycleTypeOK
<1> QED BY <1>1 DEF Place

(* What the place and the note are at the steps that use them.              *)
LEMMA PlaceKnows ==
  ASSUME LifecycleTypeOK, ScriptOK, PlaceOK, ~Finished
  PROVE  /\ Whereabouts /\ PlaceTyped
         /\ Now \in {"packs", "config"} => goal \in Configs
         /\ Now \in {"vet", "point"} => goal \in Versions
         /\ Now = "init" => root # "ready"
         /\ Now \in {"unpacks", "unconfig", "thaw", "vet", "point", "unpoint"} =>
              note # None /\ NoteOK
         /\ cmd # "init" /\ Now \notin {"provision", "init"} => root = "ready"
<1>1. Whereabouts
  BY StepsOf
<1>2. PlaceTyped
  BY DEF LifecycleTypeOK, PlaceTyped
<1>3. Now \in {"packs", "config"} => goal \in Configs
  BY <1>1 DEF Whereabouts, ScriptOK
<1>4. Now \in {"vet", "point"} => goal \in Versions
  BY <1>1 DEF Whereabouts, ScriptOK
<1>5. Now = "init" => root # "ready"
  BY <1>1 DEF Whereabouts, PlaceOK, SetupPlace
<1>6. Now \in {"unpacks", "unconfig", "thaw", "vet", "point", "unpoint"} => note # None
  BY <1>1 DEF Whereabouts, ScriptOK
<1>7. note # None => NoteOK
  BY DEF PlaceOK, ScriptOK
<1>8. cmd # "init" /\ Now \notin {"provision", "init"} => root = "ready"
  <2>1. CASE note # None
    BY <1>7, <2>1 DEF NoteOK
  <2>2. CASE note = None
    <3>1. cmd \in {"setup", "init"}
      BY <2>2 DEF ScriptOK
    <3> QED BY <2>2, <3>1 DEF PlaceOK, SetupPlace
  <2> QED BY <2>1, <2>2
<1> QED BY <1>1, <1>2, <1>3, <1>4, <1>5, <1>6, <1>7, <1>8

LEMMA FileStepTyped ==
  ASSUME LifecycleTypeOK, ScriptOK, PlaceOK, FileStep PROVE PlaceTyped'
<1>1. ~Finished
  BY DEF FileStep, At
<1>2. /\ Whereabouts /\ PlaceTyped
      /\ Now = "config" => goal \in Configs
      /\ Now = "point" => goal \in Versions
      /\ Now \in {"unconfig", "thaw", "point", "unpoint"} => note # None /\ NoteOK
  BY <1>1, PlaceKnows
<1>3. UNCHANGED <<root, packs, vetted, approved>>
  BY DEF FileStep, records
<1>4. CASE At("config") /\ config' = goal /\ UNCHANGED <<active, previous, frozen>>
  BY <1>2, <1>3, <1>4 DEF PlaceTyped, At, Now
<1>5. CASE At("unconfig") /\ config' = note.config /\ UNCHANGED <<active, previous, frozen>>
  <2>1. note.config \in Configs \cup {None}
    BY <1>2, <1>5, NoteTyped DEF At, Now
  <2> QED BY <1>2, <1>3, <1>5, <2>1 DEF PlaceTyped
<1>6. CASE At("point") /\ active' = goal /\ previous' = active /\ UNCHANGED <<config, frozen>>
  <2>1. goal \in Versions /\ root = "ready"
    BY <1>2, <1>6 DEF At, Now, NoteOK
  <2> QED BY <1>2, <1>3, <1>6, <2>1, RolesAssumption DEF PlaceTyped
<1>7. CASE At("unpoint") /\ active' = note.active /\ previous' = note.previous
           /\ UNCHANGED <<config, frozen>>
  <2>1. /\ note.active \in Versions /\ root = "ready"
        /\ note.previous \in Versions \cup {None}
    BY <1>2, <1>7, NoteTyped DEF At, Now, NoteOK
  <2> QED BY <1>2, <1>3, <1>7, <2>1, RolesAssumption DEF PlaceTyped
<1>8. CASE frozen' \in BOOLEAN /\ UNCHANGED <<active, previous, config>>
  BY <1>2, <1>3, <1>8 DEF PlaceTyped
<1>9. At("thaw") => note.frozen \in BOOLEAN
  BY <1>2, NoteTyped DEF At, Now
<1> QED BY <1>4, <1>5, <1>6, <1>7, <1>8, <1>9 DEF FileStep

LEMMA PlaceStepTyped ==
  ASSUME LifecycleTypeOK, ScriptOK, PlaceOK, PlaceStep PROVE PlaceTyped'
<1>1. ~Finished
  BY PlaceStepQuiet
<1>2. /\ Whereabouts /\ PlaceTyped
      /\ Now = "packs" => goal \in Configs
      /\ Now \in {"vet", "point"} => goal \in Versions
      /\ Now = "init" => root # "ready"
      /\ Now = "unpacks" => note # None
  BY <1>1, PlaceKnows
<1>3. CASE FileStep
  BY <1>3, FileStepTyped
<1>4. CASE PlacePacks
  <2>1. goal \in Configs
    BY <1>2, <1>4 DEF PlacePacks, At, Now
  <2> QED BY <1>2, <1>4, <2>1 DEF PlacePacks, PlaceTyped
<1>5. CASE RestorePacks
  <2>1. note.packs \in Configs \cup {None}
    BY <1>2, <1>5, NoteTyped DEF RestorePacks, At, Now
  <2> QED BY <1>2, <1>5, <2>1 DEF RestorePacks, PlaceTyped, records
<1>6. CASE InitStep
  BY <1>2, <1>6, RolesAssumption DEF InitStep, PlaceTyped, records
<1>7. CASE RemoveStep \/ HalfDone
  BY <1>2, <1>7 DEF RemoveStep, HalfDone, PlaceTyped, records
<1>8. CASE DoctorPasses
  <2>1. config \in Configs /\ active \in Versions /\ packs \in Configs \cup {None}
    <3>1. config # None
      BY <1>8 DEF DoctorPasses
    <3>2. root = "ready"
      BY <3>1 DEF PlaceOK
    <3> QED BY <1>2, <3>1, <3>2 DEF PlaceTyped
  <2>2. vetted' = vetted \cup {<<config, packs, active>>}
        /\ UNCHANGED <<root, active, previous, config, packs, frozen, approved>>
    BY <1>8 DEF DoctorPasses, placeVars
  <2> QED BY <1>2, <2>1, <2>2 DEF PlaceTyped
<1>9. CASE VetPasses
  <2>1. goal \in Versions /\ packs \in Configs \cup {None}
    BY <1>2, <1>9 DEF VetPasses, At, Now, PlaceTyped
  <2>2. /\ \/ config \in Configs /\ vetted' = vetted \cup {<<config, packs, goal>>}
           \/ vetted' = vetted
        /\ UNCHANGED <<root, active, previous, config, packs, frozen, approved>>
    BY <1>2, <1>9 DEF VetPasses, placeVars, PlaceTyped
  <2> QED BY <1>2, <2>1, <2>2 DEF PlaceTyped
<1>10. CASE TakeNote
  BY <1>2, <1>10 DEF TakeNote, PlaceTyped, placeVars, records
<1> QED BY <1>3, <1>4, <1>5, <1>6, <1>7, <1>8, <1>9, <1>10 DEF PlaceStep

LEMMA PlaceTypedNext ==
  ASSUME LifecycleTypeOK, ScriptOK, PlaceOK, LifecycleNext PROVE PlaceTyped'
<1> PlaceTyped
  BY DEF LifecycleTypeOK, PlaceTyped
<1>1. CASE PlaceStep
  BY <1>1, PlaceStepTyped
<1>2. CASE UNCHANGED <<placeVars, records>>
  BY <1>2 DEF placeVars, records, PlaceTyped
<1>3. CASE LookStep \/ JobStep \/ Command \/ Background
  BY <1>2, <1>3, LookStepQuiet, JobStepQuiet, CommandQuiet, BackgroundQuiet
<1>4. CASE Provision
  BY <1>2, <1>4 DEF Provision
<1>5. CASE Kill
  <2>1. At("init") => root # "ready"
    BY PlaceKnows DEF At, Now
  <2>2. /\ root' = IF At("init") THEN "partial" ELSE root
        /\ UNCHANGED <<active, previous, config, packs, frozen, vetted, approved>>
    BY <1>5 DEF Kill, records
  <2> QED BY <2>1, <2>2 DEF PlaceTyped
<1> QED BY <1>1, <1>3, <1>4, <1>5, Groups

LEMMA FaultTyped ==
  ASSUME LifecycleTypeOK, LifecycleNext PROVE faults' \in 0..MaxFaults
<1>1. FaultOrNot
  <2>1. CASE PlaceStep \/ LookStep \/ JobStep \/ Command \/ Background
    BY <2>1, PlaceStepQuiet, LookStepQuiet, JobStepQuiet, CommandQuiet, BackgroundQuiet
  <2>2. CASE Provision \/ Kill
    BY <2>2 DEF Provision, Kill, FaultOrNot
  <2> QED BY <2>1, <2>2, Groups
<1>2. faults \in 0..MaxFaults /\ MaxFaults \in Nat
  BY LifecycleAssumption DEF LifecycleTypeOK
<1> QED BY <1>1, <1>2 DEF FaultOrNot, Fault

LEMMA TypeNext ==
  ASSUME LifecycleTypeOK, ScriptOK, PlaceOK, Unspent, OperationsInv, LifecycleNext
  PROVE  LifecycleTypeOK'
<1>1. OperationsInv' /\ ScriptOK'
  BY OperationsStep, ScriptNext
<1>2. ServicesTypeOK' /\ ScriptTyped' /\ PhaseTyped' /\ PlaceTyped'
  BY ServicesNext, ScriptTypedNext, PhaseTypedNext, PlaceTypedNext
<1>3. ProvisioningTypeOK'
  BY <1>1, ProvisioningTypedNext DEF LifecycleTypeOK
<1>4. faults' \in 0..MaxFaults
  BY FaultTyped
<1>5. /\ \A i \in 1..Len(todo') : todo'[i] \in Steps \X SUBSET Roles
      /\ (outcome' = "none") <=> (todo' # <<>>)
  <2>1. todo' \in Seq(AnyStep) /\ (todo' = <<>> <=> outcome' # "none")
    BY <1>1 DEF ScriptOK, Finished
  <2>2. \A i \in 1..Len(todo') : todo'[i] \in AnyStep
    BY <2>1
  <2> QED BY <2>1, <2>2 DEF AnyStep
<1>6. outcome' # "none" => missing' = {} /\ doing' = "none"
  <2>1. outcome' # "none" => doing' = "none"
    BY <1>1 DEF ScriptOK, At, Finished
  <2> QED BY <1>1, <2>1 DEF OperationsInv, ProvisioningInv
<1> QED
  BY <1>2, <1>3, <1>4, <1>5, <1>6
     DEF LifecycleTypeOK, ScriptTyped, PhaseTyped, PlaceTyped

LEMMA StepsOfImplied == LifecycleTypeOK /\ ScriptOK /\ ~Finished => Whereabouts
  BY StepsOf

LEMMA StepsOfNext == (LifecycleTypeOK /\ ScriptOK /\ ~Finished => Whereabouts)'
  BY StepsOfImplied, PTL

LEMMA UnspentNext ==
  ASSUME LifecycleTypeOK, ScriptOK, PlaceOK, Unspent, OperationsInv, LifecycleNext,
         LifecycleTypeOK', ScriptOK'
  PROVE  Unspent'
<1> SUFFICES ASSUME ~Finished', Now' = "provision" PROVE issued' < MaxCommands
  BY DEF Unspent, At, Now
<1>1. cmd' = "setup" /\ mood' = "forward"
  BY StepsOfNext DEF Whereabouts
<1>2. CASE ScriptSame
  BY <1>2 DEF ScriptSame, Unspent, At, Now, Finished
<1>3. CASE StepFails
  <2>1. mood' # "forward" \/ Finished'
    BY <1>3 DEF StepFails, Finish, Finished
  <2> QED BY <1>1, <2>1
<1>4. CASE todo' = Tail(todo) /\ ~Finished /\ ~Last
  <2>1. Now' = Following
    BY <1>4 DEF Now, Following
  <2>2. Following # "provision"
    BY <1>4, StepsOf DEF Whereabouts
  <2> QED BY <2>1, <2>2
<1>5. CASE Advance /\ ~Finished
  <2>1. Finish(Result) => cmd' = "none"
    BY DEF Finish
  <2> QED BY <1>1, <1>4, <1>5, <2>1, AdvanceCases DEF GoesOn
<1>6. CASE PlaceStep
  <2>1. CASE TakeNote
    BY <1>4, <2>1, NoteGoesOn DEF GoesOn, Last
  <2> QED BY <1>3, <1>5, <1>6, <2>1, PlaceStepScript, PlaceStepQuiet
<1>7. CASE LookStep \/ JobStep
  BY <1>2, <1>3, <1>5, <1>7, LookStepQuiet, JobStepQuiet DEF OnwardOrFails
<1>8. CASE Provision
  BY <1>1, <1>2, <1>4, <1>8, ProvisionCases DEF GoesOn, Finish
<1>9. CASE Kill
  BY <1>1, <1>9 DEF Kill, Finish
<1>10. CASE Command
  <2>1. PICK command \in Commands \ {"none"}, aim \in Configs \cup Versions \cup {None} :
          \E script : Issue(command, aim, script)
    BY <1>10, CommandQuiet
  <2>2. issued < MaxCommands /\ issued' = issued
    BY <1>1, <2>1 DEF Issue
  <2> QED BY <2>2
<1>11. CASE Background
  BY <1>2, <1>11, BackgroundQuiet DEF scriptVars, ScriptSame
<1> QED BY <1>6, <1>7, <1>8, <1>9, <1>10, <1>11, Groups

-----------------------------------------------------------------------------
(* The place: steps that leave it as it is.                                 *)

PlaceQuiet == UNCHANGED <<placeVars, records>>

LEMMA PlaceSame ==
  ASSUME PlaceOK, ScriptSame, PlaceQuiet PROVE PlaceOK'
<1>1. UNCHANGED <<root, active, previous, config, packs, frozen, vetted, approved,
                  cmd, goal, note, todo, mood>>
  BY DEF PlaceQuiet, placeVars, records, ScriptSame
<1>2. UNCHANGED <<LiveIsVerified, Live, NoteOK, FoundTrusted, Trusted(goal, goal), Now>>
  BY <1>1 DEF LiveIsVerified, Live, NoteOK, FoundTrusted, Trusted, Now
<1>3. UNCHANGED <<SetupPlace, ConfigurePlace, SwitchPlace>>
  BY <1>1, <1>2 DEF SetupPlace, ConfigurePlace, SwitchPlace
<1> QED BY <1>1, <1>2, <1>3 DEF PlaceOK

LEMMA PlaceEnds ==
  ASSUME cmd' = "none", LiveIsVerified', root' # "ready" => config' = None PROVE PlaceOK'
  BY DEF PlaceOK

LEMMA QuietEnds ==
  ASSUME PlaceOK, PlaceQuiet, cmd' = "none" PROVE PlaceOK'
<1>1. UNCHANGED <<root, active, config, packs, frozen, vetted>>
  BY DEF PlaceQuiet, placeVars, records
<1>2. LiveIsVerified' /\ (root' # "ready" => config' = None)
  BY <1>1 DEF PlaceOK, LiveIsVerified
<1> QED BY <1>2, PlaceEnds

LEMMA GoesOnNow == GoesOn => Now' = Following
  BY DEF GoesOn, Now, Following

(* What a step does not change of the place.                                *)
LEMMA NoteStays ==
  ASSUME NoteOK, note' = note, root' = "ready", vetted \subseteq vetted' PROVE NoteOK'
  BY DEF NoteOK

LEMMA QuietGoesOn ==
  ASSUME LifecycleTypeOK, ScriptOK, PlaceOK, GoesOn, note' = note, PlaceQuiet,
         OnwardNow \/ Now = "provision"
  PROVE  PlaceOK'
<1>1. /\ UNCHANGED <<root, active, previous, config, packs, frozen, vetted, approved,
                     cmd, goal, note, mood>>
      /\ Now' = Following /\ ~Finished /\ Len(todo) # 1
      /\ mood \in {"forward", "recover", "broken"} /\ cmd \in Commands
      /\ note = None \/ note \in Place
  BY GoesOnNow DEF PlaceQuiet, placeVars, records, GoesOn, LifecycleTypeOK
<1>2. UNCHANGED <<LiveIsVerified, Live, NoteOK, FoundTrusted, Trusted(goal, goal)>>
  BY <1>1 DEF LiveIsVerified, Live, NoteOK, FoundTrusted, Trusted
<1>3. Now \in {"healthy", "final", "stop", "start", "plists", "unplists", "provision"}
  BY DEF OnwardNow
<1>4. ASSUME cmd = "setup" PROVE SetupPlace'
  <2>1. SetupPlace
    BY <1>4 DEF PlaceOK
  <2>2. CASE mood = "forward"
    <3>1. <<Now, Following>> \in SetupPairs(note # None)
      BY <1>1, <1>4, <2>2, SetupForward
    <3> QED BY <1>1, <1>2, <1>3, <2>1, <2>2, <3>1 DEF SetupPlace, SetupPairs, Second
  <2>3. CASE mood = "recover" /\ note = None
    <3>1. <<Now, Following>> \in {<<"stop", "unplists">>, <<"unplists", "clear">>}
      BY <1>1, <1>4, <2>3, SetupFresh
    <3> QED BY <1>1, <1>2, <2>1, <2>3, <3>1 DEF SetupPlace
  <2>4. CASE mood = "recover" /\ note # None
    <3>1. <<Now, Following>> \in
                {<<"freeze", "stop">>, <<"stop", "unplists">>, <<"unplists", "unpacks">>,
                 <<"unpacks", "unconfig">>, <<"unconfig", "plists">>,
                 <<"plists", "start">>, <<"start", "thaw">>}
      BY <1>1, <1>4, <2>4, SetupRestoring
    <3> QED BY <1>1, <1>2, <1>3, <2>1, <2>4, <3>1 DEF SetupPlace
  <2>5. CASE mood = "broken"
    BY <1>1, <1>4, <2>5, SetupBroken
  <2> QED BY <1>1, <2>2, <2>3, <2>4, <2>5
<1>5. cmd # "configure"
  BY <1>1, <1>3, Configuring
<1>6. ASSUME cmd = "switch" PROVE SwitchPlace'
  <2>1. Following # "point"
    BY <1>1, <1>3, <1>6, Switching
  <2> QED BY <1>1, <1>6, <2>1 DEF PlaceOK, SwitchPlace
<1>7. ASSUME cmd = "enable", Now' \in {"healthy", "resume"} PROVE Live
  <2>1. <<Now, Following>> \in {<<"doctor", "healthy">>, <<"healthy", "resume">>}
    BY <1>1, <1>7, Others
  <2>2. Now = "healthy"
    BY <1>3, <2>1
  <2> QED BY <1>7, <2>2 DEF PlaceOK
<1> QED BY <1>1, <1>2, <1>4, <1>5, <1>6, <1>7 DEF PlaceOK

LEMMA QuietFails ==
  ASSUME LifecycleTypeOK, ScriptOK, PlaceOK, ~Finished, StepFails, PlaceQuiet
  PROVE  PlaceOK'
<1> DEFINE rest == IF mood = "forward" THEN Recovery ELSE Salvage
<1>1. CASE rest = <<>>
  <2>1. cmd' = "none"
    BY <1>1 DEF StepFails, Finish
  <2> QED BY <2>1, QuietEnds
<1>2. CASE rest # <<>>
  <2>1. /\ todo' = rest /\ UNCHANGED <<cmd, goal, note>>
        /\ mood' = IF mood = "forward" THEN "recover" ELSE "broken"
        /\ UNCHANGED <<root, active, previous, config, packs, frozen, vetted, approved>>
    BY <1>2 DEF StepFails, Enter, PlaceQuiet, placeVars, records
  <2>2. UNCHANGED <<LiveIsVerified, NoteOK>>
    BY <2>1 DEF LiveIsVerified, NoteOK
  <2>3. cmd \in {"setup", "configure", "switch"}
    BY <1>2 DEF Recovery, Salvage
  <2>4. ASSUME cmd = "setup" PROVE SetupPlace'
    <3>1. SetupPlace /\ Whereabouts /\ mood \in {"forward", "recover", "broken"}
      BY <2>4, StepsOf DEF PlaceOK, LifecycleTypeOK
    <3>2. Now \notin {"provision", "init"}
      BY <1>2, <2>4, <3>1 DEF Recovery, Now, Whereabouts
    <3>3. CASE mood = "forward" /\ note = None
      <4>1. todo' = FreshRecovery
        BY <1>2, <2>1, <2>4, <3>3 DEF Recovery
      <4>2. Now' = "stop"
        BY <4>1, DoAll DEF Now, FreshRecovery
      <4> QED BY <2>1, <3>1, <3>2, <3>3, <4>2 DEF SetupPlace
    <3>4. CASE mood = "forward" /\ note # None
      <4>1. todo' = SetupRecovery
        BY <1>2, <2>1, <2>4, <3>4 DEF Recovery
      <4>2. Now' = "freeze"
        BY <4>1, DoAll DEF Now, SetupRecovery
      <4> QED BY <2>1, <3>1, <3>4, <4>2 DEF SetupPlace
    <3>5. CASE mood # "forward"
      <4>1. todo' = <<Do("clear")>> /\ note = None
        BY <1>2, <2>1, <2>4, <3>5 DEF Salvage
      <4>2. Now' = "clear"
        BY <4>1, DoAll DEF Now
      <4> QED BY <2>1, <3>1, <3>2, <3>5, <4>1, <4>2 DEF SetupPlace
    <3> QED BY <3>3, <3>4, <3>5
  <2>5. ASSUME cmd = "configure" PROVE ConfigurePlace'
    BY <2>1, <2>5 DEF PlaceOK, ConfigurePlace
  <2>6. ASSUME cmd = "switch" PROVE SwitchPlace'
    BY <2>1, <2>6 DEF PlaceOK, SwitchPlace
  <2> QED BY <2>1, <2>2, <2>3, <2>4, <2>5, <2>6 DEF PlaceOK
<1> QED BY <1>1, <1>2

LEMMA OnwardPlace ==
  ASSUME LifecycleTypeOK, ScriptOK, PlaceOK, ~Finished, OnwardOrFails, PlaceQuiet
  PROVE  PlaceOK'
<1>1. CASE ScriptSame
  BY <1>1, PlaceSame
<1>2. CASE StepFails
  BY <1>2, QuietFails
<1>3. CASE Advance /\ OnwardNow
  <2>1. Finish(Result) => cmd' = "none"
    BY DEF Finish
  <2> QED BY <1>3, <2>1, AdvanceCases, QuietEnds, QuietGoesOn
<1> QED BY <1>1, <1>2, <1>3 DEF OnwardOrFails

-----------------------------------------------------------------------------
(* The place: steps that change it.                                         *)

LEMMA AdvanceMoves ==
  ASSUME ScriptOK, Advance, ~Finished
  PROVE  \/ Last /\ cmd' = "none"
         \/ ~Last /\ UNCHANGED <<cmd, goal, note, mood>> /\ Now' = Following
  BY AdvanceCases, GoesOnNow DEF GoesOn, Finish

(* A command that leaves the place frozen, or as no installation, may end.  *)
LEMMA FrozenEnds ==
  ASSUME cmd' = "none", PlaceOK, frozen' = TRUE, root' = root /\ root = "ready" PROVE PlaceOK'
  BY PlaceEnds DEF LiveIsVerified

LEMMA ConfigPlace ==
  ASSUME LifecycleTypeOK, ScriptOK, PlaceOK, ~Finished, Now = "config", Advance,
         config' = goal,
         UNCHANGED <<root, active, previous, packs, frozen, vetted, approved>>
  PROVE  PlaceOK'
<1>1. /\ Whereabouts /\ (cmd # "init" => root = "ready")
  BY PlaceKnows
<1>2. /\ mood = "forward" /\ cmd \in {"setup", "configure", "config update"}
      /\ cmd = "setup" => ~Last /\ Following = "doctor"
      /\ cmd # "setup" => Last
  BY <1>1 DEF Whereabouts
<1>3. frozen /\ root = "ready"
  BY <1>1, <1>2 DEF PlaceOK, SetupPlace, ConfigurePlace
<1>4. CASE cmd = "setup"
  <2>1. UNCHANGED <<cmd, goal, note, mood>> /\ Now' = "doctor"
    BY <1>2, <1>4, AdvanceMoves
  <2>2. /\ note # None => NoteOK /\ active = note.active /\ previous = note.previous
        /\ packs = goal /\ (FoundTrusted => Trusted(goal, goal))
    BY <1>2, <1>4 DEF PlaceOK, SetupPlace
  <2>3. UNCHANGED <<FoundTrusted, Trusted(goal, goal)>>
    BY <2>1 DEF FoundTrusted, Trusted
  <2>4. SetupPlace'
    BY <1>2, <1>3, <2>1, <2>2, <2>3 DEF SetupPlace
  <2>5. note # None => NoteOK'
    BY <1>3, <2>1, <2>2, NoteStays
  <2> QED BY <1>3, <1>4, <2>1, <2>4, <2>5 DEF PlaceOK, LiveIsVerified
<1>5. CASE cmd # "setup"
  <2>1. cmd' = "none" /\ frozen' = TRUE
    BY <1>2, <1>3, <1>5, AdvanceMoves DEF LifecycleTypeOK
  <2> QED BY <1>3, <2>1, FrozenEnds
<1> QED BY <1>4, <1>5

LEMMA UnconfigPlace ==
  ASSUME LifecycleTypeOK, ScriptOK, PlaceOK, ~Finished, Now = "unconfig", Advance,
         config' = note.config,
         UNCHANGED <<root, active, previous, packs, frozen, vetted, approved>>
  PROVE  PlaceOK'
<1>1. Whereabouts /\ note # None /\ NoteOK
  BY PlaceKnows
<1>2. \/ cmd = "setup" /\ mood = "recover" /\ ~Last /\ Following = "plists"
      \/ cmd = "configure" /\ Last
  BY <1>1 DEF Whereabouts
<1>3. frozen /\ root = "ready"
  BY <1>1, <1>2 DEF PlaceOK, SetupPlace, ConfigurePlace, NoteOK
<1>4. CASE cmd = "setup"
  <2>1. UNCHANGED <<cmd, goal, note, mood>> /\ Now' = "plists"
    BY <1>2, <1>4, AdvanceMoves
  <2>2. active = note.active /\ previous = note.previous /\ packs = note.packs
    BY <1>1, <1>2, <1>4 DEF PlaceOK, SetupPlace
  <2>3. SetupPlace'
    BY <1>1, <1>2, <1>3, <1>4, <2>1, <2>2 DEF SetupPlace
  <2>4. NoteOK'
    BY <1>1, <1>3, <2>1, NoteStays
  <2> QED BY <1>3, <1>4, <2>1, <2>3, <2>4 DEF PlaceOK, LiveIsVerified
<1>5. CASE cmd # "setup"
  <2>1. cmd' = "none" /\ frozen' = TRUE
    BY <1>2, <1>3, <1>5, AdvanceMoves DEF LifecycleTypeOK
  <2> QED BY <1>3, <2>1, FrozenEnds
<1> QED BY <1>4, <1>5

(* The pointer moves to a version that passed its doctor, or back.          *)
LEMMA PointPlace ==
  ASSUME LifecycleTypeOK, ScriptOK, PlaceOK, ~Finished, Advance,
         \/ Now = "point" /\ active' = goal
         \/ Now = "unpoint" /\ active' = note.active,
         UNCHANGED <<root, config, packs, frozen, vetted, approved>>
  PROVE  PlaceOK'
<1>1. Whereabouts /\ note # None /\ NoteOK
  BY PlaceKnows
<1>2. /\ cmd = "switch" /\ root = "ready" /\ SwitchPlace
      /\ Now = "point" => mood = "forward"
      /\ Following # "point" \/ Last
      /\ config = note.config /\ packs = note.packs
  BY <1>1 DEF Whereabouts, PlaceOK, NoteOK
<1>3. LiveIsVerified'
  <2>1. CASE Now = "point"
    BY <1>2, <2>1 DEF SwitchPlace, LiveIsVerified
  <2>2. CASE Now = "unpoint"
    BY <1>1, <1>2, <2>2 DEF SwitchPlace, NoteOK, LiveIsVerified
  <2> QED BY <2>1, <2>2
<1>4. CASE cmd' = "none"
  BY <1>2, <1>3, <1>4, PlaceEnds
<1>5. CASE UNCHANGED <<cmd, goal, note, mood>> /\ Now' = Following /\ ~Last
  <2>1. NoteOK'
    BY <1>1, <1>2, <1>5, NoteStays
  <2>2. SwitchPlace'
    BY <1>2, <1>5 DEF SwitchPlace
  <2> QED BY <1>2, <1>3, <1>5, <2>1, <2>2 DEF PlaceOK
<1> QED BY <1>4, <1>5, AdvanceMoves

LEMMA FreezePlace ==
  ASSUME LifecycleTypeOK, ScriptOK, PlaceOK, ~Finished, Advance, Now = "freeze",
         frozen' = TRUE,
         UNCHANGED <<root, active, previous, config, packs, vetted, approved>>
  PROVE  PlaceOK'
<1>1. Whereabouts /\ (cmd # "init" => root = "ready")
  BY PlaceKnows
<1>2. \/ cmd = "freeze" /\ Last
      \/ /\ cmd = "setup" /\ ~Last /\ Following = "stop"
         /\ mood = "forward" \/ (mood = "recover" /\ note # None)
  BY <1>1 DEF Whereabouts
<1>3. CASE cmd = "setup"
  <2>1. UNCHANGED <<cmd, goal, note, mood>> /\ Now' = "stop" /\ root = "ready"
    BY <1>1, <1>2, <1>3, AdvanceMoves
  <2>2. SetupPlace /\ (note # None => NoteOK)
    BY <1>3 DEF PlaceOK
  <2>3. SetupPlace'
    BY <1>2, <1>3, <2>1, <2>2 DEF SetupPlace
  <2>4. note # None => NoteOK'
    BY <2>1, <2>2, NoteStays
  <2> QED BY <1>3, <2>1, <2>3, <2>4 DEF PlaceOK, LiveIsVerified
<1>4. CASE cmd # "setup"
  <2>1. cmd' = "none" /\ root = "ready"
    BY <1>1, <1>2, <1>4, AdvanceMoves
  <2> QED BY <2>1, FrozenEnds
<1> QED BY <1>3, <1>4

LEMMA ResumePlace ==
  ASSUME LifecycleTypeOK, ScriptOK, PlaceOK, ~Finished, Advance, Now = "resume",
         frozen' = FALSE,
         UNCHANGED <<root, active, previous, config, packs, vetted, approved>>
  PROVE  PlaceOK'
<1>1. Whereabouts /\ (cmd # "init" => root = "ready")
  BY PlaceKnows
<1>2. /\ mood = "forward" /\ root = "ready"
      /\ \/ cmd = "enable" /\ Last
         \/ cmd = "setup" /\ ~Last /\ Following = "final"
  BY <1>1 DEF Whereabouts
<1>3. Live
  BY <1>2 DEF PlaceOK, SetupPlace
<1>4. LiveIsVerified' /\ root' = "ready"
  BY <1>2, <1>3 DEF LiveIsVerified, Live
<1>5. CASE cmd = "setup"
  <2>1. UNCHANGED <<cmd, goal, note, mood>> /\ Now' = "final"
    BY <1>2, <1>5, AdvanceMoves
  <2>2. SetupPlace /\ (note # None => NoteOK)
    BY <1>5 DEF PlaceOK
  <2>3. UNCHANGED <<FoundTrusted, Trusted(goal, goal)>>
    BY <2>1 DEF FoundTrusted, Trusted
  <2>4. SetupPlace'
    BY <1>2, <1>5, <2>1, <2>2, <2>3 DEF SetupPlace
  <2>5. note # None => NoteOK'
    BY <1>4, <2>1, <2>2, NoteStays
  <2> QED BY <1>4, <1>5, <2>1, <2>4, <2>5 DEF PlaceOK
<1>6. CASE cmd # "setup"
  <2>1. cmd' = "none"
    BY <1>2, <1>6, AdvanceMoves
  <2> QED BY <1>4, <2>1, PlaceEnds
<1> QED BY <1>5, <1>6

LEMMA ThawPlace ==
  ASSUME LifecycleTypeOK, ScriptOK, PlaceOK, ~Finished, Advance, Now = "thaw",
         frozen' = note.frozen,
         UNCHANGED <<root, active, previous, config, packs, vetted, approved>>
  PROVE  PlaceOK'
<1>1. Whereabouts /\ note # None /\ NoteOK
  BY PlaceKnows
<1>2. cmd = "setup" /\ mood = "recover" /\ Last
  BY <1>1 DEF Whereabouts
<1>3. <<config, packs, active>> = <<note.config, note.packs, note.active>>
  BY <1>1, <1>2 DEF PlaceOK, SetupPlace
<1>4. LiveIsVerified' /\ root' = "ready"
  BY <1>1, <1>3 DEF LiveIsVerified, NoteOK
<1>5. cmd' = "none"
  BY <1>2, AdvanceMoves
<1> QED BY <1>4, <1>5, PlaceEnds

LEMMA FileStepPlace ==
  ASSUME LifecycleTypeOK, ScriptOK, PlaceOK, FileStep PROVE PlaceOK'
<1>1. UNCHANGED <<root, packs, vetted, approved>> /\ Advance
  BY DEF FileStep, records
<1>2. CASE At("config") /\ config' = goal /\ UNCHANGED <<active, previous, frozen>>
  BY <1>1, <1>2, ConfigPlace DEF At, Now
<1>3. CASE At("unconfig") /\ config' = note.config /\ UNCHANGED <<active, previous, frozen>>
  BY <1>1, <1>3, UnconfigPlace DEF At, Now
<1>4. CASE At("point") /\ active' = goal /\ UNCHANGED <<config, frozen>>
  BY <1>1, <1>4, PointPlace DEF At, Now
<1>5. CASE At("unpoint") /\ active' = note.active /\ UNCHANGED <<config, frozen>>
  BY <1>1, <1>5, PointPlace DEF At, Now
<1>6. CASE At("freeze") /\ frozen' = TRUE /\ UNCHANGED <<active, previous, config>>
  BY <1>1, <1>6, FreezePlace DEF At, Now
<1>7. CASE At("resume") /\ frozen' = FALSE /\ UNCHANGED <<active, previous, config>>
  BY <1>1, <1>7, ResumePlace DEF At, Now
<1>8. CASE At("thaw") /\ frozen' = note.frozen /\ UNCHANGED <<active, previous, config>>
  BY <1>1, <1>8, ThawPlace DEF At, Now
<1> QED BY <1>2, <1>3, <1>4, <1>5, <1>6, <1>7, <1>8 DEF FileStep

(* The packs that are placed are approved where they may act, unless what   *)
(* was found was not.                                                       *)
LEMMA PlacePacksPlace ==
  ASSUME LifecycleTypeOK, ScriptOK, PlaceOK, PlacePacks PROVE PlaceOK'
<1>1. /\ ~Finished /\ Now = "packs" /\ packs' = goal /\ Advance
      /\ approved' = IF NewlyEnabled THEN approved \cup {goal} ELSE approved
      /\ UNCHANGED <<root, active, previous, config, frozen, vetted>>
  BY DEF PlacePacks, At, Now
<1>2. /\ Whereabouts /\ goal \in Configs
      /\ cmd # "init" => root = "ready"
  BY <1>1, PlaceKnows
<1>3. /\ cmd \in {"setup", "configure"} /\ mood = "forward" /\ ~Last
      /\ Following = "config" /\ root = "ready"
  BY <1>1, <1>2 DEF Whereabouts
<1>4. UNCHANGED <<cmd, goal, note, mood>> /\ Now' = "config"
  BY <1>1, <1>3, AdvanceMoves
<1>5. frozen
  BY <1>1, <1>3 DEF PlaceOK, SetupPlace, ConfigurePlace
<1>6. note # None => NoteOK /\ NoteOK'
  BY <1>1, <1>3, <1>4, NoteStays DEF PlaceOK
<1>7. None \notin Allows
  BY LifecycleAssumption
<1>8. CASE cmd = "setup"
  <2>1. /\ SetupPlace
        /\ IF note = None THEN config = None
           ELSE config = note.config /\ packs = note.packs
    BY <1>1, <1>3, <1>8 DEF PlaceOK, SetupPlace
  <2>2. FoundTrusted' => Trusted(goal, goal)'
    <3> SUFFICES ASSUME FoundTrusted', goal \in Allows PROVE goal \in approved'
      BY <1>4 DEF Trusted
    <3>1. CASE NewlyEnabled
      BY <1>1, <3>1
    <3>2. CASE ~NewlyEnabled
      <4>1. config \in Allows /\ packs = goal
        BY <3>2 DEF NewlyEnabled
      <4>2. note # None /\ note.config = config /\ note.packs = goal
        BY <1>7, <2>1, <4>1
      <4> QED BY <1>4, <4>1, <4>2 DEF FoundTrusted, Trusted
    <3> QED BY <3>1, <3>2
  <2>3. SetupPlace'
    BY <1>1, <1>3, <1>4, <1>5, <1>8, <2>1, <2>2 DEF SetupPlace
  <2> QED BY <1>1, <1>3, <1>4, <1>5, <1>6, <1>8, <2>3 DEF PlaceOK, LiveIsVerified
<1>9. CASE cmd = "configure"
  <2>1. ConfigurePlace /\ config = None
    BY <1>3, <1>9 DEF PlaceOK, ConfigurePlace
  <2>2. Trusted(goal, goal)'
    BY <1>1, <1>4, <1>7, <2>1 DEF Trusted, NewlyEnabled
  <2>3. ConfigurePlace'
    BY <1>1, <1>4, <1>5, <2>1, <2>2 DEF ConfigurePlace
  <2> QED BY <1>1, <1>3, <1>4, <1>5, <1>6, <1>9, <2>3 DEF PlaceOK, LiveIsVerified
<1> QED BY <1>3, <1>8, <1>9

LEMMA RestorePacksPlace ==
  ASSUME LifecycleTypeOK, ScriptOK, PlaceOK, RestorePacks PROVE PlaceOK'
<1>1. /\ ~Finished /\ Now = "unpacks" /\ packs' = note.packs /\ Advance
      /\ UNCHANGED <<root, active, previous, config, frozen, vetted, approved>>
  BY DEF RestorePacks, At, Now, records
<1>2. /\ Whereabouts /\ note # None /\ NoteOK
  BY <1>1, PlaceKnows
<1>3. /\ ~Last /\ Following = "unconfig" /\ mood # "forward"
      /\ cmd = "configure" \/ (cmd = "setup" /\ mood = "recover")
  BY <1>1, <1>2 DEF Whereabouts
<1>4. UNCHANGED <<cmd, goal, note, mood>> /\ Now' = "unconfig"
  BY <1>1, <1>3, AdvanceMoves
<1>5. frozen /\ root = "ready"
  BY <1>1, <1>2, <1>3 DEF PlaceOK, SetupPlace, ConfigurePlace, NoteOK
<1>6. NoteOK'
  BY <1>1, <1>2, <1>4, <1>5, NoteStays
<1>7. CASE cmd = "setup"
  <2>1. SetupPlace /\ mood = "recover"
    BY <1>3, <1>7 DEF PlaceOK
  <2>2. SetupPlace'
    BY <1>1, <1>2, <1>4, <1>5, <2>1 DEF SetupPlace
  <2> QED BY <1>1, <1>4, <1>5, <1>6, <1>7, <2>2 DEF PlaceOK, LiveIsVerified
<1>8. CASE cmd = "configure"
  <2>1. ConfigurePlace'
    BY <1>1, <1>3, <1>4, <1>8 DEF PlaceOK, ConfigurePlace
  <2> QED BY <1>1, <1>4, <1>5, <1>6, <1>8, <2>1 DEF PlaceOK, LiveIsVerified
<1> QED BY <1>3, <1>7, <1>8

LEMMA InitPlace ==
  ASSUME LifecycleTypeOK, ScriptOK, PlaceOK, InitStep PROVE PlaceOK'
<1>1. /\ ~Finished /\ Now = "init" /\ root' = "ready" /\ frozen' = TRUE /\ Advance
      /\ UNCHANGED <<previous, config, packs, vetted, approved>>
  BY DEF InitStep, At, Now, records
<1>2. /\ Whereabouts /\ root # "ready"
  BY <1>1, PlaceKnows
<1>3. LiveIsVerified'
  BY <1>1 DEF LiveIsVerified
<1>4. CASE Last
  BY <1>1, <1>3, <1>4, AdvanceMoves, PlaceEnds
<1>5. CASE ~Last
  <2>1. cmd = "setup" /\ note = None /\ mood = "forward" /\ Following = "freeze"
    BY <1>1, <1>2, <1>5 DEF Whereabouts
  <2>2. UNCHANGED <<cmd, goal, note, mood>> /\ Now' = "freeze"
    BY <1>1, <1>5, <2>1, AdvanceMoves
  <2>3. config = None
    BY <1>2 DEF PlaceOK
  <2>4. SetupPlace'
    BY <1>1, <2>1, <2>2, <2>3 DEF SetupPlace
  <2> QED BY <1>1, <1>3, <2>1, <2>2, <2>4 DEF PlaceOK
<1> QED BY <1>4, <1>5

(* A removal, and an initialisation or a removal that fails, end.           *)
LEMMA HalfDoneEnds ==
  ASSUME LifecycleTypeOK, ScriptOK, HalfDone
  PROVE  cmd' = "none" /\ (outcome' = "failed" => mood = "forward")
<1>1. ~Finished /\ Now \in {"init", "clear", "remove"} /\ StepFails
  BY DEF HalfDone, At, Now
<1>2. Whereabouts
  BY <1>1, StepsOf
<1>3. CASE mood = "forward"
  <2>1. Recovery = <<>>
    BY <1>1, <1>2, <1>3 DEF Whereabouts, Recovery, Now
  <2> QED BY <1>1, <1>3, <2>1 DEF StepFails, Finish
<1>4. CASE mood # "forward"
  <2>1. cmd = "setup" /\ note = None /\ Last /\ Now = "clear"
    BY <1>1, <1>2, <1>4 DEF Whereabouts
  <2>2. Head(todo) = Do("clear")
    <3>1. mood \in {"recover", "broken"}
      BY <1>4 DEF LifecycleTypeOK
    <3>2. CASE mood = "recover"
      <4>1. On(FreshRecovery)
        BY <2>1, <3>2 DEF ScriptOK
      <4> QED BY <2>1, <4>1, EndNames, FreshNames DEF Last
    <3>3. CASE mood = "broken"
      <4>1. todo = <<Do("clear")>>
        BY <2>1, <3>3 DEF ScriptOK
      <4> QED BY <4>1
    <3> QED BY <3>1, <3>2, <3>3
  <2>3. Salvage = <<>>
    BY <2>1, <2>2 DEF Salvage
  <2> QED BY <1>1, <1>4, <2>3 DEF StepFails, Finish
<1> QED BY <1>3, <1>4

LEMMA RemovePlace ==
  ASSUME LifecycleTypeOK, ScriptOK, PlaceOK, RemoveStep \/ HalfDone PROVE PlaceOK'
<1>1. root' # "ready" /\ config' = None
  BY DEF RemoveStep, HalfDone
<1>2. cmd' = "none"
  <2>1. CASE RemoveStep
    <3>1. ~Finished /\ Now \in {"clear", "remove"} /\ Advance
      BY <2>1 DEF RemoveStep, At, Now
    <3>2. Last
      BY <3>1, StepsOf DEF Whereabouts
    <3> QED BY <3>1, <3>2, AdvanceMoves
  <2> QED BY <2>1, HalfDoneEnds
<1> QED BY <1>1, <1>2, PlaceEnds DEF LiveIsVerified

LEMMA DoctorPlace ==
  ASSUME LifecycleTypeOK, ScriptOK, PlaceOK, DoctorPasses PROVE PlaceOK'
<1>1. /\ ~Finished /\ Now = "doctor" /\ Advance
      /\ vetted' = vetted \cup {<<config, packs, active>>}
      /\ UNCHANGED <<root, active, previous, config, packs, frozen, approved>>
  BY DEF DoctorPasses, At, Now, placeVars
<1>2. /\ Whereabouts /\ (cmd # "init" => root = "ready")
  BY <1>1, PlaceKnows
<1>3. /\ mood = "forward" /\ ~Last /\ cmd \in {"setup", "enable", "service"}
      /\ cmd = "setup" => Following = "plists"
      /\ root = "ready"
  BY <1>1, <1>2 DEF Whereabouts
<1>4. UNCHANGED <<cmd, goal, note, mood>> /\ Now' = Following
  BY <1>1, <1>3, AdvanceMoves
<1>5. LiveIsVerified' /\ Live'
  BY <1>1 DEF LiveIsVerified, Live
<1>6. note # None => NoteOK'
  BY <1>1, <1>3, <1>4, NoteStays DEF PlaceOK
<1>7. ASSUME cmd = "setup" PROVE SetupPlace'
  <2>1. SetupPlace
    BY <1>7 DEF PlaceOK
  <2>2. UNCHANGED <<FoundTrusted, Trusted(goal, goal)>>
    BY <1>1, <1>4 DEF FoundTrusted, Trusted
  <2> QED BY <1>1, <1>3, <1>4, <1>5, <1>7, <2>1, <2>2 DEF SetupPlace
<1> QED BY <1>1, <1>3, <1>4, <1>5, <1>6, <1>7 DEF PlaceOK

LEMMA VetPlace ==
  ASSUME LifecycleTypeOK, ScriptOK, PlaceOK, VetPasses PROVE PlaceOK'
<1>1. /\ ~Finished /\ Now = "vet" /\ Advance
      /\ \/ config # None /\ vetted' = vetted \cup {<<config, packs, goal>>}
         \/ config = None /\ vetted' = vetted
      /\ UNCHANGED <<root, active, previous, config, packs, frozen, approved>>
  BY DEF VetPasses, At, Now, placeVars
<1>2. /\ Whereabouts /\ note # None /\ NoteOK /\ root = "ready"
  BY <1>1, PlaceKnows DEF NoteOK
<1>3. cmd = "switch" /\ mood = "forward" /\ ~Last /\ Following = "point"
  BY <1>1, <1>2 DEF Whereabouts
<1>4. UNCHANGED <<cmd, goal, note, mood>> /\ Now' = "point"
  BY <1>1, <1>3, AdvanceMoves
<1>5. LiveIsVerified' /\ NoteOK'
  BY <1>1, <1>2, <1>4, NoteStays DEF PlaceOK, LiveIsVerified
<1>6. config = None => frozen
  <2>1. None \notin Configs /\ vetted \subseteq (Configs \X (Configs \cup {None}) \X Versions)
    BY LifecycleAssumption DEF LifecycleTypeOK
  <2>2. ~frozen => <<config, packs, active>> \in vetted
    BY <1>2 DEF PlaceOK, LiveIsVerified
  <2> QED BY <2>1, <2>2
<1>7. SwitchPlace'
  <2>1. frozen = note.frozen
    BY <1>3 DEF PlaceOK, SwitchPlace
  <2> QED BY <1>1, <1>4, <1>6, <2>1 DEF SwitchPlace
<1> QED BY <1>1, <1>2, <1>3, <1>4, <1>5, <1>7 DEF PlaceOK

LEMMA FoundOK ==
  ASSUME LifecycleTypeOK, PlaceOK, root = "ready", note' = Found, PlaceQuiet
  PROVE  /\ NoteOK'
         /\ active' = note'.active /\ previous' = note'.previous
         /\ config' = note'.config /\ packs' = note'.packs /\ frozen' = note'.frozen
<1>1. Found \in Place /\ Found.active \in Versions
  BY FoundTyped
<1>2. /\ Found.config = config /\ Found.packs = packs /\ Found.active = active
      /\ Found.previous = previous /\ Found.frozen = frozen
  BY DEF Found
<1>3. UNCHANGED <<root, active, previous, config, packs, frozen, vetted>>
  BY DEF PlaceQuiet, placeVars, records
<1>4. frozen \/ <<config, packs, active>> \in vetted
  BY DEF PlaceOK, LiveIsVerified
<1> QED BY <1>1, <1>2, <1>3, <1>4 DEF NoteOK

LEMMA TakeNotePlace ==
  ASSUME LifecycleTypeOK, ScriptOK, PlaceOK, TakeNote PROVE PlaceOK'
<1>1. ~Finished /\ Now = "note" /\ PlaceQuiet
  BY DEF TakeNote, At, Now, PlaceQuiet
<1>2. GoesOn /\ note' = Found /\ Found # None /\ root = "ready"
  BY NoteGoesOn
<1>3. cmd = "setup" /\ mood = "forward" /\ Following = "freeze"
  BY <1>1, StepsOf DEF Whereabouts
<1>4. UNCHANGED <<cmd, goal, mood>> /\ Now' = "freeze"
  BY <1>2, <1>3, GoesOnNow DEF GoesOn
<1>5. /\ NoteOK'
      /\ active' = note'.active /\ previous' = note'.previous
      /\ config' = note'.config /\ packs' = note'.packs
  BY <1>1, <1>2, FoundOK
<1>6. UNCHANGED <<root, config, packs, active, frozen, vetted>>
  BY <1>1 DEF PlaceQuiet, placeVars, records
<1>7. SetupPlace'
  BY <1>2, <1>3, <1>4, <1>5 DEF SetupPlace
<1>8. LiveIsVerified'
  BY <1>6 DEF PlaceOK, LiveIsVerified
<1> QED BY <1>2, <1>3, <1>4, <1>5, <1>6, <1>7, <1>8 DEF PlaceOK

LEMMA PlaceStepPlace ==
  ASSUME LifecycleTypeOK, ScriptOK, PlaceOK, PlaceStep PROVE PlaceOK'
  BY FileStepPlace, PlacePacksPlace, RestorePacksPlace, InitPlace, RemovePlace,
     DoctorPlace, VetPlace, TakeNotePlace DEF PlaceStep


(* A command that begins has found the place as it is.                      *)
LEMMA BeginsPlace ==
  ASSUME LifecycleTypeOK, PlaceOK, NEW command, NEW aim, NEW script,
         Issue(command, aim, script)
  PROVE  /\ cmd' = command /\ goal' = aim /\ mood' = "forward"
         /\ Now' = Head(script)[1] /\ PlaceQuiet
         /\ LiveIsVerified' /\ (root' # "ready" => config' = None)
         /\ root # "ready" => note' = None
         /\ root = "ready" =>
              /\ note' # None /\ NoteOK'
              /\ active' = note'.active /\ previous' = note'.previous
              /\ config' = note'.config /\ packs' = note'.packs /\ frozen' = note'.frozen
<1>1. /\ cmd' = command /\ goal' = aim /\ mood' = "forward" /\ Enter(script) /\ PlaceQuiet
      /\ note' = IF root = "ready" THEN Found ELSE None
  BY DEF Issue, PlaceQuiet
<1>2. Now' = Head(script)[1]
  BY <1>1 DEF Enter, Now
<1>3. LiveIsVerified' /\ (root' # "ready" => config' = None)
  BY <1>1 DEF PlaceOK, PlaceQuiet, placeVars, records, LiveIsVerified
<1>4. root = "ready" =>
        /\ note' # None /\ NoteOK'
        /\ active' = note'.active /\ previous' = note'.previous
        /\ config' = note'.config /\ packs' = note'.packs /\ frozen' = note'.frozen
  BY <1>1, FoundTyped, FoundOK
<1> QED BY <1>1, <1>2, <1>3, <1>4

LEMMA CommandPlace ==
  ASSUME LifecycleTypeOK, ScriptOK, PlaceOK, Command PROVE PlaceOK'
<1>1. CASE \E c \in Configs : Setup(c)
  <2>1. PICK c \in Configs : Setup(c)
    BY <1>1
  <2> DEFINE script == SetupScript(root = "ready")
  <2>2. Issue("setup", c, script) /\ root \in {"empty", "ready"}
    BY <2>1 DEF Setup, Vacant
  <2>3. Head(script)[1] = "provision"
    BY SetupNames
  <2> HIDE DEF script
  <2>4. cmd' = "setup" /\ mood' = "forward" /\ Now' = "provision"
    BY <2>2, <2>3, BeginsPlace
  <2>5. root' = root /\ config' = config
    BY <2>2, BeginsPlace DEF PlaceQuiet, placeVars
  <2>6. SetupPlace'
    BY <2>2, <2>4, <2>5, BeginsPlace DEF SetupPlace, PlaceOK
  <2> QED BY <2>2, <2>4, <2>5, <2>6, BeginsPlace DEF PlaceOK
<1>2. CASE \E c \in Configs : Configure(c)
  <2>1. PICK c \in Configs : Configure(c)
    BY <1>2
  <2> DEFINE script == <<Do("packs"), Do("config")>>
  <2>2. Issue("configure", c, script) /\ root = "ready" /\ config = None
    BY <2>1 DEF Configure
  <2>3. Head(script)[1] = "packs"
    BY DEF Do
  <2> HIDE DEF script
  <2>4. frozen
    <3>1. None \notin Configs /\ vetted \subseteq (Configs \X (Configs \cup {None}) \X Versions)
      BY LifecycleAssumption DEF LifecycleTypeOK
    <3> QED BY <2>2, <3>1 DEF PlaceOK, LiveIsVerified
  <2>5. UNCHANGED <<root, config, frozen>>
    BY <2>2, BeginsPlace DEF PlaceQuiet, placeVars
  <2>6. cmd' = "configure" /\ mood' = "forward" /\ Now' = "packs"
    BY <2>2, <2>3, BeginsPlace
  <2>7. frozen' /\ note'.config = None /\ config' = None
    BY <2>2, <2>4, <2>5, BeginsPlace
  <2>8. ConfigurePlace'
    BY <2>6, <2>7 DEF ConfigurePlace
  <2> QED BY <2>2, <2>6, <2>8, BeginsPlace DEF PlaceOK
<1>3. CASE \E c \in Configs : UpdateConfig(c)
  <2>1. PICK c \in Configs : UpdateConfig(c)
    BY <1>3
  <2>2. /\ Issue("config update", c, <<Do("config")>>) /\ root = "ready"
        /\ frozen /\ (c \in Allows => config \in Allows)
    BY <2>1 DEF UpdateConfig
  <2>3. UNCHANGED <<root, config, frozen>>
    BY <2>2, BeginsPlace DEF PlaceQuiet, placeVars
  <2>4. /\ cmd' = "config update" /\ note' # None /\ NoteOK' /\ LiveIsVerified' /\ root' = root
        /\ config' = note'.config /\ packs' = note'.packs /\ goal' = c
    BY <2>2, <2>3, BeginsPlace
  <2> QED BY <2>2, <2>3, <2>4 DEF PlaceOK
<1>4. CASE \E v \in Versions : Switch(v)
  <2>1. PICK v \in Versions : Switch(v)
    BY <1>4
  <2> DEFINE script == SwitchScript(LoadedRoles)
  <2>2. Issue("switch", v, script) /\ root = "ready"
    BY <2>1 DEF Switch
  <2>3. Head(script)[1] = "vet"
    <3>1. LoadedRoles \in SUBSET Roles
      BY DEF LoadedRoles
    <3>2. script \in Seq(AnyStep) /\ script # <<>> /\ script[1] = Do("vet")
      BY <3>1, SwitchScriptChain
    <3> HIDE DEF script
    <3> QED BY <3>2, DoAll, SeqFacts
  <2> HIDE DEF script
  <2>4. cmd' = "switch" /\ Now' = "vet"
    BY <2>2, <2>3, BeginsPlace
  <2>5. SwitchPlace'
    BY <2>2, <2>4, BeginsPlace DEF SwitchPlace
  <2> QED BY <2>2, <2>4, <2>5, BeginsPlace DEF PlaceOK
<1>5. CASE InitCommand
  <2>1. Issue("init", None, <<Do("init")>>) /\ root = "empty"
    BY <1>5 DEF InitCommand, Vacant
  <2>2. UNCHANGED <<root, config>>
    BY <2>1, BeginsPlace DEF PlaceQuiet, placeVars
  <2>3. cmd' = "init" /\ note' = None /\ LiveIsVerified'
    BY <2>1, BeginsPlace
  <2> QED BY <2>1, <2>2, <2>3 DEF PlaceOK
<1>6. CASE ServiceCommand
  <2>1. PICK script \in ServiceScripts : Issue("service", None, script) /\ root = "ready"
    BY <1>6 DEF ServiceCommand
  <2>2. root' = root
    BY <2>1, BeginsPlace DEF PlaceQuiet, placeVars
  <2>3. /\ cmd' = "service" /\ note' # None /\ NoteOK' /\ LiveIsVerified' /\ root' = root
        /\ config' = note'.config /\ packs' = note'.packs
    BY <2>1, <2>2, BeginsPlace
  <2> QED BY <2>1, <2>2, <2>3 DEF PlaceOK
<1>7. CASE Enable
  <2> DEFINE script == <<Do("doctor"), All("healthy"), Do("resume")>>
  <2>1. Issue("enable", None, script) /\ root = "ready"
    BY <1>7 DEF Enable
  <2>2. Head(script)[1] = "doctor"
    BY DEF Do
  <2> HIDE DEF script
  <2>3. root' = root
    BY <2>1, BeginsPlace DEF PlaceQuiet, placeVars
  <2>4. /\ cmd' = "enable" /\ note' # None /\ NoteOK' /\ LiveIsVerified' /\ root' = root
        /\ config' = note'.config /\ packs' = note'.packs /\ Now' = "doctor"
    BY <2>1, <2>2, <2>3, BeginsPlace
  <2> QED BY <2>1, <2>3, <2>4 DEF PlaceOK
<1>8. CASE Freeze
  <2>1. Issue("freeze", None, <<Do("freeze")>>) /\ root = "ready"
    BY <1>8 DEF Freeze
  <2>2. root' = root
    BY <2>1, BeginsPlace DEF PlaceQuiet, placeVars
  <2>3. /\ cmd' = "freeze" /\ note' # None /\ NoteOK' /\ LiveIsVerified' /\ root' = root
        /\ config' = note'.config /\ packs' = note'.packs
    BY <2>1, <2>2, BeginsPlace
  <2> QED BY <2>1, <2>2, <2>3 DEF PlaceOK
<1>9. CASE Uninstall
  <2>1. Issue("uninstall", None, <<All("stop"), All("unplists"), Do("remove")>>)
        /\ root = "ready"
    BY <1>9 DEF Uninstall
  <2>2. root' = root
    BY <2>1, BeginsPlace DEF PlaceQuiet, placeVars
  <2>3. /\ cmd' = "uninstall" /\ note' # None /\ NoteOK' /\ LiveIsVerified' /\ root' = root
        /\ config' = note'.config /\ packs' = note'.packs
    BY <2>1, <2>2, BeginsPlace
  <2> QED BY <2>1, <2>2, <2>3 DEF PlaceOK
<1> QED BY <1>1, <1>2, <1>3, <1>4, <1>5, <1>6, <1>7, <1>8, <1>9 DEF Command

LEMMA ProvisionPlace ==
  ASSUME LifecycleTypeOK, ScriptOK, PlaceOK, Provision PROVE PlaceOK'
<1>1. PlaceQuiet
  BY DEF Provision, PlaceQuiet
<1>2. Now = "provision" /\ ~Finished
  BY ProvisionCases
<1>3. CASE ScriptSame
  BY <1>1, <1>3, PlaceSame
<1>4. CASE GoesOn /\ note' = note
  BY <1>1, <1>2, <1>4, QuietGoesOn
<1>5. CASE Finish("failed")
  BY <1>1, <1>5, QuietEnds DEF Finish
<1> QED BY <1>3, <1>4, <1>5, ProvisionCases

LEMMA KillPlace ==
  ASSUME LifecycleTypeOK, ScriptOK, PlaceOK, Kill PROVE PlaceOK'
<1>1. /\ ~Finished /\ cmd' = "none" /\ UNCHANGED <<active, config, packs, frozen, vetted>>
      /\ root' = IF Now = "init" THEN "partial" ELSE root
  BY DEF Kill, Finish, At, Now, records
<1>2. Now = "init" => root # "ready"
  BY <1>1, PlaceKnows
<1> QED BY <1>1, <1>2, PlaceEnds DEF PlaceOK, LiveIsVerified

LEMMA PlaceNext ==
  ASSUME LifecycleTypeOK, ScriptOK, PlaceOK, LifecycleNext PROVE PlaceOK'
<1>1. CASE PlaceStep
  BY <1>1, PlaceStepPlace
<1>2. CASE LookStep
  BY <1>2, LookStepQuiet, OnwardPlace DEF PlaceQuiet
<1>3. CASE JobStep
  BY <1>3, JobStepQuiet, OnwardPlace DEF PlaceQuiet
<1>4. CASE Provision
  BY <1>4, ProvisionPlace
<1>5. CASE Kill
  BY <1>5, KillPlace
<1>6. CASE Command
  BY <1>6, CommandPlace
<1>7. CASE Background
  BY <1>7, BackgroundQuiet, PlaceSame DEF PlaceQuiet, ScriptSame, scriptVars
<1> QED BY <1>1, <1>2, <1>3, <1>4, <1>5, <1>6, <1>7, Groups


-----------------------------------------------------------------------------
(* The jobs: no definition is removed while a job is loaded, and a recovery *)
(* brings back the jobs that were.                                          *)

LEMMA LoadedAre == \A r : r \in LoadedRoles <=> r \in Roles /\ job[r] # "absent"
  BY DEF LoadedRoles, Loaded

LEMMA LoadedNext == \A r : r \in LoadedRoles' <=> r \in Roles /\ job'[r] # "absent"
  BY DEF LoadedRoles, Loaded

(* Definitions are removed after all jobs were stopped.                     *)
LEMMA BeforeUnplists ==
  ASSUME LifecycleTypeOK, ScriptOK, ~Finished, ~Last, Following = "unplists"
  PROVE  Now = "stop" /\ Those = Roles
<1>1. cmd \in Commands \ {"none"} /\ mood \in {"forward", "recover", "broken"}
  BY DEF LifecycleTypeOK, ScriptOK
<1>2. CASE cmd = "setup"
  <2>1. mood # "forward"
    BY <1>2, SetupForward DEF SetupPairs, Second, Last
  <2>2. mood # "broken"
    BY <1>2, SetupBroken DEF Last
  <2>3. mood = "recover"
    BY <1>1, <2>1, <2>2
  <2>4. CASE note = None
    BY <1>2, <2>3, <2>4, SetupFresh DEF Last
  <2>5. CASE note # None
    BY <1>2, <2>3, <2>5, SetupRestoring, NoteTyped DEF Last
  <2> QED BY <2>4, <2>5
<1>3. CASE cmd = "configure"
  BY <1>3, Configuring DEF Last
<1>4. CASE cmd = "switch"
  BY <1>1, <1>4, Switching DEF Last
<1>5. CASE cmd \in {"service", "uninstall"}
  <2>1. PICK script \in OtherScripts(cmd) : On(script)
    BY <1>5 DEF ScriptOK
  <2> DEFINE x == Head(todo)
             y == Head(Tail(todo))
  <2>2. <<x, y>> \in Pairs(script)
    BY <2>1, EndNames DEF Last
  <2>3. y[1] = "unplists"
    BY DEF Following
  <2>4. Pairs(script) \subseteq
          {<<Do("doctor"), All("plists")>>, <<All("plists"), All("start")>>,
           <<Do("doctor"), All("start")>>, <<Do("doctor"), All("stop")>>,
           <<All("stop"), All("start")>>, <<All("stop"), All("unplists")>>,
           <<All("unplists"), Do("remove")>>}
    BY <1>5, OtherNames, ZenonT(30)
  <2> HIDE DEF x, y
  <2>5. <<x, y>> \in
          {<<Do("doctor"), All("plists")>>, <<All("plists"), All("start")>>,
           <<Do("doctor"), All("start")>>, <<Do("doctor"), All("stop")>>,
           <<All("stop"), All("start")>>, <<All("stop"), All("unplists")>>,
           <<All("unplists"), Do("remove")>>}
    BY <2>2, <2>4
  <2>6. x = All("stop")
    BY <2>3, <2>5, DoAll
  <2>7. x[1] = "stop" /\ x[2] = Roles
    BY <2>6, DoAll
  <2> QED BY <2>7 DEF Now, Those, x
<1>6. CASE cmd \notin {"setup", "configure", "switch", "service", "uninstall"}
  BY <1>1, <1>6, Others DEF Commands, Last
<1> QED BY <1>2, <1>3, <1>4, <1>5, <1>6

LEMMA JobsEnd ==
  ASSUME ScriptOK', Finished', JobsHaveDefinitions' PROVE JobsOK'
  BY DEF JobsOK, ScriptOK, At

(* What begins, a command or a recovery, does not begin with the removal of *)
(* definitions.                                                             *)
LEMMA JobsBegin ==
  ASSUME JobsHaveDefinitions', phase' = "enter", Now' # "unplists",
         cmd' = "setup" /\ mood' = "recover" => Now' \in {"freeze", "stop"}
  PROVE  JobsOK'
  BY DEF JobsOK, RestoredJobs, At, Now

LEMMA ConfiguringNext ==
  (ScriptOK /\ cmd = "configure" /\ mood # "forward" => Now \in {"unpacks", "unconfig"})'
<1>1. ScriptOK /\ cmd = "configure" /\ mood # "forward" => Now \in {"unpacks", "unconfig"}
  BY Configuring
<1> QED BY <1>1, PTL

LEMMA SwitchingNext ==
  (ScriptOK /\ cmd = "switch" /\ mood \in {"forward", "recover", "broken"} =>
     Now # "unplists")'
<1>1. ScriptOK /\ cmd = "switch" /\ mood \in {"forward", "recover", "broken"} =>
        Now # "unplists"
  BY Switching
<1> QED BY <1>1, PTL

LEMMA JobsFail ==
  ASSUME LifecycleTypeOK, ScriptOK, ~Finished, StepFails, ScriptOK', JobsHaveDefinitions'
  PROVE  JobsOK'
<1> DEFINE rest == IF mood = "forward" THEN Recovery ELSE Salvage
<1>1. CASE rest = <<>>
  <2>1. Finished'
    BY <1>1 DEF StepFails, Finish, Finished
  <2> QED BY <2>1, JobsEnd
<1>2. CASE rest # <<>>
  <2>1. /\ todo' = rest /\ phase' = "enter" /\ cmd' = cmd /\ note' = note
        /\ mood' = IF mood = "forward" THEN "recover" ELSE "broken"
    BY <1>2 DEF StepFails, Enter
  <2>2. cmd \in {"setup", "configure", "switch"}
    BY <1>2 DEF Recovery, Salvage
  <2>3. CASE cmd = "setup" /\ mood = "forward"
    <3>1. rest = FreshRecovery \/ rest = SetupRecovery
      BY <1>2, <2>3 DEF Recovery
    <3>2. Head(FreshRecovery) = All("stop") /\ Head(SetupRecovery) = Do("freeze")
      BY DEF FreshRecovery, SetupRecovery
    <3> HIDE DEF rest
    <3>3. Now' \in {"freeze", "stop"}
      BY <2>1, <3>1, <3>2, DoAll DEF Now
    <3> QED BY <2>1, <3>3, JobsBegin
  <2>4. CASE cmd = "setup" /\ mood # "forward"
    <3>1. rest = <<Do("clear")>>
      BY <1>2, <2>4 DEF Salvage
    <3> HIDE DEF rest
    <3>2. Now' = "clear" /\ mood' = "broken"
      BY <2>1, <2>4, <3>1, DoAll DEF Now
    <3> QED BY <2>1, <3>2, JobsBegin
  <2>5. CASE cmd = "configure"
    <3>1. Now' \in {"unpacks", "unconfig"}
      BY <2>1, <2>5, ConfiguringNext
    <3> QED BY <2>1, <2>5, <3>1, JobsBegin
  <2>6. CASE cmd = "switch"
    <3>1. Now' # "unplists"
      BY <2>1, <2>6, SwitchingNext
    <3> QED BY <2>1, <2>6, <3>1, JobsBegin
  <2> QED BY <2>2, <2>3, <2>4, <2>5, <2>6
<1> QED BY <1>1, <1>2

(* What a step that treats roles has done when it goes on to the next.      *)
Treated ==
  /\ Now = "stop" /\ Those = Roles => LoadedRoles = {}
  /\ Now \notin {"plists", "unplists"} => plist' = plist
  /\ cmd = "setup" /\ mood = "recover" =>
       /\ Now = "unplists" => plist' = {}
       /\ Now = "plists" => plist' = note.installed
       /\ Now = "start" => LoadedRoles = note.loaded

LEMMA JobsSame == job' = job => LoadedRoles' = LoadedRoles /\ NoneLeaving' = NoneLeaving
  BY DEF LoadedRoles, Loaded, NoneLeaving

LEMMA JobsGoOn ==
  ASSUME LifecycleTypeOK, ScriptOK, JobsOK, GoesOn, phase' = "enter",
         note' = note \/ mood = "forward", job' = job, JobsHaveDefinitions', Treated
  PROVE  JobsOK'
<1>1. /\ ~Finished /\ ~Last /\ Now' = Following /\ UNCHANGED <<cmd, mood, outcome>>
      /\ LoadedRoles' = LoadedRoles /\ NoneLeaving' = NoneLeaving
  BY GoesOnNow, JobsSame DEF GoesOn, Last
<1>2. Now' = "unplists" => LoadedRoles' = {}
  BY <1>1, BeforeUnplists DEF Treated
<1>3. ASSUME cmd = "setup", mood = "recover" PROVE RestoredJobs'
  <2>1. RestoredJobs /\ note' = note
    BY <1>3 DEF JobsOK
  <2>2. Now = "unplists" => LoadedRoles = {}
    BY <1>1 DEF JobsOK, At, Now
  <2>3. CASE note = None
    <3>1. Now' = "clear" => Now = "unplists"
      BY <1>1, <1>3, <2>3, SetupFresh DEF Last
    <3> QED BY <1>1, <1>3, <2>1, <2>2, <2>3, <3>1 DEF RestoredJobs, Treated
  <2>4. CASE note # None
    <3>1. <<Now, Now'>> \in
            {<<"freeze", "stop">>, <<"stop", "unplists">>, <<"unplists", "unpacks">>,
             <<"unpacks", "unconfig">>, <<"unconfig", "plists">>,
             <<"plists", "start">>, <<"start", "thaw">>}
      BY <1>1, <1>3, <2>4, SetupRestoring, NoteTyped DEF Last
    <3>2. LoadedRoles = {} => NoneLeaving
      BY LoadedAre DEF NoneLeaving
    <3> QED BY <1>1, <1>3, <2>1, <2>2, <2>4, <3>1, <3>2 DEF RestoredJobs, Treated
  <2> QED BY <2>3, <2>4
<1> QED BY <1>1, <1>2, <1>3 DEF JobsOK, At, Now

LEMMA JobsAdvance ==
  ASSUME LifecycleTypeOK, ScriptOK, ScriptOK', JobsOK, ~Finished, Advance, job' = job,
         JobsHaveDefinitions', Treated
  PROVE  JobsOK'
<1>1. CASE Last /\ Finish(Result)
  <2>1. Finished'
    BY <1>1 DEF Finish, Result, Finished
  <2> QED BY <2>1, JobsEnd
<1>2. CASE GoesOn /\ ~Last /\ Enter(Tail(todo)) /\ note' = note
  BY <1>2, JobsGoOn DEF Enter
<1> QED BY <1>1, <1>2, AdvanceCases


(* What a bootout leaves loaded: what it left alone, and what was running.  *)
LEMMA BootoutLoaded ==
  ASSUME ServicesTypeOK, NEW S, Bootout(S)
  PROVE  LoadedRoles' \subseteq LoadedRoles /\ plist' = plist
<1>1. plist' = plist /\ \A r \in Roles : job[r] = "absent" => job'[r] = "absent"
  BY DEF Bootout
<1> QED BY <1>1, LoadedAre, LoadedNext

LEMMA BootstrapLoaded ==
  ASSUME ServicesTypeOK, NEW r \in Roles, NEW version, Bootstrap(r, version)
  PROVE  /\ LoadedRoles' = LoadedRoles \cup {r} /\ plist' = plist
         /\ NoneLeaving => NoneLeaving'
<1>1. plist' = plist /\ job' = [job EXCEPT ![r] = IF r = Realtime THEN "running" ELSE "idle"]
  BY DEF Bootstrap
<1>2. job \in [Roles -> {"absent", "idle", "running", "leaving"}]
  BY DEF ServicesTypeOK
<1>3. job'[r] \in {"running", "idle"} /\ \A s \in Roles \ {r} : job'[s] = job[s]
  BY <1>1, <1>2
<1>4. LoadedRoles' = LoadedRoles \cup {r}
  BY <1>3, LoadedAre, LoadedNext
<1>5. NoneLeaving => NoneLeaving'
  BY <1>3 DEF NoneLeaving
<1> QED BY <1>1, <1>4, <1>5

LEMMA JobsQuiet ==
  ASSUME JobsOK, UNCHANGED scriptVars, plist' = plist, LoadedRoles' \subseteq LoadedRoles,
         NoneLeaving => LoadedRoles' = LoadedRoles /\ NoneLeaving'
  PROVE  JobsOK'
<1>1. /\ UNCHANGED <<cmd, note, mood, phase, left, outcome, Now, Those>>
      /\ \A what : At(what)' = At(what)
  BY DEF scriptVars, Now, Those, At, Finished
<1>2. JobsHaveDefinitions'
  BY DEF JobsOK, JobsHaveDefinitions
<1>3. RestoredJobs => RestoredJobs'
  <2> HAVE RestoredJobs
  <2>1. Now = "clear" /\ note = None => plist' = {} /\ LoadedRoles' = {}
    BY DEF RestoredJobs
  <2>2. note # None /\ Now \in {"unpacks", "unconfig", "plists"} => LoadedRoles' = {}
    BY DEF RestoredJobs
  <2>3. note # None /\ Now \in {"start", "thaw"} =>
          NoneLeaving' /\ LoadedRoles' = LoadedRoles
    BY DEF RestoredJobs
  <2> QED BY <1>1, <2>1, <2>2, <2>3 DEF RestoredJobs
<1>4. At("unplists")' => LoadedRoles' = {}
  BY <1>1 DEF JobsOK
<1>5. (At("stop") /\ Those = Roles /\ phase # "enter" => LoadedRoles \subseteq left)'
  BY <1>1 DEF JobsOK
<1> QED BY <1>1, <1>2, <1>3, <1>4, <1>5 DEF JobsOK

LEMMA BackgroundJobs ==
  ASSUME LifecycleTypeOK, JobsOK, Background PROVE JobsOK'
<1>1. UNCHANGED scriptVars /\ plist' = plist
  BY BackgroundQuiet
<1>2. job \in [Roles -> {"absent", "idle", "running", "leaving"}]
  BY DEF LifecycleTypeOK, ServicesTypeOK
<1>3. ASSUME NEW r \in Roles, NEW state \in {"idle", "running"}, job[r] # "absent",
             job' = [job EXCEPT ![r] = state]
      PROVE  LoadedRoles' = LoadedRoles /\ (NoneLeaving => NoneLeaving')
  <2>1. job'[r] = state /\ \A s \in Roles \ {r} : job'[s] = job[s]
    BY <1>2, <1>3
  <2>2. LoadedRoles' = LoadedRoles
    BY <1>3, <2>1, LoadedAre, LoadedNext
  <2> QED BY <2>1, <2>2 DEF NoneLeaving
<1>4. ASSUME NEW r \in Roles, NEW well, JobEnds(r, well)
      PROVE  /\ LoadedRoles' \subseteq LoadedRoles
             /\ NoneLeaving => LoadedRoles' = LoadedRoles /\ NoneLeaving'
  <2>1. /\ job[r] \in {"running", "leaving"}
        /\ job' = [job EXCEPT ![r] = IF job[r] = "leaving" THEN "absent" ELSE "idle"]
    BY <1>4 DEF JobEnds, Running
  <2>2. \A s \in Roles \ {r} : job'[s] = job[s]
    BY <1>2, <2>1
  <2>3. LoadedRoles' \subseteq LoadedRoles
    BY <2>1, <2>2, LoadedAre, LoadedNext
  <2>4. NoneLeaving => job' = [job EXCEPT ![r] = "idle"] /\ job[r] # "absent"
    BY <2>1 DEF NoneLeaving
  <2> QED BY <1>3, <2>3, <2>4
<1>5. /\ LoadedRoles' \subseteq LoadedRoles
      /\ NoneLeaving => LoadedRoles' = LoadedRoles /\ NoneLeaving'
  <2>1. CASE job' = job
    BY <2>1, JobsSame
  <2>2. CASE \E r \in Roles : Launch(r)
    <3>1. PICK r \in Roles : Launch(r)
      BY <2>2
    <3>2. job' = job \/ (job[r] = "idle" /\ job' = [job EXCEPT ![r] = "running"])
      BY <3>1 DEF Launch, LaunchJob
    <3> QED BY <1>3, <2>1, <3>2
  <2>3. CASE \E r \in Roles, well \in BOOLEAN : TimedJobOver(r, well)
    BY <1>4, <2>3 DEF TimedJobOver, TimedJobEnds
  <2>4. CASE PipelineEnds
    BY <1>4, <2>4, RolesAssumption DEF PipelineEnds, RealtimeEnds
  <2>5. CASE \/ \E c \in Children : ChildIsReady(c) \/ \E how \in Ends : ChildEnds(c, how)
             \/ StartupTimesOut \/ \E x \in Things : Shows(x)
    <3>1. job' = job
      BY <2>5 DEF ChildIsReady, ChildEnds, StartupTimesOut, Shows, servicesVars, jobVars
    <3> QED BY <2>1, <3>1
  <2> QED BY <2>2, <2>3, <2>4, <2>5 DEF Background
<1> QED BY <1>1, <1>5, JobsQuiet

LEMMA ServiceScriptHeads ==
  ASSUME NEW script \in ServiceScripts
  PROVE  Head(script)[1] \in {"doctor", "stop"}
  BY DEF ServiceScripts, Do, All

LEMMA CommandJobs ==
  ASSUME LifecycleTypeOK, ScriptOK, JobsOK, Command PROVE JobsOK'
<1>1. UNCHANGED servicesVars
  BY CommandQuiet
<1>2. JobsHaveDefinitions'
  <2>1. plist' = plist /\ job' = job
    BY <1>1 DEF servicesVars, jobVars
  <2> QED BY <2>1, JobsSame DEF JobsOK, JobsHaveDefinitions
<1>3. ASSUME NEW command, NEW aim, NEW script, Issue(command, aim, script),
             Head(script)[1] # "unplists"
      PROVE  JobsOK'
  <2>1. phase' = "enter" /\ mood' = "forward" /\ Now' = Head(script)[1]
    BY <1>3 DEF Issue, Enter, Now
  <2> QED BY <1>2, <1>3, <2>1, JobsBegin
<1>4. CASE \E c \in Configs : Setup(c)
  <2>1. PICK c \in Configs : Setup(c)
    BY <1>4
  <2>2. Head(SetupScript(root = "ready"))[1] = "provision"
    BY SetupNames
  <2> QED BY <1>3, <2>1, <2>2 DEF Setup
<1>5. CASE \E c \in Configs : Configure(c)
  <2>1. Head(<<Do("packs"), Do("config")>>)[1] = "packs"
    BY DoAll
  <2> QED BY <1>3, <1>5, <2>1 DEF Configure
<1>6. CASE \E c \in Configs : UpdateConfig(c)
  <2>1. Head(<<Do("config")>>)[1] = "config"
    BY DoAll
  <2> QED BY <1>3, <1>6, <2>1 DEF UpdateConfig
<1>7. CASE \E v \in Versions : Switch(v)
  <2> DEFINE script == SwitchScript(LoadedRoles)
  <2>1. LoadedRoles \in SUBSET Roles
    BY DEF LoadedRoles
  <2>2. script \in Seq(AnyStep) /\ script # <<>> /\ script[1] = Do("vet")
    BY <2>1, SwitchScriptChain
  <2>3. \E v \in Versions : Issue("switch", v, script)
    BY <1>7 DEF Switch
  <2> HIDE DEF script
  <2>4. Head(script)[1] = "vet"
    BY <2>2, DoAll, SeqFacts
  <2> QED BY <1>3, <2>3, <2>4
<1>8. CASE ServiceCommand
  <2>1. PICK script \in ServiceScripts : Issue("service", None, script)
    BY <1>8 DEF ServiceCommand
  <2> QED BY <1>3, <2>1, ServiceScriptHeads
<1>9. CASE InitCommand \/ Enable \/ Freeze \/ Uninstall
  <2>1. /\ Head(<<Do("init")>>)[1] = "init" /\ Head(<<Do("freeze")>>)[1] = "freeze"
        /\ Head(<<Do("doctor"), All("healthy"), Do("resume")>>)[1] = "doctor"
        /\ Head(<<All("stop"), All("unplists"), Do("remove")>>)[1] = "stop"
    BY DoAll
  <2>2. CASE InitCommand
    BY <1>3, <2>1, <2>2 DEF InitCommand
  <2>3. CASE Enable
    BY <1>3, <2>1, <2>3 DEF Enable
  <2>4. CASE Freeze
    BY <1>3, <2>1, <2>4 DEF Freeze
  <2>5. CASE Uninstall
    BY <1>3, <2>1, <2>5 DEF Uninstall
  <2> QED BY <1>9, <2>2, <2>3, <2>4, <2>5
<1> QED BY <1>4, <1>5, <1>6, <1>7, <1>8, <1>9 DEF Command


(* A step that treats roles goes on with the next of them.                  *)
LEMMA JobsWithin ==
  ASSUME JobsOK, ScriptSame, phase' # "enter", JobsHaveDefinitions',
         Now \in {"stop", "start", "plists", "unplists"},
         Now = "unplists" => LoadedRoles' = {},
         Now = "stop" /\ Those = Roles => LoadedRoles' \subseteq left',
         cmd = "setup" /\ mood = "recover" /\ Now = "unplists" => plist' \subseteq left',
         cmd = "setup" /\ mood = "recover" /\ note # None /\ Now = "plists" =>
           /\ LoadedRoles' = {} /\ left' \subseteq note.installed
           /\ plist' = note.installed \ left',
         cmd = "setup" /\ mood = "recover" /\ note # None /\ Now = "start" =>
           /\ plist' = note.installed /\ NoneLeaving'
           /\ LoadedRoles' \subseteq note.loaded /\ left' \subseteq note.loaded
           /\ note.loaded \ left' \subseteq LoadedRoles'
  PROVE  JobsOK'
<1>1. /\ UNCHANGED <<cmd, note, mood, outcome, Now, Those>>
      /\ \A what : At(what)' = At(what)
  BY DEF ScriptSame, Now, Those, At, Finished
<1>2. cmd = "setup" /\ mood = "recover" => RestoredJobs'
  BY <1>1 DEF RestoredJobs
<1> QED BY <1>1, <1>2 DEF JobsOK, At, Now

LEMMA RestoringRoles ==
  ASSUME LifecycleTypeOK, ScriptOK, cmd = "setup", mood = "recover"
  PROVE  /\ Now \in {"stop", "unplists"} => Those = Roles
         /\ note # None /\ Now = "plists" => Those = note.installed
         /\ note # None /\ Now = "start" => Those = note.loaded
         /\ note = None => Now \notin {"plists", "start"}
<1>1. CASE note = None
  BY <1>1, SetupFresh
<1>2. CASE note # None
  BY <1>2, SetupRestoring, NoteTyped
<1> QED BY <1>1, <1>2

LEMMA BeginStepJobs ==
  ASSUME LifecycleTypeOK, ScriptOK, ScriptOK', JobsOK, BeginStep PROVE JobsOK'
<1>1. /\ ~Finished /\ phase = "enter" /\ UNCHANGED servicesVars
      /\ \/ Now = "stop" /\ BeginRoles({r \in Those : Loaded(r)})
         \/ Now = "start" /\ BeginRoles({r \in Those : r \notin plist \/ ~Loaded(r)})
         \/ Now \in {"plists", "unplists"} /\ BeginRoles(Those)
  BY DEF BeginStep, At, Now
<1>2. /\ job' = job /\ plist' = plist /\ LoadedRoles' = LoadedRoles
      /\ NoneLeaving' = NoneLeaving
  BY <1>1, JobsSame DEF servicesVars, jobVars
<1>3. JobsHaveDefinitions'
  BY <1>2 DEF JobsOK, JobsHaveDefinitions
<1>4. Now = "unplists" => LoadedRoles = {}
  BY <1>1 DEF JobsOK, At, Now
<1>5. cmd = "setup" /\ mood = "recover" => RestoredJobs
  BY DEF JobsOK
<1>6. plist \subseteq Roles /\ Realtime \in Roles
  BY RolesAssumption DEF LifecycleTypeOK, ServicesTypeOK
<1>7. ASSUME NEW S, BeginRoles(S), Now \in {"stop", "start", "plists", "unplists"},
             Now = "stop" => S = {r \in Those : Loaded(r)},
             Now = "start" => S = {r \in Those : r \notin plist \/ ~Loaded(r)},
             Now \in {"plists", "unplists"} => S = Those
      PROVE  JobsOK'
  <2>1. CASE S = {}
    <3>1. Advance
      BY <1>7, <2>1 DEF BeginRoles
    <3>2. Now = "stop" /\ Those = Roles => LoadedRoles = {}
      BY <1>7, <2>1 DEF LoadedRoles
    <3>3. cmd = "setup" /\ mood = "recover" =>
            /\ Now = "unplists" => plist' = {}
            /\ Now = "plists" => plist' = note.installed
            /\ Now = "start" => LoadedRoles = note.loaded
      <4> HAVE cmd = "setup" /\ mood = "recover"
      <4>1. Now # "unplists"
        BY <1>6, <1>7, <2>1, RestoringRoles
      <4>2. Now = "plists" => note # None /\ note.installed = {} /\ plist = {}
        BY <1>1, <1>5, <1>7, <2>1, RestoringRoles DEF RestoredJobs
      <4>3. ASSUME Now = "start" PROVE LoadedRoles = note.loaded
        <5>1. note # None /\ Those = note.loaded /\ LoadedRoles \subseteq note.loaded
          BY <1>5, <4>3, RestoringRoles DEF RestoredJobs
        <5>2. \A r \in Those : r \in LoadedRoles
          <6>1. note.loaded \subseteq Roles
            BY <5>1, NoteTyped
          <6> QED BY <1>7, <2>1, <4>3, <5>1, <6>1 DEF LoadedRoles
        <5> QED BY <5>1, <5>2
      <4> QED BY <1>2, <4>1, <4>2, <4>3
    <3>4. Treated
      BY <1>2, <3>2, <3>3 DEF Treated
    <3> QED BY <1>1, <1>2, <1>3, <3>1, <3>4, JobsAdvance
  <2>2. CASE S # {}
    <3>1. left' = S /\ phase' # "enter" /\ ScriptSame
      BY <1>7, <2>2 DEF BeginRoles, ScriptSame
    <3>2. Now = "stop" /\ Those = Roles => LoadedRoles' \subseteq left'
      BY <1>2, <1>7, <3>1 DEF LoadedRoles
    <3>3. cmd = "setup" /\ mood = "recover" /\ Now = "unplists" => plist' \subseteq left'
      BY <1>2, <1>6, <1>7, <3>1, RestoringRoles
    <3>4. cmd = "setup" /\ mood = "recover" /\ note # None /\ Now = "plists" =>
            /\ LoadedRoles' = {} /\ left' \subseteq note.installed
            /\ plist' = note.installed \ left'
      BY <1>1, <1>2, <1>5, <1>7, <3>1, RestoringRoles DEF RestoredJobs
    <3>5. cmd = "setup" /\ mood = "recover" /\ note # None /\ Now = "start" =>
            /\ plist' = note.installed /\ NoneLeaving'
            /\ LoadedRoles' \subseteq note.loaded /\ left' \subseteq note.loaded
            /\ note.loaded \ left' \subseteq LoadedRoles'
      <4> HAVE cmd = "setup" /\ mood = "recover" /\ note # None /\ Now = "start"
      <4>1. /\ plist = note.installed /\ NoneLeaving /\ LoadedRoles \subseteq note.loaded
            /\ Those = note.loaded
        BY <1>5, RestoringRoles DEF RestoredJobs
      <4>2. note.loaded \subseteq Roles
        BY NoteTyped
      <4>3. note.loaded \ S \subseteq LoadedRoles
        BY <1>7, <4>1, <4>2 DEF LoadedRoles
      <4>4. S \subseteq note.loaded
        BY <1>7, <4>1
      <4> QED BY <1>2, <3>1, <4>1, <4>3, <4>4
    <3>6. Now = "unplists" => LoadedRoles' = {}
      BY <1>2, <1>4
    <3> QED BY <1>3, <1>7, <3>1, <3>2, <3>3, <3>4, <3>5, <3>6, JobsWithin
  <2> QED BY <2>1, <2>2
<1>8. CASE Now = "stop" /\ BeginRoles({r \in Those : Loaded(r)})
  BY <1>7, <1>8
<1>9. CASE Now = "start" /\ BeginRoles({r \in Those : r \notin plist \/ ~Loaded(r)})
  BY <1>7, <1>9
<1>10. CASE Now \in {"plists", "unplists"} /\ BeginRoles(Those)
  BY <1>7, <1>10
<1> QED BY <1>1, <1>8, <1>9, <1>10

(* One role is done: its job is gone, its job runs, or its definition is    *)
(* written or removed.                                                      *)
LEMMA RoleDoneJobs ==
  ASSUME LifecycleTypeOK, ScriptOK, ScriptOK', JobsOK, ~Finished, phase # "enter",
         RoleDone, job' = job,
         \/ Now = "stop" /\ ~Loaded(Role) /\ plist' = plist
         \/ Now = "start" /\ Loaded(Role) /\ plist' = plist
         \/ Now = "plists" /\ plist' = plist \cup {Role}
         \/ Now = "unplists" /\ plist' = plist \ {Role}
  PROVE  JobsOK'
<1>1. LoadedRoles' = LoadedRoles /\ NoneLeaving' = NoneLeaving
  BY JobsSame
<1>2. Role \in left /\ Role \in Roles
  BY RoleIn
<1>3. Now = "unplists" => LoadedRoles = {}
  BY DEF JobsOK, At, Now
<1>4. JobsHaveDefinitions'
  BY <1>1, <1>3 DEF JobsOK, JobsHaveDefinitions
<1>5. cmd = "setup" /\ mood = "recover" => RestoredJobs
  BY DEF JobsOK
<1>6. Now = "stop" /\ Those = Roles => LoadedRoles \subseteq left \ {Role}
  <2>1. Now = "stop" /\ Those = Roles => LoadedRoles \subseteq left
    BY DEF JobsOK, At, Now
  <2>2. Now = "stop" => Role \notin LoadedRoles
    BY DEF LoadedRoles
  <2> QED BY <2>1, <2>2
<1>7. cmd = "setup" /\ mood = "recover" /\ Now = "unplists" => plist' \subseteq left \ {Role}
  BY <1>5 DEF RestoredJobs
<1>8. cmd = "setup" /\ mood = "recover" /\ Now = "plists" =>
        /\ note # None /\ LoadedRoles = {} /\ left \subseteq note.installed
        /\ plist' = note.installed \ (left \ {Role})
  BY <1>2, <1>5, RestoringRoles DEF RestoredJobs
<1>9. cmd = "setup" /\ mood = "recover" /\ Now = "start" =>
        /\ note # None /\ plist' = note.installed /\ NoneLeaving
        /\ LoadedRoles \subseteq note.loaded /\ left \subseteq note.loaded
        /\ note.loaded \ (left \ {Role}) \subseteq LoadedRoles
  <2> HAVE cmd = "setup" /\ mood = "recover" /\ Now = "start"
  <2>1. note # None
    BY RestoringRoles
  <2>2. Role \in LoadedRoles
    BY <1>2 DEF LoadedRoles
  <2> QED BY <1>5, <2>1, <2>2 DEF RestoredJobs
<1>10. CASE left = {Role}
  <2>1. Advance
    BY <1>10 DEF RoleDone, Role
  <2>2. Treated
    BY <1>6, <1>7, <1>8, <1>9, <1>10 DEF Treated
  <2> QED BY <1>4, <2>1, <2>2, JobsAdvance
<1>11. CASE left # {Role}
  <2>1. left' = left \ {Role} /\ phase' # "enter" /\ ScriptSame
    BY <1>11 DEF RoleDone, Role, ScriptSame
  <2>2. Now \in {"stop", "start", "plists", "unplists"}
    OBVIOUS
  <2>3. Now = "unplists" => LoadedRoles' = {}
    BY <1>1, <1>3
  <2>4. Now = "stop" /\ Those = Roles => LoadedRoles' \subseteq left'
    BY <1>1, <1>6, <2>1
  <2>5. cmd = "setup" /\ mood = "recover" /\ Now = "unplists" => plist' \subseteq left'
    BY <1>7, <2>1
  <2>6. cmd = "setup" /\ mood = "recover" /\ note # None /\ Now = "plists" =>
          /\ LoadedRoles' = {} /\ left' \subseteq note.installed
          /\ plist' = note.installed \ left'
    BY <1>1, <1>8, <2>1
  <2>7. cmd = "setup" /\ mood = "recover" /\ note # None /\ Now = "start" =>
          /\ plist' = note.installed /\ NoneLeaving'
          /\ LoadedRoles' \subseteq note.loaded /\ left' \subseteq note.loaded
          /\ note.loaded \ left' \subseteq LoadedRoles'
    BY <1>1, <1>9, <2>1
  <2> QED BY <1>4, <2>1, <2>2, <2>3, <2>4, <2>5, <2>6, <2>7, JobsWithin
<1> QED BY <1>10, <1>11


LEMMA StopRoleJobs ==
  ASSUME LifecycleTypeOK, ScriptOK, JobsOK, StopRole PROVE JobsOK'
<1>1. /\ Now = "stop" /\ ~Finished /\ phase = "act" /\ Bootout({Role})
      /\ phase' = "wait" /\ left' = left /\ ScriptSame
  BY DEF StopRole, Acting, At, Now, AwaitRole, ScriptSame
<1>2. LoadedRoles' \subseteq LoadedRoles /\ plist' = plist
  BY <1>1, BootoutLoaded DEF LifecycleTypeOK
<1>3. JobsHaveDefinitions'
  BY <1>2 DEF JobsOK, JobsHaveDefinitions
<1>4. Those = Roles => LoadedRoles' \subseteq left'
  BY <1>1, <1>2 DEF JobsOK, At, Now
<1> QED BY <1>1, <1>3, <1>4, JobsWithin

LEMMA StartRoleJobs ==
  ASSUME LifecycleTypeOK, ScriptOK, JobsOK, StartRole PROVE JobsOK'
<1>1. /\ Now = "start" /\ ~Finished /\ phase = "act" /\ Role \in plist
      /\ Bootstrap(Role, active) /\ phase' = "wait" /\ left' = left /\ ScriptSame
  BY DEF StartRole, Acting, At, Now, AwaitRole, ScriptSame
<1>2. Role \in left /\ Role \in Roles
  BY <1>1, RoleIn
<1>3. /\ LoadedRoles' = LoadedRoles \cup {Role} /\ plist' = plist
      /\ NoneLeaving => NoneLeaving'
  BY <1>1, <1>2, BootstrapLoaded DEF LifecycleTypeOK
<1>4. JobsHaveDefinitions'
  BY <1>1, <1>3 DEF JobsOK, JobsHaveDefinitions
<1>5. cmd = "setup" /\ mood = "recover" /\ note # None /\ Now = "start" =>
        /\ plist' = note.installed /\ NoneLeaving'
        /\ LoadedRoles' \subseteq note.loaded /\ left' \subseteq note.loaded
        /\ note.loaded \ left' \subseteq LoadedRoles'
  <2> HAVE cmd = "setup" /\ mood = "recover" /\ note # None /\ Now = "start"
  <2>1. /\ plist = note.installed /\ NoneLeaving /\ LoadedRoles \subseteq note.loaded
        /\ left \subseteq note.loaded /\ note.loaded \ left \subseteq LoadedRoles
    BY <1>1 DEF JobsOK, RestoredJobs
  <2> QED BY <1>1, <1>2, <1>3, <2>1
<1> QED BY <1>1, <1>4, <1>5, JobsWithin

LEMMA LookStepJobs ==
  ASSUME LifecycleTypeOK, ScriptOK, ScriptOK', JobsOK, LookStep PROVE JobsOK'
<1>1. /\ UNCHANGED servicesVars /\ ~Finished
  BY LookStepQuiet
<1>2. job' = job /\ plist' = plist
  BY <1>1 DEF servicesVars, jobVars
<1>3. JobsHaveDefinitions'
  BY <1>2, JobsSame DEF JobsOK, JobsHaveDefinitions
<1>4. CASE BeginStep
  BY <1>4, BeginStepJobs
<1>5. CASE Stopped
  <2>1. Now = "stop" /\ phase # "enter" /\ ~Loaded(Role) /\ RoleDone
    BY <1>5 DEF Stopped, Awaiting, At, Now
  <2> QED BY <1>1, <1>2, <2>1, RoleDoneJobs
<1>6. CASE Started
  <2>1. Now = "start" /\ phase # "enter" /\ Loaded(Role) /\ RoleDone
    BY <1>6 DEF Started, Awaiting, At, Now, HealthyAfterStart
  <2> QED BY <1>1, <1>2, <2>1, RoleDoneJobs
<1>7. CASE HealthCheck \/ FinalStatus
  <2>1. Now \in {"healthy", "final"} /\ (Advance \/ StepFails)
    BY <1>7 DEF HealthCheck, FinalStatus, At, Now
  <2>2. Treated
    BY <1>2, <2>1 DEF Treated
  <2> QED BY <1>1, <1>2, <1>3, <2>1, <2>2, JobsAdvance, JobsFail
<1>8. CASE \/ StepErrs \/ CandidateFails \/ DoctorFinds \/ DoctorRefuses
           \/ StopRefused \/ StartMissing
  <2>1. StepFails
    BY <1>8 DEF StepErrs, CandidateFails, DoctorFinds, DoctorRefuses, StopRefused,
                StartMissing
  <2> QED BY <1>1, <1>3, <2>1, JobsFail
<1> QED BY <1>4, <1>5, <1>6, <1>7, <1>8 DEF LookStep

LEMMA JobStepJobs ==
  ASSUME LifecycleTypeOK, ScriptOK, ScriptOK', JobsOK, JobStep PROVE JobsOK'
<1>1. CASE Define
  <2>1. /\ ~Finished /\ phase # "enter" /\ RoleDone /\ job' = job
        /\ \/ Now = "plists" /\ plist' = plist \cup {Role}
           \/ Now = "unplists" /\ plist' = plist \ {Role}
    BY <1>1 DEF Define, Acting, At, Now, jobVars
  <2> QED BY <2>1, RoleDoneJobs
<1>2. CASE StopRole
  BY <1>2, StopRoleJobs
<1>3. CASE StartRole
  BY <1>3, StartRoleJobs
<1>4. CASE StartGivesUp \/ StartRefused
  <2>1. ~Finished /\ Bootout(begun) /\ StepFails
    BY <1>4 DEF StartGivesUp, StartRefused, Acting, Awaiting, At
  <2>2. LoadedRoles' \subseteq LoadedRoles /\ plist' = plist
    BY <2>1, BootoutLoaded DEF LifecycleTypeOK
  <2>3. JobsHaveDefinitions'
    BY <2>2 DEF JobsOK, JobsHaveDefinitions
  <2> QED BY <2>1, <2>3, JobsFail
<1> QED BY <1>1, <1>2, <1>3, <1>4 DEF JobStep

LEMMA JobsNext ==
  ASSUME LifecycleTypeOK, ScriptOK, ScriptOK', PlaceOK, JobsOK, LifecycleNext
  PROVE  JobsOK'
<1>1. ASSUME UNCHANGED servicesVars
      PROVE  job' = job /\ plist' = plist /\ JobsHaveDefinitions'
  <2>1. job' = job /\ plist' = plist
    BY <1>1 DEF servicesVars, jobVars
  <2> QED BY <2>1, JobsSame DEF JobsOK, JobsHaveDefinitions
<1>2. CASE PlaceStep
  <2>1. /\ ~Finished /\ job' = job /\ plist' = plist /\ JobsHaveDefinitions'
    BY <1>1, <1>2, PlaceStepQuiet
  <2>2. /\ TakeNote \/ StepFails \/ Advance
        /\ Now \notin {"stop", "start", "plists", "unplists"}
    BY <1>2, PlaceStepScript
  <2>3. Treated
    BY <2>1, <2>2 DEF Treated
  <2>4. CASE TakeNote
    <3>1. GoesOn /\ phase' = "enter"
      BY <2>4, NoteGoesOn DEF TakeNote, Enter
    <3>2. mood = "forward"
      <4>1. Now = "note"
        BY <2>4 DEF TakeNote, At, Now
      <4> QED BY <2>1, <4>1, StepsOf DEF Whereabouts
    <3> QED BY <2>1, <2>3, <3>1, <3>2, JobsGoOn
  <2>5. CASE StepFails
    BY <2>1, <2>5, JobsFail
  <2>6. CASE Advance
    BY <2>1, <2>3, <2>6, JobsAdvance
  <2> QED BY <2>2, <2>4, <2>5, <2>6
<1>3. CASE LookStep
  BY <1>3, LookStepJobs
<1>4. CASE JobStep
  BY <1>4, JobStepJobs
<1>5. CASE Provision
  <2>1. job' = job /\ plist' = plist /\ JobsHaveDefinitions'
    BY <1>1, <1>5 DEF Provision
  <2>2. Now = "provision"
    BY <1>5, ProvisionCases
  <2>3. CASE ScriptSame /\ UNCHANGED <<phase, left, begun>>
    <3>1. UNCHANGED scriptVars
      BY <2>3 DEF ScriptSame, scriptVars
    <3> QED BY <2>1, <3>1, JobsSame, JobsQuiet
  <2>4. CASE GoesOn /\ Enter(Tail(todo)) /\ note' = note
    <3>1. phase' = "enter"
      BY <2>4 DEF Enter
    <3>2. Treated
      BY <2>1, <2>2 DEF Treated
    <3> QED BY <2>1, <2>4, <3>1, <3>2, JobsGoOn
  <2>5. CASE Finish("failed")
    <3>1. Finished'
      BY <2>5 DEF Finish, Finished
    <3> QED BY <2>1, <3>1, JobsEnd
  <2> QED BY <1>5, <2>3, <2>4, <2>5, ProvisionCases
<1>6. CASE Kill
  <2>1. JobsHaveDefinitions' /\ Finished'
    BY <1>1, <1>6 DEF Kill, Finish, Finished
  <2> QED BY <2>1, JobsEnd
<1>7. CASE Command
  BY <1>7, CommandJobs
<1>8. CASE Background
  BY <1>8, BackgroundJobs
<1> QED BY <1>2, <1>3, <1>4, <1>5, <1>6, <1>7, <1>8, Groups


-----------------------------------------------------------------------------
(* What holds of a sound place under any commands.                          *)

LInv ==
  OperationsInv /\ LifecycleTypeOK /\ ScriptOK /\ PlaceOK /\ JobsOK /\ Unspent

LEMMA SoundBegins == SoundPlace /\ ProvisioningInit /\ cmd = "none" => LInv
<1> SUFFICES ASSUME SoundPlace, ProvisioningInit, cmd = "none" PROVE LInv
  OBVIOUS
<1>1. OperationsInv
  BY ProvisioningInitInv DEF OperationsInv, ScriptInv
<1>2. LifecycleTypeOK /\ Finished
  BY DEF SoundPlace
<1>3. todo = <<>> /\ doing = "none"
  BY <1>2 DEF LifecycleTypeOK, Finished
<1>4. ScriptOK
  <2>1. todo \in Seq(AnyStep)
    BY <1>3
  <2> QED BY <1>2, <1>3, <2>1 DEF ScriptOK
<1>5. PlaceOK
  BY DEF SoundPlace, PlaceOK
<1>6. JobsOK
  BY <1>2 DEF SoundPlace, JobsOK, At
<1>7. Unspent
  BY <1>2 DEF Unspent, At
<1> QED BY <1>1, <1>2, <1>4, <1>5, <1>6, <1>7 DEF LInv

LEMMA LifecycleSame ==
  ASSUME LInv, ScriptOK', UNCHANGED lifecycleVars
  PROVE  LifecycleTypeOK' /\ PlaceOK' /\ JobsOK' /\ Unspent'
<1>1. /\ UNCHANGED <<placeVars, scriptVars, records, faults, servicesVars,
                     provisioningVars>>
  BY DEF lifecycleVars
<1>2. LifecycleTypeOK'
  <2>1. ServicesTypeOK'
    BY <1>1, ServicesSame DEF LInv, LifecycleTypeOK
  <2>2. ProvisioningTypeOK'
    BY <1>1 DEF LInv, LifecycleTypeOK, ProvisioningTypeOK, provisioningVars, remoteVars
  <2> QED
    BY <1>1, <2>1, <2>2 DEF LInv, LifecycleTypeOK, placeVars, scriptVars, records,
                            provisioningVars
<1>3. PlaceOK'
  BY <1>1, PlaceSame DEF LInv, PlaceQuiet, ScriptSame, scriptVars
<1>4. JobsOK'
  BY <1>1, JobsSame, JobsQuiet DEF LInv, servicesVars, jobVars
<1>5. Unspent'
  BY <1>1 DEF LInv, Unspent, At, Finished, scriptVars
<1> QED BY <1>2, <1>3, <1>4, <1>5

LEMMA LInvStep == LInv /\ [LifecycleNext]_lifecycleVars => LInv'
<1> SUFFICES ASSUME LInv, [LifecycleNext]_lifecycleVars PROVE LInv'
  OBVIOUS
<1>1. OperationsInv' /\ ScriptOK'
  BY OperationsStep, ScriptNext DEF LInv
<1>2. CASE LifecycleNext
  <2>1. LifecycleTypeOK' /\ PlaceOK' /\ JobsOK'
    BY <1>1, <1>2, TypeNext, PlaceNext, JobsNext DEF LInv
  <2>2. Unspent'
    BY <1>1, <1>2, <2>1, UnspentNext DEF LInv
  <2> QED BY <1>1, <2>1, <2>2 DEF LInv
<1>3. CASE UNCHANGED lifecycleVars
  BY <1>1, <1>3, LifecycleSame DEF LInv
<1> QED BY <1>2, <1>3

LEMMA SoundInv == SoundSpec => []LInv
  BY SoundBegins, LInvStep, PTL DEF SoundSpec, AtRestSpec

(* The empty place the module begins with is sound.                         *)
LEMMA EmptyIsSound == LifecycleInit => SoundPlace
<1> SUFFICES ASSUME LifecycleInit PROVE SoundPlace
  OBVIOUS
<1> USE DEF LifecycleInit
<1>1. \A r \in Roles : job[r] = "absent"
  OBVIOUS
<1>2. ServicesTypeOK
  <2>1. SupervisorTypeOK /\ ~Up /\ event = "none"
    BY DEF SupervisorInit, SupervisorTypeOK, Up, NoChild, Children, Ends
  <2> QED BY <1>1, <2>1, RolesAssumption DEF ServicesTypeOK
<1>3. ProvisioningTypeOK
  BY DEF ProvisioningInit, ProvisioningTypeOK
<1>4. missing = {} /\ doing = "none"
  BY DEF ProvisioningInit
<1>5. LifecycleTypeOK
  BY <1>2, <1>3, <1>4, LifecycleAssumption DEF LifecycleTypeOK, Commands
<1>6. JobsHaveDefinitions /\ LiveIsVerified
  BY <1>1 DEF JobsHaveDefinitions, LoadedRoles, Loaded, LiveIsVerified
<1> QED BY <1>5, <1>6 DEF SoundPlace, Finished

(* Every state the commands lead to is typed, for any roles, versions,      *)
(* configurations and resources: a command has a step to take until it      *)
(* ends, a step that has begun to treat roles has one to treat, and nothing *)
(* is provisioned for once setup has ended (runCli, setup).                 *)
THEOREM LifecycleTyped == SoundSpec => []LifecycleTypeOK
<1>1. LInv => LifecycleTypeOK
  BY DEF LInv
<1> QED BY <1>1, SoundInv, PTL

(* While automatic processing is on, the configuration, the packs and the   *)
(* version in force have passed a doctor together, whatever commands were   *)
(* given, failed at any of their steps, were undone or were killed before.  *)
THEOREM LiveIsAlwaysVerified == SoundSpec => []LiveIsVerified
<1>1. LInv => LiveIsVerified
  BY DEF LInv, PlaceOK
<1> QED BY <1>1, SoundInv, PTL

(* No job is loaded whose service definition is gone, for any roles and     *)
(* however jobs linger after they were told to stop.                        *)
THEOREM LoadedJobsAreDefined == SoundSpec => []JobsHaveDefinitions
<1>1. LInv => JobsHaveDefinitions
  BY DEF LInv, JobsOK
<1> QED BY <1>1, SoundInv, PTL


-----------------------------------------------------------------------------
(* How a command ends, and what it leaves.                                  *)

(* A command is done or has failed when it has treated its last step, or    *)
(* when a step of it failed that leaves nothing to recover.                 *)
LEMMA HowItEnds ==
  ASSUME LInv, ~Finished, LifecycleNext, outcome' \in {"done", "failed"}
  PROVE  /\ \/ Advance /\ Last /\ mood # "broken"
            \/ StepFails /\ mood = "forward" /\ Recovery = <<>>
            \/ Provision /\ mood = "forward" /\ Now = "provision"
         /\ PlaceStep \/ LookStep \/ JobStep \/ Provision
<1>1. LifecycleTypeOK /\ ScriptOK /\ PlaceOK
  BY DEF LInv
<1>2. outcome = "none" /\ outcome' # outcome
  BY DEF Finished
<1>3. ~ScriptSame
  BY <1>2 DEF ScriptSame
<1>4. StepFails => mood = "forward" /\ Recovery = <<>>
  BY <1>2 DEF StepFails, Finish
<1>5. Advance => Last /\ mood # "broken"
  <2> HAVE Advance
  <2>1. Last /\ Finish(Result)
    BY <1>1, <1>2, AdvanceCases DEF GoesOn
  <2> QED BY <2>1 DEF Finish, Result
<1>6. ~TakeNote
  BY <1>2 DEF TakeNote
<1>7. ~Kill /\ ~Command /\ ~Background
  <2>1. ~Kill
    BY DEF Kill, Finish
  <2>2. ~Command
    BY <1>2, CommandQuiet DEF Issue, Finished
  <2>3. ~Background
    BY <1>2, BackgroundQuiet DEF scriptVars
  <2> QED BY <2>1, <2>2, <2>3
<1>8. CASE PlaceStep
  BY <1>4, <1>5, <1>6, <1>8, PlaceStepScript
<1>9. CASE LookStep
  BY <1>3, <1>4, <1>5, <1>9, LookStepQuiet DEF OnwardOrFails
<1>10. CASE JobStep
  BY <1>3, <1>4, <1>5, <1>10, JobStepQuiet DEF OnwardOrFails
<1>11. CASE Provision
  BY <1>1, <1>11, ProvisionCases
<1> QED BY <1>7, <1>8, <1>9, <1>10, <1>11, Groups

LEMMA RestoredPlace ==
  ASSUME LInv, LifecycleNext, cmd = "setup", mood = "recover", outcome' = "failed"
  PROVE  IF note = None
         THEN root' = "empty" /\ plist' = {} /\ LoadedRoles' = {}
         ELSE /\ <<root', active', previous'>> = <<"ready", note.active, note.previous>>
              /\ <<config', packs', frozen'>> = <<note.config, note.packs, note.frozen>>
              /\ plist' = note.installed /\ LoadedRoles' = note.loaded
<1>1. LifecycleTypeOK /\ ScriptOK /\ PlaceOK /\ JobsOK
  BY DEF LInv
<1>2. ~Finished
  BY <1>1 DEF ScriptOK
<1>3. Last /\ (PlaceStep \/ LookStep \/ JobStep)
  BY <1>2, HowItEnds, <1>1, ProvisionCases
<1>4. Now = IF note = None THEN "clear" ELSE "thaw"
  <2>1. CASE note = None
    BY <1>1, <1>3, <2>1, SetupFresh DEF Last
  <2>2. CASE note # None
    BY <1>1, <1>3, <2>2, SetupRestoring, NoteTyped DEF Last
  <2> QED BY <2>1, <2>2
<1>5. ~StepFails
  BY <1>2 DEF StepFails, Finish, Finished
<1>6. ~LookStep /\ ~JobStep
  <2>1. ~ScriptSame /\ ~OnwardNow
    BY <1>2, <1>4 DEF ScriptSame, Finished, OnwardNow
  <2> QED BY <1>5, <2>1, LookStepQuiet, JobStepQuiet DEF OnwardOrFails
<1>7. UNCHANGED servicesVars
  BY <1>3, <1>6, PlaceStepQuiet
<1>8. plist' = plist /\ LoadedRoles' = LoadedRoles
  BY <1>7, JobsSame DEF servicesVars, jobVars
<1>9. RestoredJobs /\ SetupPlace
  BY <1>1 DEF JobsOK, PlaceOK
<1>10. CASE note = None
  <2>1. RemoveStep \/ HalfDone
    BY <1>3, <1>4, <1>6, <1>10
       DEF PlaceStep, FileStep, PlacePacks, RestorePacks, InitStep, DoctorPasses, VetPasses,
           TakeNote, At, Now
  <2>2. RemoveStep /\ At("clear")
    BY <1>4, <1>5, <1>10, <2>1 DEF HalfDone, RemoveStep, At, Now
  <2>3. root' = "empty"
    BY <2>2 DEF RemoveStep, At
  <2>4. plist = {} /\ LoadedRoles = {}
    BY <1>4, <1>9, <1>10 DEF RestoredJobs
  <2> QED BY <1>8, <1>10, <2>3, <2>4
<1>11. CASE note # None
  <2>1. FileStep
    BY <1>3, <1>4, <1>6, <1>11
       DEF PlaceStep, RemoveStep, HalfDone, PlacePacks, RestorePacks, InitStep,
           DoctorPasses, VetPasses, TakeNote, At, Now
  <2>2. /\ frozen' = note.frozen
        /\ UNCHANGED <<root, active, previous, config, packs>>
    BY <1>4, <1>11, <2>1 DEF FileStep, At, Now
  <2>3. root = "ready" /\ active = note.active /\ previous = note.previous
    BY <1>1, <1>9, <1>11 DEF PlaceOK, NoteOK, SetupPlace
  <2>4. config = note.config /\ packs = note.packs
    BY <1>4, <1>9, <1>11 DEF SetupPlace
  <2>5. plist = note.installed /\ LoadedRoles = note.loaded
    BY <1>4, <1>9, <1>11 DEF RestoredJobs
  <2> QED BY <1>8, <1>11, <2>2, <2>3, <2>4, <2>5
<1> QED BY <1>10, <1>11

(* A failed setup whose recovery succeeded leaves the installation as it    *)
(* was, with its configuration, packs, frozen flag, service definitions and *)
(* jobs, or the new place empty, for any roles it had and wherever it       *)
(* failed (setup).                                                          *)
THEOREM FailedSetupRestores == SoundSpec => SetupRestores
<1> DEFINE Restored ==
      cmd = "setup" /\ mood = "recover" /\ outcome' = "failed" =>
        IF note = None
        THEN root' = "empty" /\ plist' = {} /\ LoadedRoles' = {}
        ELSE /\ <<root', active', previous'>> = <<"ready", note.active, note.previous>>
             /\ <<config', packs', frozen'>> = <<note.config, note.packs, note.frozen>>
             /\ plist' = note.installed /\ LoadedRoles' = note.loaded
<1>1. LInv /\ [LifecycleNext]_lifecycleVars => [Restored]_lifecycleVars
  BY RestoredPlace
<1> QED BY <1>1, SoundInv, PTL DEF SoundSpec, AtRestSpec, SetupRestores


(* What the step that ends a command does to the configuration.             *)
LEMMA ConfigEnds ==
  ASSUME LInv, ~Finished, LifecycleNext, outcome' \in {"done", "failed"}
  PROVE  \/ config' = None
         \/ /\ Now = "config" /\ Last /\ config' = goal
            /\ UNCHANGED <<packs, approved>>
         \/ /\ Now = "unconfig" /\ Last /\ config' = note.config
            /\ UNCHANGED <<packs, approved>>
         \/ /\ UNCHANGED <<config, packs, approved>>
            /\ \/ mood = "forward" /\ Recovery = <<>>
               \/ Last /\ mood # "broken" /\ Now \notin {"clear", "config", "unconfig"}
               \/ mood = "forward" /\ Now = "provision"
<1>1. LifecycleTypeOK /\ ScriptOK /\ PlaceOK
  BY DEF LInv
<1>2. \/ Advance /\ Last /\ mood # "broken"
      \/ StepFails /\ mood = "forward" /\ Recovery = <<>>
      \/ Provision /\ mood = "forward" /\ Now = "provision"
  BY HowItEnds
<1>3. Whereabouts
  BY <1>1, StepsOf
<1>4. CASE RemoveStep \/ HalfDone
  BY <1>4 DEF RemoveStep, HalfDone
<1>5. CASE FileStep
  <2>1. /\ Advance /\ UNCHANGED <<packs, approved>>
        /\ \/ Now = "config" /\ config' = goal
           \/ Now = "unconfig" /\ config' = note.config
           \/ Now \in {"point", "unpoint", "freeze", "resume", "thaw"} /\ config' = config
    BY <1>5 DEF FileStep, At, Now, records
  <2>2. Last /\ mood # "broken"
    <3>1. outcome = "none"
      BY DEF Finished
    <3>2. ~GoesOn
      BY <3>1 DEF GoesOn
    <3>3. Last /\ Finish(Result)
      BY <1>1, <2>1, <3>2, AdvanceCases
    <3> QED BY <3>3 DEF Finish, Result
  <2> QED BY <2>1, <2>2
<1>6. CASE PlacePacks \/ RestorePacks
  <2>1. Now \in {"packs", "unpacks"} /\ Advance
    BY <1>6 DEF PlacePacks, RestorePacks, At, Now
  <2>2. ~Last
    BY <1>3, <2>1 DEF Whereabouts
  <2>3. GoesOn
    BY <1>1, <2>1, <2>2, AdvanceCases
  <2> QED BY <2>3 DEF GoesOn, Finished
<1>7. CASE InitStep \/ DoctorPasses \/ VetPasses
  <2>1. /\ Advance /\ UNCHANGED <<config, packs, approved>>
        /\ Now \in {"init", "doctor", "vet"}
    BY <1>7 DEF InitStep, DoctorPasses, VetPasses, At, Now, placeVars, records
  <2>2. ~GoesOn
    BY DEF GoesOn, Finished
  <2>3. Last /\ Finish(Result)
    BY <1>1, <2>1, <2>2, AdvanceCases
  <2>4. mood # "broken"
    BY <2>3 DEF Finish, Result
  <2> QED BY <2>1, <2>3, <2>4
<1>8. CASE TakeNote
  BY <1>8 DEF TakeNote, Finished
<1>9. CASE LookStep \/ JobStep
  <2>1. UNCHANGED <<config, packs, approved>> /\ OnwardOrFails /\ Now # "provision"
    BY <1>9, LookStepQuiet, JobStepQuiet DEF placeVars, records
  <2>2. CASE StepFails
    <3>1. mood = "forward" /\ Recovery = <<>>
      BY <2>2 DEF StepFails, Finish, Finished
    <3> QED BY <2>1, <3>1
  <2>3. CASE Advance /\ OnwardNow
    <3>1. Now \notin {"clear", "config", "unconfig"}
      BY <2>3 DEF OnwardNow
    <3>2. ~GoesOn
      BY DEF GoesOn, Finished
    <3>3. Last /\ Finish(Result)
      BY <1>1, <2>3, <3>2, AdvanceCases
    <3>4. mood # "broken"
      BY <3>3 DEF Finish, Result
    <3> QED BY <2>1, <3>1, <3>3, <3>4
  <2>4. ~ScriptSame
    BY DEF ScriptSame, Finished
  <2> QED BY <2>1, <2>2, <2>3, <2>4 DEF OnwardOrFails
<1>10. CASE Provision
  <2>1. UNCHANGED <<config, packs, approved>>
    BY <1>10 DEF Provision, placeVars, records
  <2> QED BY <1>1, <1>10, <2>1, ProvisionCases
<1> QED BY <1>4, <1>5, <1>6, <1>7, <1>8, <1>9, <1>10, HowItEnds DEF PlaceStep

LEMMA EndsTrusted ==
  ASSUME LInv, ~Finished, FoundTrusted, LifecycleNext, outcome' \in {"done", "failed"}
  PROVE  Trusted(config, packs)'
<1>1. LifecycleTypeOK /\ ScriptOK /\ PlaceOK
  BY DEF LInv
<1>2. Whereabouts
  BY <1>1, StepsOf
<1>3. None \notin Allows /\ cmd \in Commands \ {"none"}
  BY <1>1, LifecycleAssumption DEF ScriptOK, LifecycleTypeOK
<1>4. note = None => cmd \in {"setup", "init"}
  BY <1>1, <1>3 DEF ScriptOK
<1>5. CASE config' = None
  BY <1>3, <1>5 DEF Trusted
<1>6. CASE Now = "config" /\ Last /\ config' = goal /\ UNCHANGED <<packs, approved>>
  <2>1. cmd \in {"configure", "config update"} /\ mood = "forward"
    BY <1>2, <1>6 DEF Whereabouts
  <2>2. CASE cmd = "configure"
    <3>1. packs = goal /\ Trusted(goal, goal)
      BY <1>1, <1>6, <2>1, <2>2 DEF PlaceOK, ConfigurePlace
    <3> QED BY <1>6, <3>1 DEF Trusted
  <2>3. CASE cmd = "config update"
    <3>1. /\ goal \in Allows => config \in Allows
          /\ config = note.config /\ packs = note.packs /\ note # None
      BY <1>1, <1>4, <2>3 DEF PlaceOK
    <3> QED BY <1>6, <3>1 DEF FoundTrusted, Trusted
  <2> QED BY <2>1, <2>2, <2>3
<1>7. CASE Now = "unconfig" /\ Last /\ config' = note.config
  <2>1. cmd = "configure"
    BY <1>2, <1>7 DEF Whereabouts
  <2>2. config' = None
    BY <1>1, <1>7, <2>1 DEF PlaceOK, ConfigurePlace
  <2> QED BY <1>5, <2>2
<1>8. ASSUME UNCHANGED <<config, packs, approved>>,
             \/ mood = "forward" /\ Recovery = <<>>
             \/ Last /\ mood # "broken" /\ Now \notin {"clear", "config", "unconfig"}
             \/ mood = "forward" /\ Now = "provision"
      PROVE  Trusted(config, packs)'
  <2>1. SUFFICES Trusted(config, packs)
    BY <1>8 DEF Trusted
  <2>2. CASE cmd = "setup"
    <3>1. SetupPlace
      BY <1>1, <2>2 DEF PlaceOK
    <3>2. \/ mood = "forward" /\ Now \in {"provision", "note", "init", "final"}
          \/ mood = "recover" /\ note # None /\ Now = "thaw"
      <4>1. CASE mood = "forward" /\ Recovery = <<>>
        <5>1. FreshRecovery # <<>> /\ SetupRecovery # <<>>
          BY DEF FreshRecovery, SetupRecovery
        <5> QED BY <2>2, <4>1, <5>1 DEF Recovery, Now
      <4>2. CASE Last /\ mood # "broken" /\ Now # "clear"
        <5>1. mood \in {"forward", "recover"}
          BY <1>1, <4>2 DEF LifecycleTypeOK
        <5>2. mood = "forward" => Now = "final"
          BY <1>1, <2>2, <4>2, SetupForward DEF Last
        <5>3. mood = "recover" => note # None
          BY <1>1, <2>2, <4>2, SetupFresh DEF Last
        <5>4. mood = "recover" => Now = "thaw"
          BY <1>1, <2>2, <4>2, <5>3, SetupRestoring, NoteTyped DEF Last
        <5> QED BY <5>1, <5>2, <5>3, <5>4
      <4> QED BY <1>8, <4>1, <4>2
    <3>3. \/ Trusted(goal, goal) /\ config = goal /\ packs = goal
          \/ note = None /\ config = None
          \/ note # None /\ config = note.config /\ packs = note.packs
      BY <3>1, <3>2 DEF SetupPlace
    <3> QED BY <1>3, <3>3 DEF FoundTrusted, Trusted
  <2>3. CASE cmd = "configure"
    <3>1. Recovery # <<>>
      BY <2>3 DEF Recovery
    <3>2. Now # "provision"
      BY <1>2, <2>3 DEF Whereabouts
    <3>3. Last => Now \in {"config", "unconfig"}
      BY <1>1, <2>3, Configuring DEF Last
    <3> QED BY <1>8, <3>1, <3>2, <3>3
  <2>4. CASE cmd = "init"
    <3>1. config = None
      BY <1>1, <2>4 DEF PlaceOK
    <3> QED BY <1>3, <3>1 DEF Trusted
  <2>5. CASE cmd \notin {"setup", "configure", "init"}
    <3>1. note # None /\ config = note.config /\ packs = note.packs
      BY <1>1, <1>3, <1>4, <2>5 DEF PlaceOK, Commands
    <3> QED BY <3>1 DEF FoundTrusted
  <2> QED BY <2>2, <2>3, <2>4, <2>5
<1> QED BY <1>5, <1>6, <1>7, <1>8, ConfigEnds

(* A command that ends or recovers leaves no internal capability allowed    *)
(* with packs nobody approved, where it found none, for any configurations  *)
(* and whatever commands came before (prepareCapabilityCandidate,           *)
(* installCapabilityPacks, updateConfig).                                   *)
THEOREM TrustStaysApproved == SoundSpec => TrustIsApproved
<1> DEFINE Kept ==
      ~Finished /\ FoundTrusted /\ outcome' \in {"done", "failed"} =>
        Trusted(config, packs)'
<1>1. LInv /\ [LifecycleNext]_lifecycleVars => [Kept]_lifecycleVars
  BY EndsTrusted
<1> QED BY <1>1, SoundInv, PTL DEF SoundSpec, AtRestSpec, TrustIsApproved


(* The pipeline while a switch restarts the services.  The realtime role is *)
(* the first that is stopped once the pointer has moved, forward or back,   *)
(* and from then on the pipeline runs what the pointer names.               *)
StopRealtime == <<"stop", {Realtime}>>

RealtimeFirst(s) ==
  \A i \in 1..(Len(s) - 1) :
    s[i + 1] = StopRealtime <=> s[i] \in {Do("point"), Do("unpoint")}

Unmoved == mood = "forward" /\ Now \in {"vet", "point"}
MovedBack == mood = "recover" /\ Now # "unpoint"
Moved == mood = "forward" /\ Now \notin {"vet", "point"}

SwitchJobs ==
  /\ Realtime \notin note.loaded => job[Realtime] = "absent"
  /\ Realtime \in note.loaded /\ mood # "broken" => RealtimeFirst(todo)
  /\ Unmoved \/ MovedBack =>
       /\ active = note.active /\ previous = note.previous
       /\ Head(todo) = StopRealtime \/ runs \in {None, note.active, note.runs}
  /\ Moved =>
       /\ active = goal /\ previous = note.active
       /\ Head(todo) = StopRealtime \/ runs \in {None, goal}


(* A step that treats roles treats those it names, the realtime role among  *)
(* them only if the switch found it loaded.                                 *)
TreatsThose == todo # <<>> /\ phase # "enter" => left \subseteq Those

SwitchOK == TreatsThose /\ (cmd = "switch" => SwitchJobs)

LEMMA RealtimeLeads ==
  ASSUME NEW S \in SUBSET Roles, Realtime \in S
  PROVE  /\ Cardinality(S) \in Nat /\ Cardinality(S) >= 1
         /\ \A k \in 1..Cardinality(S) : Nth(S, k) = Realtime <=> k = 1
<1>1. IsFiniteSet(S) /\ Cardinality(S) \in Nat /\ Cardinality(S) >= 1
  BY RolesAssumption, FS_Subset, FS_CardinalityType, FS_EmptySet
<1>2. Upto(S, Realtime) = {Realtime}
  <2>1. ASSUME NEW s \in S, RoleRank[s] <= RoleRank[Realtime] PROVE s = Realtime
    <3>1. RoleRank[s] \in Nat /\ RoleRank[Realtime] \in Nat
          /\ RoleRank[Realtime] <= RoleRank[s]
      BY RolesAssumption
    <3>2. RoleRank[s] = RoleRank[Realtime]
      BY <2>1, <3>1
    <3> QED BY <3>2, RolesAssumption
  <2>2. Realtime \in Upto(S, Realtime)
    BY RolesAssumption DEF Upto
  <2> QED BY <2>1, <2>2 DEF Upto
<1>3. Cardinality(Upto(S, Realtime)) = 1
  BY <1>2, FS_Singleton
<1>4. ASSUME NEW k \in 1..Cardinality(S), Nth(S, k) = Realtime PROVE k = 1
  BY <1>3, <1>4, NthRole
<1>5. Nth(S, 1) = Realtime
  <2>1. 1 \in 1..Cardinality(S)
    BY <1>1
  <2> DEFINE x == Nth(S, 1)
  <2>2. x \in S /\ Cardinality(Upto(S, x)) = 1
    BY <2>1, NthRole
  <2>3. Upto(S, x) \in SUBSET S
    BY DEF Upto
  <2>4. IsFiniteSet(Upto(S, x))
    BY <1>1, <2>3, FS_Subset
  <2> HIDE DEF x
  <2>5. x \in Upto(S, x) /\ Realtime \in Upto(S, x)
    BY <2>2, RolesAssumption DEF Upto
  <2>6. PICK y : Upto(S, x) = {y}
    BY <2>2, <2>4, FS_Singleton
  <2> QED BY <2>5, <2>6 DEF x
<1> QED BY <1>1, <1>4, <1>5

(* The roles' steps begin with the realtime role's, and treat it once.      *)
LEMMA PerRoleLeads ==
  ASSUME NEW S \in SUBSET Roles, Realtime \in S, NEW h \in AnyStep, h[1] = "healthy"
  PROVE  LET q == PerRole(S) \o <<h>>
         IN  /\ q \in Seq(AnyStep) /\ q # <<>> /\ q[1] = StopRealtime
             /\ RealtimeFirst(q)
<1> DEFINE q == PerRole(S) \o <<h>>
           P == PerRole(S)
           n == Cardinality(S)
           m == 2 * n
<1>1. /\ n \in Nat /\ n >= 1 /\ P \in Seq(AnyStep) /\ Len(P) = m
      /\ \A k \in 1..n : P[2 * k - 1] = <<"stop", {Nth(S, k)}>>
                        /\ P[2 * k] = <<"start", {Nth(S, k)}>>
  BY PerRoleSteps, RealtimeLeads
<1>2. \A k \in 1..n : Nth(S, k) = Realtime <=> k = 1
  BY RealtimeLeads
<1>3. /\ q \in Seq(AnyStep) /\ q # <<>> /\ q[Len(q)] = h
      /\ q[1] = <<"stop", {Nth(S, 1)}>> /\ SwitchChain(q, RolesOf(S) \cup {h})
  BY PerRoleChain
<1>q. q = P \o <<h>>
  OBVIOUS
<1> HIDE DEF q, P, n
<1>4. Len(q) = m + 1 /\ \A i \in 1..m : q[i] = P[i]
  <2>1. Len(q) = Len(P) + 1 /\ \A i \in 1..Len(P) : q[i] = P[i]
    <3> HIDE DEF m
    <3> QED BY ONLY h \in AnyStep, <1>1, <1>q, ConcatOne
  <2> QED BY <1>1, <2>1
<1>5. q[1] = StopRealtime
  <2>1. 1 \in 1..n
    BY <1>1
  <2> QED BY <1>2, <1>3, <2>1 DEF StopRealtime
<1>6. ASSUME NEW i \in 1..(Len(q) - 1), q[i + 1] = StopRealtime PROVE FALSE
  <2>1. q[i + 1][1] = "stop" /\ q[i + 1][2] = {Realtime}
    BY <1>6 DEF StopRealtime
  <2>2. i + 1 # m + 1
    BY <1>1, <1>3, <1>4, <2>1
  <2>3. i + 1 \in 1..m
    BY <1>1, <1>4, <2>2
  <2> DEFINE k == (i + 1) \div 2
  <2>4. k \in Nat /\ (i + 1 = 2 * k \/ i + 1 = 2 * k + 1) /\ i \in Nat /\ i >= 1
    BY <1>1, <1>4
  <2> HIDE DEF k
  <2>5. CASE i + 1 = 2 * k
    <3>1. k \in 1..n
      BY <1>1, <2>3, <2>4, <2>5
    <3>2. q[i + 1] = <<"start", {Nth(S, k)}>>
      BY <1>1, <1>4, <2>3, <2>5, <3>1
    <3> QED BY <2>1, <3>2
  <2>6. CASE i + 1 = 2 * k + 1
    <3>1. k + 1 \in 1..n /\ i + 1 = 2 * (k + 1) - 1 /\ k + 1 # 1
      BY <1>1, <2>3, <2>4, <2>6
    <3>2. P[2 * (k + 1) - 1] = <<"stop", {Nth(S, k + 1)}>>
      BY <1>1, <3>1
    <3>3. q[i + 1] = <<"stop", {Nth(S, k + 1)}>>
      BY <1>4, <2>3, <3>1, <3>2
    <3>4. Nth(S, k + 1) # Realtime
      BY <1>2, <3>1
    <3> QED BY <2>1, <3>3, <3>4
  <2> QED BY <2>4, <2>5, <2>6
<1>7. ASSUME NEW i \in 1..Len(q) PROVE q[i] \notin {Do("point"), Do("unpoint")}
  <2>1. q[i] \in RolesOf(S) \cup {h}
    BY <1>3 DEF SwitchChain
  <2>2. q[i][1] \in {"stop", "start", "healthy"}
    BY <2>1 DEF RolesOf
  <2> QED BY <2>2, DoAll
<1>8. RealtimeFirst(q)
  <2>1. \A i \in 1..(Len(q) - 1) : i \in 1..Len(q)
    BY <1>1, <1>4
  <2> QED BY <1>6, <1>7, <2>1 DEF RealtimeFirst
<1> QED BY <1>3, <1>5, <1>8 DEF q, P

LEMMA LeadsCons ==
  ASSUME NEW q \in Seq(AnyStep), q # <<>>, RealtimeFirst(q), NEW a \in AnyStep,
         q[1] = StopRealtime <=> a \in {Do("point"), Do("unpoint")}
  PROVE  RealtimeFirst(<<a>> \o q)
<1> DEFINE p == <<a>> \o q
           n == Len(q)
<1>1. n \in Nat /\ n >= 1
  BY SeqFacts
<1>2. Len(p) = n + 1 /\ p[1] = a /\ \A i \in 1..n : p[i + 1] = q[i]
  BY <1>1
<1> HIDE DEF p, n
<1>3. ASSUME NEW i \in 1..(Len(p) - 1)
      PROVE  p[i + 1] = StopRealtime <=> p[i] \in {Do("point"), Do("unpoint")}
  <2>1. CASE i = 1
    <3>1. p[1 + 1] = q[1]
      BY <1>1, <1>2
    <3> QED BY <1>2, <2>1, <3>1
  <2>2. CASE i # 1
    <3>1. i - 1 \in 1..(n - 1) /\ i - 1 \in 1..n /\ i \in 1..n /\ (i - 1) + 1 = i
      BY <1>1, <1>2, <2>2
    <3>2. p[(i - 1) + 1] = q[i - 1] /\ p[i + 1] = q[i]
      BY <1>2, <3>1
    <3>3. q[(i - 1) + 1] = StopRealtime <=> q[i - 1] \in {Do("point"), Do("unpoint")}
      BY <3>1 DEF RealtimeFirst, n
    <3> QED BY <3>1, <3>2, <3>3
  <2> QED BY <2>1, <2>2
<1> QED BY <1>3 DEF RealtimeFirst, p

LEMMA LeadsTail ==
  ASSUME NEW s \in Seq(AnyStep), s # <<>>, Len(s) # 1, RealtimeFirst(s)
  PROVE  /\ RealtimeFirst(Tail(s))
         /\ Head(Tail(s)) = StopRealtime <=> Head(s) \in {Do("point"), Do("unpoint")}
<1> DEFINE t == Tail(s)
           n == Len(s)
<1>1. /\ n \in Nat /\ n >= 2 /\ Len(t) = n - 1 /\ Head(s) = s[1] /\ Head(t) = s[2]
      /\ \A i \in 1..(n - 1) : t[i] = s[i + 1]
  BY SeqFacts
<1> HIDE DEF t, n
<1>2. ASSUME NEW i \in 1..(Len(t) - 1)
      PROVE  t[i + 1] = StopRealtime <=> t[i] \in {Do("point"), Do("unpoint")}
  <2>1. i + 1 \in 1..(n - 1) /\ i \in 1..(n - 1)
    BY <1>1
  <2>2. t[i] = s[i + 1] /\ t[i + 1] = s[(i + 1) + 1]
    BY <1>1, <2>1
  <2>3. s[(i + 1) + 1] = StopRealtime <=> s[i + 1] \in {Do("point"), Do("unpoint")}
    BY <2>1 DEF RealtimeFirst, n
  <2> QED BY <2>2, <2>3
<1>3. s[2] = StopRealtime <=> s[1] \in {Do("point"), Do("unpoint")}
  <2>1. 1 \in 1..(n - 1)
    BY <1>1
  <2>2. s[1 + 1] = StopRealtime <=> s[1] \in {Do("point"), Do("unpoint")}
    BY <2>1 DEF RealtimeFirst, n
  <2> QED BY <2>2
<1> QED BY <1>1, <1>2, <1>3 DEF RealtimeFirst, t

LEMMA SwitchScriptLeads ==
  ASSUME NEW S \in SUBSET Roles, Realtime \in S
  PROVE  RealtimeFirst(SwitchScript(S))
<1> DEFINE h == <<"healthy", S>>
           r == PerRole(S) \o <<h>>
           p == <<Do("point")>> \o r
           t == <<Do("vet")>> \o p
<1>1. Do("vet") \in AnyStep /\ Do("point") \in AnyStep /\ h \in AnyStep /\ h[1] = "healthy"
  BY DEF AnyStep, Steps, Do
<1>2. r \in Seq(AnyStep) /\ r # <<>> /\ r[1] = StopRealtime /\ RealtimeFirst(r)
  BY <1>1, PerRoleLeads
<1>3. SwitchScript(S) = <<Do("vet"), Do("point")>> \o r
  BY DEF SwitchScript
<1> HIDE DEF r, h
<1>4. t = <<Do("vet"), Do("point")>> \o r
  <2>1. t \in Seq(AnyStep) /\ <<Do("vet"), Do("point")>> \o r \in Seq(AnyStep)
    BY <1>1, <1>2
  <2> QED BY <1>1, <1>2, <2>1
<1>5. p \in Seq(AnyStep) /\ p # <<>> /\ p[1] = Do("point")
  BY <1>1, <1>2
<1>6. RealtimeFirst(p)
  BY <1>1, <1>2, LeadsCons
<1>7. p[1] # StopRealtime /\ Do("vet") \notin {Do("point"), Do("unpoint")}
  <2>1. StopRealtime[1] = "stop"
    BY DEF StopRealtime
  <2> QED BY <1>5, <2>1, DoAll
<1> HIDE DEF p
<1>8. RealtimeFirst(t)
  BY <1>1, <1>5, <1>6, <1>7, LeadsCons
<1> QED BY <1>3, <1>4, <1>8

(* A switch that fails once it has moved the pointer has begun with the     *)
(* realtime role, so that it is the first it restarts again.                *)
LEMMA RealtimeTouched ==
  ASSUME ScriptOK, cmd = "switch", mood = "forward", RealtimeFirst(todo),
         Now \notin {"vet", "point"}, Realtime \in note.loaded
  PROVE  Realtime \in Touched
<1>1. todo \in Seq(AnyStep) /\ todo # <<>> /\ SwitchChain(todo, SwitchSteps)
  BY DEF ScriptOK, Finished, OnSwitch
<1>2. Len(todo) \in Nat /\ Len(todo) >= 1 /\ Head(todo) = todo[1]
  BY <1>1, SeqFacts
<1>3. SUFFICES ASSUME NEW i \in 2..Len(todo), todo[i] = StopRealtime PROVE FALSE
  BY DEF Touched, StopRealtime
<1>4. i - 1 \in 1..(Len(todo) - 1) /\ i - 1 \in 1..Len(todo) /\ (i - 1) + 1 = i
  BY <1>2
<1>5. todo[i - 1] \in {Do("point"), Do("unpoint")}
  BY <1>3, <1>4 DEF RealtimeFirst
<1>6. todo[i - 1] # Do("unpoint")
  <2>1. todo[i - 1] \in SwitchSteps
    BY <1>1, <1>4 DEF SwitchChain
  <2>2. todo[i - 1][1] \in {"stop", "start", "vet", "point", "healthy"}
    BY <2>1, DoAll DEF SwitchSteps, RolesOf
  <2> QED BY <2>2, DoAll
<1>7. todo[i - 1] = Do("point")
  BY <1>5, <1>6
<1>8. i - 1 # 1
  BY <1>2, <1>7, DoAll DEF Now
<1>9. i - 2 \in 1..(Len(todo) - 1) /\ (i - 2) + 1 = i - 1 /\ i - 2 \in 1..Len(todo)
  BY <1>4, <1>8
<1>10. SwitchPair(todo[i - 2], todo[i - 1])
  BY <1>1, <1>9 DEF SwitchChain
<1>11. \A r : <<"start", r>>[1] = "start"
  OBVIOUS
<1>12. todo[i - 2] = Do("vet")
  BY <1>7, <1>10, <1>11, DoAll DEF SwitchPair
<1>13. i - 2 # 1
  BY <1>2, <1>12, DoAll DEF Now
<1>14. i - 3 \in 1..(Len(todo) - 1) /\ (i - 3) + 1 = i - 2
  BY <1>9, <1>13
<1>15. SwitchPair(todo[i - 3], todo[i - 2])
  BY <1>1, <1>14 DEF SwitchChain
<1> QED BY <1>11, <1>12, <1>15, DoAll DEF SwitchPair

LEMMA SwitchRecoveryLeads ==
  ASSUME note \in Place,
         Head(todo) = Do("point") \/ Realtime \in Touched
  PROVE  RealtimeFirst(SwitchRecovery)
<1> DEFINE h == <<"healthy", note.loaded>>
<1>1. note.loaded \in SUBSET Roles
  BY DEF Place
<1>2. Do("unpoint") \in AnyStep /\ h \in AnyStep /\ h[1] = "healthy"
  BY <1>1 DEF AnyStep, Steps, Do
<1>3. CASE Head(todo) = Do("point")
  <2>1. SwitchRecovery = <<h>>
    BY <1>2, <1>3 DEF SwitchRecovery
  <2>2. Len(<<h>>) = 1 /\ 1..(1 - 1) = {}
    OBVIOUS
  <2> QED BY <2>1, <2>2 DEF RealtimeFirst
<1>4. CASE Head(todo) # Do("point")
  <2> DEFINE T == Touched
             P == PerRole(T)
             r == P \o <<h>>
             t == <<Do("unpoint")>> \o r
  <2>1. T \in SUBSET Roles /\ Realtime \in T
    BY <1>1, <1>4 DEF Touched
  <2>2. SwitchRecovery = (<<Do("unpoint")>> \o P) \o <<h>>
    BY <1>4 DEF SwitchRecovery
  <2> HIDE DEF T
  <2>3. P \in Seq(AnyStep)
    BY <2>1, PerRoleSteps
  <2>4. r \in Seq(AnyStep) /\ r # <<>> /\ r[1] = StopRealtime /\ RealtimeFirst(r)
    BY <1>2, <2>1, PerRoleLeads
  <2> HIDE DEF P, h
  <2>5. SwitchRecovery = t
    BY <1>2, <2>2, <2>3
  <2> HIDE DEF r
  <2>6. RealtimeFirst(t)
    BY <1>2, <2>4, LeadsCons
  <2> QED BY <2>5, <2>6
<1> QED BY <1>3, <1>4

(* What a switch is at.                                                     *)
LEMMA SwitchHeads ==
  ASSUME LifecycleTypeOK, ScriptOK, ~Finished, cmd = "switch"
  PROVE  /\ note \in Place /\ note # None /\ mood \in {"forward", "recover", "broken"}
         /\ Now \in {"vet", "point", "unpoint", "stop", "start", "healthy"}
         /\ Now \in {"vet", "point"} => mood = "forward"
         /\ Now = "unpoint" => mood = "recover"
         /\ \A what \in {"vet", "point", "unpoint"} : Now = what <=> Head(todo) = Do(what)
         /\ Now \in {"stop", "start"} => \E r \in note.loaded : Those = {r}
         /\ Now = "stop" => Head(todo) = <<"stop", Those>>
         /\ Head(todo) = StopRealtime => Now = "stop" /\ Those = {Realtime}
         /\ Now = "healthy" => Last /\ Head(todo) = <<"healthy", note.loaded>>
         /\ Now = "healthy" => mood # "broken"
<1>1. mood \in {"forward", "recover", "broken"} /\ note # None /\ note \in Place
  BY DEF LifecycleTypeOK, ScriptOK
<1>2. Whereabouts
  BY StepsOf
<1>3. Head(todo) \in SwitchSteps
  BY <1>1, Switching
<1>4. \/ \E r \in note.loaded : Head(todo) = <<"stop", {r}>> \/ Head(todo) = <<"start", {r}>>
      \/ Head(todo) \in {Do("vet"), Do("point"), Do("unpoint"), <<"healthy", note.loaded>>}
  BY <1>3 DEF SwitchSteps, RolesOf
<1>5. Now \in {"stop", "start"} => /\ \E r \in note.loaded : Those = {r}
                                   /\ Head(todo) = <<Now, Those>>
  BY <1>4, DoAll DEF Now, Those
<1>6. /\ Now \in {"vet", "point", "unpoint", "stop", "start", "healthy"}
      /\ Now = "healthy" => Head(todo) = <<"healthy", note.loaded>>
      /\ \A what \in {"vet", "point", "unpoint"} : Now = what <=> Head(todo) = Do(what)
  BY <1>4, DoAll DEF Now
<1>7. Head(todo) = StopRealtime => Now = "stop" /\ Those = {Realtime}
  BY DEF StopRealtime, Now, Those
<1> QED BY <1>1, <1>2, <1>5, <1>6, <1>7 DEF Whereabouts

LEMMA IdleRunsNothing ==
  ASSUME ServicesTypeOK, job[Realtime] \in {"absent", "idle"} PROVE runs = None
  BY DEF ServicesTypeOK

(* What the step a switch goes on from has done.                            *)
Moves ==
  /\ UNCHANGED <<job, runs>>
  /\ Now \notin {"point", "unpoint"} => UNCHANGED <<active, previous>>
  /\ Now = "point" => active' = goal /\ previous' = active
  /\ Now = "unpoint" => active' = note.active /\ previous' = note.previous
  /\ Head(todo) = StopRealtime => job[Realtime] = "absent"

LEMMA SwitchGoesOn ==
  ASSUME LifecycleTypeOK, ScriptOK, cmd = "switch", SwitchJobs, GoesOn, note' = note, Moves
  PROVE  SwitchJobs'
<1>1. /\ ~Finished /\ ~Last /\ todo' = Tail(todo) /\ Now' = Following
      /\ UNCHANGED <<cmd, goal, note, mood, job, runs>>
  BY GoesOnNow DEF GoesOn, Last, Moves
<1>2. todo \in Seq(AnyStep) /\ todo # <<>> /\ Len(todo) # 1
  BY <1>1 DEF ScriptOK, Last
<1>3. /\ Now \in {"vet", "point", "unpoint", "stop", "start"}
      /\ Now \in {"vet", "point"} => mood = "forward"
      /\ Now = "unpoint" => mood = "recover"
      /\ \A what \in {"vet", "point", "unpoint"} : Now = what <=> Head(todo) = Do(what)
      /\ Head(todo) = StopRealtime => Now = "stop"
      /\ mood \in {"forward", "recover", "broken"}
  BY <1>1, SwitchHeads
<1>4. <<Now, Following>> \in
        {<<"vet", "point">>, <<"point", "stop">>, <<"point", "healthy">>,
         <<"unpoint", "stop">>, <<"unpoint", "healthy">>, <<"stop", "start">>,
         <<"start", "stop">>, <<"start", "healthy">>}
  BY <1>2, <1>3, Switching
<1>5. Realtime \in note.loaded /\ mood # "broken" =>
        /\ RealtimeFirst(todo')
        /\ Now \in {"point", "unpoint"} => Head(todo') = StopRealtime
  <2> HAVE Realtime \in note.loaded /\ mood # "broken"
  <2>1. RealtimeFirst(todo)
    BY DEF SwitchJobs
  <2> QED BY <1>1, <1>2, <1>3, <2>1, LeadsTail
<1>6. Realtime \notin note.loaded \/ Head(todo) = StopRealtime => runs = None
  <2>1. Realtime \notin note.loaded => job[Realtime] = "absent"
    BY DEF SwitchJobs
  <2> QED BY <2>1, IdleRunsNothing DEF Moves, LifecycleTypeOK
<1>7. CASE Now = "vet"
  <2>1. Unmoved /\ Unmoved' /\ ~MovedBack' /\ ~Moved'
    BY <1>1, <1>3, <1>4, <1>7 DEF Unmoved, MovedBack, Moved
  <2>2. UNCHANGED <<active, previous>>
    BY <1>7 DEF Moves
  <2> QED BY <1>1, <1>3, <1>5, <1>7, <2>1, <2>2 DEF SwitchJobs
<1>8. CASE Now = "point"
  <2>1. Unmoved /\ ~Unmoved' /\ ~MovedBack'
    BY <1>1, <1>3, <1>4, <1>8 DEF Unmoved, MovedBack
  <2>2. active' = goal /\ previous' = active /\ active = note.active
    BY <1>8, <2>1 DEF Moves, SwitchJobs
  <2> QED BY <1>1, <1>3, <1>5, <1>6, <1>8, <2>1, <2>2 DEF SwitchJobs
<1>9. CASE Now = "unpoint"
  <2>1. ~Unmoved' /\ ~Moved'
    BY <1>1, <1>3, <1>9 DEF Unmoved, Moved
  <2>2. active' = note.active /\ previous' = note.previous
    BY <1>9 DEF Moves
  <2> QED BY <1>1, <1>3, <1>5, <1>6, <1>9, <2>1, <2>2 DEF SwitchJobs
<1>10. CASE Now \in {"stop", "start"}
  <2>1. /\ ~Unmoved' /\ (Moved' => Moved) /\ (MovedBack' => MovedBack)
    BY <1>1, <1>4, <1>10 DEF Unmoved, Moved, MovedBack
  <2>2. UNCHANGED <<active, previous>>
    BY <1>10 DEF Moves
  <2> QED BY <1>1, <1>5, <1>6, <2>1, <2>2 DEF SwitchJobs
<1> QED BY <1>3, <1>7, <1>8, <1>9, <1>10

(* A step that failed has left the pointer alone; the pipeline runs what it *)
(* ran, and ends at most.                                                   *)
LEMMA SwitchFails ==
  ASSUME LifecycleTypeOK, ScriptOK, ~Finished, cmd = "switch", SwitchJobs, StepFails,
         cmd' = "switch", UNCHANGED <<active, previous, runs>>,
         job[Realtime] = "absent" => job'[Realtime] = "absent"
  PROVE  SwitchJobs'
<1> DEFINE rest == IF mood = "forward" THEN Recovery ELSE Salvage
<1>1. rest # <<>> /\ todo' = rest /\ UNCHANGED <<goal, note>>
      /\ mood' = IF mood = "forward" THEN "recover" ELSE "broken"
  BY DEF StepFails, Finish, Enter
<1>2. /\ note \in Place /\ mood \in {"forward", "recover", "broken"}
      /\ Now \in {"vet", "point"} => mood = "forward"
      /\ \A what \in {"vet", "point", "unpoint"} : Now = what <=> Head(todo) = Do(what)
      /\ Head(todo) = StopRealtime => Now = "stop"
  BY SwitchHeads
<1>3. Realtime \notin note.loaded => job[Realtime] = "absent"
  BY DEF SwitchJobs
<1>4. CASE mood = "forward"
  <2>1. Now # "vet" /\ todo' = SwitchRecovery /\ mood' = "recover"
    BY <1>1, <1>4 DEF Recovery, Now
  <2> HIDE DEF rest
  <2>2. /\ SwitchRecovery \in Seq(AnyStep) /\ SwitchRecovery # <<>>
        /\ Head(todo) # Do("point") => SwitchRecovery[1] = Do("unpoint")
        /\ Head(todo) = Do("point") => SwitchRecovery[1] = <<"healthy", note.loaded>>
    BY <1>2, SwitchRecoveryChain
  <2>3. Head(todo') = SwitchRecovery[1]
    BY <2>1, <2>2, SeqFacts
  <2>4. Realtime \in note.loaded => RealtimeFirst(todo')
    <3> HAVE Realtime \in note.loaded
    <3>1. RealtimeFirst(todo)
      BY <1>4 DEF SwitchJobs
    <3>2. Head(todo) = Do("point") \/ Realtime \in Touched
      BY <1>2, <1>4, <2>1, <3>1, RealtimeTouched
    <3> QED BY <1>2, <2>1, <3>2, SwitchRecoveryLeads
  <2>5. CASE Now = "point"
    <3>1. Unmoved /\ ~Unmoved' /\ ~Moved'
      BY <1>4, <2>1, <2>5 DEF Unmoved, Moved
    <3> QED BY <1>1, <1>2, <1>3, <2>1, <2>4, <2>5, <3>1 DEF SwitchJobs
  <2>6. CASE Now # "point"
    <3>1. Now' = "unpoint"
      BY <1>2, <2>2, <2>3, <2>6, DoAll DEF Now
    <3>2. ~Unmoved' /\ ~Moved' /\ ~MovedBack'
      BY <2>1, <3>1 DEF Unmoved, Moved, MovedBack
    <3> QED BY <1>1, <1>3, <2>1, <2>4, <3>2 DEF SwitchJobs
  <2> QED BY <2>5, <2>6
<1>5. CASE mood # "forward"
  <2>1. mood' = "broken"
    BY <1>1, <1>5
  <2>2. ~Unmoved' /\ ~Moved' /\ ~MovedBack'
    BY <2>1 DEF Unmoved, Moved, MovedBack
  <2> QED BY <1>1, <1>3, <2>1, <2>2 DEF SwitchJobs
<1> QED BY <1>4, <1>5

-----------------------------------------------------------------------------
(* Every step keeps that.                                                   *)

LEMMA EntersAnew == (Advance \/ StepFails => phase' = "enter")
  BY DEF Advance, StepFails, Finish, Enter

LEMMA TreatsSame ==
  ASSUME TreatsThose, todo' = todo, left' \subseteq left, phase # "enter"
  PROVE  TreatsThose'
  BY DEF TreatsThose, Those

LEMMA TreatsNext ==
  ASSUME LifecycleTypeOK, ScriptOK, TreatsThose, LifecycleNext PROVE TreatsThose'
<1>1. phase' = "enter" => TreatsThose'
  BY DEF TreatsThose
<1>2. RoleDone /\ phase # "enter" => TreatsThose'
  <2> HAVE RoleDone /\ phase # "enter"
  <2>1. CASE left = {FirstRole(left)}
    BY <1>1, <2>1, EntersAnew DEF RoleDone
  <2>2. CASE left # {FirstRole(left)}
    <3>1. todo' = todo /\ left' \subseteq left
      BY <2>2 DEF RoleDone
    <3> QED BY <3>1, TreatsSame
  <2> QED BY <2>1, <2>2
<1>3. CASE PlaceStep
  <2>1. TakeNote => phase' = "enter"
    BY DEF TakeNote, Enter
  <2> QED BY <1>1, <1>3, <2>1, EntersAnew, PlaceStepScript
<1>4. CASE BeginStep
  <2>1. \E S \in SUBSET Those : BeginRoles(S)
    <3>1. {r \in Those : Loaded(r)} \in SUBSET Those
          /\ {r \in Those : r \notin plist \/ ~Loaded(r)} \in SUBSET Those
          /\ Those \in SUBSET Those
      OBVIOUS
    <3> QED BY <1>4, <3>1 DEF BeginStep
  <2>2. PICK S \in SUBSET Those : BeginRoles(S)
    BY <2>1
  <2>3. CASE S = {}
    BY <1>1, <2>2, <2>3, EntersAnew DEF BeginRoles
  <2>4. CASE S # {}
    BY <2>2, <2>4 DEF BeginRoles, TreatsThose, Those
  <2> QED BY <2>3, <2>4
<1>5. CASE Stopped \/ Started \/ Define
  BY <1>2, <1>5 DEF Stopped, Started, Define, Awaiting, Acting
<1>6. CASE StopRole \/ StartRole
  <2>1. todo' = todo /\ left' = left /\ phase # "enter"
    BY <1>6 DEF StopRole, StartRole, Acting, AwaitRole
  <2> QED BY <2>1, TreatsSame
<1>7. CASE \/ StepErrs \/ CandidateFails \/ DoctorFinds \/ DoctorRefuses \/ HealthCheck
           \/ FinalStatus \/ StopRefused \/ StartMissing \/ StartGivesUp \/ StartRefused
  <2>1. Advance \/ StepFails
    BY <1>7 DEF StepErrs, CandidateFails, DoctorFinds, DoctorRefuses, HealthCheck,
                FinalStatus, StopRefused, StartMissing, StartGivesUp, StartRefused
  <2> QED BY <1>1, <2>1, EntersAnew
<1>8. CASE Provision
  <2>1. (ScriptSame /\ UNCHANGED <<phase, left>>) \/ phase' = "enter"
    BY <1>8, ProvisionCases DEF Finish, Enter
  <2> QED BY <1>1, <2>1 DEF TreatsThose, Those, ScriptSame
<1>9. CASE Kill \/ Command
  <2>1. phase' = "enter"
    BY <1>9, CommandQuiet DEF Kill, Finish, Issue, Enter
  <2> QED BY <1>1, <2>1
<1>10. CASE Background
  BY <1>10, BackgroundQuiet DEF scriptVars, TreatsThose, Those
<1> QED
  BY <1>3, <1>4, <1>5, <1>6, <1>7, <1>8, <1>9, <1>10, Groups DEF LookStep, JobStep

(* A switch that stays where it is: the pipeline may start from the version *)
(* the pointer names, or end.                                               *)
LEMMA SwitchStays ==
  ASSUME SwitchJobs, ScriptSame, UNCHANGED <<active, previous>>,
         Realtime \notin note.loaded /\ job[Realtime] = "absent" =>
           job'[Realtime] = "absent",
         runs' \in {runs, active, None}
  PROVE  SwitchJobs'
<1>1. UNCHANGED <<cmd, goal, note, todo, mood, Now, Unmoved, MovedBack, Moved>>
  BY DEF ScriptSame, Now, Unmoved, MovedBack, Moved
<1> QED BY <1>1 DEF SwitchJobs

LEMMA SwitchBackground ==
  ASSUME LifecycleTypeOK, SwitchJobs, Background PROVE SwitchJobs'
<1> Realtime \in Roles
  BY RolesAssumption
<1>1. ScriptSame /\ UNCHANGED <<active, previous>>
  BY BackgroundQuiet DEF ScriptSame, scriptVars, placeVars
<1>2. job \in [Roles -> {"absent", "idle", "running", "leaving"}]
  BY DEF LifecycleTypeOK, ServicesTypeOK
<1> DEFINE Quiet == /\ job[Realtime] = "absent" => job'[Realtime] = "absent"
                    /\ runs' \in {runs, active, None}
<1>3. ASSUME NEW r \in Roles, Launch(r) PROVE Quiet
  <2>1. /\ job[r] = "idle" /\ (job' = job \/ job' = [job EXCEPT ![r] = "running"])
        /\ runs' \in {runs, active}
    BY <1>3 DEF Launch, LaunchJob
  <2> QED BY <1>2, <2>1
<1>4. ASSUME NEW r \in Roles, NEW well \in BOOLEAN, TimedJobOver(r, well) PROVE Quiet
  <2>1. /\ r # Realtime /\ runs' = runs
        /\ job' = [job EXCEPT ![r] = IF job[r] = "leaving" THEN "absent" ELSE "idle"]
    BY <1>4 DEF TimedJobOver, TimedJobEnds, JobEnds
  <2> QED BY <1>2, <2>1
<1>5. ASSUME PipelineEnds PROVE Quiet
  BY <1>5 DEF PipelineEnds, RealtimeEnds, JobEnds, Running
<1>6. ASSUME \/ \E c \in Children : ChildIsReady(c) \/ \E how \in Ends : ChildEnds(c, how)
             \/ StartupTimesOut \/ \E x \in Things : Shows(x)
      PROVE  Quiet
  BY <1>6 DEF ChildIsReady, ChildEnds, StartupTimesOut, Shows, servicesVars, jobVars
<1>7. Quiet
  <2> HIDE DEF Quiet
  <2> QED BY <1>3, <1>4, <1>5, <1>6 DEF Background
<1> QED BY <1>1, <1>7, SwitchStays

LEMMA SwitchBegins ==
  ASSUME LifecycleTypeOK, ScriptOK, Command, cmd' = "switch" PROVE SwitchJobs'
<1>1. \A command, aim, script : Issue(command, aim, script) => cmd' = command
  BY DEF Issue
<1>2. PICK v \in Versions : Switch(v)
  BY <1>1 DEF Command, Setup, Configure, UpdateConfig, InitCommand, ServiceCommand, Enable,
              Freeze, Uninstall
<1> DEFINE script == SwitchScript(LoadedRoles)
<1>3. LoadedRoles \in SUBSET Roles /\ Issue("switch", v, script) /\ root = "ready"
  BY <1>2 DEF Switch, LoadedRoles
<1>4. /\ script \in Seq(AnyStep) /\ script # <<>> /\ script[1] = Do("vet")
      /\ Realtime \in LoadedRoles => RealtimeFirst(script)
  BY <1>3, SwitchScriptChain, SwitchScriptLeads
<1> HIDE DEF script
<1>5. /\ goal' = v /\ todo' = script /\ mood' = "forward" /\ note' = Found
      /\ UNCHANGED <<active, previous, job, runs>>
  BY <1>3 DEF Issue, Enter, placeVars, servicesVars, jobVars
<1>6. Head(todo') = Do("vet") /\ Now' = "vet"
  BY <1>4, <1>5, SeqFacts, DoAll DEF Now
<1>7. /\ note'.loaded = LoadedRoles /\ note'.active = active' /\ note'.previous = previous'
      /\ note'.runs = runs'
  BY <1>5 DEF Found
<1>8. Realtime \notin LoadedRoles => job[Realtime] = "absent"
  BY LoadedAre, RolesAssumption
<1>9. ~MovedBack' /\ ~Moved'
  BY <1>5, <1>6 DEF MovedBack, Moved
<1> QED BY <1>4, <1>5, <1>7, <1>8, <1>9 DEF SwitchJobs

LEMMA SwitchPlaceStep ==
  ASSUME LifecycleTypeOK, ScriptOK, cmd = "switch", SwitchJobs, PlaceStep, cmd' = "switch"
  PROVE  SwitchJobs'
<1>1. ~Finished /\ UNCHANGED <<job, runs>>
  BY PlaceStepQuiet DEF servicesVars, jobVars
<1>2. /\ Now \in {"vet", "point", "unpoint", "stop", "start", "healthy"}
      /\ Head(todo) = StopRealtime => Now = "stop"
  BY <1>1, SwitchHeads
<1>3. CASE VetPasses \/ FileStep
  <2>1. /\ Advance
        /\ Now \notin {"point", "unpoint"} => UNCHANGED <<active, previous>>
        /\ Now = "point" => active' = goal /\ previous' = active
        /\ Now = "unpoint" => active' = note.active /\ previous' = note.previous
        /\ Now # "stop"
    BY <1>3 DEF VetPasses, FileStep, At, Now, placeVars
  <2>2. GoesOn /\ note' = note
    BY <1>1, <2>1, AdvanceCases DEF Finish
  <2>3. Moves
    BY <1>1, <1>2, <2>1 DEF Moves
  <2> QED BY <2>2, <2>3, SwitchGoesOn
<1>4. CASE ~(VetPasses \/ FileStep)
  BY <1>2, <1>4 DEF PlaceStep, PlacePacks, RestorePacks, InitStep, RemoveStep, HalfDone,
                    DoctorPasses, TakeNote, At, Now
<1> QED BY <1>3, <1>4

(* A step of the services that goes on has found the job it stopped gone.   *)
LEMMA SwitchLooks ==
  ASSUME LifecycleTypeOK, ScriptOK, TreatsThose, cmd = "switch", SwitchJobs, LookStep,
         cmd' = "switch"
  PROVE  SwitchJobs'
<1>1. ~Finished /\ OnwardOrFails /\ UNCHANGED <<active, previous, job, runs>>
  BY LookStepQuiet DEF servicesVars, jobVars, placeVars
<1>2. CASE ScriptSame
  BY <1>1, <1>2, SwitchStays
<1>3. CASE StepFails
  BY <1>1, <1>3, SwitchFails
<1>4. CASE Advance /\ OnwardNow /\ ~StepFails
  <2>1. /\ Now \in {"stop", "start", "healthy"}
        /\ Head(todo) = StopRealtime => Now = "stop" /\ Those = {Realtime}
    BY <1>1, <1>4, SwitchHeads DEF OnwardNow
  <2>2. GoesOn /\ note' = note
    BY <1>1, <1>4, AdvanceCases DEF Finish
  <2>3. ASSUME Head(todo) = StopRealtime PROVE job[Realtime] = "absent"
    <3>1. Now = "stop" /\ Those = {Realtime}
      BY <2>1, <2>3
    <3>2. CASE BeginStep
      <4>1. BeginRoles({r \in Those : Loaded(r)})
        BY <3>1, <3>2 DEF BeginStep, At, Now
      <4>2. {r \in Those : Loaded(r)} = {}
        <5> DEFINE S == {r \in Those : Loaded(r)}
        <5>1. phase' = "enter" /\ BeginRoles(S)
          BY <1>4, <4>1, EntersAnew
        <5> HIDE DEF S
        <5>2. S = {}
          BY <5>1 DEF BeginRoles
        <5> QED BY <5>2 DEF S
      <4> QED BY <3>1, <4>2 DEF Loaded
    <3>3. CASE Stopped
      <4>1. phase # "enter" /\ ~Loaded(Role)
        BY <3>3 DEF Stopped, Awaiting
      <4>2. Role \in Those
        BY <1>1, <4>1, RoleIn DEF TreatsThose, ScriptOK
      <4> QED BY <3>1, <4>1, <4>2 DEF Loaded
    <3>4. CASE ~BeginStep /\ ~Stopped
      BY <1>4, <3>1, <3>4
         DEF LookStep, StepErrs, CandidateFails, DoctorFinds, DoctorRefuses, HealthCheck,
             FinalStatus, StopRefused, StartMissing, Started, Awaiting, At, Now
    <3> QED BY <3>2, <3>3, <3>4
  <2>4. Moves
    BY <1>1, <2>1, <2>3 DEF Moves
  <2> QED BY <2>2, <2>4, SwitchGoesOn
<1> QED BY <1>1, <1>2, <1>3, <1>4 DEF OnwardOrFails

LEMMA SwitchJobStep ==
  ASSUME LifecycleTypeOK, ScriptOK, TreatsThose, cmd = "switch", SwitchJobs, JobStep,
         cmd' = "switch"
  PROVE  SwitchJobs'
<1> Realtime \in Roles
  BY RolesAssumption
<1>1. ~Finished /\ phase # "enter" /\ UNCHANGED <<active, previous>>
  BY JobStepQuiet DEF placeVars
<1>2. /\ Now \in {"vet", "point", "unpoint", "stop", "start", "healthy"}
      /\ Now \in {"stop", "start"} => \E r \in note.loaded : Those = {r}
  BY <1>1, SwitchHeads
<1>3. Role \in Those /\ Role \in Roles
  BY <1>1, RoleIn DEF TreatsThose, ScriptOK
<1>4. job \in [Roles -> {"absent", "idle", "running", "leaving"}]
  BY DEF LifecycleTypeOK, ServicesTypeOK
<1>5. ASSUME NEW S, Bootout(S)
      PROVE  runs' = runs /\ (job[Realtime] = "absent" => job'[Realtime] = "absent")
  BY <1>5 DEF Bootout
<1>6. ~Define
  BY <1>2 DEF Define, Acting, At, Now
<1>7. CASE StopRole
  <2>1. Bootout({Role}) /\ ScriptSame
    BY <1>7 DEF StopRole, AwaitRole, ScriptSame
  <2> QED BY <1>1, <1>5, <2>1, SwitchStays
<1>8. CASE StartRole
  <2>1. Bootstrap(Role, active) /\ ScriptSame /\ Now = "start"
    BY <1>8 DEF StartRole, AwaitRole, ScriptSame, Acting, At, Now
  <2>2. Role \in note.loaded
    BY <1>2, <1>3, <2>1
  <2>3. Realtime \notin note.loaded /\ job[Realtime] = "absent" => job'[Realtime] = "absent"
    BY <1>3, <1>4, <2>1, <2>2 DEF Bootstrap
  <2>4. runs' \in {runs, active}
    BY <2>1 DEF Bootstrap
  <2> QED BY <1>1, <2>1, <2>3, <2>4, SwitchStays
<1>9. CASE StartGivesUp \/ StartRefused
  <2>1. Bootout(begun) /\ StepFails
    BY <1>9 DEF StartGivesUp, StartRefused
  <2> QED BY <1>1, <1>5, <2>1, SwitchFails
<1> QED BY <1>6, <1>7, <1>8, <1>9 DEF JobStep

LEMMA SwitchNext ==
  ASSUME LInv, SwitchOK, LifecycleNext PROVE SwitchOK'
<1>1. LifecycleTypeOK /\ ScriptOK /\ TreatsThose
  BY DEF LInv, SwitchOK
<1>2. TreatsThose'
  BY <1>1, TreatsNext
<1>3. SUFFICES ASSUME cmd' = "switch" PROVE SwitchJobs'
  BY <1>2 DEF SwitchOK
<1>4. CASE Command
  BY <1>1, <1>3, <1>4, SwitchBegins
<1>5. ~Kill
  BY <1>3 DEF Kill, Finish
<1>6. ~Provision
  BY <1>1, <1>3, ProvisionCases DEF ScriptSame, GoesOn, Finish
<1>7. CASE PlaceStep \/ LookStep \/ JobStep \/ Background
  <2>1. cmd = "switch"
    <3>1. CASE Background
      BY <1>3, <3>1, BackgroundQuiet DEF scriptVars
    <3>2. CASE PlaceStep
      BY <1>3, <3>2, PlaceStepScript DEF TakeNote, StepFails, Advance, Finish
    <3>3. CASE LookStep \/ JobStep
      BY <1>3, <3>3, LookStepQuiet, JobStepQuiet
         DEF OnwardOrFails, ScriptSame, StepFails, Advance, Finish
    <3> QED BY <1>7, <3>1, <3>2, <3>3
  <2>2. SwitchJobs
    BY <2>1 DEF SwitchOK
  <2> QED BY <1>1, <1>3, <1>7, <2>1, <2>2, SwitchPlaceStep, SwitchLooks, SwitchJobStep,
             SwitchBackground
<1> QED BY <1>4, <1>5, <1>6, <1>7, Groups

LEMMA SwitchSame == SwitchOK /\ UNCHANGED lifecycleVars => SwitchOK'
<1> SUFFICES ASSUME SwitchOK, UNCHANGED lifecycleVars PROVE SwitchOK'
  OBVIOUS
<1>1. /\ UNCHANGED <<cmd, goal, note, todo, phase, left, mood, active, previous, job, runs>>
      /\ UNCHANGED <<Now, Those>>
  BY DEF lifecycleVars, placeVars, scriptVars, servicesVars, jobVars, Now, Those
<1>2. TreatsThose'
  BY <1>1 DEF SwitchOK, TreatsThose
<1>3. cmd = "switch" /\ SwitchJobs => SwitchJobs'
  BY <1>1, SwitchStays DEF ScriptSame, lifecycleVars, scriptVars
<1> QED BY <1>1, <1>2, <1>3 DEF SwitchOK

LEMMA SwitchInv == SoundSpec => [](LInv /\ SwitchOK)
<1>1. SoundPlace /\ ProvisioningInit /\ cmd = "none" => SwitchOK
  <2>1. SoundPlace => todo = <<>>
    BY DEF SoundPlace, LifecycleTypeOK, Finished
  <2> QED BY <2>1 DEF SwitchOK, TreatsThose
<1>2. LInv /\ SwitchOK /\ [LifecycleNext]_lifecycleVars => SwitchOK'
  BY SwitchNext, SwitchSame
<1> QED BY <1>1, <1>2, SoundBegins, LInvStep, PTL DEF SoundSpec, AtRestSpec

-----------------------------------------------------------------------------
(* How a switch ends.                                                       *)

LEMMA LooksLast ==
  ASSUME ServicesTypeOK, PlaceStep \/ LookStep \/ JobStep, ~StepFails, ~ScriptSame,
         Now = "healthy"
  PROVE  /\ \A r \in Those : Healthy(r)'
         /\ Realtime \in Those => Up
         /\ UNCHANGED <<active, previous, runs>>
<1>1. ~PlaceStep
  BY PlaceStepScript
<1>2. ~JobStep
  BY DEF JobStep, Define, StopRole, StartRole, StartGivesUp, StartRefused, Acting, Awaiting,
         At, Now
<1>3. HealthCheck
  BY <1>1, <1>2
     DEF LookStep, StepErrs, CandidateFails, DoctorFinds, DoctorRefuses, FinalStatus,
         BeginStep, StopRefused, Stopped, StartMissing, Started, Acting, Awaiting, At, Now
<1>4. \A r \in Those : Healthy(r)
  BY <1>3 DEF HealthCheck
<1>5. UNCHANGED <<active, previous, plist, job, lastOk, runs>>
  BY <1>3 DEF HealthCheck, placeVars, servicesVars, jobVars
<1>6. \A r : Healthy(r)' <=> Healthy(r)
  BY <1>5 DEF Healthy, Loaded, Running
<1>7. Realtime \in Those => Up
  BY <1>4 DEF Healthy, Running, ServicesTypeOK
<1> QED BY <1>4, <1>5, <1>6, <1>7

LEMMA SwitchEnds ==
  ASSUME LInv, SwitchOK, LifecycleNext, cmd = "switch", outcome' \in {"done", "failed"}
  PROVE  /\ active' = IF outcome' = "done" THEN goal ELSE note.active
         /\ previous' = IF outcome' = "done" THEN note.active ELSE note.previous
         /\ outcome' = "done" \/ mood = "recover" =>
              \A r \in note.loaded : Healthy(r)'
         /\ Realtime \in note.loaded /\ outcome' = "done" => runs' = goal
         /\ outcome' = "failed" => runs' \in {None, note.active, note.runs}
<1>1. LifecycleTypeOK /\ ScriptOK /\ SwitchJobs
  BY DEF LInv, SwitchOK
<1>2. ~Finished /\ outcome = "none" /\ ~ScriptSame
  BY <1>1 DEF ScriptOK, Finished, ScriptSame
<1>3. /\ \/ Advance /\ Last /\ mood \in {"forward", "recover"}
         \/ StepFails /\ mood = "forward" /\ Recovery = <<>>
      /\ PlaceStep \/ LookStep \/ JobStep
  <2>1. mood \in {"forward", "recover", "broken"} /\ ~Provision
    BY <1>1, ProvisionCases DEF LifecycleTypeOK
  <2> QED BY <1>2, <2>1, HowItEnds
<1>4. Advance /\ Last => outcome' = Result
  BY <1>1, <1>2, AdvanceCases DEF GoesOn, Finish
<1>5. StepFails => mood = "forward" /\ outcome' = "failed"
  BY <1>2 DEF StepFails, Finish
<1>6. /\ Now \in {"vet", "point", "unpoint", "stop", "start", "healthy"}
      /\ Now = "unpoint" => mood = "recover"
      /\ Now \in {"stop", "start"} => note.loaded # {}
      /\ Head(todo) = StopRealtime => Now = "stop"
      /\ Now = "healthy" => Last /\ Those = note.loaded
      /\ Now = "point" <=> Head(todo) = Do("point")
  BY <1>1, <1>2, SwitchHeads DEF Those
<1>7. Last => Now = IF mood = "forward" /\ note.loaded = {} THEN "point" ELSE
                    IF mood \in {"forward", "recover"} THEN "healthy" ELSE Now
  BY <1>1, Switching, DoAll DEF Last, Now
<1>8. Now = "healthy" /\ ~StepFails =>
        /\ \A r \in note.loaded : Healthy(r)'
        /\ Realtime \in note.loaded => runs # None
        /\ UNCHANGED <<active, previous, runs>>
  BY <1>1, <1>2, <1>3, <1>6, LooksLast DEF LifecycleTypeOK, ServicesTypeOK
<1>9. CASE Advance /\ Last /\ mood = "forward" /\ note.loaded = {}
  <2>1. outcome' = "done" /\ Now = "point" /\ ~StepFails
    BY <1>4, <1>5, <1>7, <1>9 DEF Result
  <2>2. PlaceStep
    BY <1>2, <1>3, <2>1, LookStepQuiet, JobStepQuiet DEF OnwardOrFails, OnwardNow
  <2>3. FileStep
    BY <2>1, <2>2 DEF PlaceStep, PlacePacks, RestorePacks, InitStep, RemoveStep, HalfDone,
                      DoctorPasses, VetPasses, TakeNote, At, Now
  <2>4. active' = goal /\ previous' = active
    BY <2>1, <2>3 DEF FileStep, At, Now
  <2>5. active = note.active
    BY <1>1, <1>9, <2>1 DEF SwitchJobs, Unmoved
  <2> QED BY <1>9, <2>1, <2>4, <2>5
<1>10. CASE Advance /\ Last /\ mood = "forward" /\ note.loaded # {}
  <2>1. outcome' = "done" /\ Now = "healthy" /\ ~StepFails
    BY <1>4, <1>5, <1>7, <1>10 DEF Result
  <2>2. active = goal /\ previous = note.active /\ runs \in {None, goal}
    BY <1>1, <1>6, <1>10, <2>1 DEF SwitchJobs, Moved
  <2> QED BY <1>8, <2>1, <2>2
<1>11. CASE Advance /\ Last /\ mood = "recover"
  <2>1. outcome' = "failed" /\ Now = "healthy" /\ ~StepFails
    BY <1>4, <1>5, <1>7, <1>11 DEF Result
  <2>2. /\ active = note.active /\ previous = note.previous
        /\ runs \in {None, note.active, note.runs}
    BY <1>1, <1>6, <1>11, <2>1 DEF SwitchJobs, MovedBack
  <2> QED BY <1>8, <2>1, <2>2
<1>12. CASE StepFails /\ mood = "forward" /\ Recovery = <<>>
  <2>1. outcome' = "failed"
    BY <1>5, <1>12
  <2>2. Now \in {"vet", "point"}
    <3>1. CASE Now # "vet" /\ note.loaded # {}
      <4>1. Recovery = SwitchRecovery
        BY <3>1 DEF Recovery, Now
      <4>2. SwitchRecovery # <<>>
        BY <1>1, <1>2, SwitchHeads, SwitchRecoveryChain
      <4> QED BY <1>12, <4>1, <4>2
    <3>2. CASE note.loaded = {}
      <4>1. Now # "healthy"
        BY <1>6, <1>7, <1>12, <3>2
      <4> QED BY <1>6, <1>12, <3>2, <4>1
    <3> QED BY <3>1, <3>2
  <2>3. Unmoved /\ Head(todo) # StopRealtime
    BY <1>6, <1>12, <2>2 DEF Unmoved
  <2>4. /\ active = note.active /\ previous = note.previous
        /\ runs \in {None, note.active, note.runs}
    BY <1>1, <2>3 DEF SwitchJobs
  <2>5. ~Advance
    BY <1>1, <1>2, <1>12, <2>1, AdvanceCases DEF GoesOn, Finish, Result
  <2>6. ~PlaceStep
    BY <2>2, <2>5 DEF PlaceStep, FileStep, PlacePacks, RestorePacks, InitStep, RemoveStep,
                      HalfDone, DoctorPasses, VetPasses, TakeNote, At, Now
  <2>7. ~JobStep
    BY <2>2 DEF JobStep, Define, StopRole, StartRole, StartGivesUp, StartRefused, Acting,
                Awaiting, At, Now
  <2>8. UNCHANGED <<active, previous, runs>>
    BY <1>3, <2>6, <2>7, LookStepQuiet DEF placeVars, servicesVars, jobVars
  <2> QED BY <1>12, <2>1, <2>4, <2>8
<1> QED BY <1>3, <1>9, <1>10, <1>11, <1>12

(* A version switch that succeeds leaves every job that was loaded healthy  *)
(* and the pipeline on the new version; one that fails and recovers leaves  *)
(* the old pointer and the pipeline on it, or on what it ran before, for    *)
(* any versions and roles, and wherever it failed (activateVersion).  The   *)
(* pipeline's role has to be the first of SERVICE_ROLES.                    *)
THEOREM SwitchLeavesOneVersion == SoundSpec => SwitchRestores
<1> DEFINE Switched ==
      cmd = "switch" /\ outcome' \in {"done", "failed"} =>
        /\ active' = IF outcome' = "done" THEN goal ELSE note.active
        /\ previous' = IF outcome' = "done" THEN note.active ELSE note.previous
        /\ outcome' = "done" \/ mood = "recover" =>
             \A r \in note.loaded : Healthy(r)'
        /\ Realtime \in note.loaded /\ outcome' = "done" => runs' = goal
        /\ outcome' = "failed" => runs' \in {None, note.active, note.runs}
<1>1. LInv /\ SwitchOK /\ [LifecycleNext]_lifecycleVars => [Switched]_lifecycleVars
  BY SwitchEnds
<1> QED BY <1>1, SwitchInv, PTL DEF SoundSpec, AtRestSpec, SwitchRestores

=============================================================================
