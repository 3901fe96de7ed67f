------------------------- MODULE CapabilitiesProofs -------------------------
(***************************************************************************)
(* Proofs about Capabilities, for any number of processes, messages and    *)
(* actions, any pack, any server, and any edits of the console.            *)
(*                                                                         *)
(* What one message does is settled by the record of its job (JobsInv);    *)
(* which tools are called, by the adapters that the process has (ToolInv); *)
(* that an action is submitted once, by its confirmation's row, which is   *)
(* accepted once (OnceInv); that an approval finds its action, by the two  *)
(* times they last (FindsInv); the remaining types, by the place of each   *)
(* process in the handling of its message (PlacesInv).                     *)
(***************************************************************************)
EXTENDS Capabilities, FiniteSetTheorems, TLAPS

LEMMA PairCount ==
  ASSUME NEW a, NEW b PROVE Cardinality({a, b}) # 3
<1>1. IsFiniteSet({a}) /\ Cardinality({a}) = 1
  BY FS_Singleton
<1>2. Cardinality({a} \cup {b}) = IF b \in {a} THEN Cardinality({a}) ELSE Cardinality({a}) + 1
  BY <1>1, FS_AddElement
<1>3. {a, b} = {a} \cup {b}
  OBVIOUS
<1>4. Cardinality({a, b}) = Cardinality({a} \cup {b})
  BY <1>3
<1> QED BY <1>1, <1>2, <1>4

LEMMA Distinct == Order # Web /\ Docs # Web
<1>1. Cardinality({Docs, Order, Web}) = 3
  BY CapabilityAssumption
<1>2. ASSUME Order = Web \/ Docs = Web PROVE FALSE
  <2>1. {Docs, Order, Web} = {Docs, Order}
    BY <1>2
  <2>2. Cardinality({Docs, Order}) = 3
    BY <1>1, <2>1
  <2> QED BY <2>2, PairCount
<1> QED BY <1>2

-----------------------------------------------------------------------------
(* The job of a process, by itself.                                         *)

Zones == {"public", "internal"}

Jobs ==
  [stage : Stages, on : BOOLEAN, caps : SUBSET Ceiling, draft : BOOLEAN, informed : BOOLEAN,
   carries : BOOLEAN, looked : {"none", "complete", "incomplete"},
   zone : Zones \cup {"none"}, rounds : Nat, id : Nat, done : BOOLEAN, barred : BOOLEAN,
   failed : BOOLEAN, zones : SUBSET Zones]

Sane(j) ==
  /\ j.done => j.stage \in {"telling", "finishing"}
  /\ j.barred => ~j.on \/ Order \notin j.caps
  /\ j.stage \notin {"down", "idle", "claimed"} => j.on
  /\ j.stage \in {"preparing", "submitting"} => Order \in j.caps
  /\ \A z \in j.zones : z = j.zone
  /\ j.failed => j.looked = "incomplete"
  /\ j.stage \in {"preparing", "performing", "looking"} => ~j.failed
  /\ j.stage = "deciding" /\ j.looked = "none" => ~j.informed
  /\ j.stage \in {"performing", "looking"} => ~j.informed

(* What settled says: no process has a snapshot that allows the action.     *)
SettledInv ==
  settled =>
    /\ Forbids(console)
    /\ \A p \in fresh : ~cache[p].on \/ Order \notin cache[p].caps

RepliesOK == reply \in [Messages -> (Ids \X BOOLEAN) \cup {None}]
HandlesOK ==
  /\ handles \in [Workers -> Events \cup {NoEvent}]
  /\ \A p \in Workers : job[p].stage \notin {"down", "idle"} =>
       handles[p] \in Asks \/ reply[handles[p]] \in Ids \X BOOLEAN

JobsInv ==
  /\ ConsoleTypeOK
  /\ settled \in BOOLEAN /\ frozen \in BOOLEAN /\ SettledInv
  /\ RepliesOK /\ HandlesOK
  /\ job \in [Workers -> Jobs]
  /\ \A p \in Workers : Sane(job[p])

LEMMA LoadTyped ==
  ASSUME NEW c \in Consoles, Loads(c) PROVE Load(c) \in Snapshots
  BY ConsoleAssumption DEF Loads, Load, CapsAcceptable, Allowed, Snapshots

LEMMA RefreshedTyped ==
  ASSUME ConsoleTypeOK, NEW p \in Workers, CanRefresh(p)
  PROVE  Refreshed(p) \in Snapshots
  BY LoadTyped, CapabilityAssumption DEF ConsoleTypeOK, CanRefresh, Refreshed, Stale

LEMMA FreshSane == Fresh \in Jobs /\ Sane(Fresh)
  BY DEF Fresh, Jobs, Sane, Stages, Zones

LEMMA DownSane ==
  LET j == [Fresh EXCEPT !.stage = "down"] IN j \in Jobs /\ Sane(j)
  BY DEF Fresh, Jobs, Sane, Stages, Zones

(* A step that moves the job of p, and leaves what the others rest on.      *)
LEMMA OneJob ==
  ASSUME JobsInv, NEW p \in Workers, NEW j, Go(p, j), j \in Jobs, Sane(j),
         j.stage \notin {"down", "idle"} => ~In(p, "down") /\ ~In(p, "idle"),
         UNCHANGED <<consoleVars, settled, frozen, reply, handles>>
  PROVE  JobsInv'
<1>1. \A q \in Workers : job'[q] = IF q = p THEN j ELSE job[q]
  BY DEF Go, JobsInv
<1>2. job' \in [Workers -> Jobs] /\ \A q \in Workers : Sane(job'[q])
  BY <1>1 DEF JobsInv, Go
<1>3. HandlesOK'
  BY <1>1 DEF JobsInv, HandlesOK, In
<1>4. (ConsoleTypeOK /\ settled \in BOOLEAN /\ frozen \in BOOLEAN /\ SettledInv /\ RepliesOK)'
  BY DEF JobsInv, ConsoleTypeOK, SettledInv, RepliesOK, consoleVars
<1> QED BY <1>2, <1>3, <1>4 DEF JobsInv

LEMMA OneJobStays ==
  ASSUME JobsInv, UNCHANGED <<consoleVars, settled, frozen, reply, handles, job>>
  PROVE  JobsInv'
  BY DEF JobsInv, ConsoleTypeOK, SettledInv, RepliesOK, HandlesOK, consoleVars

(* A process leaves its message, if it has one.                             *)
LEMMA OneJobLeaves ==
  ASSUME JobsInv, NEW p \in Workers, NEW j, Go(p, j), j \in Jobs, Sane(j),
         j.stage \in {"down", "idle"}, Leave(p) \/ UNCHANGED handles,
         Forget(p) \/ UNCHANGED consoleVars, UNCHANGED <<settled, frozen, reply>>
  PROVE  JobsInv'
<1>1. \A q \in Workers : job'[q] = IF q = p THEN j ELSE job[q]
  BY DEF Go, JobsInv
<1>2. job' \in [Workers -> Jobs] /\ \A q \in Workers : Sane(job'[q])
  BY <1>1 DEF JobsInv, Go
<1>3. handles' \in [Workers -> Events \cup {NoEvent}] /\ \A q \in Workers \ {p} : handles'[q] = handles[q]
  BY DEF Leave, JobsInv, HandlesOK
<1>4. HandlesOK'
  BY <1>1, <1>3 DEF HandlesOK, JobsInv
<1>5. ConsoleTypeOK' /\ SettledInv'
  <2>1. CASE Forget(p)
    <3>1. Nothing \in Snapshots
      BY DEF Nothing, Snapshots
    <3>2. cache' \in [Readers -> Snapshots] /\ fresh' = fresh \ {p} /\ console' = console
      BY <2>1, <3>1, CapabilityAssumption DEF Forget, JobsInv, ConsoleTypeOK
    <3>3. \A q \in fresh' : cache'[q] = cache[q]
      BY <2>1, CapabilityAssumption DEF Forget, JobsInv, ConsoleTypeOK
    <3> QED BY <3>2, <3>3 DEF JobsInv, ConsoleTypeOK, SettledInv, Forbids
  <2>2. CASE UNCHANGED consoleVars
    BY <2>2 DEF JobsInv, ConsoleTypeOK, SettledInv, consoleVars
  <2> QED BY <2>1, <2>2
<1> QED BY <1>2, <1>4, <1>5 DEF JobsInv, RepliesOK

LEMMA ClosesJob ==
  ASSUME JobsInv, NEW p \in Workers, Closes(p),
         UNCHANGED <<consoleVars, settled, frozen, reply>>
  PROVE  JobsInv'
<1>1. Fresh.stage = "idle" /\ Leave(p)
  BY DEF Fresh, Closes, Complete
<1> QED BY <1>1, FreshSane, OneJobLeaves DEF Closes

LEMMA EndsJob ==
  ASSUME JobsInv, NEW p \in Workers, Ends(p), Leave(p) \/ UNCHANGED handles
  PROVE  JobsInv'
<1> DEFINE j == [Fresh EXCEPT !.stage = "down"]
<1>1. j.stage = "down"
  BY DEF Fresh
<1>2. j \in Jobs /\ Sane(j) /\ Go(p, j) /\ Forget(p) /\ UNCHANGED <<settled, frozen, reply>>
  BY DownSane DEF Ends, worldVars, principalVars
<1> HIDE DEF j
<1> QED BY <1>1, <1>2, OneJobLeaves

LEMMA EndSteps ==
  ASSUME JobsInv, NEW p \in Workers,
         Crash(p) \/ Throws(p) \/ CannotRefresh(p)
  PROVE  JobsInv'
<1>1. Ends(p) /\ (Leave(p) \/ UNCHANGED handles)
  BY DEF Crash, Throws, CannotRefresh, Abandon, Release, claimVars
<1> QED BY <1>1, EndsJob

LEMMA CloseSteps ==
  ASSUME JobsInv, NEW p \in Workers,
         Disabled(p) \/ Replied(p) \/ NoReply(p) \/ AnswerCloses(p)
  PROVE  JobsInv'
<1>1. Closes(p) /\ UNCHANGED <<consoleVars, settled, frozen, reply>>
  BY DEF Disabled, Replied, NoReply, AnswerCloses, worldVars, principalVars, ghostVars
<1> QED BY <1>1, ClosesJob

LEMMA StartStep ==
  ASSUME JobsInv, NEW p \in Workers, Start(p) PROVE JobsInv'
<1> DEFINE j == [job[p] EXCEPT !.stage = "idle"]
<1>1. job[p] \in Jobs /\ Sane(job[p]) /\ job[p].stage = "down"
  BY DEF JobsInv, Start, In
<1>2. j \in Jobs /\ Sane(j) /\ j.stage = "idle"
  BY <1>1 DEF Jobs, Sane, Stages
<1>3. Go(p, j)
  BY DEF Start, To
<1> HIDE DEF j
<1>4. \A q \in Workers : job'[q] = IF q = p THEN j ELSE job[q]
  BY <1>3 DEF Go, JobsInv
<1>5. job' \in [Workers -> Jobs] /\ \A q \in Workers : Sane(job'[q])
  BY <1>2, <1>3, <1>4 DEF JobsInv, Go
<1>6. HandlesOK' /\ RepliesOK'
  BY <1>2, <1>4 DEF JobsInv, HandlesOK, RepliesOK, Start, claimVars, principalVars
<1>7. ConsoleTypeOK' /\ SettledInv' /\ settled' \in BOOLEAN /\ frozen' \in BOOLEAN
  <2>1. Loads(console) /\ Keep(p, Load(console)) /\ UNCHANGED <<settled, frozen>>
    BY DEF Start, ghostVars, worldVars
  <2>2. Load(console) \in Snapshots
    BY <2>1, LoadTyped DEF JobsInv, ConsoleTypeOK
  <2>3. /\ \A q \in Workers : cache'[q] = IF q = p THEN Load(console) ELSE cache[q]
        /\ cache' \in [Readers -> Snapshots] /\ fresh' = fresh \cup {p} /\ console' = console
    BY <2>1, <2>2, CapabilityAssumption DEF Keep, JobsInv, ConsoleTypeOK
  <2>4. Forbids(console) => ~Load(console).on \/ Order \notin Load(console).caps
    BY <2>1 DEF Forbids, Load
  <2> QED BY <2>1, <2>3, <2>4, CapabilityAssumption DEF JobsInv, ConsoleTypeOK, SettledInv, Forbids
<1> QED BY <1>5, <1>6, <1>7 DEF JobsInv

LEMMA ReceiveStep ==
  ASSUME JobsInv, NEW p \in Workers, NEW m \in Messages, Receive(p, m) PROVE JobsInv'
<1> DEFINE snapshot == Refreshed(p)
           j == [Fresh EXCEPT !.stage = "claimed", !.on = snapshot.on,
                              !.caps = snapshot.caps, !.barred = settled]
<1>1. snapshot \in Snapshots
  BY RefreshedTyped DEF JobsInv, Receive
<1>2. settled => ~snapshot.on \/ Order \notin snapshot.caps
  BY DEF JobsInv, SettledInv, Refreshed, Stale, Receive, CanRefresh, Forbids, Load
<1>3. Go(p, j) /\ Keep(p, snapshot) /\ Take(p, m) /\ UNCHANGED <<settled, frozen, reply>>
  BY DEF Receive, worldVars, principalVars, ghostVars
<1>4. m \in Asks \/ reply[m] # None
  BY DEF Receive
<1> HIDE DEF snapshot
<1>5. j \in Jobs /\ Sane(j) /\ j.stage = "claimed"
  BY <1>1, <1>2 DEF Fresh, Jobs, Sane, Stages, Zones, Snapshots, JobsInv
<1> HIDE DEF j
<1>6. \A q \in Workers : job'[q] = IF q = p THEN j ELSE job[q]
  BY <1>3 DEF Go, JobsInv
<1>7. job' \in [Workers -> Jobs] /\ \A q \in Workers : Sane(job'[q])
  BY <1>5, <1>3, <1>6 DEF JobsInv, Go
<1>8. HandlesOK' /\ RepliesOK'
  <2>1. /\ \A q \in Workers : handles'[q] = IF q = p THEN m ELSE handles[q]
        /\ handles' \in [Workers -> Events \cup {NoEvent}]
    BY <1>3 DEF Take, JobsInv, HandlesOK, Events
  <2>2. m \in Asks \/ reply[m] \in Ids \X BOOLEAN
    BY <1>4 DEF JobsInv, RepliesOK
  <2> QED BY <1>3, <1>6, <2>1, <2>2 DEF JobsInv, HandlesOK, RepliesOK
<1>9. ConsoleTypeOK' /\ SettledInv'
  <2>1. /\ \A q \in Workers : cache'[q] = IF q = p THEN snapshot ELSE cache[q]
        /\ cache' \in [Readers -> Snapshots] /\ fresh' = fresh \cup {p} /\ console' = console
    BY <1>1, <1>3, CapabilityAssumption DEF Keep, JobsInv, ConsoleTypeOK
  <2> QED BY <1>2, <1>3, <2>1, CapabilityAssumption
          DEF JobsInv, ConsoleTypeOK, SettledInv, Forbids
<1> QED BY <1>3, <1>7, <1>8, <1>9 DEF JobsInv


(* A step within a message: the job goes from one stage of the handling to  *)
(* another.                                                                 *)
Within(p, j) ==
  /\ Go(p, j) /\ j \in Jobs /\ Sane(j)
  /\ ~In(p, "down") /\ ~In(p, "idle")
  /\ UNCHANGED <<consoleVars, settled, frozen, reply, handles>>

LEMMA WithinKeeps ==
  ASSUME JobsInv, NEW p \in Workers, NEW j, Within(p, j) PROVE JobsInv'
  BY OneJob DEF Within

LEMMA LoopSteps ==
  ASSUME JobsInv, NEW p \in Workers,
         \/ AskModel(p) \/ RequestCommands(p) \/ Performed(p) \/ RequestAction(p) \/ Finish(p)
         \/ \E c \in {Docs, Web}, carries \in BOOLEAN : RequestLookup(p, c, carries)
  PROVE  JobsInv'
<1>1. job[p] \in Jobs /\ Sane(job[p]) /\ frozen \in BOOLEAN
  BY DEF JobsInv
<1>0. job[p].rounds + 1 \in Nat
  BY <1>1 DEF Jobs
<1>2. ASSUME NEW j, Local(p, j), j \in Jobs, Sane(j), ~In(p, "down") /\ ~In(p, "idle")
      PROVE  JobsInv'
  <2>1. UNCHANGED <<consoleVars, settled, frozen, reply, handles>>
    BY <1>2 DEF Local, worldVars, principalVars, ghostVars, claimVars
  <2> QED BY <1>2, <2>1, WithinKeeps DEF Within, Local
<1>3. CASE AskModel(p)
  <2> DEFINE j == [job[p] EXCEPT !.stage = "deciding", !.draft = frozen,
                                 !.informed = job[p].looked # "none"]
  <2>1. j \in Jobs /\ Sane(j)
    BY <1>1, <1>3, ZenonT(30) DEF AskModel, In, Jobs, Sane, Stages
  <2> QED BY <1>2, <1>3, <2>1 DEF AskModel, In
<1>4. CASE RequestCommands(p)
  <2> DEFINE j == [job[p] EXCEPT !.stage = "performing", !.rounds = @ + 1]
  <2>1. j \in Jobs /\ Sane(j)
    BY <1>0, <1>1, <1>4 DEF RequestCommands, MayPerform, In, Jobs, Sane, Stages
  <2> QED BY <1>2, <1>4, <2>1 DEF RequestCommands, In
<1>5. CASE Performed(p)
  <2> DEFINE j == [job[p] EXCEPT !.stage = "claimed", !.carries = FALSE]
  <2>1. j \in Jobs /\ Sane(j)
    BY <1>1, <1>5 DEF Performed, In, Jobs, Sane, Stages
  <2> QED BY <1>2, <1>5, <2>1 DEF Performed, In
<1>6. CASE Finish(p)
  <2> DEFINE j == [job[p] EXCEPT !.stage = "closing"]
  <2>1. j \in Jobs /\ Sane(j)
    BY <1>1, <1>6 DEF Finish, In, Jobs, Sane, Stages
  <2> QED BY <1>2, <1>6, <2>1 DEF Finish, In
<1>7. ASSUME NEW c, In(p, "deciding")
      PROVE  LET r == Requests(p, c) IN
             /\ r \in Jobs /\ r.stage = "deciding" /\ ~r.done
             /\ r.zone = IF job[p].zone = "none" THEN Zone(c) ELSE job[p].zone
             /\ \A f \in {"on", "caps", "draft", "informed", "looked", "barred", "failed", "zones"} :
                  r[f] = job[p][f]
             /\ Denied(r) \in Jobs /\ Sane(Denied(r))
  <2> DEFINE r == Requests(p, c)
  <2>1. r \in Jobs /\ r.stage = "deciding" /\ ~r.done
    BY <1>0, <1>1, <1>7 DEF Requests, Zone, Zones, Jobs, In, Sane
  <2>2. r.zone = IF job[p].zone = "none" THEN Zone(c) ELSE job[p].zone
    BY <1>1 DEF Requests, Jobs
  <2>3. /\ r.on = job[p].on /\ r.caps = job[p].caps /\ r.draft = job[p].draft
        /\ r.informed = job[p].informed /\ r.looked = job[p].looked
        /\ r.barred = job[p].barred /\ r.failed = job[p].failed /\ r.zones = job[p].zones
    BY <1>1 DEF Requests, Jobs
  <2>4. \A z \in r.zones : z = r.zone
    BY <1>1, <2>2, <2>3 DEF Sane, Jobs, Zones
  <2> HIDE DEF r
  <2>5. Denied(r) \in Jobs /\ Sane(Denied(r))
    BY <1>1, <2>1, <2>3, <2>4, ZenonT(30) DEF Denied, Jobs, Sane, Stages
  <2> QED BY <2>1, <2>2, <2>3, <2>5 DEF r
<1>8. CASE RequestAction(p)
  <2> DEFINE r == Requests(p, Order)
             j == [r EXCEPT !.stage = "preparing", !.zones = @ \cup {"internal"}]
  <2>1. In(p, "deciding") /\ job[p].looked # "incomplete"
    BY <1>8 DEF RequestAction, MayRequest
  <2>2. CASE SameZone(p, Order) /\ Available(p, Order)
    <3>1. Local(p, j)
      BY <1>8, <2>2 DEF RequestAction
    <3>2. r \in Jobs /\ ~r.done /\ r.zone = "internal" /\ Order \in r.caps /\ r.on
      BY <1>1, <1>7, <2>1, <2>2, Distinct DEF SameZone, Available, Zone, Sane, In
    <3>3. r.barred = job[p].barred /\ r.failed = job[p].failed /\ r.zones = job[p].zones
      BY <1>7, <2>1
    <3>4. ~r.barred /\ ~r.failed /\ r.zones \subseteq {"internal"}
      BY <1>1, <2>1, <2>2, <3>3, Distinct DEF Sane, SameZone, Available, Zone, In, Jobs, Zones
    <3> HIDE DEF r
    <3>5. j \in Jobs /\ Sane(j)
      BY <3>2, <3>4 DEF Jobs, Sane, Stages, Zones
    <3> QED BY <1>2, <2>1, <3>1, <3>5 DEF In
  <2>3. CASE ~(SameZone(p, Order) /\ Available(p, Order))
    BY <1>2, <1>7, <1>8, <2>1, <2>3 DEF RequestAction, In
  <2> QED BY <2>2, <2>3
<1>9. ASSUME NEW c \in {Docs, Web}, NEW carries \in BOOLEAN, RequestLookup(p, c, carries)
      PROVE  JobsInv'
  <2> DEFINE r == Requests(p, c)
             j == [r EXCEPT !.stage = "looking", !.carries = carries,
                            !.zones = @ \cup {Zone(c)}]
  <2>1. In(p, "deciding") /\ job[p].looked = "none"
    BY <1>9 DEF RequestLookup
  <2>2. CASE SameZone(p, c) /\ Available(p, c)
    <3>1. Local(p, j)
      BY <1>9, <2>2 DEF RequestLookup
    <3>2. r \in Jobs /\ ~r.done /\ r.zone = Zone(c)
      BY <1>7, <2>1, <2>2 DEF SameZone
    <3>3. /\ r.on = job[p].on /\ r.caps = job[p].caps /\ r.informed = job[p].informed
          /\ r.looked = "none"
          /\ r.barred = job[p].barred /\ r.failed = job[p].failed /\ r.zones = job[p].zones
      BY <1>7, <2>1
    <3>4. /\ r.on /\ (r.barred => ~r.on \/ Order \notin r.caps)
          /\ ~r.failed /\ ~r.informed /\ r.zones \subseteq {Zone(c)}
      BY <1>1, <2>1, <2>2, <3>3 DEF Sane, SameZone, In, Jobs, Zones
    <3>5. Zone(c) \in Zones
      BY DEF Zone, Zones
    <3> HIDE DEF r
    <3>6. j \in Jobs /\ Sane(j)
      BY <3>2, <3>3, <3>4, <3>5 DEF Jobs, Sane, Stages, Zones
    <3> QED BY <1>2, <2>1, <3>1, <3>6 DEF In
  <2>3. CASE ~(SameZone(p, c) /\ Available(p, c))
    BY <1>2, <1>7, <1>9, <2>1, <2>3 DEF RequestLookup, In
  <2> QED BY <2>2, <2>3
<1> QED BY <1>3, <1>4, <1>5, <1>6, <1>8, <1>9


LEMMA GatewaySteps ==
  ASSUME JobsInv, NEW p \in Workers,
         \/ LookupEnds(p) \/ LateAnswer(p) \/ PrepareFails(p) \/ Deliver(p) \/ RecordReply(p)
         \/ \E id \in Ids : Prepare(p, id)
  PROVE  JobsInv'
<1>1. job[p] \in Jobs /\ Sane(job[p])
  BY DEF JobsInv
<1>2. ASSUME NEW j, Go(p, j), j \in Jobs, Sane(j), ~In(p, "down") /\ ~In(p, "idle"),
             UNCHANGED <<consoleVars, settled, frozen, reply, handles>>
      PROVE  JobsInv'
  BY <1>2, WithinKeeps DEF Within
<1>3. CASE LookupEnds(p)
  <2>1. In(p, "looking") /\ UNCHANGED <<consoleVars, settled, frozen, reply, handles>>
    BY <1>3 DEF LookupEnds, worldVars, principalVars, claimVars
  <2>2. Found(p) \in Jobs /\ Sane(Found(p))
    BY <1>1, <2>1 DEF Found, In, Jobs, Sane, Stages
  <2>3. Denied(job[p]) \in Jobs /\ Sane(Denied(job[p]))
    BY <1>1, <2>1 DEF Denied, In, Jobs, Sane, Stages
  <2>4. Go(p, Found(p)) \/ Go(p, Denied(job[p]))
    BY <1>3 DEF LookupEnds
  <2> QED BY <1>2, <2>1, <2>2, <2>3, <2>4 DEF In
<1>4. CASE LateAnswer(p)
  <2>1. UNCHANGED <<consoleVars, settled, frozen, reply, handles, job>>
    BY <1>4 DEF LateAnswer, AfterLateAnswer, Go, JobsInv, worldVars, principalVars, ghostVars,
                claimVars
  <2> QED BY <2>1, OneJobStays
<1>5. CASE PrepareFails(p)
  <2>1. In(p, "preparing") /\ UNCHANGED <<consoleVars, settled, frozen, reply, handles>>
    BY <1>5 DEF PrepareFails, worldVars, principalVars, claimVars
  <2>2. Denied(job[p]) \in Jobs /\ Sane(Denied(job[p]))
    BY <1>1, <2>1 DEF Denied, In, Jobs, Sane, Stages
  <2> QED BY <1>2, <1>5, <2>1, <2>2 DEF PrepareFails, In
<1>6. ASSUME NEW id \in Ids, Prepare(p, id) PROVE JobsInv'
  <2> DEFINE j == [job[p] EXCEPT !.stage = "asking", !.id = id]
  <2>1. In(p, "preparing") /\ UNCHANGED <<consoleVars, settled, frozen, reply, handles>>
    BY <1>6 DEF Prepare, worldVars, principalVars, claimVars
  <2>2. id \in Nat
    BY CapabilityAssumption DEF Ids
  <2>3. j \in Jobs /\ Sane(j)
    BY <1>1, <2>1, <2>2 DEF In, Jobs, Sane, Stages
  <2> QED BY <1>2, <1>6, <2>1, <2>3 DEF Prepare, In
<1>7. CASE Deliver(p)
  <2> DEFINE j == [job[p] EXCEPT !.stage = "closing"]
  <2>1. In(p, "asking") /\ UNCHANGED <<consoleVars, settled, frozen, reply, handles>>
    BY <1>7 DEF Deliver, worldVars, ghostVars, claimVars
  <2>2. j \in Jobs /\ Sane(j)
    BY <1>1, <2>1 DEF In, Jobs, Sane, Stages
  <2> QED BY <1>2, <1>7, <2>1, <2>2 DEF Deliver, To, In
<1>8. CASE RecordReply(p)
  <2> DEFINE j == [job[p] EXCEPT !.stage = "replying"]
  <2>1. In(p, "closing") /\ UNCHANGED <<consoleVars, settled, frozen, reply, handles>>
    BY <1>8 DEF RecordReply, worldVars, principalVars, ghostVars, claimVars
  <2>2. j \in Jobs /\ Sane(j)
    BY <1>1, <2>1 DEF In, Jobs, Sane, Stages
  <2> QED BY <1>2, <1>8, <2>1, <2>2 DEF RecordReply, To, In
<1> QED BY <1>3, <1>4, <1>5, <1>6, <1>7, <1>8

LEMMA AnswerSteps ==
  ASSUME JobsInv, NEW p \in Workers,
         Resolve(p) \/ ResolveRefused(p) \/ Submit(p) \/ SubmitFails(p) \/ Tell(p)
  PROVE  JobsInv'
<1>1. job[p] \in Jobs /\ Sane(job[p])
  BY DEF JobsInv
<1>2. ASSUME NEW j, Go(p, j), j \in Jobs, Sane(j), ~In(p, "down") /\ ~In(p, "idle"),
             UNCHANGED <<consoleVars, settled, frozen, reply, handles>>
      PROVE  JobsInv'
  BY <1>2, WithinKeeps DEF Within
<1>3. CASE Resolve(p)
  <2> DEFINE id == Answered(p)
             stage == AfterAnswer(p, id)
             j == [job[p] EXCEPT !.stage = stage, !.id = id]
  <2>1. /\ In(p, "claimed") /\ job[p].on
        /\ UNCHANGED <<consoleVars, settled, frozen, reply, handles>>
    BY <1>3 DEF Resolve, AnswerReadable, worldVars, principalVars, ghostVars, claimVars
  <2>2. id \in Nat
    <3>1. reply[handles[p]] \in Ids \X BOOLEAN
      BY <1>3, <2>1 DEF Resolve, AnswerReadable, JobsInv, HandlesOK, In
    <3> QED BY <3>1, CapabilityAssumption DEF Answered, Ids
  <2>3. /\ stage \in {"submitting", "finishing", "telling"}
        /\ stage = "submitting" => Order \in job[p].caps
    BY DEF AfterAnswer, Submittable, Available
  <2>4. Go(p, j)
    BY <1>3 DEF Resolve
  <2> HIDE DEF id, stage
  <2>5. j \in Jobs /\ Sane(j)
    BY <1>1, <2>1, <2>2, <2>3 DEF In, Jobs, Sane, Stages
  <2> QED BY <1>2, <2>1, <2>4, <2>5 DEF In
<1>4. CASE ResolveRefused(p)
  <2> DEFINE j == [job[p] EXCEPT !.stage = "finishing"]
  <2>1. /\ In(p, "claimed") /\ job[p].on
        /\ UNCHANGED <<consoleVars, settled, frozen, reply, handles>>
    BY <1>4 DEF ResolveRefused, AnswerReadable, worldVars, principalVars, ghostVars, claimVars
  <2>2. j \in Jobs /\ Sane(j)
    BY <1>1, <2>1 DEF In, Jobs, Sane, Stages
  <2> QED BY <1>2, <1>4, <2>1, <2>2 DEF ResolveRefused, To, In
<1>5. ASSUME NEW ok \in BOOLEAN, In(p, "submitting")
      PROVE  LET j == [job[p] EXCEPT !.stage = "telling", !.done = ok] IN j \in Jobs /\ Sane(j)
  BY <1>1, <1>5 DEF In, Jobs, Sane, Stages
<1>6. CASE Submit(p)
  <2>1. In(p, "submitting") /\ UNCHANGED <<consoleVars, settled, frozen, reply, handles>>
    BY <1>6 DEF Submit, worldVars, principalVars, claimVars
  <2>2. PICK ok \in BOOLEAN : Go(p, [job[p] EXCEPT !.stage = "telling", !.done = ok])
    BY <1>6 DEF Submit
  <2> QED BY <1>2, <1>5, <2>1, <2>2 DEF In
<1>7. CASE SubmitFails(p)
  <2> DEFINE j == [job[p] EXCEPT !.stage = "telling"]
  <2>1. In(p, "submitting") /\ UNCHANGED <<consoleVars, settled, frozen, reply, handles>>
    BY <1>7 DEF SubmitFails, worldVars, principalVars, claimVars
  <2>2. j \in Jobs /\ Sane(j)
    BY <1>1, <2>1 DEF In, Jobs, Sane, Stages
  <2> QED BY <1>2, <1>7, <2>1, <2>2 DEF SubmitFails, To, In
<1>8. CASE Tell(p)
  <2> DEFINE j == [job[p] EXCEPT !.stage = "finishing"]
  <2>1. In(p, "telling") /\ UNCHANGED <<consoleVars, settled, frozen, reply, handles>>
    BY <1>8 DEF Tell, worldVars, principalVars, claimVars
  <2>2. j \in Jobs /\ Sane(j)
    BY <1>1, <2>1 DEF In, Jobs, Sane, Stages
  <2> QED BY <1>2, <1>8, <2>1, <2>2 DEF Tell, To, In
<1> QED BY <1>3, <1>4, <1>6, <1>7, <1>8

(* The principal, the operator, and time.                                   *)
LEMMA OtherSteps ==
  ASSUME JobsInv,
         \/ \E p \in Workers : GrowStale(p) \/ ReportedAsFailed(p)
         \/ \E p \in Workers, id \in Ids : Expire(p, id)
         \/ \E m \in Messages, id \in Ids, yes \in BOOLEAN : Reply(m, id, yes)
         \/ \E c \in Consoles : EditConsole(c)
         \/ \E id \in Ids : Age(id)
         \/ Operate \/ Settle \/ ClaimsAge
  PROVE  JobsInv'
<1> USE DEF worldVars, principalVars, ghostVars, claimVars, rowVars, memoryVars
<1>1. ASSUME NEW p \in Workers, ReportedAsFailed(p) PROVE JobsInv'
  BY <1>1, OneJobStays DEF ReportedAsFailed
<1>2. ASSUME NEW p \in Workers, NEW id \in Ids, Expire(p, id) PROVE JobsInv'
  BY <1>2, OneJobStays DEF Expire
<1>3. ASSUME NEW id \in Ids, Age(id) PROVE JobsInv'
  BY <1>3, OneJobStays DEF Age
<1>4. CASE ClaimsAge
  BY <1>4, OneJobStays DEF ClaimsAge, Lapse
<1>5. ASSUME NEW m \in Messages, NEW id \in Ids, NEW yes \in BOOLEAN, Reply(m, id, yes)
      PROVE  JobsInv'
  <2>1. /\ reply' = [reply EXCEPT ![m] = <<id, yes>>] /\ reply[m] = None
        /\ UNCHANGED <<consoleVars, settled, frozen, handles, job>>
    BY <1>5 DEF Reply
  <2>2. RepliesOK' /\ \A n \in Messages : reply[n] \in Ids \X BOOLEAN => reply'[n] = reply[n]
    BY <2>1, CapabilityAssumption DEF JobsInv, RepliesOK, Ids
  <2>3. \A n : n \notin Messages => reply'[n] = reply[n]
    BY <2>1 DEF JobsInv, RepliesOK
  <2>4. HandlesOK'
    BY <2>1, <2>2, <2>3 DEF JobsInv, HandlesOK
  <2> QED BY <2>1, <2>2, <2>4 DEF JobsInv, ConsoleTypeOK, SettledInv, consoleVars
<1>6. ASSUME NEW p \in Workers, GrowStale(p) PROVE JobsInv'
  <2>1. /\ fresh' = fresh \ {p} /\ UNCHANGED <<console, cache>>
        /\ UNCHANGED <<settled, frozen, reply, handles, job>>
    BY <1>6 DEF GrowStale, GrowsStale
  <2> QED BY <2>1 DEF JobsInv, ConsoleTypeOK, SettledInv, RepliesOK, HandlesOK
<1>7. ASSUME NEW c \in Consoles, EditConsole(c) PROVE JobsInv'
  <2>1. /\ console' = c /\ settled' = (settled /\ Forbids(c))
        /\ UNCHANGED <<cache, fresh, frozen, reply, handles, job>>
    BY <1>7 DEF EditConsole, Edit
  <2>2. settled' \in BOOLEAN /\ (settled' => settled /\ Forbids(c))
    BY <2>1
  <2>3. SettledInv'
    BY <2>1, <2>2 DEF JobsInv, SettledInv
  <2> QED BY <2>1, <2>2, <2>3 DEF JobsInv, ConsoleTypeOK, RepliesOK, HandlesOK
<1>8. CASE Operate
  BY <1>8 DEF Operate, JobsInv, ConsoleTypeOK, SettledInv, RepliesOK, HandlesOK, consoleVars
<1>9. CASE Settle
  BY <1>9 DEF Settle, JobsInv, ConsoleTypeOK, SettledInv, RepliesOK, HandlesOK, consoleVars
<1> QED BY <1>1, <1>2, <1>3, <1>4, <1>5, <1>6, <1>7, <1>8, <1>9

LEMMA JobsInit == Init => JobsInv
<1> SUFFICES ASSUME Init PROVE JobsInv
  OBVIOUS
<1> DEFINE j == [Fresh EXCEPT !.stage = "down"]
<1>1. job = [p \in Workers |-> j] /\ j \in Jobs /\ Sane(j) /\ j.stage = "down"
  BY DownSane DEF Init, Fresh
<1> HIDE DEF j
<1>2. job \in [Workers -> Jobs] /\ \A p \in Workers : Sane(job[p]) /\ job[p].stage = "down"
  BY <1>1
<1>3. ConsoleTypeOK
  BY CapabilityAssumption DEF Init, ConsoleInit, ConsoleTypeOK, Nothing, Snapshots
<1>4. RepliesOK /\ HandlesOK
  BY <1>2 DEF Init, ClaimInit, RepliesOK, HandlesOK
<1> QED BY <1>2, <1>3, <1>4 DEF Init, JobsInv, SettledInv

LEMMA JobsStep == JobsInv /\ [Next]_vars => JobsInv'
<1> SUFFICES ASSUME JobsInv, [Next]_vars PROVE JobsInv'
  OBVIOUS
<1>1. CASE UNCHANGED vars
  BY <1>1, OneJobStays DEF vars, worldVars, principalVars, ghostVars, claimVars
<1>2. ASSUME NEW p \in Workers, Loop(p) PROVE JobsInv'
  BY <1>2, LoopSteps, GatewaySteps, CloseSteps DEF Loop
<1>3. ASSUME NEW p \in Workers, Answer(p) PROVE JobsInv'
  BY <1>3, AnswerSteps, CloseSteps DEF Answer
<1>4. ASSUME NEW p \in Workers,
             \/ Start(p) \/ Crash(p) \/ CannotRefresh(p) \/ LateAnswer(p)
             \/ DeliveryFails(p) \/ ReplyFails(p) \/ \E m \in Messages : Receive(p, m)
      PROVE  JobsInv'
  BY <1>4, StartStep, ReceiveStep, EndSteps, GatewaySteps DEF DeliveryFails, ReplyFails
<1> QED BY <1>1, <1>2, <1>3, <1>4, OtherSteps DEF Next

-----------------------------------------------------------------------------

(* The invariant of the jobs: what each keeps of the configuration, of its  *)
(* zone and of what it looked up, as the loop of #handle goes on.           *)
THEOREM JobsSpec == Spec => []JobsInv
<1> QED BY JobsInit, JobsStep, PTL DEF Spec

(* What was prepared and approved before the console was narrowed is not    *)
(* submitted by a message handled a TTL after it, nor is anything prepared: *)
(* the configuration of the message at hand is asked again at both points.  *)
THEOREM NarrowingTakesEffect == Spec => []NarrowingHolds
<1>1. JobsInv => NarrowingHolds
  BY DEF JobsInv, Sane, NarrowingHolds
<1> QED BY <1>1, JobsSpec, PTL

(* The loop of a message stays in one trust zone; after a lookup that       *)
(* failed it prepares and performs nothing, and it performs nothing that    *)
(* the model decided with the evidence of a lookup.                         *)
THEOREM EvidenceStaysSound == Spec => []EvidenceIsSound
<1>1. ASSUME NEW S, NEW x, \A y \in S : y = x PROVE Cardinality(S) <= 1
  <2>1. CASE S = {}
    BY <2>1, FS_EmptySet
  <2>2. CASE S # {}
    <3>1. S = {x}
      BY <1>1, <2>2
    <3> QED BY <3>1, FS_Singleton
  <2> QED BY <2>1, <2>2
<1>2. ASSUME JobsInv, NEW p \in Workers
      PROVE  /\ Cardinality(job[p].zones) <= 1
             /\ job[p].stage \in {"preparing", "performing"} => ~job[p].failed
             /\ In(p, "performing") => ~job[p].informed
  <2>1. Sane(job[p])
    BY <1>2 DEF JobsInv
  <2> QED BY <1>1, <2>1 DEF Sane, In
<1>3. JobsInv => EvidenceIsSound
  BY <1>2 DEF EvidenceIsSound
<1> QED BY <1>3, JobsSpec, PTL


-----------------------------------------------------------------------------
(* The tools that are called.  A capability has an adapter only if the      *)
(* server confirms the risk of its tools, and lets the check read.          *)

Sound(c) == CheckCallable(Pack, Server) /\ ConfirmedByServer(Pack, Server, c)

ToolInv ==
  /\ installed \in Packs
  /\ compiled \in [Workers -> SUBSET (Named(Pack) \cup {Web})]
  /\ \A p \in Workers : \A c \in compiled[p] : c # Web => Sound(c)
  /\ \A p \in Workers :
       /\ In(p, "looking") /\ job[p].zone # "public" => Docs \in compiled[p]
       /\ job[p].stage \in {"preparing", "submitting"} => Order \in compiled[p]
  /\ ~stray

(* The submitting of actions.  Between the answer that was accepted and the *)
(* call there is one process, and the row says approved for ever.           *)

OnceInv ==
  /\ submits \in [Ids -> 0 .. 2] /\ said \subseteq Ids
  /\ status \in [Ids -> {"absent", "pending", "approved", "rejected", "expired"}]
  /\ \A id \in Ids : submits[id] <= (IF status[id] = "approved" THEN 1 ELSE 0)
  /\ \A id \in said : submits[id] = 1
  /\ \A p \in Workers : In(p, "submitting") =>
       /\ job[p].id \in Ids /\ status[job[p].id] = "approved" /\ submits[job[p].id] = 0
       /\ \A q \in Workers : In(q, "submitting") /\ q # p => job[q].id # job[p].id
  /\ \A p \in Workers : job[p].done => job[p].id \in Ids /\ submits[job[p].id] = 1

(* A step of p that does not begin to submit, and what it needs.            *)
Tame(p, j) ==
  /\ Go(p, j) /\ j.stage # "submitting"
  /\ j.stage = "looking" /\ j.zone # "public" => Docs \in compiled[p]
  /\ j.stage = "preparing" => Order \in compiled[p]
  /\ j.done => job[p].done /\ j.id = job[p].id

RowsKept ==
  /\ status' \in [Ids -> {"absent", "pending", "approved", "rejected", "expired"}]
  /\ \A id \in Ids : status[id] = "approved" => status'[id] = "approved"

Quiet(p) ==
  /\ \E j : Tame(p, j)
  /\ RowsKept
  /\ submits' = submits
  /\ said' \subseteq said \cup (IF job[p].done THEN {job[p].id} ELSE {})

LEMMA QuietOnce ==
  ASSUME JobsInv, OnceInv, NEW p \in Workers, Quiet(p) PROVE OnceInv'
<1>1. PICK j : Tame(p, j)
  BY DEF Quiet
<1>2. \A q \in Workers : job'[q] = IF q = p THEN j ELSE job[q]
  BY <1>1 DEF Tame, Go, JobsInv
<1>3. said' \subseteq Ids /\ \A id \in said' : submits'[id] = 1
  BY DEF Quiet, OnceInv
<1>4. \A q \in Workers : In(q, "submitting")' => In(q, "submitting") /\ job'[q] = job[q]
  BY <1>1, <1>2 DEF Tame, In
<1>5. \A q \in Workers : job'[q].done => job[q].done /\ job'[q].id = job[q].id
  BY <1>1, <1>2 DEF Tame
<1>6. \A id \in Ids : submits'[id] <= (IF status'[id] = "approved" THEN 1 ELSE 0)
  BY DEF Quiet, RowsKept, OnceInv
<1>7. \A q \in Workers : In(q, "submitting")' =>
        /\ job'[q].id \in Ids /\ status'[job'[q].id] = "approved" /\ submits'[job'[q].id] = 0
        /\ \A r \in Workers : In(r, "submitting")' /\ r # q => job'[r].id # job'[q].id
  BY <1>4 DEF Quiet, RowsKept, OnceInv
<1>8. \A q \in Workers : job'[q].done => job'[q].id \in Ids /\ submits'[job'[q].id] = 1
  BY <1>5 DEF Quiet, OnceInv
<1>9. submits' \in [Ids -> 0 .. 2] /\ RowsKept
  BY DEF Quiet, OnceInv
<1> QED BY <1>3, <1>6, <1>7, <1>8, <1>9 DEF OnceInv, RowsKept

(* It leaves the adapters alone, and calls nothing that writes.             *)
Still == UNCHANGED <<installed, compiled>> /\ (stray' => stray)

LEMMA QuietTool ==
  ASSUME JobsInv, ToolInv, NEW p \in Workers, NEW j, Tame(p, j),
         Still
  PROVE  ToolInv'
<1>1. \A q \in Workers : job'[q] = IF q = p THEN j ELSE job[q]
  BY DEF Tame, Go, JobsInv
<1>2. \A q \in Workers :
        /\ In(q, "looking")' /\ job'[q].zone # "public" => Docs \in compiled[q]
        /\ job'[q].stage \in {"preparing", "submitting"} => Order \in compiled[q]
  BY <1>1 DEF Tame, ToolInv, In
<1> QED BY <1>2 DEF ToolInv, Sound, Pack, Server, Still

(* The processes that have an adapter call the check, and its tools.        *)
LEMMA CheckReads ==
  ASSUME ToolInv, NEW p \in Workers, NEW c \in compiled[p], c # Web, Calls(CheckTools)
  PROVE  ~stray'
  BY DEF ToolInv, Sound, Calls, CheckTools, CheckCallable

LEMMA ToolReads ==
  ASSUME ToolInv, NEW p \in Workers, NEW c \in compiled[p], c # Web,
         NEW u, <<c, u>> \in DOMAIN Pack.uses, u # "confirm"
  PROVE  RiskAt(Server, Tool(c, u)) # "write"
<1>1. u \in UsesOf(Pack, c)
  BY DEF UsesOf
<1> QED BY <1>1 DEF ToolInv, Sound, ConfirmedByServer, Tool, Needed

LEMMA LookupReads ==
  ASSUME JobsInv, ToolInv, NEW p \in Workers, In(p, "looking"), Calls(LookupTools(p))
  PROVE  ~stray'
<1>1. CASE job[p].zone = "public"
  BY <1>1 DEF Calls, LookupTools, ToolInv
<1>2. CASE job[p].zone # "public"
  <2>1. Docs \in compiled[p] /\ Docs # Web
    BY <1>2, Distinct DEF ToolInv
  <2>2. \A t \in CheckTools : RiskAt(Server, t) # "write"
    BY <2>1 DEF ToolInv, Sound, CheckTools, CheckCallable
  <2>3. \A u \in Readable : RiskAt(Server, Tool(Docs, u)) # "write"
    BY <2>1, ToolReads DEF Readable, ReadUses
  <2>4. \A t \in LookupTools(p) : RiskAt(Server, t) # "write"
    BY <1>2, <2>2, <2>3 DEF LookupTools
  <2> QED BY <2>4 DEF Calls, ToolInv
<1> QED BY <1>1, <1>2

LEMMA PrepareReads ==
  ASSUME JobsInv, ToolInv, NEW p \in Workers, In(p, "preparing"), Calls(PrepareTools)
  PROVE  ~stray'
<1>1. Order \in compiled[p] /\ Order # Web
  BY Distinct DEF ToolInv, In
<1>2. \A t \in CheckTools : RiskAt(Server, t) # "write"
  BY <1>1 DEF ToolInv, Sound, CheckTools, CheckCallable
<1>3. RiskAt(Server, Tool(Order, "prepare")) # "write"
  <2>1. <<Order, "prepare">> \in DOMAIN Pack.uses
    BY CapabilityAssumption DEF ToolInv, Pack
  <2> QED BY <1>1, <2>1, ToolReads
<1> QED BY <1>2, <1>3 DEF Calls, PrepareTools, ToolInv

-----------------------------------------------------------------------------
(* Every step of a process but the four that follow is quiet, and leaves    *)
(* the adapters alone.                                                      *)

LEMMA QuietLocal ==
  ASSUME JobsInv, OnceInv, NEW p \in Workers, NEW j, Local(p, j), Tame(p, j)
  PROVE  Quiet(p) /\ Still
  BY DEF Local, Quiet, RowsKept, Still, OnceInv, rowVars, ghostVars, worldVars, memoryVars

LEMMA QuietLoop ==
  ASSUME JobsInv, OnceInv, NEW p \in Workers,
         \/ AskModel(p) \/ RequestCommands(p) \/ Performed(p) \/ RequestAction(p) \/ Finish(p)
         \/ \E c \in {Docs, Web}, carries \in BOOLEAN : RequestLookup(p, c, carries)
  PROVE  Quiet(p) /\ Still
<1>1. job[p] \in Jobs
  BY DEF JobsInv
<1>2. CASE AskModel(p)
  <2> DEFINE j == [job[p] EXCEPT !.stage = "deciding", !.draft = frozen,
                                 !.informed = job[p].looked # "none"]
  <2>1. Local(p, j) /\ Tame(p, j)
    BY <1>1, <1>2 DEF AskModel, Tame, Local, Jobs
  <2> QED BY <2>1, QuietLocal
<1>3. CASE RequestCommands(p)
  <2> DEFINE j == [job[p] EXCEPT !.stage = "performing", !.rounds = @ + 1]
  <2>1. Local(p, j) /\ Tame(p, j)
    BY <1>1, <1>3 DEF RequestCommands, Tame, Local, Jobs
  <2> QED BY <2>1, QuietLocal
<1>4. CASE Performed(p)
  <2> DEFINE j == [job[p] EXCEPT !.stage = "claimed", !.carries = FALSE]
  <2>1. Local(p, j) /\ Tame(p, j)
    BY <1>1, <1>4 DEF Performed, Tame, Local, Jobs
  <2> QED BY <2>1, QuietLocal
<1>5. CASE Finish(p)
  <2> DEFINE j == [job[p] EXCEPT !.stage = "closing"]
  <2>1. Local(p, j) /\ Tame(p, j)
    BY <1>1, <1>5 DEF Finish, Tame, Local, Jobs
  <2> QED BY <2>1, QuietLocal
<1>6. ASSUME NEW c
      PROVE  LET r == Requests(p, c) IN
             /\ r.done = job[p].done /\ r.id = job[p].id
             /\ SameZone(p, c) => r.zone = Zone(c)
  <2>1. job[p].rounds + 1 \in Nat
    BY <1>1 DEF Jobs
  <2> QED BY <1>1, <2>1 DEF Requests, Jobs, SameZone, Zone, Zones
<1>7. ASSUME NEW c, Local(p, Denied(Requests(p, c))) PROVE Quiet(p) /\ Still
  <2>1. Tame(p, Denied(Requests(p, c)))
    BY <1>6, <1>7 DEF Denied, Tame, Local
  <2> QED BY <1>7, <2>1, QuietLocal
<1>8. CASE RequestAction(p)
  <2> DEFINE j == [Requests(p, Order) EXCEPT !.stage = "preparing", !.zones = @ \cup {"internal"}]
  <2>1. CASE SameZone(p, Order) /\ Available(p, Order)
    <3>1. Local(p, j)
      BY <1>8, <2>1 DEF RequestAction
    <3>2. j.stage = "preparing" /\ j.done = job[p].done /\ j.id = job[p].id
      BY <1>6
    <3>3. Order \in compiled[p]
      BY <2>1 DEF Available
    <3> HIDE DEF j
    <3>4. Tame(p, j)
      BY <3>1, <3>2, <3>3 DEF Tame, Local
    <3> QED BY <3>1, <3>4, QuietLocal
  <2> QED BY <1>7, <1>8, <2>1 DEF RequestAction
<1>9. ASSUME NEW c \in {Docs, Web}, NEW carries \in BOOLEAN, RequestLookup(p, c, carries)
      PROVE  Quiet(p) /\ Still
  <2> DEFINE j == [Requests(p, c) EXCEPT !.stage = "looking", !.carries = carries,
                                         !.zones = @ \cup {Zone(c)}]
  <2>1. CASE SameZone(p, c) /\ Available(p, c)
    <3>1. Local(p, j)
      BY <1>9, <2>1 DEF RequestLookup
    <3>2. j.stage = "looking" /\ j.zone = Zone(c) /\ j.done = job[p].done /\ j.id = job[p].id
      BY <1>6, <2>1
    <3>3. Zone(c) # "public" => Docs \in compiled[p]
      BY <2>1 DEF Available, Zone
    <3> HIDE DEF j
    <3>4. Tame(p, j)
      BY <3>1, <3>2, <3>3 DEF Tame, Local
    <3> QED BY <3>1, <3>4, QuietLocal
  <2> QED BY <1>7, <1>9, <2>1 DEF RequestLookup
<1> QED BY <1>2, <1>3, <1>4, <1>5, <1>8, <1>9


LEMMA FreshTame ==
  Fresh.stage = "idle" /\ ~Fresh.done /\ LET j == [Fresh EXCEPT !.stage = "down"] IN
    j.stage = "down" /\ ~j.done
  BY DEF Fresh

LEMMA QuietGateway ==
  ASSUME JobsInv, OnceInv, ToolInv, NEW p \in Workers,
         \/ LookupEnds(p) \/ LateAnswer(p) \/ PrepareFails(p) \/ Deliver(p) \/ RecordReply(p)
         \/ \E id \in Ids : Prepare(p, id)
  PROVE  Quiet(p) \/ UNCHANGED <<job, status, submits, said>>
<1> USE DEF Quiet, RowsKept, rowVars, ghostVars
<1>1. job[p] \in Jobs /\ Sane(job[p])
  BY DEF JobsInv
<1>2. CASE LookupEnds(p)
  <2>1. Tame(p, Found(p)) \/ Tame(p, Denied(job[p]))
    BY <1>1, <1>2 DEF LookupEnds, Found, Denied, Tame, Jobs
  <2> QED BY <1>2, <2>1 DEF LookupEnds, OnceInv
<1>3. CASE LateAnswer(p)
  BY <1>3 DEF LateAnswer, AfterLateAnswer, Go, JobsInv
<1>4. CASE PrepareFails(p)
  <2>1. Tame(p, Denied(job[p]))
    BY <1>1, <1>4 DEF PrepareFails, Denied, Tame, Jobs
  <2> QED BY <1>4, <2>1 DEF PrepareFails, OnceInv
<1>5. ASSUME NEW id \in Ids, Prepare(p, id) PROVE Quiet(p)
  <2> DEFINE j == [job[p] EXCEPT !.stage = "asking", !.id = id]
  <2>1. ~job[p].done
    BY <1>1, <1>5 DEF Prepare, In, Sane
  <2>2. Tame(p, j)
    BY <1>1, <1>5, <2>1 DEF Prepare, Tame, Jobs
  <2>3. status[id] = "absent" /\ status' = [status EXCEPT ![id] = "pending"]
        /\ submits' = submits /\ said' = said
    BY <1>5 DEF Prepare
  <2> QED BY <2>2, <2>3 DEF OnceInv
<1>6. CASE Deliver(p)
  <2>1. Tame(p, [job[p] EXCEPT !.stage = "closing"])
    BY <1>1, <1>6 DEF Deliver, To, Tame, Jobs
  <2> QED BY <1>6, <2>1 DEF Deliver, OnceInv
<1>7. CASE RecordReply(p)
  <2>1. Tame(p, [job[p] EXCEPT !.stage = "replying"])
    BY <1>1, <1>7 DEF RecordReply, To, Tame, Jobs
  <2> QED BY <1>7, <2>1 DEF RecordReply, OnceInv
<1> QED BY <1>2, <1>3, <1>4, <1>5, <1>6, <1>7

LEMMA QuietAnswer ==
  ASSUME JobsInv, OnceInv, NEW p \in Workers,
         ResolveRefused(p) \/ SubmitFails(p) \/ Tell(p)
  PROVE  Quiet(p)
<1> USE DEF Quiet, RowsKept, rowVars
<1>1. job[p] \in Jobs
  BY DEF JobsInv
<1>2. CASE ResolveRefused(p)
  <2>1. Tame(p, [job[p] EXCEPT !.stage = "finishing"])
    BY <1>1, <1>2 DEF ResolveRefused, To, Tame, Jobs
  <2> QED BY <1>2, <2>1 DEF ResolveRefused, Open, OnceInv, ghostVars
<1>3. CASE SubmitFails(p)
  <2>1. Tame(p, [job[p] EXCEPT !.stage = "telling"])
    BY <1>1, <1>3 DEF SubmitFails, To, Tame, Jobs
  <2> QED BY <1>3, <2>1 DEF SubmitFails, OnceInv
<1>4. CASE Tell(p)
  <2>1. Tame(p, [job[p] EXCEPT !.stage = "finishing"])
    BY <1>1, <1>4 DEF Tell, To, Tame, Jobs
  <2> QED BY <1>4, <2>1 DEF Tell, OnceInv
<1> QED BY <1>2, <1>3, <1>4

(* A process starts, takes a message, leaves it, or ends.                   *)
LEMMA QuietEnds ==
  ASSUME JobsInv, OnceInv, NEW p \in Workers,
         \/ Disabled(p) \/ Replied(p) \/ NoReply(p) \/ AnswerCloses(p)
         \/ Start(p) \/ Crash(p) \/ Throws(p) \/ CannotRefresh(p)
         \/ \E m \in Messages : Receive(p, m)
  PROVE  Quiet(p)
<1> USE DEF Quiet, RowsKept, rowVars, ghostVars
<1>1. job[p] \in Jobs
  BY DEF JobsInv
<1>2. CASE Disabled(p) \/ Replied(p) \/ NoReply(p) \/ AnswerCloses(p)
  <2>1. Tame(p, Fresh)
    BY <1>2, FreshTame DEF Disabled, Replied, NoReply, AnswerCloses, Closes, Tame
  <2> QED BY <1>2, <2>1 DEF Disabled, Replied, NoReply, AnswerCloses, OnceInv
<1>3. CASE Crash(p) \/ Throws(p) \/ CannotRefresh(p)
  <2>1. Ends(p)
    BY <1>3 DEF Crash, Throws, CannotRefresh
  <2>2. Tame(p, [Fresh EXCEPT !.stage = "down"])
    BY <2>1, FreshTame DEF Ends, Tame
  <2> QED BY <2>1, <2>2 DEF Ends, OnceInv
<1>4. CASE Start(p)
  <2>1. Go(p, [job[p] EXCEPT !.stage = "idle"])
    BY <1>4 DEF Start, To
  <2>2. Tame(p, [job[p] EXCEPT !.stage = "idle"])
    BY <1>1, <2>1 DEF Tame, Jobs
  <2> QED BY <1>4, <2>2 DEF Start, OnceInv
<1>5. ASSUME NEW m \in Messages, Receive(p, m) PROVE Quiet(p)
  <2> DEFINE j == [Fresh EXCEPT !.stage = "claimed", !.on = Refreshed(p).on,
                                !.caps = Refreshed(p).caps, !.barred = settled]
  <2>1. Go(p, j)
    BY <1>5 DEF Receive
  <2>2. j.stage = "claimed" /\ ~j.done
    BY DEF Fresh
  <2> HIDE DEF j
  <2>3. Tame(p, j)
    BY <2>1, <2>2 DEF Tame
  <2> QED BY <1>5, <2>3 DEF Receive, OnceInv
<1> QED BY <1>2, <1>3, <1>4, <1>5

(* The answer that begins to submit: of a row that was pending until now.   *)
LEMMA ResolveOnce ==
  ASSUME JobsInv, OnceInv, NEW p \in Workers, Resolve(p) PROVE OnceInv'
<1> DEFINE id == Answered(p)
           stage == AfterAnswer(p, id)
           yes == Approves(p)
           j == [job[p] EXCEPT !.stage = stage, !.id = id]
<1>1. job[p] \in Jobs /\ ~job[p].done
  BY DEF JobsInv, Sane, Resolve, AnswerReadable, In
<1>2. id \in Ids /\ status[id] = "pending"
  <2>1. reply[handles[p]] \in Ids \X BOOLEAN
    BY DEF Resolve, AnswerReadable, JobsInv, HandlesOK, In
  <2> QED BY <2>1 DEF Answered, Resolve, Open
<1>3. /\ Go(p, j) /\ submits' = submits /\ said' = said
      /\ status' = [status EXCEPT ![id] = IF yes THEN "approved" ELSE "rejected"]
  BY DEF Resolve, ghostVars
<1>4. stage = "submitting" => yes
  BY DEF AfterAnswer
<1> HIDE DEF id, stage, yes
<1>5. ~j.done /\ j.stage = stage /\ j.id = id
  BY <1>1 DEF Jobs
<1> HIDE DEF j
<1>6. \A q \in Workers : job'[q] = IF q = p THEN j ELSE job[q]
  BY <1>3 DEF Go, JobsInv
<1>7. submits[id] = 0
  BY <1>2 DEF OnceInv
<1>8. \A i \in Ids : status'[i] = IF i = id THEN (IF yes THEN "approved" ELSE "rejected")
                                  ELSE status[i]
  BY <1>3 DEF OnceInv
<1>9. \A q \in Workers : In(q, "submitting") => job[q].id # id
  BY <1>2 DEF OnceInv
<1>10. \A q \in Workers : In(q, "submitting")' =>
         /\ job'[q].id \in Ids /\ status'[job'[q].id] = "approved" /\ submits'[job'[q].id] = 0
         /\ \A r \in Workers : In(r, "submitting")' /\ r # q => job'[r].id # job'[q].id
  BY <1>2, <1>3, <1>4, <1>5, <1>6, <1>7, <1>8, <1>9 DEF OnceInv, In
<1>11. \A q \in Workers : job'[q].done => job'[q].id \in Ids /\ submits'[job'[q].id] = 1
  BY <1>3, <1>5, <1>6 DEF OnceInv
<1>12. \A i \in Ids : submits'[i] <= (IF status'[i] = "approved" THEN 1 ELSE 0)
  BY <1>2, <1>3, <1>7, <1>8 DEF OnceInv
<1>13. status' \in [Ids -> {"absent", "pending", "approved", "rejected", "expired"}]
  BY <1>3 DEF OnceInv
<1> QED BY <1>3, <1>10, <1>11, <1>12, <1>13 DEF OnceInv

LEMMA SubmitOnce ==
  ASSUME JobsInv, OnceInv, NEW p \in Workers, Submit(p) PROVE OnceInv'
<1> DEFINE id == job[p].id
<1>1. id \in Ids /\ status[id] = "approved" /\ submits[id] = 0 /\ job[p] \in Jobs
  BY DEF Submit, OnceInv, In, JobsInv
<1>2. PICK ok \in BOOLEAN : Go(p, [job[p] EXCEPT !.stage = "telling", !.done = ok])
  BY DEF Submit
<1> DEFINE j == [job[p] EXCEPT !.stage = "telling", !.done = ok]
<1>3. j.stage = "telling" /\ j.id = id
  BY <1>1 DEF Jobs
<1>4. submits' \in [Ids -> 0 .. 2] /\ \A i \in Ids : submits'[i] = IF i = id THEN 1 ELSE submits[i]
  BY <1>1 DEF Submit, OnceInv
<1>5. status' = status /\ said' = said
  BY DEF Submit, rowVars
<1> HIDE DEF j, id
<1>6. \A q \in Workers : job'[q] = IF q = p THEN j ELSE job[q]
  BY <1>2 DEF Go, JobsInv, j
<1>7. In(p, "submitting") /\ \A q \in Workers : In(q, "submitting") /\ q # p => job[q].id # id
  BY DEF Submit, OnceInv, id
<1>8. \A q \in Workers : In(q, "submitting")' => q # p /\ In(q, "submitting") /\ job'[q] = job[q]
  BY <1>3, <1>6 DEF In
<1>9. \A q \in Workers : In(q, "submitting")' =>
        /\ job'[q].id \in Ids /\ status'[job'[q].id] = "approved" /\ submits'[job'[q].id] = 0
        /\ \A r \in Workers : In(r, "submitting")' /\ r # q => job'[r].id # job'[q].id
  BY <1>4, <1>5, <1>7, <1>8 DEF OnceInv
<1>10. \A q \in Workers : job'[q].done => job'[q].id \in Ids /\ submits'[job'[q].id] = 1
  BY <1>1, <1>3, <1>4, <1>6 DEF OnceInv
<1>11. said' \subseteq Ids /\ \A i \in said' : submits'[i] = 1
  BY <1>1, <1>4, <1>5 DEF OnceInv
<1>12. \A i \in Ids : submits'[i] <= (IF status'[i] = "approved" THEN 1 ELSE 0)
  BY <1>1, <1>4, <1>5 DEF OnceInv
<1> QED BY <1>4, <1>5, <1>9, <1>10, <1>11, <1>12 DEF OnceInv


LEMMA OnceStays ==
  ASSUME OnceInv, UNCHANGED <<job, status, submits, said>> PROVE OnceInv'
  BY DEF OnceInv, In

LEMMA ToolStays ==
  ASSUME ToolInv, Still, UNCHANGED job PROVE ToolInv'
  BY DEF ToolInv, Still, Sound, Pack, Server, In

LEMMA QuietStill ==
  ASSUME JobsInv, ToolInv, NEW p \in Workers, Quiet(p), Still PROVE ToolInv'
  BY QuietTool DEF Quiet

LEMMA GatewayTool ==
  ASSUME JobsInv, OnceInv, ToolInv, NEW p \in Workers,
         \/ LookupEnds(p) \/ LateAnswer(p) \/ PrepareFails(p) \/ Deliver(p) \/ RecordReply(p)
         \/ \E id \in Ids : Prepare(p, id)
  PROVE  ToolInv'
<1>1. Still
  <2>1. CASE LookupEnds(p)
    BY <2>1, LookupReads DEF LookupEnds, Still, worldVars
  <2>2. CASE PrepareFails(p)
    BY <2>2, PrepareReads DEF PrepareFails, Still, worldVars, memoryVars
  <2>3. ASSUME NEW id \in Ids, Prepare(p, id) PROVE Still
    BY <2>3, PrepareReads DEF Prepare, Still, worldVars
  <2>4. CASE LateAnswer(p) \/ Deliver(p) \/ RecordReply(p)
    BY <2>4 DEF LateAnswer, Deliver, RecordReply, Still, worldVars, memoryVars, ghostVars
  <2> QED BY <2>1, <2>2, <2>3, <2>4
<1> QED BY <1>1, QuietGateway, QuietStill, ToolStays

LEMMA AnswerTool ==
  ASSUME JobsInv, OnceInv, ToolInv, NEW p \in Workers,
         Resolve(p) \/ ResolveRefused(p) \/ Submit(p) \/ SubmitFails(p) \/ Tell(p)
  PROVE  ToolInv'
<1>1. job[p] \in Jobs
  BY DEF JobsInv
<1>2. CASE ResolveRefused(p) \/ Tell(p)
  <2>1. Still
    BY <1>2 DEF ResolveRefused, Tell, Still, worldVars, memoryVars, ghostVars
  <2> QED BY <1>2, <2>1, QuietAnswer, QuietStill
<1>3. ASSUME In(p, "submitting"), Calls(CheckTools) PROVE ~stray'
  BY <1>3, CheckReads, Distinct DEF ToolInv, In
<1>4. CASE SubmitFails(p)
  <2>1. Still
    BY <1>3, <1>4 DEF SubmitFails, Still, worldVars, memoryVars
  <2> QED BY <1>4, <2>1, QuietAnswer, QuietStill
<1>5. ASSUME NEW j, Go(p, j), j.stage # "looking", j.stage # "preparing",
             j.stage = "submitting" => Order \in compiled[p], Still
      PROVE  ToolInv'
  <2>1. \A q \in Workers : job'[q] = IF q = p THEN j ELSE job[q]
    BY <1>5 DEF Go, JobsInv
  <2>2. \A q \in Workers :
          /\ In(q, "looking")' /\ job'[q].zone # "public" => Docs \in compiled[q]
          /\ job'[q].stage \in {"preparing", "submitting"} => Order \in compiled[q]
    BY <1>5, <2>1 DEF ToolInv, In
  <2> QED BY <1>5, <2>2 DEF ToolInv, Sound, Pack, Server, Still
<1>6. CASE Submit(p)
  <2>1. PICK ok \in BOOLEAN : Go(p, [job[p] EXCEPT !.stage = "telling", !.done = ok])
    BY <1>6 DEF Submit
  <2>2. Still
    BY <1>3, <1>6 DEF Submit, Still, worldVars, memoryVars
  <2>3. [job[p] EXCEPT !.stage = "telling", !.done = ok].stage = "telling"
    BY <1>1 DEF Jobs
  <2> QED BY <1>5, <2>1, <2>2, <2>3
<1>7. CASE Resolve(p)
  <2> DEFINE stage == AfterAnswer(p, Answered(p))
             j == [job[p] EXCEPT !.stage = stage, !.id = Answered(p)]
  <2>1. Go(p, j) /\ Still
    BY <1>7 DEF Resolve, Still, worldVars, ghostVars
  <2>2. j.stage = stage
    BY <1>1 DEF Jobs
  <2>3. /\ stage \in {"submitting", "finishing", "telling"}
        /\ stage = "submitting" => Order \in compiled[p]
    BY DEF AfterAnswer, Submittable, Available
  <2> HIDE DEF j, stage
  <2> QED BY <1>5, <2>1, <2>2, <2>3
<1> QED BY <1>2, <1>4, <1>6, <1>7

(* What a process that starts has an adapter for, and one that ends.        *)
LEMMA ProcessTool ==
  ASSUME JobsInv, OnceInv, ToolInv, NEW p \in Workers,
         Start(p) \/ Crash(p) \/ Throws(p) \/ CannotRefresh(p)
  PROVE  ToolInv'
<1>1. Quiet(p) /\ \E j : Go(p, j) /\ j.stage \in {"idle", "down"}
  <2>1. CASE Start(p)
    <3>1. Go(p, [job[p] EXCEPT !.stage = "idle"]) /\ job[p] \in Jobs
      BY <2>1 DEF Start, To, JobsInv
    <3>2. [job[p] EXCEPT !.stage = "idle"].stage = "idle"
      BY <3>1 DEF Jobs
    <3> QED BY <2>1, <3>1, <3>2, QuietEnds
  <2>2. CASE Crash(p) \/ Throws(p) \/ CannotRefresh(p)
    BY <2>2, FreshTame, QuietEnds DEF Crash, Throws, CannotRefresh, Ends
  <2> QED BY <2>1, <2>2
<1>2. PICK j : Go(p, j) /\ j.stage \in {"idle", "down"}
  BY <1>1
<1>3. \A q \in Workers : job'[q] = IF q = p THEN j ELSE job[q]
  BY <1>2 DEF Go, JobsInv
<1>4. installed' = installed /\ stray' = stray
  BY DEF Start, Crash, Throws, CannotRefresh, Ends, worldVars, ghostVars
<1>5. \E C \in SUBSET (Named(Pack) \cup {Web}) :
        compiled' = [compiled EXCEPT ![p] = C] /\ \A c \in C : c # Web => Sound(c)
  <2>1. CASE Start(p)
    <3>1. \A c \in Compiled(Pack, Server, login) : c \in Named(Pack) /\ Sound(c)
      BY DEF Compiled, Sound, CheckPasses, CheckCallable
    <3> QED BY <2>1, <3>1 DEF Start
  <2>2. CASE Crash(p) \/ Throws(p) \/ CannotRefresh(p)
    BY <2>2 DEF Crash, Throws, CannotRefresh, Ends
  <2> QED BY <2>1, <2>2
<1>6. PICK C \in SUBSET (Named(Pack) \cup {Web}) :
        compiled' = [compiled EXCEPT ![p] = C] /\ \A c \in C : c # Web => Sound(c)
  BY <1>5
<1>7. /\ \A q \in Workers : compiled'[q] = IF q = p THEN C ELSE compiled[q]
      /\ compiled' \in [Workers -> SUBSET (Named(Pack) \cup {Web})]
  BY <1>6 DEF ToolInv
<1>8. \A q \in Workers :
        /\ \A c \in compiled'[q] : c # Web => Sound(c)
        /\ In(q, "looking")' /\ job'[q].zone # "public" => Docs \in compiled'[q]
        /\ job'[q].stage \in {"preparing", "submitting"} => Order \in compiled'[q]
  BY <1>2, <1>3, <1>6, <1>7 DEF ToolInv, In
<1> QED BY <1>4, <1>7, <1>8 DEF ToolInv, Sound, Pack, Server

LEMMA OnceInit == Init => OnceInv /\ ToolInv
<1> SUFFICES ASSUME Init PROVE OnceInv /\ ToolInv
  OBVIOUS
<1>1. \A p \in Workers : job[p].stage = "down" /\ ~job[p].done
  BY FreshTame DEF Init
<1>2. OnceInv
  BY <1>1, SMTT(30) DEF Init, OnceInv, In
<1>3. ToolInv
  BY <1>1 DEF Init, ToolInv, In
<1> QED BY <1>2, <1>3

LEMMA OnceStep == JobsInv /\ OnceInv /\ ToolInv /\ [Next]_vars => OnceInv' /\ ToolInv'
<1> SUFFICES ASSUME JobsInv, OnceInv, ToolInv, [Next]_vars PROVE OnceInv' /\ ToolInv'
  OBVIOUS
<1>1. ASSUME Still, UNCHANGED <<job, status, submits, said>> PROVE OnceInv' /\ ToolInv'
  BY <1>1, OnceStays, ToolStays
<1>2. CASE UNCHANGED vars
  BY <1>1, <1>2 DEF vars, Still, worldVars, memoryVars, rowVars, ghostVars
<1>3. ASSUME NEW p \in Workers, Disabled(p) \/ Replied(p) \/ NoReply(p) \/ AnswerCloses(p)
                \/ \E m \in Messages : Receive(p, m)
      PROVE  OnceInv' /\ ToolInv'
  <2>1. Still
    BY <1>3 DEF Disabled, Replied, NoReply, AnswerCloses, Receive, Still, worldVars,
                memoryVars, ghostVars
  <2> QED BY <1>3, <2>1, QuietEnds, QuietOnce, QuietStill
<1>4. ASSUME NEW p \in Workers, Loop(p) PROVE OnceInv' /\ ToolInv'
  <2>1. CASE \/ AskModel(p) \/ RequestCommands(p) \/ Performed(p) \/ RequestAction(p) \/ Finish(p)
             \/ \E c \in {Docs, Web}, carries \in BOOLEAN : RequestLookup(p, c, carries)
    BY <2>1, QuietLoop, QuietOnce, QuietStill
  <2>2. CASE \/ LookupEnds(p) \/ PrepareFails(p) \/ Deliver(p) \/ RecordReply(p)
             \/ \E id \in Ids : Prepare(p, id)
    BY <2>2, QuietGateway, QuietOnce, OnceStays, GatewayTool
  <2> QED BY <1>3, <1>4, <2>1, <2>2 DEF Loop
<1>5. ASSUME NEW p \in Workers, Answer(p) PROVE OnceInv' /\ ToolInv'
  BY <1>3, <1>5, AnswerTool, QuietAnswer, QuietOnce, ResolveOnce, SubmitOnce DEF Answer
<1>6. ASSUME NEW p \in Workers,
             Start(p) \/ Crash(p) \/ CannotRefresh(p) \/ DeliveryFails(p) \/ ReplyFails(p)
      PROVE  OnceInv' /\ ToolInv'
  BY <1>6, QuietEnds, QuietOnce, ProcessTool DEF DeliveryFails, ReplyFails
<1>7. ASSUME NEW p \in Workers, LateAnswer(p) PROVE OnceInv' /\ ToolInv'
  BY <1>7, QuietGateway, QuietOnce, OnceStays, GatewayTool
<1>8. ASSUME NEW p \in Workers, GrowStale(p) \/ ReportedAsFailed(p) PROVE OnceInv' /\ ToolInv'
  BY <1>1, <1>8 DEF GrowStale, ReportedAsFailed, Still, worldVars, memoryVars, rowVars, ghostVars
<1>9. ASSUME NEW p \in Workers, NEW id \in Ids, Expire(p, id) PROVE OnceInv' /\ ToolInv'
  BY <1>1, <1>9 DEF Expire, Still, worldVars, rowVars, ghostVars
<1>10. ASSUME NEW m \in Messages, NEW id \in Ids, NEW yes \in BOOLEAN, Reply(m, id, yes)
       PROVE  OnceInv' /\ ToolInv'
  BY <1>1, <1>10 DEF Reply, Still, worldVars, memoryVars, rowVars, ghostVars
<1>11. ASSUME NEW c \in Consoles, EditConsole(c) PROVE OnceInv' /\ ToolInv'
  BY <1>1, <1>11 DEF EditConsole, Still, worldVars, memoryVars, rowVars
<1>12. ASSUME NEW id \in Ids, Age(id) PROVE OnceInv' /\ ToolInv'
  BY <1>1, <1>12 DEF Age, Still, worldVars, memoryVars, rowVars, ghostVars
<1>13. CASE Operate \/ Settle \/ ClaimsAge
  BY <1>1, <1>13 DEF Operate, Settle, ClaimsAge, Still, worldVars, memoryVars, rowVars, ghostVars
<1> QED BY <1>2, <1>4, <1>5, <1>6, <1>7, <1>8, <1>9, <1>10, <1>11, <1>12, <1>13, <1>3 DEF Next

(* A tool that writes is called only to submit an action that the principal *)
(* has approved in time, at most once for each action, whatever the pack    *)
(* declares, and an action is announced as executed only if it was          *)
(* submitted.                                                               *)
THEOREM SubmitsOnce == Spec => []SubmittedOnce
<1>1. OnceInv /\ ToolInv => SubmittedOnce
  BY DEF OnceInv, ToolInv, SubmittedOnce
<1>2. Init => JobsInv /\ OnceInv /\ ToolInv
  BY JobsInit, OnceInit
<1>3. (JobsInv /\ OnceInv /\ ToolInv) /\ [Next]_vars => (JobsInv /\ OnceInv /\ ToolInv)'
  BY JobsStep, OnceStep
<1> QED BY <1>1, <1>2, <1>3, PTL DEF Spec


-----------------------------------------------------------------------------
(* The two times: an action outlives the time in which its confirmation can *)
(* be answered, whichever timers run.                                       *)

FindsInv ==
  /\ pending \in [Workers -> SUBSET Ids]
  /\ age \in [Ids -> 0 .. PendingTTL]
  /\ status \in [Ids -> {"absent", "pending", "approved", "rejected", "expired"}]
  /\ maker \in [Ids -> Workers \cup {None}]
  /\ ApprovalFindsAction

LEMMA FindsStays ==
  ASSUME FindsInv, UNCHANGED <<pending, age, status, maker>> PROVE FindsInv'
  BY DEF FindsInv, ApprovalFindsAction

(* Rows that are not pending any more do no harm.                           *)
LEMMA FindsRows ==
  ASSUME FindsInv, UNCHANGED <<age, maker>>,
         status' \in [Ids -> {"absent", "pending", "approved", "rejected", "expired"}],
         pending' \in [Workers -> SUBSET Ids],
         \A id \in Ids : status'[id] = "pending" =>
           /\ status[id] = "pending"
           /\ \A p \in Workers :
                id \in pending[p] /\ age[id] < ConfirmationTTL => id \in pending'[p]
  PROVE  FindsInv'
  BY DEF FindsInv, ApprovalFindsAction

LEMMA FindsEnds ==
  ASSUME FindsInv, NEW p \in Workers, Ends(p) PROVE FindsInv'
<1>1. /\ \A id \in Ids : maker'[id] = IF maker[id] = p THEN None ELSE maker[id]
      /\ maker' \in [Ids -> Workers \cup {None}]
  BY DEF Ends, FindsInv
<1>2. /\ \A q \in Workers : q # p => pending'[q] = pending[q]
      /\ pending' \in [Workers -> SUBSET Ids]
  BY DEF Ends, FindsInv
<1>3. age' = age /\ status' = status
  BY DEF Ends, rowVars
<1>4. ApprovalFindsAction'
  BY <1>1, <1>2, <1>3, CapabilityAssumption DEF FindsInv, ApprovalFindsAction
<1> QED BY <1>1, <1>2, <1>3, <1>4 DEF FindsInv

LEMMA FindsPrepare ==
  ASSUME FindsInv, NEW p \in Workers, NEW id \in Ids, Prepare(p, id) PROVE FindsInv'
<1>1. /\ \A q \in Workers : pending'[q] =
           IF q = p THEN (pending[p] \ Overdue(p)) \cup {id} ELSE pending[q]
      /\ pending' \in [Workers -> SUBSET Ids]
  BY DEF Prepare, FindsInv
<1>2. /\ \A i \in Ids : maker'[i] = IF i = id THEN p ELSE maker[i]
      /\ maker' \in [Ids -> Workers \cup {None}]
  BY DEF Prepare, FindsInv
<1>3. /\ \A i \in Ids : status'[i] = IF i = id THEN "pending" ELSE status[i]
      /\ status' \in [Ids -> {"absent", "pending", "approved", "rejected", "expired"}]
      /\ age' = age
  BY DEF Prepare, FindsInv
<1>4. \A i \in Overdue(p) : ~(age[i] < ConfirmationTTL)
  BY DEF Overdue, FindsInv, PendingTTL, ConfirmationTTL
<1>5. ApprovalFindsAction'
  <2> SUFFICES ASSUME NEW i \in Ids, status'[i] = "pending", age'[i] < ConfirmationTTL,
                      maker'[i] # None
               PROVE  i \in pending'[maker'[i]]
    BY DEF ApprovalFindsAction
  <2>1. CASE i = id
    BY <1>1, <1>2, <2>1
  <2>2. CASE i # id
    <3>1. i \in pending[maker[i]] /\ maker[i] \in Workers /\ maker'[i] = maker[i]
      BY <1>2, <1>3, <2>2 DEF FindsInv, ApprovalFindsAction
    <3>2. i \notin Overdue(p)
      BY <1>3, <1>4
    <3> QED BY <1>1, <3>1, <3>2
  <2> QED BY <2>1, <2>2
<1> QED BY <1>1, <1>2, <1>3, <1>5 DEF FindsInv

LEMMA FindsTime ==
  ASSUME FindsInv,
         \/ \E id \in Ids : Age(id)
         \/ \E p \in Workers, id \in Ids : Expire(p, id)
  PROVE  FindsInv'
<1>1. ASSUME NEW id \in Ids, Age(id) PROVE FindsInv'
  <2>1. /\ age' \in [Ids -> 0 .. PendingTTL]
        /\ \A i \in Ids : age'[i] < ConfirmationTTL => age[i] < ConfirmationTTL
    BY <1>1 DEF Age, FindsInv, PendingTTL, ConfirmationTTL
  <2>2. UNCHANGED <<pending, status, maker>>
    BY <1>1 DEF Age, memoryVars, rowVars, ghostVars
  <2> QED BY <2>1, <2>2 DEF FindsInv, ApprovalFindsAction
<1>2. ASSUME NEW p \in Workers, NEW id \in Ids, Expire(p, id) PROVE FindsInv'
  <2>1. UNCHANGED <<age, maker, status>> /\ pending' = [pending EXCEPT ![p] = @ \ {id}]
    BY <1>2 DEF Expire, rowVars, ghostVars
  <2>2. ~(age[id] < ConfirmationTTL)
    BY <1>2 DEF Expire, Overdue, FindsInv, PendingTTL, ConfirmationTTL
  <2>3. /\ pending' \in [Workers -> SUBSET Ids]
        /\ \A q \in Workers : \A i \in pending[q] : i # id => i \in pending'[q]
    BY <2>1 DEF FindsInv
  <2>4. status' \in [Ids -> {"absent", "pending", "approved", "rejected", "expired"}]
    BY <2>1 DEF FindsInv
  <2> QED BY <2>1, <2>2, <2>3, <2>4, FindsRows
<1> QED BY <1>1, <1>2

LEMMA FindsAnswer ==
  ASSUME FindsInv, NEW p \in Workers, Start(p) \/ Resolve(p) \/ ResolveRefused(p)
  PROVE  FindsInv'
<1> DEFINE Statuses == {"absent", "pending", "approved", "rejected", "expired"}
<1>1. CASE Start(p)
  <2>1. /\ \A id \in Ids : status'[id] = "pending" => status[id] = "pending"
        /\ status' \in [Ids -> Statuses] /\ UNCHANGED <<age, maker, pending>>
    BY <1>1 DEF Start, FindsInv, ghostVars
  <2> QED BY <2>1, FindsRows DEF FindsInv
<1>2. CASE Resolve(p)
  <2> DEFINE id == Answered(p)
             yes == Approves(p)
  <2>1. /\ UNCHANGED <<age, maker>>
        /\ status' = [status EXCEPT ![id] = IF yes THEN "approved" ELSE "rejected"]
        /\ pending' = [pending EXCEPT ![p] = @ \ {id}]
    BY <1>2 DEF Resolve, ghostVars
  <2> HIDE DEF id, yes
  <2>2. /\ \A i \in Ids : status'[i] = "pending" => status[i] = "pending" /\ i # id
        /\ status' \in [Ids -> Statuses]
    BY <2>1 DEF FindsInv
  <2>3. /\ pending' \in [Workers -> SUBSET Ids]
        /\ \A q \in Workers : \A i \in pending[q] : i # id => i \in pending'[q]
    BY <2>1 DEF FindsInv
  <2> QED BY <2>1, <2>2, <2>3, FindsRows
<1>3. CASE ResolveRefused(p)
  <2>1. /\ \A id \in Ids : status'[id] = "pending" => status[id] = "pending"
        /\ status' \in [Ids -> Statuses] /\ UNCHANGED <<age, maker, pending>>
    BY <1>3 DEF ResolveRefused, Open, FindsInv, ghostVars, memoryVars
  <2> QED BY <2>1, FindsRows DEF FindsInv
<1> QED BY <1>1, <1>2, <1>3

LEMMA FindsStep == FindsInv /\ [Next]_vars => FindsInv'
<1> SUFFICES ASSUME FindsInv, [Next]_vars PROVE FindsInv'
  OBVIOUS
<1> USE DEF memoryVars, rowVars, ghostVars
<1>1. CASE UNCHANGED vars
  BY <1>1, FindsStays DEF vars
<1>2. ASSUME NEW p \in Workers, Crash(p) \/ Throws(p) \/ CannotRefresh(p) PROVE FindsInv'
  BY <1>2, FindsEnds DEF Crash, Throws, CannotRefresh
<1>3. ASSUME NEW p \in Workers, Disabled(p) \/ Replied(p) \/ NoReply(p) \/ AnswerCloses(p)
      PROVE  FindsInv'
  BY <1>3, FindsStays DEF Disabled, Replied, NoReply, AnswerCloses
<1>4. ASSUME NEW p \in Workers, NEW j, Local(p, j) PROVE FindsInv'
  BY <1>4, FindsStays DEF Local
<1>5. ASSUME NEW p \in Workers, Loop(p) PROVE FindsInv'
  <2>1. CASE AskModel(p) \/ RequestCommands(p) \/ Performed(p) \/ RequestAction(p) \/ Finish(p)
    BY <1>4, <2>1 DEF AskModel, RequestCommands, Performed, RequestAction, Finish
  <2>2. ASSUME NEW c \in {Docs, Web}, NEW carries \in BOOLEAN, RequestLookup(p, c, carries)
        PROVE  FindsInv'
    BY <1>4, <2>2 DEF RequestLookup
  <2>3. CASE LookupEnds(p) \/ PrepareFails(p) \/ Deliver(p) \/ RecordReply(p)
    BY <2>3, FindsStays DEF LookupEnds, PrepareFails, Deliver, RecordReply
  <2> QED BY <1>3, <1>5, <2>1, <2>2, <2>3, FindsPrepare DEF Loop
<1>6. ASSUME NEW p \in Workers, Answer(p) PROVE FindsInv'
  <2>1. CASE Submit(p) \/ SubmitFails(p) \/ Tell(p)
    BY <2>1, FindsStays DEF Submit, SubmitFails, Tell
  <2> QED BY <1>3, <1>6, <2>1, FindsAnswer DEF Answer
<1>7. ASSUME NEW p \in Workers, NEW m \in Messages, Receive(p, m) PROVE FindsInv'
  BY <1>7, FindsStays DEF Receive
<1>8. ASSUME NEW p \in Workers, LateAnswer(p) \/ ReportedAsFailed(p) \/ GrowStale(p)
      PROVE  FindsInv'
  BY <1>8, FindsStays DEF LateAnswer, ReportedAsFailed, GrowStale
<1>9. ASSUME NEW p \in Workers, DeliveryFails(p) \/ ReplyFails(p) PROVE FindsInv'
  BY <1>2, <1>9 DEF DeliveryFails, ReplyFails
<1>10. ASSUME NEW m \in Messages, NEW id \in Ids, NEW yes \in BOOLEAN, Reply(m, id, yes)
       PROVE  FindsInv'
  BY <1>10, FindsStays DEF Reply
<1>11. ASSUME NEW c \in Consoles, EditConsole(c) PROVE FindsInv'
  BY <1>11, FindsStays DEF EditConsole
<1>12. CASE Operate \/ Settle \/ ClaimsAge
  BY <1>12, FindsStays DEF Operate, Settle, ClaimsAge
<1> QED BY <1>1, <1>2, <1>5, <1>6, <1>7, <1>8, <1>9, <1>10, <1>11, <1>12,
           FindsAnswer, FindsTime DEF Next

LEMMA FindsInit == Init => FindsInv
  BY DEF Init, FindsInv, ApprovalFindsAction, PendingTTL

(* A confirmation that can still be accepted finds its prepared action in   *)
(* the memory of the process that prepared it, for as long as that process  *)
(* lives: neither the timer of an action nor the sweep that precedes each   *)
(* preparation takes it away before.                                        *)
THEOREM ApprovalsFindActions == Spec => []ApprovalFindsAction
<1>1. FindsInv => ApprovalFindsAction
  BY DEF FindsInv
<1> QED BY <1>1, FindsInit, FindsStep, PTL DEF Spec

-----------------------------------------------------------------------------
(* The rest of the types: the place of each process in the handling.        *)

(* The stages of the loop, in which the message is not an answer.           *)
AskStages ==
  {"deciding", "looking", "performing", "preparing", "asking", "closing", "replying"}

(* What no process rests on.                                                *)
SmallTyped ==
  /\ claim \in [Events -> {"free", "held", "lapsed", "complete"}]
  /\ login \in BOOLEAN /\ stray \in BOOLEAN
  /\ late \subseteq Workers /\ shown \subseteq Ids /\ retry \subseteq Asks
  /\ incidents \in 0 .. MaxIncidents

PlacesInv ==
  /\ SmallTyped
  /\ \A p \in Workers :
       /\ job[p].rounds <= MaxRounds
       /\ handles[p] = NoEvent <=> job[p].stage \in {"idle", "down"}
       /\ job[p].stage = "down" => pending[p] = {} /\ p \notin fresh
       /\ job[p].stage = "asking" => job[p].id \in Ids
       /\ job[p].stage \in AskStages => handles[p] \in Asks

(* What a step needs that moves the job of p, and whatever else.            *)
LEMMA PlaceOne ==
  ASSUME JobsInv, PlacesInv, SmallTyped', NEW p \in Workers, NEW j, Go(p, j),
         j.rounds <= MaxRounds,
         \A q \in Workers \ {p} :
           /\ handles'[q] = handles[q] /\ pending'[q] = pending[q]
           /\ q \in fresh' => q \in fresh,
         handles'[p] = NoEvent <=> j.stage \in {"idle", "down"},
         j.stage = "down" => pending'[p] = {} /\ p \notin fresh',
         j.stage = "asking" => j.id \in Ids,
         j.stage \in AskStages => handles'[p] \in Asks
  PROVE  PlacesInv'
<1>1. \A q \in Workers : job'[q] = IF q = p THEN j ELSE job[q]
  BY DEF Go, JobsInv
<1> SUFFICES ASSUME NEW q \in Workers
             PROVE  /\ job'[q].rounds <= MaxRounds
                    /\ handles'[q] = NoEvent <=> job'[q].stage \in {"idle", "down"}
                    /\ job'[q].stage = "down" => pending'[q] = {} /\ q \notin fresh'
                    /\ job'[q].stage = "asking" => job'[q].id \in Ids
                    /\ job'[q].stage \in AskStages => handles'[q] \in Asks
  BY DEF PlacesInv
<1>2. CASE q = p
  BY <1>1, <1>2
<1>3. CASE q # p
  BY <1>1, <1>3 DEF PlacesInv
<1> QED BY <1>2, <1>3

LEMMA CallsTyped ==
  ASSUME NEW tools, Calls(tools) PROVE stray' \in BOOLEAN
  BY DEF Calls

LEMMA PlacesStay ==
  ASSUME PlacesInv, SmallTyped', UNCHANGED <<job, handles>>,
         \A p \in Workers : pending'[p] \subseteq pending[p] /\ (p \in fresh' => p \in fresh)
  PROVE  PlacesInv'
<1> SUFFICES ASSUME NEW p \in Workers
             PROVE  /\ job'[p].rounds <= MaxRounds
                    /\ handles'[p] = NoEvent <=> job'[p].stage \in {"idle", "down"}
                    /\ job'[p].stage = "down" => pending'[p] = {} /\ p \notin fresh'
                    /\ job'[p].stage = "asking" => job'[p].id \in Ids
                    /\ job'[p].stage \in AskStages => handles'[p] \in Asks
  BY DEF PlacesInv
<1> QED BY DEF PlacesInv

(* A step from one stage of the handling to another.                        *)
Onward(p, j) ==
  /\ Go(p, j) /\ j.rounds <= MaxRounds
  /\ {job[p].stage, j.stage} \cap {"idle", "down"} = {}
  /\ j.stage = "asking" => j.id \in Ids
  /\ j.stage \in AskStages => job[p].stage \in AskStages \/ handles[p] \in Asks

LEMMA PlaceOnward ==
  ASSUME JobsInv, PlacesInv, SmallTyped', NEW p \in Workers, NEW j, Onward(p, j),
         UNCHANGED <<handles, fresh>>,
         \A q \in Workers \ {p} : pending'[q] = pending[q]
  PROVE  PlacesInv'
<1>1. handles'[p] = NoEvent <=> j.stage \in {"idle", "down"}
  BY DEF PlacesInv, Onward
<1>2. j.stage \in AskStages => handles'[p] \in Asks
  BY DEF PlacesInv, Onward
<1> QED BY <1>1, <1>2, PlaceOne DEF Onward

LEMMA PlaceLocal ==
  ASSUME JobsInv, PlacesInv, NEW p \in Workers, NEW j, Local(p, j), Onward(p, j)
  PROVE  PlacesInv'
<1>1. SmallTyped' /\ UNCHANGED <<handles, fresh, pending>>
  BY DEF Local, PlacesInv, SmallTyped, claimVars, consoleVars, worldVars, memoryVars, rowVars,
         principalVars, ghostVars
<1> QED BY <1>1, PlaceOnward

LEMMA RoundsOK ==
  ASSUME JobsInv, PlacesInv, NEW p \in Workers
  PROVE  /\ job[p] \in Jobs /\ job[p].rounds \in Nat /\ job[p].rounds <= MaxRounds
         /\ MayRequest(p) => job[p].rounds + 1 <= MaxRounds
  BY CapabilityAssumption DEF JobsInv, PlacesInv, Jobs, MayRequest

LEMMA PlaceLoop ==
  ASSUME JobsInv, PlacesInv, NEW p \in Workers,
         \/ AskModel(p) \/ RequestCommands(p) \/ Performed(p) \/ RequestAction(p) \/ Finish(p)
         \/ \E c \in {Docs, Web}, carries \in BOOLEAN : RequestLookup(p, c, carries)
  PROVE  PlacesInv'
<1>1. /\ job[p] \in Jobs /\ job[p].rounds \in Nat /\ job[p].rounds <= MaxRounds
      /\ MayRequest(p) => job[p].rounds + 1 <= MaxRounds
  BY RoundsOK
<1>2. CASE AskModel(p)
  <2> DEFINE j == [job[p] EXCEPT !.stage = "deciding", !.draft = frozen,
                                 !.informed = job[p].looked # "none"]
  <2>1. Local(p, j) /\ In(p, "claimed") /\ handles[p] \in Asks
    BY <1>2 DEF AskModel
  <2>2. j.stage = "deciding" /\ j.rounds = job[p].rounds
    BY <1>1 DEF Jobs
  <2> HIDE DEF j
  <2>3. Onward(p, j)
    BY <1>1, <2>1, <2>2 DEF Onward, Local, In
  <2> QED BY <2>1, <2>3, PlaceLocal
<1>3. CASE RequestCommands(p)
  <2> DEFINE j == [job[p] EXCEPT !.stage = "performing", !.rounds = @ + 1]
  <2>1. Local(p, j) /\ In(p, "deciding") /\ MayRequest(p)
    BY <1>3 DEF RequestCommands
  <2>2. j.stage = "performing" /\ j.rounds = job[p].rounds + 1
    BY <1>1 DEF Jobs
  <2> HIDE DEF j
  <2>3. Onward(p, j)
    BY <1>1, <2>1, <2>2 DEF Onward, Local, In, AskStages
  <2> QED BY <2>1, <2>3, PlaceLocal
<1>4. CASE Performed(p)
  <2> DEFINE j == [job[p] EXCEPT !.stage = "claimed", !.carries = FALSE]
  <2>1. Local(p, j) /\ In(p, "performing")
    BY <1>4 DEF Performed
  <2>2. j.stage = "claimed" /\ j.rounds = job[p].rounds
    BY <1>1 DEF Jobs
  <2> HIDE DEF j
  <2>3. Onward(p, j)
    BY <1>1, <2>1, <2>2 DEF Onward, Local, In, AskStages
  <2> QED BY <2>1, <2>3, PlaceLocal
<1>5. CASE Finish(p)
  <2> DEFINE j == [job[p] EXCEPT !.stage = "closing"]
  <2>1. Local(p, j) /\ In(p, "deciding")
    BY <1>5 DEF Finish
  <2>2. j.stage = "closing" /\ j.rounds = job[p].rounds
    BY <1>1 DEF Jobs
  <2> HIDE DEF j
  <2>3. Onward(p, j)
    BY <1>1, <2>1, <2>2 DEF Onward, Local, In, AskStages
  <2> QED BY <2>1, <2>3, PlaceLocal
<1>6. ASSUME NEW j, Local(p, j), In(p, "deciding"), j.rounds <= MaxRounds,
             j.stage \in {"claimed", "looking", "preparing"}
      PROVE  PlacesInv'
  <2>1. Onward(p, j)
    BY <1>6 DEF Onward, Local, In, AskStages
  <2> QED BY <1>6, <2>1, PlaceLocal
<1>7. ASSUME NEW c, MayRequest(p)
      PROVE  Requests(p, c).rounds <= MaxRounds /\ Denied(Requests(p, c)).rounds <= MaxRounds
             /\ Denied(Requests(p, c)).stage = "claimed"
  <2>1. Requests(p, c).rounds = job[p].rounds + 1
    BY <1>1 DEF Requests, Jobs
  <2>2. Denied(Requests(p, c)).rounds = Requests(p, c).rounds
    BY <1>1 DEF Denied, Requests, Jobs
  <2>3. Denied(Requests(p, c)).stage = "claimed"
    BY <1>1 DEF Denied, Requests, Jobs
  <2> QED BY <1>1, <1>7, <2>1, <2>2, <2>3
<1>8. CASE RequestAction(p)
  <2> DEFINE j == [Requests(p, Order) EXCEPT !.stage = "preparing",
                                             !.zones = @ \cup {"internal"}]
  <2>1. In(p, "deciding") /\ MayRequest(p)
    BY <1>8 DEF RequestAction
  <2>2. Local(p, j) \/ Local(p, Denied(Requests(p, Order)))
    BY <1>8 DEF RequestAction
  <2>3. j.stage = "preparing" /\ j.rounds = Requests(p, Order).rounds
    BY <1>1 DEF Jobs, Requests
  <2> HIDE DEF j
  <2> QED BY <1>6, <1>7, <2>1, <2>2, <2>3
<1>9. ASSUME NEW c \in {Docs, Web}, NEW carries \in BOOLEAN, RequestLookup(p, c, carries)
      PROVE  PlacesInv'
  <2> DEFINE j == [Requests(p, c) EXCEPT !.stage = "looking", !.carries = carries,
                                         !.zones = @ \cup {Zone(c)}]
  <2>1. In(p, "deciding") /\ MayRequest(p)
    BY <1>9 DEF RequestLookup
  <2>2. Local(p, j) \/ Local(p, Denied(Requests(p, c)))
    BY <1>9 DEF RequestLookup
  <2>3. j.stage = "looking" /\ j.rounds = Requests(p, c).rounds
    BY <1>1 DEF Jobs, Requests
  <2> HIDE DEF j
  <2> QED BY <1>6, <1>7, <2>1, <2>2, <2>3
<1> QED BY <1>2, <1>3, <1>4, <1>5, <1>8, <1>9

LEMMA PlaceGateway ==
  ASSUME JobsInv, FindsInv, PlacesInv, NEW p \in Workers,
         \/ LookupEnds(p) \/ LateAnswer(p) \/ PrepareFails(p) \/ Deliver(p) \/ RecordReply(p)
         \/ \E id \in Ids : Prepare(p, id)
  PROVE  PlacesInv'
<1> USE DEF claimVars, consoleVars, worldVars, memoryVars, rowVars, principalVars, ghostVars
<1>1. job[p] \in Jobs /\ job[p].rounds <= MaxRounds
  BY RoundsOK
<1>2. Denied(job[p]).stage = "claimed" /\ Denied(job[p]).rounds = job[p].rounds
  BY <1>1 DEF Denied, Jobs
<1>3. CASE LookupEnds(p)
  <2>1. /\ In(p, "looking") /\ UNCHANGED <<handles, fresh, pending>>
        /\ late' \subseteq Workers
    BY <1>3, CallsTyped DEF LookupEnds, PlacesInv, SmallTyped
  <2>2. SmallTyped'
    BY <1>3, <2>1, CallsTyped DEF LookupEnds, PlacesInv, SmallTyped
  <2>3. Found(p).stage \in {"claimed", "performing"} /\ Found(p).rounds = job[p].rounds
    BY <1>1 DEF Found, Jobs
  <2>4. Go(p, Found(p)) \/ Go(p, Denied(job[p]))
    BY <1>3 DEF LookupEnds
  <2>5. Onward(p, Found(p)) \/ Onward(p, Denied(job[p]))
    BY <1>1, <1>2, <2>1, <2>3, <2>4 DEF Onward, In, AskStages
  <2> QED BY <2>1, <2>2, <2>5, PlaceOnward
<1>4. CASE LateAnswer(p)
  <2>1. UNCHANGED <<job, handles, fresh, pending>> /\ late' = late \ {p}
    BY <1>4 DEF LateAnswer, AfterLateAnswer, Go, JobsInv
  <2>2. SmallTyped'
    BY <1>4, <2>1 DEF LateAnswer, PlacesInv, SmallTyped
  <2> QED BY <2>1, <2>2, PlacesStay
<1>5. CASE PrepareFails(p)
  <2>1. /\ In(p, "preparing") /\ UNCHANGED <<handles, fresh, pending>> /\ SmallTyped'
        /\ Go(p, Denied(job[p]))
    BY <1>5, CallsTyped DEF PrepareFails, PlacesInv, SmallTyped
  <2>2. Onward(p, Denied(job[p]))
    BY <1>1, <1>2, <2>1 DEF Onward, In, AskStages
  <2> QED BY <2>1, <2>2, PlaceOnward
<1>6. ASSUME NEW id \in Ids, Prepare(p, id) PROVE PlacesInv'
  <2> DEFINE j == [job[p] EXCEPT !.stage = "asking", !.id = id]
  <2>1. /\ In(p, "preparing") /\ UNCHANGED <<handles, fresh>> /\ SmallTyped' /\ Go(p, j)
        /\ pending' = [pending EXCEPT ![p] = (@ \ Overdue(p)) \cup {id}]
    BY <1>6, CallsTyped DEF Prepare, PlacesInv, SmallTyped
  <2>2. j.stage = "asking" /\ j.id = id /\ j.rounds = job[p].rounds
    BY <1>1 DEF Jobs
  <2> HIDE DEF j
  <2>3. Onward(p, j)
    BY <1>1, <2>1, <2>2 DEF Onward, In, AskStages
  <2>4. \A q \in Workers \ {p} : pending'[q] = pending[q]
    BY <2>1 DEF FindsInv
  <2> QED BY <2>1, <2>3, <2>4, PlaceOnward
<1>7. CASE Deliver(p)
  <2> DEFINE j == [job[p] EXCEPT !.stage = "closing"]
  <2>1. /\ In(p, "asking") /\ UNCHANGED <<handles, fresh, pending>> /\ Go(p, j)
        /\ shown' = shown \cup {job[p].id}
    BY <1>7 DEF Deliver, To
  <2>2. job[p].id \in Ids
    BY <2>1 DEF PlacesInv, In
  <2>3. SmallTyped'
    BY <1>7, <2>1, <2>2 DEF Deliver, PlacesInv, SmallTyped
  <2>4. j.stage = "closing" /\ j.rounds = job[p].rounds
    BY <1>1 DEF Jobs
  <2> HIDE DEF j
  <2>5. Onward(p, j)
    BY <1>1, <2>1, <2>4 DEF Onward, In, AskStages
  <2> QED BY <2>1, <2>3, <2>5, PlaceOnward
<1>8. CASE RecordReply(p)
  <2> DEFINE j == [job[p] EXCEPT !.stage = "replying"]
  <2>1. /\ In(p, "closing") /\ UNCHANGED <<handles, fresh, pending>> /\ Go(p, j)
        /\ retry' = retry \cup {handles[p]}
    BY <1>8 DEF RecordReply, To
  <2>2. handles[p] \in Asks
    BY <2>1 DEF PlacesInv, In, AskStages
  <2>3. SmallTyped'
    BY <1>8, <2>1, <2>2 DEF RecordReply, PlacesInv, SmallTyped
  <2>4. j.stage = "replying" /\ j.rounds = job[p].rounds
    BY <1>1 DEF Jobs
  <2> HIDE DEF j
  <2>5. Onward(p, j)
    BY <1>1, <2>1, <2>4 DEF Onward, In, AskStages
  <2> QED BY <2>1, <2>3, <2>5, PlaceOnward
<1> QED BY <1>3, <1>4, <1>5, <1>6, <1>7, <1>8

LEMMA PlaceAnswer ==
  ASSUME JobsInv, FindsInv, PlacesInv, NEW p \in Workers,
         Resolve(p) \/ ResolveRefused(p) \/ Submit(p) \/ SubmitFails(p) \/ Tell(p)
  PROVE  PlacesInv'
<1> USE DEF claimVars, consoleVars, worldVars, memoryVars, rowVars, principalVars, ghostVars
<1>1. job[p] \in Jobs /\ job[p].rounds <= MaxRounds
  BY RoundsOK
<1>2. ASSUME NEW j, Go(p, j), j.rounds = job[p].rounds, SmallTyped',
             UNCHANGED <<handles, fresh>>, \A q \in Workers \ {p} : pending'[q] = pending[q],
             j.stage \in {"finishing", "telling", "submitting"},
             job[p].stage \notin {"idle", "down"}
      PROVE  PlacesInv'
  <2>1. Onward(p, j)
    BY <1>1, <1>2 DEF Onward, AskStages
  <2> QED BY <1>2, <2>1, PlaceOnward
<1>3. CASE Resolve(p)
  <2> DEFINE stage == AfterAnswer(p, Answered(p))
             id == Answered(p)
             j == [job[p] EXCEPT !.stage = stage, !.id = id]
  <2>1. /\ In(p, "claimed") /\ UNCHANGED <<handles, fresh>> /\ Go(p, j) /\ SmallTyped'
        /\ pending' = [pending EXCEPT ![p] = @ \ {id}]
    BY <1>3 DEF Resolve, AnswerReadable, PlacesInv, SmallTyped
  <2>2. j.stage = stage /\ j.rounds = job[p].rounds
    BY <1>1 DEF Jobs
  <2>3. stage \in {"submitting", "finishing", "telling"}
    BY DEF AfterAnswer
  <2> HIDE DEF j, stage, id
  <2>4. \A q \in Workers \ {p} : pending'[q] = pending[q]
    BY <2>1 DEF FindsInv
  <2> QED BY <1>2, <2>1, <2>2, <2>3, <2>4 DEF In
<1>4. CASE ResolveRefused(p) \/ Tell(p) \/ SubmitFails(p)
  <2>1. /\ UNCHANGED <<handles, fresh, pending>> /\ SmallTyped'
        /\ In(p, "claimed") \/ In(p, "telling") \/ In(p, "submitting")
        /\ \E s \in {"telling", "finishing"} : Go(p, [job[p] EXCEPT !.stage = s])
    BY <1>4, CallsTyped DEF ResolveRefused, AnswerReadable, Tell, SubmitFails, To, PlacesInv,
                            SmallTyped
  <2>2. PICK s \in {"telling", "finishing"} : Go(p, [job[p] EXCEPT !.stage = s])
    BY <2>1
  <2>3. /\ [job[p] EXCEPT !.stage = s].stage = s
        /\ [job[p] EXCEPT !.stage = s].rounds = job[p].rounds
    BY <1>1 DEF Jobs
  <2> QED BY <1>2, <2>1, <2>2, <2>3 DEF In
<1>5. CASE Submit(p)
  <2>1. PICK ok \in BOOLEAN : Go(p, [job[p] EXCEPT !.stage = "telling", !.done = ok])
    BY <1>5 DEF Submit
  <2>2. In(p, "submitting") /\ UNCHANGED <<handles, fresh, pending>> /\ SmallTyped'
    BY <1>5, CallsTyped DEF Submit, PlacesInv, SmallTyped
  <2> DEFINE j == [job[p] EXCEPT !.stage = "telling", !.done = ok]
  <2>3. j.stage = "telling" /\ j.rounds = job[p].rounds
    BY <1>1 DEF Jobs
  <2> QED BY <1>2, <2>1, <2>2, <2>3 DEF In
<1> QED BY <1>3, <1>4, <1>5

(* The messages are claimed and left.                                       *)
LEMMA ClosedTyped ==
  ASSUME SmallTyped, NEW e, NEW end \in {"free", "complete"}
  PROVE  Closed(e, end) \in [Events -> {"free", "held", "lapsed", "complete"}]
  BY DEF SmallTyped, Closed

LEMMA IncidentTyped ==
  ASSUME PlacesInv, Incident PROVE incidents' \in 0 .. MaxIncidents
<1>1. incidents \in 0 .. MaxIncidents /\ MaxIncidents \in Nat
  BY CapabilityAssumption DEF PlacesInv, SmallTyped
<1> QED BY <1>1 DEF Incident

LEMMA FreshStart ==
  /\ Fresh.stage = "idle" /\ Fresh.rounds <= MaxRounds
  /\ LET j == [Fresh EXCEPT !.stage = "down"] IN j.stage = "down" /\ j.rounds <= MaxRounds
  BY CapabilityAssumption DEF Fresh

LEMMA LeftBy ==
  ASSUME JobsInv, NEW p \in Workers, Leave(p)
  PROVE  handles'[p] = NoEvent /\ \A q \in Workers \ {p} : handles'[q] = handles[q]
  BY DEF Leave, JobsInv, HandlesOK

LEMMA PlaceCloses ==
  ASSUME JobsInv, PlacesInv, NEW p \in Workers,
         Disabled(p) \/ Replied(p) \/ NoReply(p) \/ AnswerCloses(p)
  PROVE  PlacesInv'
<1>1. /\ Complete(p) /\ Go(p, Fresh) /\ UNCHANGED <<fresh, pending>>
      /\ UNCHANGED <<login, stray, late, shown, incidents>> /\ retry' \subseteq retry
  BY DEF Disabled, Replied, NoReply, AnswerCloses, Closes, consoleVars, worldVars, memoryVars,
         rowVars, principalVars, ghostVars
<1>2. SmallTyped'
  <2>1. SmallTyped
    BY DEF PlacesInv
  <2>2. \E end \in {"free", "complete"} : claim' = Closed(handles[p], end)
    BY <1>1 DEF Complete
  <2>3. claim' \in [Events -> {"free", "held", "lapsed", "complete"}]
    BY <2>1, <2>2, ClosedTyped
  <2> QED BY <1>1, <2>1, <2>3 DEF SmallTyped
<1>3. handles'[p] = NoEvent /\ \A q \in Workers \ {p} : handles'[q] = handles[q]
  BY <1>1, LeftBy DEF Complete
<1> QED BY <1>1, <1>2, <1>3, FreshStart, PlaceOne DEF AskStages

LEMMA PlaceEnds ==
  ASSUME JobsInv, FindsInv, PlacesInv, NEW p \in Workers,
         Crash(p) \/ Throws(p) \/ CannotRefresh(p)
  PROVE  PlacesInv'
<1> DEFINE j == [Fresh EXCEPT !.stage = "down"]
<1>1. /\ Go(p, j) /\ pending' = [pending EXCEPT ![p] = {}] /\ fresh' = fresh \ {p}
      /\ UNCHANGED <<login, stray, shown, retry>> /\ late' = late \ {p}
  BY DEF Crash, Throws, CannotRefresh, Ends, Forget, worldVars, rowVars, principalVars, ghostVars
<1>2. j.stage = "down" /\ j.rounds <= MaxRounds
  BY FreshStart
<1> HIDE DEF j
<1>3. SmallTyped
  BY DEF PlacesInv
<1>4. /\ handles'[p] = NoEvent /\ \A q \in Workers \ {p} : handles'[q] = handles[q]
      /\ claim' \in [Events -> {"free", "held", "lapsed", "complete"}]
  <2>1. CASE Leave(p) /\ (claim' = claim \/ claim' = Closed(handles[p], "free"))
    BY <1>3, <2>1, LeftBy, ClosedTyped DEF SmallTyped
  <2>2. CASE handles[p] = NoEvent /\ UNCHANGED claimVars
    BY <1>3, <2>2 DEF claimVars, SmallTyped
  <2>3. CASE CannotRefresh(p)
    <3>1. handles[p] = NoEvent
      BY <2>3 DEF CannotRefresh, In, PlacesInv
    <3> QED BY <2>2, <2>3, <3>1 DEF CannotRefresh, claimVars
  <2>4. CASE Crash(p)
    BY <2>1, <2>2, <2>4 DEF Crash, Abandon
  <2>5. CASE Throws(p)
    BY <2>1, <2>5 DEF Throws, Release
  <2> QED BY <2>3, <2>4, <2>5
<1>5. incidents' \in 0 .. MaxIncidents
  BY <1>3, IncidentTyped DEF Crash, Throws, CannotRefresh, SmallTyped
<1>6. SmallTyped'
  BY <1>1, <1>3, <1>4, <1>5 DEF SmallTyped
<1>7. pending'[p] = {} /\ \A q \in Workers \ {p} : pending'[q] = pending[q]
  BY <1>1 DEF FindsInv
<1> QED BY <1>1, <1>2, <1>4, <1>6, <1>7, PlaceOne DEF AskStages

LEMMA PlaceStart ==
  ASSUME JobsInv, PlacesInv, NEW p \in Workers, Start(p) PROVE PlacesInv'
<1> DEFINE j == [job[p] EXCEPT !.stage = "idle"]
<1>1. job[p] \in Jobs /\ job[p].rounds <= MaxRounds
  BY RoundsOK
<1>2. j.stage = "idle" /\ j.rounds <= MaxRounds
  BY <1>1 DEF Jobs
<1>3. /\ Go(p, j) /\ fresh' = fresh \cup {p} /\ In(p, "down")
      /\ UNCHANGED <<claim, handles, login, stray, pending, late, shown, retry, incidents>>
  BY DEF Start, To, Keep, claimVars, worldVars, principalVars, ghostVars
<1> HIDE DEF j
<1>4. SmallTyped'
  BY <1>3 DEF PlacesInv, SmallTyped
<1>5. handles'[p] = NoEvent
  BY <1>3 DEF PlacesInv, In
<1> QED BY <1>2, <1>3, <1>4, <1>5, PlaceOne DEF AskStages

LEMMA PlaceReceive ==
  ASSUME JobsInv, PlacesInv, NEW p \in Workers, NEW m \in Messages, Receive(p, m)
  PROVE  PlacesInv'
<1> DEFINE on == Refreshed(p).on
           caps == Refreshed(p).caps
           j == [Fresh EXCEPT !.stage = "claimed", !.on = on, !.caps = caps, !.barred = settled]
<1>1. j.stage = "claimed" /\ j.rounds <= MaxRounds
  BY CapabilityAssumption DEF Fresh
<1>2. /\ Go(p, j) /\ fresh' = fresh \cup {p} /\ Take(p, m)
      /\ UNCHANGED <<login, stray, pending, late, shown, retry, incidents>>
  BY DEF Receive, Keep, worldVars, memoryVars, rowVars, principalVars, ghostVars
<1> HIDE DEF j
<1>3. m \in Events /\ m # NoEvent
  BY ClaimAssumption DEF Events
<1>4. claim' \in [Events -> {"free", "held", "lapsed", "complete"}]
  BY <1>2, <1>3 DEF Take, PlacesInv, SmallTyped
<1>5. SmallTyped'
  BY <1>2, <1>4 DEF PlacesInv, SmallTyped
<1>6. handles'[p] = m /\ \A q \in Workers \ {p} : handles'[q] = handles[q]
  BY <1>2 DEF Take, JobsInv, HandlesOK
<1> QED BY <1>1, <1>2, <1>3, <1>5, <1>6, PlaceOne DEF AskStages

LEMMA PlaceOthers ==
  ASSUME JobsInv, FindsInv, PlacesInv,
         \/ \E p \in Workers : GrowStale(p) \/ ReportedAsFailed(p)
         \/ \E p \in Workers, id \in Ids : Expire(p, id)
         \/ \E m \in Messages, id \in Ids, yes \in BOOLEAN : Reply(m, id, yes)
         \/ \E c \in Consoles : EditConsole(c)
         \/ \E id \in Ids : Age(id)
         \/ Operate \/ Settle \/ ClaimsAge
  PROVE  PlacesInv'
<1> USE DEF claimVars, consoleVars, worldVars, memoryVars, rowVars, principalVars, ghostVars
<1>1. SmallTyped
  BY DEF PlacesInv
<1>2. ASSUME NEW p \in Workers, ReportedAsFailed(p) PROVE PlacesInv'
  <2>1. UNCHANGED <<job, handles, fresh, pending>> /\ shown' = shown \cup {job[p].id}
    BY <1>2 DEF ReportedAsFailed
  <2>2. job[p].id \in Ids
    BY <1>2 DEF ReportedAsFailed, In, PlacesInv
  <2>3. SmallTyped'
    BY <1>1, <1>2, <2>1, <2>2 DEF ReportedAsFailed, SmallTyped
  <2> QED BY <2>1, <2>3, PlacesStay
<1>3. ASSUME NEW p \in Workers, GrowStale(p) PROVE PlacesInv'
  <2>1. UNCHANGED <<job, handles, pending>> /\ fresh' = fresh \ {p}
    BY <1>3 DEF GrowStale, GrowsStale
  <2>2. SmallTyped'
    BY <1>1, <1>3 DEF GrowStale, SmallTyped
  <2> QED BY <2>1, <2>2, PlacesStay
<1>4. ASSUME NEW p \in Workers, NEW id \in Ids, Expire(p, id) PROVE PlacesInv'
  <2>1. UNCHANGED <<job, handles, fresh>> /\ pending' = [pending EXCEPT ![p] = @ \ {id}]
    BY <1>4 DEF Expire
  <2>2. SmallTyped'
    BY <1>1, <1>4 DEF Expire, SmallTyped
  <2>3. \A q \in Workers : pending'[q] \subseteq pending[q]
    BY <2>1 DEF FindsInv
  <2> QED BY <2>1, <2>2, <2>3, PlacesStay
<1>5. ASSUME NEW m \in Messages, NEW id \in Ids, NEW yes \in BOOLEAN, Reply(m, id, yes)
      PROVE  PlacesInv'
  <2>1. UNCHANGED <<job, handles, fresh, pending>> /\ SmallTyped'
    BY <1>1, <1>5 DEF Reply, SmallTyped
  <2> QED BY <2>1, PlacesStay
<1>6. ASSUME NEW c \in Consoles, EditConsole(c) PROVE PlacesInv'
  <2>1. UNCHANGED <<job, handles, fresh, pending>>
    BY <1>6 DEF EditConsole, Edit
  <2>2. incidents' \in 0 .. MaxIncidents
    BY <1>6, IncidentTyped DEF EditConsole
  <2>3. SmallTyped'
    BY <1>1, <1>6, <2>2 DEF EditConsole, SmallTyped
  <2> QED BY <2>1, <2>3, PlacesStay
<1>7. ASSUME NEW id \in Ids, Age(id) PROVE PlacesInv'
  <2>1. UNCHANGED <<job, handles, fresh, pending>> /\ SmallTyped'
    BY <1>1, <1>7 DEF Age, SmallTyped
  <2> QED BY <2>1, PlacesStay
<1>8. CASE Operate
  <2>1. UNCHANGED <<job, handles, fresh, pending>>
    BY <1>8 DEF Operate
  <2>2. incidents' \in 0 .. MaxIncidents
    BY <1>8, IncidentTyped DEF Operate
  <2>3. login' \in BOOLEAN
    BY <1>1, <1>8 DEF Operate, SmallTyped
  <2>4. SmallTyped'
    BY <1>1, <1>8, <2>2, <2>3 DEF Operate, SmallTyped
  <2> QED BY <2>1, <2>4, PlacesStay
<1>9. CASE Settle
  <2>1. UNCHANGED <<job, handles, fresh, pending>> /\ SmallTyped'
    BY <1>1, <1>9 DEF Settle, SmallTyped
  <2> QED BY <2>1, PlacesStay
<1>10. CASE ClaimsAge
  <2>1. UNCHANGED <<job, handles, fresh, pending>>
    BY <1>10 DEF ClaimsAge, Lapse
  <2>2. PICK S \in SUBSET Messages : claim' = [e \in Events |-> IF e \in S THEN "lapsed" ELSE claim[e]]
    BY <1>10 DEF ClaimsAge, Lapse
  <2>3. claim' \in [Events -> {"free", "held", "lapsed", "complete"}]
    BY <1>1, <2>2 DEF SmallTyped
  <2>4. SmallTyped'
    BY <1>1, <1>10, <2>3 DEF ClaimsAge, SmallTyped
  <2> QED BY <2>1, <2>4, PlacesStay
<1> QED BY <1>2, <1>3, <1>4, <1>5, <1>6, <1>7, <1>8, <1>9, <1>10

LEMMA PlacesInit == Init => PlacesInv
<1> SUFFICES ASSUME Init PROVE PlacesInv
  OBVIOUS
<1>1. \A p \in Workers : job[p].stage = "down" /\ job[p].rounds <= MaxRounds
  BY FreshStart DEF Init
<1>2. SmallTyped
  <2>1. claim \in [Events -> {"free", "held", "lapsed", "complete"}]
    BY DEF Init, ClaimInit
  <2>2. incidents \in 0 .. MaxIncidents
    BY CapabilityAssumption DEF Init
  <2>3. login \in BOOLEAN /\ stray \in BOOLEAN
    BY DEF Init
  <2>4. late = {} /\ shown = {} /\ retry = {}
    BY DEF Init
  <2> QED BY <2>1, <2>2, <2>3, <2>4 DEF SmallTyped
<1>3. \A p \in Workers : handles[p] = NoEvent /\ pending[p] = {} /\ p \notin fresh
  BY DEF Init, ClaimInit, ConsoleInit
<1> QED BY <1>1, <1>2, <1>3 DEF PlacesInv, AskStages

LEMMA PlacesStep == JobsInv /\ FindsInv /\ PlacesInv /\ [Next]_vars => PlacesInv'
<1> SUFFICES ASSUME JobsInv, FindsInv, PlacesInv, [Next]_vars PROVE PlacesInv'
  OBVIOUS
<1>1. CASE UNCHANGED vars
  <2>1. SmallTyped' /\ UNCHANGED <<job, handles, fresh, pending>>
    BY <1>1 DEF vars, PlacesInv, SmallTyped, claimVars, consoleVars, worldVars, memoryVars,
                rowVars, principalVars, ghostVars
  <2> QED BY <2>1, PlacesStay
<1>2. ASSUME NEW p \in Workers, Loop(p) PROVE PlacesInv'
  BY <1>2, PlaceLoop, PlaceGateway, PlaceCloses DEF Loop
<1>3. ASSUME NEW p \in Workers, Answer(p) PROVE PlacesInv'
  BY <1>3, PlaceAnswer, PlaceCloses DEF Answer
<1>4. ASSUME NEW p \in Workers,
             \/ Start(p) \/ Crash(p) \/ CannotRefresh(p) \/ LateAnswer(p)
             \/ DeliveryFails(p) \/ ReplyFails(p) \/ \E m \in Messages : Receive(p, m)
      PROVE  PlacesInv'
  BY <1>4, PlaceStart, PlaceReceive, PlaceEnds, PlaceGateway DEF DeliveryFails, ReplyFails
<1> QED BY <1>1, <1>2, <1>3, <1>4, PlaceOthers DEF Next

(* The processes, their memory, the rows and the ghosts keep their types: a *)
(* process keeps to the capabilities of the configuration and to the rounds *)
(* of a message, has adapters only for what the pack names, and one that    *)
(* has ended has no message, no prepared action and nothing of the console. *)
THEOREM CapabilitiesTyped == Spec => []TypeOK
<1>1. ASSUME JobsInv, OnceInv, ToolInv, FindsInv, PlacesInv PROVE TypeOK
  <2> USE <1>1
  <2>1. ASSUME NEW p \in Workers
        PROVE  /\ job[p].stage \in Stages
               /\ job[p].caps \subseteq Ceiling
               /\ job[p].rounds \in 0 .. MaxRounds
               /\ job[p].looked \in {"none", "complete", "incomplete"}
               /\ handles[p] = NoEvent <=> job[p].stage \in {"idle", "down"}
               /\ In(p, "down") => pending[p] = {} /\ p \notin fresh
    <3>1. job[p] \in Jobs
      BY DEF JobsInv
    <3>2. job[p].rounds \in 0 .. MaxRounds
      <4>1. job[p].rounds \in Nat /\ job[p].rounds <= MaxRounds /\ MaxRounds \in Nat
        BY RoundsOK, CapabilityAssumption
      <4> QED BY <4>1
    <3>3. /\ job[p].stage \in Stages /\ job[p].caps \subseteq Ceiling
          /\ job[p].looked \in {"none", "complete", "incomplete"}
      BY <3>1 DEF Jobs
    <3> QED BY <3>2, <3>3 DEF PlacesInv, In
  <2>2. ClaimTypeOK /\ ConsoleTypeOK
    BY DEF ClaimTypeOK, PlacesInv, SmallTyped, JobsInv, HandlesOK
  <2>3. {login, frozen} \subseteq BOOLEAN /\ {settled, stray} \subseteq BOOLEAN
    <3>1. login \in BOOLEAN /\ frozen \in BOOLEAN /\ settled \in BOOLEAN
      BY DEF PlacesInv, SmallTyped, JobsInv
    <3>2. stray \in BOOLEAN
      BY DEF PlacesInv, SmallTyped
    <3> QED BY <3>1, <3>2
  <2>4. /\ installed \in Packs /\ compiled \in [Workers -> SUBSET (Named(Pack) \cup {Web})]
        /\ submits \in [Ids -> 0 .. 2] /\ said \subseteq Ids
    BY DEF ToolInv, OnceInv
  <2>5. /\ late \subseteq Workers /\ shown \subseteq Ids /\ retry \subseteq Asks
        /\ incidents \in 0 .. MaxIncidents
    BY DEF PlacesInv, SmallTyped
  <2>6. /\ pending \in [Workers -> SUBSET Ids] /\ age \in [Ids -> 0 .. PendingTTL]
        /\ status \in [Ids -> {"absent", "pending", "approved", "rejected", "expired"}]
        /\ maker \in [Ids -> Workers \cup {None}]
    BY DEF FindsInv
  <2>7. reply \in [Messages -> (Ids \X BOOLEAN) \cup {None}]
    BY DEF JobsInv, RepliesOK
  <2> QED BY <2>1, <2>2, <2>3, <2>4, <2>5, <2>6, <2>7 DEF TypeOK
<1> DEFINE All == JobsInv /\ OnceInv /\ ToolInv /\ FindsInv /\ PlacesInv
<1>2. Init => All
  BY JobsInit, OnceInit, FindsInit, PlacesInit
<1>3. All /\ [Next]_vars => All'
  BY JobsStep, OnceStep, FindsStep, PlacesStep
<1>4. All => TypeOK
  BY <1>1
<1> HIDE DEF All
<1> QED BY <1>2, <1>3, <1>4, PTL DEF Spec

=============================================================================
