------------------------- MODULE TwinServiceProofs -------------------------
(***************************************************************************)
(* Proofs about TwinService, for any processes, messages, commands and     *)
(* replies.  Claims may expire under their handlers: first what holds      *)
(* whether they do or not, then what holds of a message until one does. Up *)
(* to there one process at a time handles it, so its commands are not      *)
(* repeated and its reply is not dropped.                                  *)
(***************************************************************************)
EXTENDS TwinService, TLAPS

Busy == Stages \ {"idle", "down"}
Executing == {"check", "record", "guard", "report"}

(* The part of the type invariant that every action touches: the ledger,    *)
(* and where the processes are.  Only messages are handled, and there is    *)
(* something to execute where something is executed.                        *)
CoreOK ==
  /\ claim \in [Events -> {"free", "held", "lapsed", "complete"}]
  /\ handles \in [Workers -> Messages \cup {NoEvent}]
  /\ stage \in [Workers -> Stages]
  /\ at \in [Workers -> Locals]
  /\ \A w \in Workers :
       /\ handles[w] = NoEvent <=> stage[w] \in {"idle", "down"}
       /\ stage[w] \in Executing => at[w].slot \in Slots
       /\ stage[w] = "asking" => at[w].asks > 0

TablesOK ==
  /\ executions \in [Messages -> [Slots -> {"absent", "running"} \cup Results]]
  /\ retry \in [Messages -> {"absent", "pending", "complete"}]
  /\ frozen \in BOOLEAN
  /\ effects \in [Messages -> [Commands -> 0 .. MaxCount]]
  /\ unsure \subseteq Messages \X Commands
  /\ delivered \subseteq Messages
  /\ ignored \subseteq Messages
  /\ outlived \subseteq Messages
  /\ late \in [Workers -> 0 .. MaxCount]
  /\ faults \in 0 .. MaxFaults
  /\ freezes \in 0 .. MaxFreezes

TypeInv == CoreOK /\ TablesOK

LEMMA InvIsTypeOK == TypeInv => TypeOK
  BY ClaimAssumption DEF TypeInv, CoreOK, TablesOK, TypeOK, ClaimTypeOK, Events

LEMMA FreshIsLocal == Fresh \in Locals
  BY ServiceAssumption DEF Fresh, Locals, Results

LEMMA SlotLocal ==
  ASSUME NEW l \in Locals, NEW c \in Slots \cup {None}
  PROVE  [l EXCEPT !.slot = c] \in Locals /\ [l EXCEPT !.slot = c].slot = c
  BY DEF Locals

LEMMA InitCore == Init => CoreOK
  BY ClaimAssumption, FreshIsLocal
  DEF Init, CoreOK, ClaimInit, Stages, Executing

LEMMA InitTables == Init => TablesOK
<1> SUFFICES ASSUME Init PROVE TablesOK
  OBVIOUS
<1>1. executions \in [Messages -> [Slots -> {"absent", "running"} \cup Results]]
  BY DEF Init
<1>2. effects \in [Messages -> [Commands -> 0 .. MaxCount]]
  BY DEF Init, MaxCount
<1>3. late \in [Workers -> 0 .. MaxCount]
  BY DEF Init, MaxCount
<1>4. faults \in 0 .. MaxFaults /\ freezes \in 0 .. MaxFreezes
  BY ServiceAssumption DEF Init
<1> QED BY <1>1, <1>2, <1>3, <1>4 DEF Init, TablesOK

-----------------------------------------------------------------------------
(* What the ways to move on do to CoreOK.                                   *)

LEMMA HandlesMessage ==
  ASSUME CoreOK, NEW w \in Workers, stage[w] \in Busy
  PROVE  handles[w] \in Messages /\ handles[w] # NoEvent
  BY DEF CoreOK, Busy

(* A handler goes on with the same event. *)
LEMMA WithCore ==
  ASSUME CoreOK, NEW w \in Workers, stage[w] \in Busy,
         NEW l \in Locals, NEW s \in Busy, s \in Executing => l.slot \in Slots,
         s = "asking" => l.asks > 0, With(w, l, s)
  PROVE  CoreOK'
<1>1. stage' = [stage EXCEPT ![w] = s] /\ at' = [at EXCEPT ![w] = l]
  BY DEF With, Go
<1>2. claim' = claim /\ handles' = handles
  BY DEF With, claimVars
<1>3. s \in Stages /\ s \notin {"idle", "down"}
  BY DEF Busy
<1>4. stage' \in [Workers -> Stages] /\ at' \in [Workers -> Locals]
  BY <1>1, <1>3 DEF CoreOK
<1>5. ASSUME NEW v \in Workers
      PROVE  /\ handles'[v] = NoEvent <=> stage'[v] \in {"idle", "down"}
             /\ stage'[v] \in Executing => at'[v].slot \in Slots
             /\ stage'[v] = "asking" => at'[v].asks > 0
  BY <1>1, <1>2, <1>3, HandlesMessage DEF CoreOK
<1> QED BY <1>2, <1>4, <1>5 DEF CoreOK, Events

(* A handler ends. *)
LEMMA LeaveCore ==
  ASSUME CoreOK, NEW w \in Workers, NEW s \in {"idle", "down"},
         Complete(w) \/ Release(w) \/ Abandon(w), Go(w, s, Fresh)
  PROVE  CoreOK'
<1>1. stage' = [stage EXCEPT ![w] = s] /\ at' = [at EXCEPT ![w] = Fresh]
  BY DEF Go
<1>2. handles' = [handles EXCEPT ![w] = NoEvent]
  BY DEF Complete, Release, Abandon, Leave
<1>3. claim' \in [Events -> {"free", "held", "lapsed", "complete"}]
  BY DEF CoreOK, Complete, Release, Abandon, Closed
<1>4. stage' \in [Workers -> Stages] /\ at' \in [Workers -> Locals]
  BY <1>1, FreshIsLocal DEF CoreOK, Stages
<1>5. ASSUME NEW v \in Workers
      PROVE  /\ handles'[v] = NoEvent <=> stage'[v] \in {"idle", "down"}
             /\ stage'[v] \in Executing => at'[v].slot \in Slots
             /\ stage'[v] = "asking" => at'[v].asks > 0
  BY <1>1, <1>2 DEF CoreOK, Executing
<1> QED BY <1>2, <1>3, <1>4, <1>5 DEF CoreOK, Events

LEMMA TakeCore ==
  ASSUME CoreOK, NEW w \in Workers, NEW m \in Messages,
         Take(w, m), Go(w, "claimed", Fresh)
  PROVE  CoreOK'
<1>1. stage' = [stage EXCEPT ![w] = "claimed"] /\ at' = [at EXCEPT ![w] = Fresh]
  BY DEF Go
<1>2. handles' = [handles EXCEPT ![w] = m] /\ m # NoEvent
  BY ClaimAssumption DEF Take
<1>3. claim' \in [Events -> {"free", "held", "lapsed", "complete"}]
  BY DEF CoreOK, Take
<1>4. stage' \in [Workers -> Stages] /\ at' \in [Workers -> Locals]
  BY <1>1, FreshIsLocal DEF CoreOK, Stages
<1>5. ASSUME NEW v \in Workers
      PROVE  /\ handles'[v] = NoEvent <=> stage'[v] \in {"idle", "down"}
             /\ stage'[v] \in Executing => at'[v].slot \in Slots
             /\ stage'[v] = "asking" => at'[v].asks > 0
  BY <1>1, <1>2 DEF CoreOK, Executing
<1> QED BY <1>2, <1>3, <1>4, <1>5 DEF CoreOK, Events

LEMMA ThrowCore == ASSUME CoreOK, NEW w \in Workers, Throw(w) PROVE CoreOK'
  BY LeaveCore DEF Throw

LEMMA AgeCore == ASSUME CoreOK, ClaimsAge PROVE CoreOK'
<1>1. handles' = handles /\ stage' = stage /\ at' = at
  BY DEF ClaimsAge, Lapse, Sweep
<1>2. claim' \in [Events -> {"free", "held", "lapsed", "complete"}]
  BY DEF CoreOK, ClaimsAge, Lapse, Sweep
<1> QED BY <1>1, <1>2 DEF CoreOK, Events

-----------------------------------------------------------------------------
(* What executeCommand's caller does with a result.                         *)

(* It goes on with the next command, the next round or the reply, closes a  *)
(* reply that was delivered, or throws.                                     *)
LEMMA AfterMoves ==
  ASSUME CoreOK, NEW w \in Workers, stage[w] \in Executing, NEW result,
         After(w, result)
  PROVE  \/ /\ at[w].slot \in Commands
            /\ \E l \in Locals : \E s \in {"check", "round", "confirming", "answering"} :
                 /\ s = "check" => l.slot \in Commands
                 /\ s = "confirming" => result = "confirmation-required"
                 /\ l.retrying = at[w].retrying
                 /\ With(w, l, s)
         \/ /\ at[w].slot \in Texts
            /\ result \in {"complete", "duplicate"}
            /\ With(w, [at[w] EXCEPT !.slot = None], "sent")
         \/ Throw(w)
<1>1. at[w] \in Locals /\ at[w].slot \in Slots
  BY DEF CoreOK
<1>2. CASE at[w].slot \in Commands
  <2> DEFINE l == [at[w] EXCEPT !.todo = @ \ {at[w].slot}, !.slot = None,
                                !.fresh = @ \/ result # "duplicate"]
  <2>1. /\ l \in Locals /\ l.retrying = at[w].retrying
        /\ [l EXCEPT !.todo = {}, !.answer = TRUE] \in Locals
        /\ [l EXCEPT !.todo = {}, !.answer = TRUE].retrying = at[w].retrying
        /\ [l EXCEPT !.answer = TRUE] \in Locals
        /\ [l EXCEPT !.answer = TRUE].retrying = at[w].retrying
    BY <1>1 DEF Locals
  <2>2. l.todo \subseteq Commands
    BY <1>1 DEF Locals
  <2>3. ASSUME NEW c \in l.todo
        PROVE  /\ [l EXCEPT !.slot = c] \in Locals /\ [l EXCEPT !.slot = c].slot \in Commands
               /\ [l EXCEPT !.slot = c].retrying = at[w].retrying
    <3>1. c \in Commands
      BY <2>2
    <3> HIDE DEF l
    <3> QED BY <2>1, <3>1, SlotLocal DEF Slots, Locals
  <2>4. AfterCommand(w, result)
    BY <1>2 DEF After
  <2>5. \/ /\ result = "confirmation-required"
           /\ With(w, [l EXCEPT !.todo = {}, !.answer = TRUE], "confirming")
        \/ \E c \in l.todo : With(w, [l EXCEPT !.slot = c], "check")
        \/ With(w, l, "answering") \/ With(w, l, "round")
        \/ With(w, [l EXCEPT !.answer = TRUE], "answering")
    BY <2>4 DEF AfterCommand
  <2> HIDE DEF l
  <2> QED BY <1>2, <2>1, <2>3, <2>5
<1>3. CASE at[w].slot \notin Commands
  BY <1>1, <1>3 DEF After, AfterReply, Slots
<1> QED BY <1>2, <1>3

LEMMA AfterCore ==
  ASSUME CoreOK, NEW w \in Workers, stage[w] \in Executing, NEW result,
         After(w, result)
  PROVE  CoreOK'
<1>1. stage[w] \in Busy
  BY DEF Executing, Busy, Stages
<1>2. CASE \E l \in Locals : \E s \in {"check", "round", "confirming", "answering"} :
              /\ s = "check" => l.slot \in Commands
              /\ With(w, l, s)
  <2>1. PICK l \in Locals, s \in {"check", "round", "confirming", "answering"} :
          (s = "check" => l.slot \in Commands) /\ With(w, l, s)
    BY <1>2
  <2>2. s \in Busy /\ (s \in Executing => l.slot \in Slots) /\ s # "asking"
    BY <2>1 DEF Busy, Stages, Executing, Slots
  <2>3. With(w, l, s)
    BY <2>1
  <2> QED BY <1>1, <2>2, <2>3, WithCore
<1>3. CASE With(w, [at[w] EXCEPT !.slot = None], "sent")
  <2>1. [at[w] EXCEPT !.slot = None] \in Locals
    BY DEF CoreOK, Locals
  <2>2. "sent" \in Busy /\ "sent" \notin Executing
    BY DEF Busy, Stages, Executing
  <2> QED BY <1>1, <1>3, <2>1, <2>2, WithCore
<1> QED BY <1>2, <1>3, AfterMoves, ThrowCore

-----------------------------------------------------------------------------
(* The steps of one handler.                                                *)

(* Where a decision leads. *)
LEMMA ProceedMoves ==
  ASSUME NEW w \in Workers, NEW l \in Locals, Proceed(w, l)
  PROVE  \E k \in Locals : \E s \in {"asking", "check", "answering"} :
           /\ With(w, k, s)
           /\ k.retrying = l.retrying
           /\ s = "asking" => k.asks > 0
           /\ s = "check" => k.slot \in Commands
           /\ s # "answering" => l.asks > 0 \/ l.todo # {}
<1>1. CASE l.asks > 0 \/ l.todo = {}
  BY <1>1 DEF Proceed
<1>2. CASE ~(l.asks > 0) /\ l.todo # {}
  <2>1. PICK c \in l.todo : With(w, [l EXCEPT !.slot = c], "check")
    BY <1>2 DEF Proceed
  <2>2. c \in Commands
    BY DEF Locals
  <2> DEFINE k == [l EXCEPT !.slot = c]
  <2>3. k \in Locals /\ k.slot = c /\ k.retrying = l.retrying
    BY <2>2, SlotLocal DEF Slots, Locals
  <2>4. With(w, k, "check")
    BY <2>1
  <2> HIDE DEF k
  <2> QED BY <1>2, <2>2, <2>3, <2>4
<1> QED BY <1>1, <1>2

LEMMA ProceedCore ==
  ASSUME CoreOK, NEW w \in Workers, stage[w] \in Busy, NEW l \in Locals, Proceed(w, l)
  PROVE  CoreOK'
<1>1. PICK k \in Locals, s \in {"asking", "check", "answering"} :
        /\ With(w, k, s)
        /\ s = "asking" => k.asks > 0
        /\ s = "check" => k.slot \in Commands
  BY ProceedMoves
<1>2. s \in Busy /\ (s \in Executing => k.slot \in Slots)
  BY <1>1 DEF Busy, Stages, Executing, Slots
<1> QED BY <1>1, <1>2, WithCore

(* What is in hand when the model has answered. *)
LEMMA AnswerDecides ==
  ASSUME CoreOK, NEW w \in Workers, DecideAnswer(w)
  PROVE  \E l \in Locals : /\ Decide(w, l)
                           /\ l.retrying = at[w].retrying /\ l.todo = {}
                           /\ l.asks > 0 => MayCommand(w)
<1>1. at[w] \in Locals
  BY DEF CoreOK
<1>2. PICK answer \in IF at[w].draft THEN {FALSE} ELSE BOOLEAN :
      \E asks \in IF MayCommand(w) THEN 0 .. MaxAsks ELSE {0} :
        Decide(w, [at[w] EXCEPT !.answer = answer, !.asks = asks, !.todo = {}])
  BY Zenon DEF DecideAnswer
<1>3. PICK asks \in IF MayCommand(w) THEN 0 .. MaxAsks ELSE {0} :
        Decide(w, [at[w] EXCEPT !.answer = answer, !.asks = asks, !.todo = {}])
  BY <1>2
<1> DEFINE l == [at[w] EXCEPT !.answer = answer, !.asks = asks, !.todo = {}]
<1>4. asks \in 0 .. 2 * MaxAsks
  BY ServiceAssumption
<1>5. /\ l \in Locals /\ l.retrying = at[w].retrying /\ l.todo = {} /\ l.asks = asks
  BY <1>1, <1>4 DEF Locals
<1>6. Decide(w, l)
  BY <1>3
<1>7. asks > 0 => MayCommand(w)
  BY <1>3
<1> HIDE DEF l
<1> QED BY <1>5, <1>6, <1>7

LEMMA CommandsDecide ==
  ASSUME CoreOK, NEW w \in Workers, DecideCommands(w)
  PROVE  \E l \in Locals : Decide(w, l) /\ l.retrying = at[w].retrying
<1>1. at[w] \in Locals
  BY DEF CoreOK
<1>2. PICK todo \in SUBSET Commands \ {{}}, asks \in 0 .. MaxAsks, answer \in BOOLEAN :
        /\ answer => asks > 0
        /\ Decide(w, [at[w] EXCEPT !.rounds = @ + 1, !.todo = todo, !.fresh = FALSE,
                                   !.asks = 2 * asks, !.last = asks > 0,
                                   !.answer = answer])
  BY Zenon DEF DecideCommands
<1> DEFINE n == at[w].rounds + 1
           twice == 2 * asks
           last == asks > 0
           l == [at[w] EXCEPT !.rounds = n, !.todo = todo, !.fresh = FALSE,
                              !.asks = twice, !.last = last, !.answer = answer]
<1>3. twice \in 0 .. 2 * MaxAsks /\ n \in 0 .. MaxRounds /\ last \in BOOLEAN
  <2>1. at[w].rounds < MaxRounds
    BY Zenon DEF DecideCommands
  <2>2. at[w].rounds \in 0 .. MaxRounds
    BY <1>1 DEF Locals
  <2>3. 2 * asks \in 0 .. 2 * MaxAsks
    BY ServiceAssumption
  <2> QED BY <2>1, <2>2, <2>3, ServiceAssumption
<1>4. Decide(w, l)
  BY <1>2
<1> HIDE DEF n, twice, last
<1>5. l \in Locals /\ l.retrying = at[w].retrying
  BY <1>1, <1>3 DEF Locals
<1> HIDE DEF l
<1> QED BY <1>4, <1>5

LEMMA TooManyDecides ==
  ASSUME CoreOK, NEW w \in Workers, DecideTooMany(w)
  PROVE  \E l \in Locals : Decide(w, l) /\ l.retrying = at[w].retrying /\ l.todo = {}
<1>1. at[w] \in Locals
  BY DEF CoreOK
<1>2. PICK asks \in 0 .. MaxAsks :
        Decide(w, [at[w] EXCEPT !.answer = TRUE, !.asks = asks, !.todo = {}])
  BY Zenon DEF DecideTooMany
<1> DEFINE l == [at[w] EXCEPT !.answer = TRUE, !.asks = asks, !.todo = {}]
<1>3. asks \in 0 .. 2 * MaxAsks
  BY ServiceAssumption
<1>4. l \in Locals /\ l.retrying = at[w].retrying /\ l.todo = {}
  BY <1>1, <1>3 DEF Locals
<1>5. Decide(w, l)
  BY <1>2
<1> HIDE DEF l
<1> QED BY <1>4, <1>5

(* A decision: the model has answered, and something follows from it. *)
Deciding(w) == DecideAnswer(w) \/ DecideCommands(w) \/ DecideTooMany(w)

LEMMA Decides ==
  ASSUME CoreOK, NEW w \in Workers, Deciding(w)
  PROVE  /\ stage[w] = "deciding"
         /\ \E l \in Locals : /\ Decide(w, l)
                              /\ l.retrying = at[w].retrying
                              /\ l.asks > 0 \/ l.todo # {} => MayCommand(w)
<1>1. CASE DecideAnswer(w)
  <2>1. stage[w] = "deciding"
    BY <1>1, Zenon DEF DecideAnswer
  <2> QED BY <1>1, <2>1, AnswerDecides
<1>2. CASE DecideCommands(w)
  <2>1. stage[w] = "deciding" /\ MayCommand(w)
    BY <1>2, Zenon DEF DecideCommands, MayExecute
  <2> QED BY <1>2, <2>1, CommandsDecide
<1>3. CASE DecideTooMany(w)
  <2>1. stage[w] = "deciding" /\ MayCommand(w)
    BY <1>3, Zenon DEF DecideTooMany
  <2> QED BY <1>3, <2>1, TooManyDecides
<1> QED BY <1>1, <1>2, <1>3 DEF Deciding

(* The next of the confirmations of a decision. *)
LEMMA SendLocal ==
  ASSUME CoreOK, NEW w \in Workers, SendConfirmation(w)
  PROVE  /\ [at[w] EXCEPT !.asks = @ - 1] \in Locals
         /\ [at[w] EXCEPT !.asks = @ - 1].retrying = at[w].retrying
<1>1. at[w] \in Locals /\ at[w].asks > 0
  BY DEF CoreOK, SendConfirmation
<1>2. at[w].asks - 1 \in 0 .. 2 * MaxAsks
  BY <1>1, ServiceAssumption DEF Locals
<1> QED BY <1>1, <1>2 DEF Locals

LEMMA HandleCore ==
  ASSUME TypeInv, NEW w \in Workers, Handle(w)
  PROVE  CoreOK'
<1> USE DEF Busy, Stages, Executing
<1>0. CoreOK /\ TablesOK /\ at[w] \in Locals
  BY DEF TypeInv, CoreOK
<1>1. CASE Start(w)
  <2>1. [Fresh EXCEPT !.retrying = retry[handles[w]] = "pending"] \in Locals
    BY FreshIsLocal DEF Locals
  <2> QED BY <1>0, <1>1, <2>1, WithCore DEF Start
<1>2. CASE Control(w)
  BY <1>0, <1>2, WithCore DEF Control
<1>3. CASE Consult(w)
  <2>1. [at[w] EXCEPT !.draft = frozen] \in Locals
    BY <1>0 DEF Locals, TablesOK
  <2> QED BY <1>0, <1>3, <2>1, WithCore DEF Consult
<1>4. CASE Deciding(w)
  <2>1. PICK l \in Locals : Decide(w, l)
    BY <1>0, <1>4, Decides
  <2>2. Proceed(w, l) /\ stage[w] = "deciding"
    BY <1>0, <1>4, <2>1, Decides DEF Decide
  <2> QED BY <1>0, <2>2, ProceedCore
<1>5. CASE SendConfirmation(w)
  <2>1. [at[w] EXCEPT !.asks = @ - 1] \in Locals
    BY <1>0, <1>5, SendLocal
  <2> QED BY <1>0, <1>5, <2>1, ProceedCore DEF SendConfirmation
<1>6. CASE ConfirmRisk(w) \/ Notify(w)
  BY <1>0, <1>6, WithCore DEF ConfirmRisk, Notify
<1>7. CASE Check(w)
  <2>1. CASE Performed(w)
    BY <1>0, <1>7, <2>1, AfterCore DEF Check
  <2>2. CASE ~Performed(w)
    <3> DEFINE l == [at[w] EXCEPT !.halt = FlagAtCheck(w)]
    <3>1. l \in Locals /\ l.slot = at[w].slot
      BY <1>0 DEF Locals, FlagAtCheck, TablesOK
    <3>2. at[w].slot \in Slots
      BY <1>0, <1>7 DEF Check, CoreOK
    <3>3. With(w, l, "record") /\ stage[w] = "check"
      BY <1>7, <2>2 DEF Check
    <3> HIDE DEF l
    <3> QED BY <1>0, <3>1, <3>2, <3>3, WithCore
  <2> QED BY <2>1, <2>2
<1>8. CASE Record(w)
  <2>1. at[w].slot \in Slots
    BY <1>0, <1>8 DEF Record, CoreOK
  <2> QED BY <1>0, <1>8, <2>1, WithCore DEF Record
<1>9. CASE Guard(w)
  <2>1. PICK result \in Results : With(w, [at[w] EXCEPT !.result = result], "report")
    BY <1>9 DEF Guard, Results
  <2>2. at[w].slot \in Slots /\ stage[w] = "guard"
    BY <1>0, <1>9 DEF Guard, CoreOK
  <2> DEFINE l == [at[w] EXCEPT !.result = result]
  <2>3. l \in Locals /\ l.slot = at[w].slot
    BY <1>0 DEF Locals
  <2>4. With(w, l, "report")
    BY <2>1
  <2> HIDE DEF l
  <2> QED BY <1>0, <2>2, <2>3, <2>4, WithCore
<1>10. CASE Report(w)
  BY <1>0, <1>10, AfterCore DEF Report
<1>11. CASE BeginReply(w)
  <2>1. PICK text \in Texts : With(w, [at[w] EXCEPT !.slot = text], "check")
    BY <1>11 DEF BeginReply
  <2> DEFINE l == [at[w] EXCEPT !.slot = text]
  <2>2. l \in Locals /\ l.slot = text
    BY <1>0, SlotLocal DEF Slots
  <2>3. With(w, l, "check") /\ stage[w] \in {"answering", "noticed"}
    BY <1>11, <2>1 DEF BeginReply
  <2> HIDE DEF l
  <2> QED BY <1>0, <2>2, <2>3, WithCore DEF Slots
<1>12. CASE ReplySent(w)
  BY <1>0, <1>12, WithCore DEF ReplySent
<1>13. CASE NoReply(w)
  BY <1>0, <1>13, WithCore, ThrowCore DEF NoReply
<1>14. CASE Close(w)
  BY <1>0, <1>14, LeaveCore DEF Close
<1> QED
  BY <1>1, <1>2, <1>3, <1>4, <1>5, <1>6, <1>7, <1>8, <1>9, <1>10, <1>11, <1>12,
     <1>13, <1>14
  DEF Handle, Deciding

LEMMA CoreStep == TypeInv /\ [Next]_serviceVars => CoreOK'
<1> SUFFICES ASSUME TypeInv, [Next]_serviceVars PROVE CoreOK'
  OBVIOUS
<1>0. CoreOK
  BY DEF TypeInv
<1>1. ASSUME NEW w \in Workers, Handle(w) PROVE CoreOK'
  BY <1>1, HandleCore
<1>2. ASSUME NEW w \in Workers, NEW m \in Messages, Receive(w, m) PROVE CoreOK'
  BY <1>0, <1>2, TakeCore DEF Receive
<1>3. ASSUME NEW w \in Workers, Disabled(w) PROVE CoreOK'
  BY <1>0, <1>3, LeaveCore DEF Disabled
<1>4. ASSUME NEW w \in Workers, Fail(w) PROVE CoreOK'
  BY <1>0, <1>4, ThrowCore DEF Fail
<1>5. ASSUME NEW w \in Workers, Crash(w) PROVE CoreOK'
  BY <1>0, <1>5, LeaveCore DEF Crash
<1>6. ASSUME NEW w \in Workers, Restart(w) PROVE CoreOK'
  <2>1. stage' = [stage EXCEPT ![w] = "idle"] /\ at' = [at EXCEPT ![w] = Fresh]
    BY <1>6 DEF Restart, Go
  <2>2. claim' = claim /\ handles' = handles /\ stage[w] = "down"
    BY <1>6 DEF Restart, claimVars
  <2> QED BY <1>0, <2>1, <2>2, FreshIsLocal DEF CoreOK, Events, Stages, Executing
<1>7. CASE Freeze \/ Resume
  <2>1. claim' = claim /\ handles' = handles /\ stage' = stage /\ at' = at
    BY <1>7 DEF Freeze, Resume, claimVars
  <2> QED BY <1>0, <2>1 DEF CoreOK, Events
<1>8. CASE ClaimsAge
  BY <1>0, <1>8, AgeCore
<1>9. CASE UNCHANGED serviceVars
  BY <1>0, <1>9 DEF CoreOK, Events, serviceVars, claimVars
<1> QED BY <1>1, <1>2, <1>3, <1>4, <1>5, <1>6, <1>7, <1>8, <1>9 DEF Next

-----------------------------------------------------------------------------
(* The tables and the ghosts.                                               *)

LEMMA BumpOK == \A n \in 0 .. MaxCount : Bump(n) \in 0 .. MaxCount
  BY DEF Bump, MaxCount

LEMMA EffectsOK ==
  ASSUME TypeInv, NEW m, NEW c, NEW n \in 0 .. MaxCount
  PROVE  [effects EXCEPT ![m][c] = n] \in [Messages -> [Commands -> 0 .. MaxCount]]
  BY DEF TypeInv, TablesOK

LEMMA PerformTables ==
  ASSUME TypeInv, NEW w \in Workers, stage[w] = "guard", NEW result,
         Perform(w, result)
  PROVE  /\ effects' \in [Messages -> [Commands -> 0 .. MaxCount]]
         /\ unsure' \subseteq Messages \X Commands
         /\ delivered' \subseteq Messages
         /\ late' \in [Workers -> 0 .. MaxCount]
<1>1. handles[w] \in Messages
  BY HandlesMessage DEF TypeInv, Busy, Stages
<1>2. late' \in [Workers -> 0 .. MaxCount]
  BY BumpOK DEF Perform, TypeInv, TablesOK
<1>3. CASE at[w].slot \in Commands
  <2>1. effects' = [effects EXCEPT ![handles[w]][at[w].slot] =
                      Bump(effects[handles[w]][at[w].slot])]
    BY <1>3 DEF Perform
  <2>2. Bump(effects[handles[w]][at[w].slot]) \in 0 .. MaxCount
    BY <1>1, <1>3, BumpOK DEF TypeInv, TablesOK
  <2>3. effects' \in [Messages -> [Commands -> 0 .. MaxCount]]
    BY <2>1, <2>2, EffectsOK
  <2>4. unsure' \subseteq Messages \X Commands /\ delivered' \subseteq Messages
    BY <1>1, <1>3 DEF Perform, TypeInv, TablesOK
  <2> QED BY <1>2, <2>3, <2>4
<1>4. CASE at[w].slot \notin Commands
  BY <1>1, <1>2, <1>4 DEF Perform, TypeInv, TablesOK
<1> QED BY <1>3, <1>4

LEMMA ExecutionsOK ==
  ASSUME TypeInv, NEW m, NEW s, NEW status \in {"running"} \cup Results
  PROVE  [executions EXCEPT ![m][s] = status]
           \in [Messages -> [Slots -> {"absent", "running"} \cup Results]]
  BY DEF TypeInv, TablesOK

(* What a decision, a confirmation and a freeze do to the count. *)
LEMMA LateOK ==
  ASSUME TablesOK, NEW w, NEW late1,
         late1 = late \/ late1 = [late EXCEPT ![w] = Bump(@)]
  PROVE  late1 \in [Workers -> 0 .. MaxCount]
  BY BumpOK DEF TablesOK

LEMMA SentOK == SentAtFreeze \in [Workers -> 0 .. MaxCount]
  BY DEF SentAtFreeze, MaxCount

LEMMA DecisionFaults ==
  ASSUME TablesOK, NEW w \in Workers, Deciding(w)
  PROVE  faults' \in 0 .. MaxFaults /\ UNCHANGED freezes
<1>1. CASE DecideAnswer(w)
  <2>1. /\ \E missing : /\ missing => faults < MaxFaults
                        /\ faults' = IF missing THEN faults + 1 ELSE faults
        /\ UNCHANGED freezes
    BY <1>1, Zenon DEF DecideAnswer
  <2>2. CASE faults' = faults
    BY <2>1, <2>2 DEF TablesOK
  <2>3. CASE faults' = faults + 1 /\ faults < MaxFaults
    BY <2>1, <2>3, ServiceAssumption DEF TablesOK
  <2> QED BY <2>1, <2>2, <2>3
<1>2. CASE DecideCommands(w) \/ DecideTooMany(w)
  <2>1. UNCHANGED boundVars
    BY <1>2, Zenon DEF DecideCommands, DecideTooMany
  <2> QED BY <2>1 DEF boundVars, TablesOK
<1> QED BY <1>1, <1>2 DEF Deciding

LEMMA HandleTables ==
  ASSUME TypeInv, NEW w \in Workers, Handle(w)
  PROVE  TablesOK'
<1>0. TablesOK
  BY DEF TypeInv
<1>1. CASE Start(w) \/ Consult(w) \/ SendConfirmation(w) \/ Check(w) \/ Notify(w)
           \/ NoReply(w) \/ Close(w)
  BY <1>0, <1>1
  DEF Start, Consult, SendConfirmation, Check, Notify, NoReply, Close,
      TablesOK, tableVars, worldVars, pastVars, boundVars
<1>2. CASE Control(w)
  <2>1. late' \in [Workers -> 0 .. MaxCount]
    BY <1>0, <1>2, SentOK DEF Control, TablesOK
  <2> QED BY <1>0, <1>2, <2>1 DEF Control, TablesOK, tableVars, pastVars, boundVars
<1>3. CASE Deciding(w)
  <2>1. faults' \in 0 .. MaxFaults /\ UNCHANGED freezes
    BY <1>0, <1>3, DecisionFaults
  <2>2. PICK l : Decide(w, l)
    BY <1>3, Decides DEF TypeInv
  <2>3. late' \in [Workers -> 0 .. MaxCount]
    BY <1>0, <2>2, LateOK DEF Decide
  <2>4. UNCHANGED <<executions, retry, frozen, effects, unsure, delivered, ignored, outlived>>
    BY <2>2 DEF Decide, tableVars, pastVars
  <2> QED BY <1>0, <2>1, <2>3, <2>4 DEF TablesOK
<1>8. CASE ConfirmRisk(w)
  <2>1. late' \in [Workers -> 0 .. MaxCount]
    BY <1>0, <1>8, LateOK DEF ConfirmRisk
  <2> QED BY <1>0, <1>8, <2>1 DEF ConfirmRisk, TablesOK, tableVars, pastVars, boundVars
<1>4. CASE Record(w)
  <2>1. executions' \in [Messages -> [Slots -> {"absent", "running"} \cup Results]]
    BY <1>4, ExecutionsOK DEF Record
  <2> QED BY <1>0, <1>4, <2>1 DEF Record, TablesOK, worldVars, pastVars, boundVars
<1>5. CASE Guard(w)
  <2>1. \E result : /\ result = "failed" => faults < MaxFaults
                    /\ faults' = IF result = "failed" THEN faults + 1 ELSE faults
    BY <1>5 DEF Guard
  <2>3. faults' \in 0 .. MaxFaults
    BY <1>0, <2>1, ServiceAssumption DEF TablesOK
  <2>2. /\ effects' \in [Messages -> [Commands -> 0 .. MaxCount]]
        /\ unsure' \subseteq Messages \X Commands
        /\ delivered' \subseteq Messages
        /\ late' \in [Workers -> 0 .. MaxCount]
    <3>1. CASE UNCHANGED worldVars
      BY <1>0, <3>1 DEF worldVars, TablesOK
    <3>2. CASE \E result : Perform(w, result)
      BY <1>5, <3>2, PerformTables DEF Guard
    <3> QED BY <1>5, <3>1, <3>2 DEF Guard
  <2> QED BY <1>0, <1>5, <2>2, <2>3 DEF Guard, TablesOK, tableVars, pastVars
<1>6. CASE Report(w)
  <2>1. at[w].result \in Results
    BY DEF TypeInv, CoreOK, Locals
  <2>2. executions' \in [Messages -> [Slots -> {"absent", "running"} \cup Results]]
    BY <1>6, <2>1, ExecutionsOK DEF Report
  <2> QED BY <1>0, <1>6, <2>2 DEF Report, TablesOK, worldVars, pastVars, boundVars
<1>7. CASE BeginReply(w) \/ ReplySent(w)
  BY <1>0, <1>7 DEF BeginReply, ReplySent, TablesOK, worldVars, pastVars, boundVars
<1> QED BY <1>1, <1>2, <1>3, <1>4, <1>5, <1>6, <1>7, <1>8 DEF Handle, Deciding

LEMMA TablesStep == TypeInv /\ [Next]_serviceVars => TablesOK'
<1> SUFFICES ASSUME TypeInv, [Next]_serviceVars PROVE TablesOK'
  OBVIOUS
<1>0. TablesOK
  BY DEF TypeInv
<1>1. ASSUME NEW w \in Workers, Handle(w) PROVE TablesOK'
  BY <1>1, HandleTables
<1>2. ASSUME NEW w \in Workers, NEW m \in Messages, Receive(w, m) PROVE TablesOK'
  BY <1>0, <1>2 DEF Receive, TablesOK, tableVars, worldVars, pastVars, boundVars
<1>3. ASSUME NEW w \in Workers, Disabled(w) PROVE TablesOK'
  <2>1. handles[w] \in Messages
    BY <1>3, HandlesMessage DEF Disabled, TypeInv, Busy, Stages
  <2> QED BY <1>0, <1>3, <2>1 DEF Disabled, TablesOK, tableVars, worldVars, boundVars
<1>4. ASSUME NEW w \in Workers, Fail(w) \/ Crash(w) PROVE TablesOK'
  <2>1. faults' \in 0 .. MaxFaults
    BY <1>0, <1>4, ServiceAssumption DEF Fail, Crash, TablesOK
  <2>2. late' \in [Workers -> 0 .. MaxCount]
    BY <1>0, <1>4, LateOK DEF Fail, Crash, worldVars
  <2> QED BY <1>0, <1>4, <2>1, <2>2
      DEF Fail, Crash, TablesOK, tableVars, worldVars, pastVars
<1>5. ASSUME NEW w \in Workers, Restart(w) PROVE TablesOK'
  BY <1>0, <1>5 DEF Restart, TablesOK, tableVars, worldVars, pastVars, boundVars
<1>6. CASE Freeze
  <2>1. freezes' \in 0 .. MaxFreezes /\ late' \in [Workers -> 0 .. MaxCount]
    BY <1>0, <1>6, SentOK, ServiceAssumption DEF Freeze, TablesOK
  <2> QED BY <1>0, <1>6, <2>1 DEF Freeze, TablesOK, tableVars, pastVars
<1>7. CASE Resume
  <2>1. late' \in [Workers -> 0 .. MaxCount]
    BY <1>7 DEF Resume, MaxCount
  <2> QED BY <1>0, <1>7, <2>1 DEF Resume, TablesOK, tableVars, pastVars, boundVars
<1>8. CASE ClaimsAge
  <2>1. faults' \in 0 .. MaxFaults
    BY <1>0, <1>8, ServiceAssumption DEF ClaimsAge, TablesOK
  <2>2. outlived' \subseteq Messages
    BY <1>0, <1>8 DEF ClaimsAge, Outliving, TablesOK
  <2> QED BY <1>0, <1>8, <2>1, <2>2 DEF ClaimsAge, TablesOK, tableVars, worldVars
<1>9. CASE UNCHANGED serviceVars
  BY <1>0, <1>9 DEF TablesOK, serviceVars, tableVars, worldVars, pastVars, boundVars
<1> QED BY <1>1, <1>2, <1>3, <1>4, <1>5, <1>6, <1>7, <1>8, <1>9 DEF Next

LEMMA TypeStep == TypeInv /\ [Next]_serviceVars => TypeInv'
  BY CoreStep, TablesStep DEF TypeInv

LEMMA InitTypeInv == Init => TypeInv
  BY InitCore, InitTables DEF TypeInv

(* The tables, the processes and the ghosts keep their types: whatever      *)
(* rounds, retries and crashes do, a process that executes has something to *)
(* execute, and only messages are handled.                                  *)
THEOREM ServiceTypeCorrect == Spec => []TypeOK
  BY InitTypeInv, TypeStep, InvIsTypeOK, PTL DEF Spec

-----------------------------------------------------------------------------
(* The freeze.  A process that has sent something since the freeze and is   *)
(* on its way to more has read the flag after the freeze, and carries it.   *)

Silent(s, l) ==
  /\ s # "confirming"
  /\ s \in {"record", "guard"} => l.halt
  /\ s = "report" => l.result # "confirmation-required"
  /\ s = "deciding" => l.draft

FreezeInv ==
  \A w \in Workers :
    /\ ~frozen => late[w] = 0
    /\ late[w] <= 1
    /\ late[w] = 1 => Silent(stage[w], at[w])

(* A handler moves on and sends nothing. *)
LEMMA FreezeAside ==
  ASSUME TypeInv, FreezeInv, NEW w \in Workers, NEW s, NEW l, Go(w, s, l),
         late[w] = 1 => Silent(s, l), UNCHANGED <<frozen, late>>
  PROVE  FreezeInv'
<1>1. stage'[w] = s /\ at'[w] = l
  BY DEF TypeInv, CoreOK, Go
<1>2. \A v \in Workers : v # w => stage'[v] = stage[v] /\ at'[v] = at[v]
  BY DEF TypeInv, CoreOK, Go
<1> QED BY <1>1, <1>2 DEF FreezeInv

(* It sends something, for the first time since the freeze if there is one. *)
LEMMA FreezeSends ==
  ASSUME TypeInv, FreezeInv, NEW w \in Workers, NEW s, NEW l, Go(w, s, l),
         late[w] # 1, Silent(s, l), UNCHANGED frozen,
         late' = IF frozen THEN [late EXCEPT ![w] = Bump(@)] ELSE late
  PROVE  FreezeInv'
<1>1. stage'[w] = s /\ at'[w] = l
  BY DEF TypeInv, CoreOK, Go
<1>2. \A v \in Workers : v # w => stage'[v] = stage[v] /\ at'[v] = at[v]
  BY DEF TypeInv, CoreOK, Go
<1>3. late \in [Workers -> 0 .. MaxCount]
  BY DEF TypeInv, TablesOK
<1>4. late[w] = 0
  BY <1>3 DEF FreezeInv, MaxCount
<1>5. late'[w] <= 1 /\ \A v \in Workers : v # w => late'[v] = late[v]
  BY <1>3, <1>4 DEF Bump, MaxCount
<1>6. ~frozen => late' = late
  OBVIOUS
<1> QED BY <1>1, <1>2, <1>5, <1>6 DEF FreezeInv

LEMMA FreezeStays ==
  ASSUME FreezeInv, UNCHANGED <<frozen, late, stage, at>>
  PROVE  FreezeInv'
  BY DEF FreezeInv

(* The flag is set while some are sending the confirmations of a decision,  *)
(* and they stay where they are.                                            *)
LEMMA FreezeBegins ==
  ASSUME frozen', late' = SentAtFreeze,
         \A v \in Workers : stage[v] = "asking" => stage'[v] = "asking"
  PROVE  FreezeInv'
<1>1. ASSUME NEW v \in Workers
      PROVE  late'[v] <= 1 /\ (late'[v] = 1 => stage'[v] = "asking")
  BY DEF SentAtFreeze
<1> QED BY <1>1 DEF FreezeInv, Silent

LEMMA FreezeEnds == ASSUME late' = [w \in Workers |-> 0] PROVE FreezeInv'
  BY DEF FreezeInv

(* What follows a decision is not a call, nor near one. *)
LEMMA ProceedSilent ==
  ASSUME NEW w \in Workers, NEW l \in Locals, Proceed(w, l)
  PROVE  \E s, k : Go(w, s, k) /\ Silent(s, k)
<1>1. \E s \in {"asking", "check", "answering"} : \E k : Go(w, s, k)
  BY ProceedMoves DEF With
<1> QED BY <1>1 DEF Silent

LEMMA AfterAside ==
  ASSUME TypeInv, FreezeInv, NEW w \in Workers, stage[w] \in Executing, NEW result,
         After(w, result), late[w] = 1 => result # "confirmation-required",
         UNCHANGED <<frozen, late>>
  PROVE  FreezeInv'
<1>0. CoreOK
  BY DEF TypeInv
<1>1. \E s \in {"check", "round", "confirming", "answering", "sent", "down"} : \E l :
        Go(w, s, l) /\ (s = "confirming" => result = "confirmation-required")
  BY <1>0, AfterMoves DEF With, Throw
<1>2. PICK s, l : Go(w, s, l) /\ (late[w] = 1 => Silent(s, l))
  BY <1>1 DEF Silent
<1> QED BY <1>2, FreezeAside

LEMMA FreezeDecides ==
  ASSUME TypeInv, FreezeInv, NEW w \in Workers, Deciding(w)
  PROVE  FreezeInv'
<1>0. CoreOK
  BY DEF TypeInv
<1>1. PICK l \in Locals : /\ Decide(w, l)
                          /\ l.asks > 0 \/ l.todo # {} => MayCommand(w)
  BY <1>0, Decides
<1>2. PICK s, k : Go(w, s, k) /\ Silent(s, k)
  BY <1>1, ProceedSilent DEF Decide
<1>3. CASE l.asks > 0
  <2>1. ~at[w].draft /\ stage[w] = "deciding"
    BY <1>0, <1>1, <1>3, Decides DEF MayCommand
  <2>2. late[w] # 1
    BY <2>1 DEF FreezeInv, Silent
  <2>3. frozen' = frozen /\ late' = IF frozen THEN [late EXCEPT ![w] = Bump(@)] ELSE late
    BY <1>1, <1>3 DEF Decide
  <2> QED BY <1>2, <2>2, <2>3, FreezeSends
<1>4. CASE ~(l.asks > 0)
  <2>1. UNCHANGED <<frozen, late>>
    BY <1>1, <1>4 DEF Decide
  <2> QED BY <1>2, <2>1, FreezeAside
<1> QED BY <1>3, <1>4

LEMMA FreezeGuard ==
  ASSUME TypeInv, FreezeInv, NEW w \in Workers, Guard(w)
  PROVE  FreezeInv'
<1>1. stage[w] = "guard" /\ at[w] \in Locals /\ frozen' = frozen
  BY DEF Guard, TypeInv, CoreOK
<1>2. PICK result :
        /\ With(w, [at[w] EXCEPT !.result = result], "report")
        /\ \/ UNCHANGED worldVars /\ (result = "confirmation-required" => ~at[w].halt)
           \/ /\ result # "confirmation-required" /\ ~at[w].halt
              /\ Perform(w, result)
  BY DEF Guard
<1> DEFINE l == [at[w] EXCEPT !.result = result]
<1>3. l.result = result
  BY <1>1 DEF Locals
<1>4. Go(w, "report", l)
  BY <1>2 DEF With
<1>5. late[w] = 1 => at[w].halt
  BY <1>1 DEF FreezeInv, Silent
<1> HIDE DEF l
<1>6. CASE UNCHANGED worldVars /\ (result = "confirmation-required" => ~at[w].halt)
  <2>1. late[w] = 1 => Silent("report", l)
    BY <1>3, <1>5, <1>6 DEF Silent
  <2>2. UNCHANGED <<frozen, late>>
    BY <1>1, <1>6 DEF worldVars
  <2> QED BY <1>4, <2>1, <2>2, FreezeAside
<1>7. CASE result # "confirmation-required" /\ ~at[w].halt /\ Perform(w, result)
  <2>1. late[w] # 1 /\ Silent("report", l)
    BY <1>3, <1>5, <1>7 DEF Silent
  <2>2. late' = IF frozen THEN [late EXCEPT ![w] = Bump(@)] ELSE late
    BY <1>7 DEF Perform
  <2> QED BY <1>1, <1>4, <2>1, <2>2, FreezeSends
<1> QED BY <1>2, <1>6, <1>7

LEMMA FreezeHandle ==
  ASSUME TypeInv, FreezeInv, NEW w \in Workers, Handle(w)
  PROVE  FreezeInv'
<1> USE DEF Executing
<1>0. CoreOK /\ at[w] \in Locals
  BY DEF TypeInv, CoreOK
<1>1. CASE Start(w) \/ Notify(w) \/ BeginReply(w) \/ ReplySent(w) \/ NoReply(w) \/ Close(w)
  <2>1. UNCHANGED <<frozen, late>>
    BY <1>1 DEF Start, Notify, BeginReply, ReplySent, NoReply, Close, worldVars
  <2>2. \E s \in {"round", "noticed", "check", "closing", "idle", "down"} : \E l : Go(w, s, l)
    <3>1. CASE BeginReply(w)
      BY <3>1 DEF BeginReply, With
    <3>2. CASE Start(w) \/ Notify(w) \/ ReplySent(w) \/ NoReply(w) \/ Close(w)
      BY <3>2 DEF Start, Notify, ReplySent, NoReply, Close, With, Throw
    <3> QED BY <1>1, <3>1, <3>2
  <2>3. PICK s, l : Go(w, s, l) /\ Silent(s, l)
    BY <2>2 DEF Silent
  <2> QED BY <2>1, <2>3, FreezeAside
<1>2. CASE Control(w)
  <2>1. Go(w, "closing", at[w]) /\ stage[w] = "round"
    BY <1>2 DEF Control, With
  <2>2. CASE frozen
    BY <1>2, <2>1, <2>2, FreezeAside DEF Control, Silent
  <2>3. CASE ~frozen
    <3>1. \A v \in Workers : stage[v] = "asking" => stage'[v] = "asking"
      BY <1>0, <2>1 DEF Go, CoreOK
    <3> QED BY <1>2, <2>3, <3>1, FreezeBegins DEF Control
  <2> QED BY <2>2, <2>3
<1>3. CASE Consult(w)
  <2> DEFINE l == [at[w] EXCEPT !.draft = frozen]
  <2>1. Go(w, "deciding", l) /\ UNCHANGED <<frozen, late>>
    BY <1>3 DEF Consult, With, worldVars
  <2>2. l.draft = frozen
    BY <1>0 DEF Locals
  <2>3. late[w] = 1 => Silent("deciding", l)
    BY <2>2 DEF FreezeInv, Silent, TypeInv, TablesOK
  <2> HIDE DEF l
  <2> QED BY <2>1, <2>3, FreezeAside
<1>4. CASE Deciding(w)
  BY <1>4, FreezeDecides
<1>5. CASE SendConfirmation(w)
  <2>1. PICK s, k : Go(w, s, k) /\ Silent(s, k)
    BY <1>0, <1>5, SendLocal, ProceedSilent DEF SendConfirmation
  <2> QED BY <1>5, <2>1, FreezeAside DEF SendConfirmation, worldVars
<1>6. CASE Check(w)
  <2>1. UNCHANGED <<frozen, late>> /\ stage[w] = "check"
    BY <1>6 DEF Check, worldVars
  <2>2. CASE Performed(w)
    BY <1>6, <2>1, <2>2, AfterAside DEF Check
  <2>3. CASE ~Performed(w)
    <3> DEFINE l == [at[w] EXCEPT !.halt = FlagAtCheck(w)]
    <3>1. Go(w, "record", l)
      BY <1>6, <2>3 DEF Check, With
    <3>2. l.halt = frozen
      BY <1>0 DEF Locals, FlagAtCheck
    <3>3. late[w] = 1 => Silent("record", l)
      BY <3>2 DEF FreezeInv, Silent, TypeInv, TablesOK
    <3> HIDE DEF l
    <3> QED BY <2>1, <3>1, <3>3, FreezeAside
  <2> QED BY <2>2, <2>3
<1>7. CASE Record(w)
  <2>1. Go(w, "guard", at[w]) /\ stage[w] = "record" /\ UNCHANGED <<frozen, late>>
    BY <1>7 DEF Record, With, worldVars
  <2>2. late[w] = 1 => Silent("guard", at[w])
    BY <2>1 DEF FreezeInv, Silent
  <2> QED BY <2>1, <2>2, FreezeAside
<1>8. CASE Guard(w)
  BY <1>8, FreezeGuard
<1>9. CASE Report(w)
  <2>1. late[w] = 1 => at[w].result # "confirmation-required"
    BY <1>9 DEF Report, FreezeInv, Silent
  <2> QED BY <1>9, <2>1, AfterAside DEF Report, worldVars
<1>10. CASE ConfirmRisk(w)
  <2>1. late[w] # 1 /\ Silent("answering", at[w])
    BY <1>10 DEF ConfirmRisk, FreezeInv, Silent
  <2> QED BY <1>10, <2>1, FreezeSends DEF ConfirmRisk, With
<1> QED BY <1>1, <1>2, <1>3, <1>4, <1>5, <1>6, <1>7, <1>8, <1>9, <1>10 DEF Handle, Deciding

LEMMA FreezeStep == TypeInv /\ FreezeInv /\ [Next]_serviceVars => FreezeInv'
<1> SUFFICES ASSUME TypeInv, FreezeInv, [Next]_serviceVars PROVE FreezeInv'
  OBVIOUS
<1>0. \A s \in {"idle", "claimed", "down"} : Silent(s, Fresh)
  BY DEF Silent
<1>1. ASSUME NEW w \in Workers, Handle(w) PROVE FreezeInv'
  BY <1>1, FreezeHandle
<1>2. ASSUME NEW w \in Workers, NEW m \in Messages, Receive(w, m) PROVE FreezeInv'
  BY <1>0, <1>2, FreezeAside DEF Receive, worldVars
<1>3. ASSUME NEW w \in Workers, Disabled(w) \/ Crash(w) \/ Restart(w)
      PROVE  FreezeInv'
  BY <1>0, <1>3, FreezeAside DEF Disabled, Crash, Restart, worldVars
<1>4. ASSUME NEW w \in Workers, Fail(w) PROVE FreezeInv'
  <2>1. Go(w, "down", Fresh) /\ UNCHANGED frozen
    BY <1>4 DEF Fail, Throw
  <2>2. CASE stage[w] = "confirming"
    <3>1. late[w] # 1
      BY <2>2 DEF FreezeInv, Silent
    <3>2. late' = IF frozen THEN [late EXCEPT ![w] = Bump(@)] ELSE late
      BY <1>4, <2>2 DEF Fail
    <3> QED BY <1>0, <2>1, <3>1, <3>2, FreezeSends
  <2>3. CASE stage[w] # "confirming"
    BY <1>0, <1>4, <2>1, <2>3, FreezeAside DEF Fail
  <2> QED BY <2>2, <2>3
<1>5. CASE Freeze
  BY <1>5, FreezeBegins DEF Freeze
<1>6. CASE Resume
  BY <1>6, FreezeEnds DEF Resume
<1>7. CASE ClaimsAge
  BY <1>7, FreezeStays DEF ClaimsAge, worldVars
<1>8. CASE UNCHANGED serviceVars
  BY <1>8, FreezeStays DEF serviceVars, worldVars
<1> QED BY <1>1, <1>2, <1>3, <1>4, <1>5, <1>6, <1>7, <1>8 DEF Next

(* After a freeze each process sends at most one thing more: a call that    *)
(* executeCommand had begun, the request that this call comes back with, or *)
(* the requests of one decision; whatever rounds, commands and replies its  *)
(* handler has before it, and even if claims expire and a message is        *)
(* handled by several processes.  Notices are not counted.                  *)
THEOREM FreezeHolds == Spec => []FreezeLetsOneThrough
<1>1. Init => FreezeInv
  BY DEF Init, FreezeInv
<1>2. FreezeInv => FreezeLetsOneThrough
  BY DEF FreezeInv, FreezeLetsOneThrough
<1> QED BY <1>1, <1>2, InitTypeInv, TypeStep, FreezeStep, PTL DEF Spec

-----------------------------------------------------------------------------
(* The steps of a handler away from executeCommand and the reply's row.     *)

Aside(w) ==
  \/ Start(w) \/ Control(w) \/ Consult(w) \/ Deciding(w) \/ SendConfirmation(w)
  \/ ConfirmRisk(w) \/ Notify(w) \/ NoReply(w) \/ Close(w)

LEMMA ConfirmingGoes ==
  ASSUME CoreOK, NEW w \in Workers, Deciding(w) \/ SendConfirmation(w)
  PROVE  /\ \E s \in {"asking", "check", "answering"} : \E l : Go(w, s, l)
         /\ UNCHANGED claimVars
<1>1. \E l \in Locals : Proceed(w, l)
  <2>1. CASE Deciding(w)
    BY <2>1, Decides DEF Decide
  <2>2. CASE SendConfirmation(w)
    BY <2>2, SendLocal DEF SendConfirmation
  <2> QED BY <2>1, <2>2
<1> QED BY <1>1, ProceedMoves DEF With

LEMMA ConfirmingLeaves ==
  ASSUME CoreOK, NEW w \in Workers, Deciding(w) \/ SendConfirmation(w)
  PROVE  UNCHANGED <<executions, retry, effects, unsure, delivered, pastVars>>
<1>1. CASE Deciding(w)
  BY <1>1, Decides DEF Decide, tableVars
<1>2. CASE SendConfirmation(w)
  BY <1>2 DEF SendConfirmation, tableVars, worldVars
<1> QED BY <1>1, <1>2

LEMMA AsideLeaves ==
  ASSUME CoreOK, NEW w \in Workers, Aside(w)
  PROVE  /\ UNCHANGED <<executions, retry, effects, unsure, delivered, pastVars>>
         /\ \E s, l : Go(w, s, l) /\ s \notin {"record", "guard", "report", "sent"}
         /\ \A v \in Workers : v # w => handles'[v] = handles[v]
<1>1. CASE Deciding(w) \/ SendConfirmation(w)
  <2>1. PICK s, l : s \in {"asking", "check", "answering"} /\ Go(w, s, l)
    BY <1>1, ConfirmingGoes
  <2>2. s \notin {"record", "guard", "report", "sent"}
    BY <2>1
  <2> QED BY <1>1, <2>1, <2>2, ConfirmingGoes, ConfirmingLeaves DEF claimVars
<1>2. CASE Start(w) \/ Control(w) \/ Consult(w) \/ ConfirmRisk(w) \/ Notify(w)
  BY <1>2
  DEF Start, Control, Consult, ConfirmRisk, Notify, With, claimVars, tableVars, worldVars
<1>3. CASE NoReply(w) \/ Close(w)
  <2>1. UNCHANGED <<executions, retry, effects, unsure, delivered, pastVars>>
    BY <1>3 DEF NoReply, Close, tableVars, worldVars
  <2>2. \E s, l : Go(w, s, l) /\ s \notin {"record", "guard", "report", "sent"}
    BY <1>3 DEF NoReply, Close, With, Throw
  <2>3. \A v \in Workers : v # w => handles'[v] = handles[v]
    BY <1>3 DEF NoReply, Close, With, claimVars, Throw, Release, Complete, Leave, CoreOK
  <2> QED BY <2>1, <2>2, <2>3
<1> QED BY <1>1, <1>2, <1>3 DEF Aside

-----------------------------------------------------------------------------
(* Delivery.  A reply counts as done, in its row or in a process, only on   *)
(* the word of a call that delivered one to the same message.               *)

DeliveryInv ==
  /\ \A m \in Messages : retry[m] = "complete" => m \in delivered
  /\ \A m \in Messages : \A t \in Texts : executions[m][t] = "complete" => m \in delivered
  /\ \A w \in Workers :
       /\ stage[w] = "sent" => handles[w] \in delivered
       /\ stage[w] = "report" /\ at[w].slot \in Texts /\ at[w].result = "complete" =>
            handles[w] \in delivered

(* A handler moves on, or ends, without a word about a delivery. *)
LEMMA DeliveryAside ==
  ASSUME TypeInv, DeliveryInv, NEW w \in Workers, NEW s, NEW l, Go(w, s, l),
         \A v \in Workers : v # w => handles'[v] = handles[v],
         s \notin {"sent", "report"}, UNCHANGED <<executions, retry, delivered>>
  PROVE  DeliveryInv'
  BY DEF TypeInv, CoreOK, DeliveryInv, Go

(* A process that executes goes on in the same event, or ends. *)
LEMMA AfterDelivery ==
  ASSUME TypeInv, DeliveryInv, NEW w \in Workers, stage[w] \in Executing, NEW result,
         After(w, result), UNCHANGED <<retry, delivered>>,
         \A m \in Messages : \A t \in Texts :
           executions'[m][t] = "complete" => m \in delivered,
         at[w].slot \in Texts /\ result \in {"complete", "duplicate"} =>
           handles[w] \in delivered
  PROVE  DeliveryInv'
<1>1. \E s, l : /\ Go(w, s, l)
                /\ \/ s \in {"check", "round", "confirming", "answering", "down"}
                   \/ /\ s = "sent" /\ handles[w] \in delivered
                      /\ UNCHANGED handles
  BY AfterMoves DEF TypeInv, With, Throw, claimVars
<1>2. \A v \in Workers : v # w => handles'[v] = handles[v]
  BY AfterMoves DEF TypeInv, With, Throw, claimVars, Release, Leave, CoreOK
<1> QED BY <1>1, <1>2 DEF TypeInv, CoreOK, DeliveryInv, Go

LEMMA DeliveryHandle ==
  ASSUME TypeInv, DeliveryInv, NEW w \in Workers, Handle(w)
  PROVE  DeliveryInv'
<1> USE DEF Executing
<1>0. CoreOK /\ TablesOK
  BY DEF TypeInv
<1>1. CASE Aside(w)
  <2>1. PICK s, l : Go(w, s, l) /\ s \notin {"record", "guard", "report", "sent"}
    BY <1>0, <1>1, AsideLeaves
  <2>2. /\ UNCHANGED <<executions, retry, delivered>>
        /\ \A v \in Workers : v # w => handles'[v] = handles[v]
    BY <1>0, <1>1, AsideLeaves
  <2> QED BY <2>1, <2>2, DeliveryAside
<1>2. CASE BeginReply(w)
  <2>1. /\ \E l : Go(w, "check", l)
        /\ handles' = handles /\ UNCHANGED <<executions, delivered>>
        /\ retry' = [retry EXCEPT ![handles[w]] = "pending"]
    BY <1>2 DEF BeginReply, With, claimVars, worldVars
  <2> QED BY <1>0, <2>1 DEF DeliveryInv, Go, CoreOK, TablesOK
<1>3. CASE ReplySent(w)
  <2>1. /\ Go(w, "closing", at[w])
        /\ handles' = handles /\ UNCHANGED <<executions, delivered>>
        /\ retry' = [retry EXCEPT ![handles[w]] = "complete"]
        /\ handles[w] \in delivered
    BY <1>3 DEF ReplySent, With, claimVars, worldVars, DeliveryInv
  <2> QED BY <1>0, <2>1 DEF DeliveryInv, Go, CoreOK, TablesOK
<1>4. CASE Check(w)
  <2>1. UNCHANGED <<executions, retry, delivered>> /\ stage[w] = "check"
    BY <1>4 DEF Check, tableVars, worldVars
  <2>2. CASE Performed(w)
    <3>1. handles[w] \in Messages
      BY <1>0, <2>1, HandlesMessage DEF Busy, Stages
    <3>2. at[w].slot \in Texts => executions[handles[w]][at[w].slot] = "complete"
      BY <2>2, ServiceAssumption DEF Performed
    <3>3. at[w].slot \in Texts => handles[w] \in delivered
      BY <3>1, <3>2 DEF DeliveryInv
    <3>4. After(w, "duplicate")
      BY <1>4, <2>2 DEF Check
    <3> QED BY <2>1, <3>3, <3>4, AfterDelivery DEF DeliveryInv
  <2>3. CASE ~Performed(w)
    <3>1. Go(w, "record", [at[w] EXCEPT !.halt = FlagAtCheck(w)]) /\ handles' = handles
      BY <1>4, <2>3 DEF Check, With, claimVars
    <3> QED BY <2>1, <3>1, DeliveryAside
  <2> QED BY <2>2, <2>3
<1>5. CASE Record(w)
  <2>1. /\ Go(w, "guard", at[w])
        /\ handles' = handles /\ UNCHANGED <<retry, delivered>>
        /\ executions' = [executions EXCEPT ![handles[w]][at[w].slot] = "running"]
    BY <1>5 DEF Record, With, claimVars, worldVars
  <2>2. ASSUME NEW m \in Messages, NEW t \in Texts, executions'[m][t] = "complete"
        PROVE  executions[m][t] = "complete"
    BY <1>0, <2>1, <2>2 DEF TablesOK, Slots
  <2> QED BY <1>0, <2>1, <2>2 DEF DeliveryInv, Go, CoreOK
<1>6. CASE Guard(w)
  <2>1. /\ handles' = handles /\ UNCHANGED <<executions, retry>>
        /\ stage' = [stage EXCEPT ![w] = "report"]
        /\ stage[w] = "guard"
        /\ \A v \in Workers : v # w => at'[v] = at[v]
    BY <1>0, <1>6 DEF Guard, With, Go, claimVars, tableVars, CoreOK
  <2>2. delivered \subseteq delivered'
    BY <1>6 DEF Guard, worldVars, Perform
  <2>3. ASSUME at'[w].slot \in Texts, at'[w].result = "complete"
        PROVE  handles[w] \in delivered'
    <3>1. PICK result : at' = [at EXCEPT ![w] = [at[w] EXCEPT !.result = result]]
                        /\ (result = "complete" => Perform(w, result))
      BY <1>6 DEF Guard, With, Go
    <3>2. at'[w].slot = at[w].slot /\ at'[w].result = result
      BY <1>0, <3>1 DEF CoreOK, Locals
    <3> QED BY <2>3, <3>1, <3>2, ServiceAssumption DEF Perform
  <2> QED BY <1>0, <2>1, <2>2, <2>3 DEF DeliveryInv, CoreOK
<1>7. CASE Report(w)
  <2>1. /\ After(w, at[w].result) /\ stage[w] = "report"
        /\ UNCHANGED <<retry, delivered>>
        /\ executions' = [executions EXCEPT ![handles[w]][at[w].slot] = at[w].result]
    BY <1>7 DEF Report, worldVars
  <2>2. at[w].result # "duplicate"
    BY <1>0 DEF CoreOK, Locals, Results
  <2>3. at[w].slot \in Texts /\ at[w].result = "complete" => handles[w] \in delivered
    BY <2>1 DEF DeliveryInv
  <2>4. ASSUME NEW m \in Messages, NEW t \in Texts, executions'[m][t] = "complete"
        PROVE  m \in delivered
    <3>1. CASE m = handles[w] /\ t = at[w].slot
      <4>1. executions'[m][t] = at[w].result
        BY <1>0, <2>1, <3>1 DEF TablesOK, Slots
      <4> QED BY <2>3, <2>4, <3>1, <4>1
    <3>2. CASE ~(m = handles[w] /\ t = at[w].slot)
      <4>1. executions'[m][t] = executions[m][t]
        BY <1>0, <2>1, <3>2 DEF TablesOK, Slots
      <4> QED BY <2>4, <4>1 DEF DeliveryInv
    <3> QED BY <3>1, <3>2
  <2> QED BY <2>1, <2>2, <2>3, <2>4, AfterDelivery
<1> QED BY <1>1, <1>2, <1>3, <1>4, <1>5, <1>6, <1>7 DEF Handle, Aside, Deciding

LEMMA DeliveryStep == TypeInv /\ DeliveryInv /\ [Next]_serviceVars => DeliveryInv'
<1> SUFFICES ASSUME TypeInv, DeliveryInv, [Next]_serviceVars PROVE DeliveryInv'
  OBVIOUS
<1>0. CoreOK
  BY DEF TypeInv
<1>1. ASSUME NEW w \in Workers, Handle(w) PROVE DeliveryInv'
  BY <1>1, DeliveryHandle
<1>2. ASSUME NEW w \in Workers,
             (\E m \in Messages : Receive(w, m))
               \/ Disabled(w) \/ Fail(w) \/ Crash(w) \/ Restart(w)
      PROVE  DeliveryInv'
  <2>1. UNCHANGED <<executions, retry, delivered>>
    BY <1>2 DEF Receive, Disabled, Fail, Crash, Restart, tableVars, worldVars
  <2>2. \E s, l : Go(w, s, l) /\ s \notin {"sent", "report"}
    BY <1>2 DEF Receive, Disabled, Fail, Crash, Restart, Throw
  <2>3. \A v \in Workers : v # w => handles'[v] = handles[v]
    BY <1>0, <1>2
    DEF Receive, Disabled, Fail, Crash, Restart, Throw, Take, Complete, Release,
        Abandon, Leave, claimVars, CoreOK
  <2>4. PICK s, l : Go(w, s, l) /\ s \notin {"sent", "report"}
    BY <2>2
  <2> QED BY <2>1, <2>3, <2>4, DeliveryAside
<1>3. CASE Freeze \/ Resume \/ ClaimsAge
  BY <1>3 DEF Freeze, Resume, ClaimsAge, Lapse, Sweep, DeliveryInv, claimVars, tableVars,
              worldVars
<1>4. CASE UNCHANGED serviceVars
  BY <1>4 DEF serviceVars, DeliveryInv, claimVars, tableVars, worldVars
<1> QED BY <1>1, <1>2, <1>3, <1>4 DEF Next

(* A reply marked as done was delivered, however many processes handle the  *)
(* message, at once or one after the other, and wherever they crash.        *)
THEOREM RepliesAreDelivered == Spec => []DoneIsDelivered
<1>1. Init => DeliveryInv
  BY DEF Init, DeliveryInv, Slots
<1>2. DeliveryInv => DoneIsDelivered
  BY DEF DeliveryInv, DoneIsDelivered
<1> QED BY <1>1, <1>2, InitTypeInv, TypeStep, DeliveryStep, PTL DEF Spec

-----------------------------------------------------------------------------
(* Until a handler of a message outlives its claim, one process at a time   *)
(* handles it, and holds its claim.                                         *)

OneHandler ==
  \A w \in Workers : handles[w] # NoEvent /\ handles[w] \notin outlived =>
    /\ claim[handles[w]] = "held"
    /\ \A v \in Workers : v # w => handles[v] # handles[w]

LEMMA LeaveOne ==
  ASSUME CoreOK, OneHandler, NEW w \in Workers,
         Complete(w) \/ Release(w) \/ Abandon(w), UNCHANGED outlived
  PROVE  OneHandler'
<1>1. \A v \in Workers : handles'[v] = IF v = w THEN NoEvent ELSE handles[v]
  BY DEF Complete, Release, Abandon, Leave, CoreOK
<1>2. handles[w] \in Events /\ handles[w] # NoEvent
  BY DEF Complete, Release, Abandon, Leave, CoreOK, Events
<1>3. \A e \in Events : e # handles[w] => claim'[e] = claim[e]
  BY DEF Complete, Release, Abandon, Closed, CoreOK
<1>4. ASSUME NEW v \in Workers, handles'[v] # NoEvent
      PROVE  handles'[v] = handles[v] /\ v # w /\ handles[v] \in Events
  BY <1>1, <1>4 DEF CoreOK, Events
<1> QED BY <1>1, <1>2, <1>3, <1>4 DEF OneHandler

LEMMA OneStays ==
  ASSUME OneHandler, UNCHANGED <<claimVars, outlived>> PROVE OneHandler'
  BY DEF OneHandler, claimVars

LEMMA TakeOne ==
  ASSUME CoreOK, OneHandler, NEW w \in Workers, NEW m \in Messages, Take(w, m),
         UNCHANGED outlived
  PROVE  OneHandler'
<1>1. \A v \in Workers : handles'[v] = IF v = w THEN m ELSE handles[v]
  BY DEF Take, CoreOK
<1>2. m \in Events /\ claim[m] # "held"
  BY DEF Take, Events
<1>3. \A e \in Events : claim'[e] = IF e = m THEN "held" ELSE claim[e]
  BY DEF Take, CoreOK
<1>4. m \notin outlived => \A v \in Workers : handles[v] # m
  BY <1>2, ClaimAssumption DEF OneHandler
<1>5. \A v \in Workers : handles[v] # NoEvent => handles[v] \in Events
  BY DEF CoreOK, Events
<1> QED BY <1>1, <1>2, <1>3, <1>4, <1>5 DEF OneHandler

LEMMA AgeOne ==
  ASSUME CoreOK, OneHandler, ClaimsAge PROVE OneHandler'
<1>1. handles' = handles /\ outlived \subseteq outlived'
  BY DEF ClaimsAge, Lapse, Sweep
<1>2. ASSUME NEW w \in Workers, handles[w] # NoEvent, handles[w] \notin outlived'
      PROVE  claim'[handles[w]] = "held"
  <2>1. handles[w] \in Events /\ claim[handles[w]] = "held"
    BY <1>1, <1>2 DEF OneHandler, CoreOK, Events
  <2>2. CASE \E S \in SUBSET Messages \ {{}} :
               Lapse(S) /\ outlived' = outlived \cup Outliving(S)
    <3>1. PICK S : Lapse(S) /\ outlived' = outlived \cup Outliving(S)
      BY <2>2
    <3>2. handles[w] \notin S
      BY <1>2, <3>1 DEF Outliving
    <3> QED BY <2>1, <3>1, <3>2 DEF Lapse
  <2>3. CASE Sweep({})
    BY <2>1, <2>3 DEF Sweep
  <2> QED BY <2>2, <2>3 DEF ClaimsAge
<1> QED BY <1>1, <1>2 DEF OneHandler

(* What a process does to the claims.                                       *)
LEMMA HandleClaims ==
  ASSUME TypeInv, NEW w \in Workers, Handle(w)
  PROVE  UNCHANGED claimVars \/ Complete(w) \/ Release(w)
<1> USE DEF Executing
<1>0. CoreOK
  BY DEF TypeInv
<1>1. CASE Start(w) \/ Control(w) \/ Consult(w) \/ ConfirmRisk(w) \/ Notify(w)
  BY <1>1 DEF Start, Control, Consult, ConfirmRisk, Notify, With
<1>2. CASE Deciding(w) \/ SendConfirmation(w)
  BY <1>0, <1>2, ConfirmingGoes
<1>3. CASE Check(w) \/ Report(w)
  <2>1. ASSUME NEW result, After(w, result)
        PROVE  UNCHANGED claimVars \/ Release(w)
    BY <1>0, <1>3, <2>1, AfterMoves DEF Check, Report, With, Throw
  <2> QED BY <1>3, <2>1 DEF Check, Report, With
<1>4. CASE Record(w) \/ Guard(w) \/ BeginReply(w) \/ ReplySent(w)
  BY <1>4 DEF Record, Guard, BeginReply, ReplySent, With
<1>5. CASE NoReply(w) \/ Close(w)
  BY <1>5 DEF NoReply, Close, With, Throw
<1> QED BY <1>1, <1>2, <1>3, <1>4, <1>5 DEF Handle, Deciding

(* What is past is not changed by a handler. *)
LEMMA HandlePast ==
  ASSUME TypeInv, NEW w \in Workers, Handle(w)
  PROVE  UNCHANGED pastVars
<1>1. CASE Aside(w)
  BY <1>1, AsideLeaves DEF TypeInv
<1>2. CASE Check(w) \/ Record(w) \/ Guard(w) \/ Report(w) \/ BeginReply(w) \/ ReplySent(w)
  BY <1>2 DEF Check, Record, Guard, Report, BeginReply, ReplySent
<1> QED BY <1>1, <1>2 DEF Handle, Aside, Deciding

LEMMA OneStep ==
  ASSUME TypeInv, OneHandler, [Next]_serviceVars PROVE OneHandler'
<1>0. CoreOK
  BY DEF TypeInv
<1>1. ASSUME NEW w \in Workers, Handle(w) PROVE OneHandler'
  <2>1. UNCHANGED outlived
    BY <1>1, HandlePast DEF pastVars
  <2>2. UNCHANGED claimVars \/ Complete(w) \/ Release(w)
    BY <1>1, HandleClaims
  <2> QED BY <1>0, <2>1, <2>2, LeaveOne, OneStays
<1>2. ASSUME NEW w \in Workers, NEW m \in Messages, Receive(w, m) PROVE OneHandler'
  BY <1>0, <1>2, TakeOne DEF Receive, pastVars
<1>3. ASSUME NEW w \in Workers, Disabled(w) \/ Fail(w) \/ Crash(w) PROVE OneHandler'
  BY <1>0, <1>3, LeaveOne DEF Disabled, Fail, Crash, Throw, pastVars
<1>4. ASSUME NEW w \in Workers, Restart(w) PROVE OneHandler'
  BY <1>4, OneStays DEF Restart, pastVars
<1>5. CASE Freeze \/ Resume
  BY <1>5, OneStays DEF Freeze, Resume, pastVars
<1>6. CASE ClaimsAge
  BY <1>0, <1>6, AgeOne
<1>7. CASE UNCHANGED serviceVars
  BY <1>7, OneStays DEF serviceVars, pastVars
<1> QED BY <1>1, <1>2, <1>3, <1>4, <1>5, <1>6, <1>7 DEF Next

-----------------------------------------------------------------------------
(* A command is not repeated.  What took effect for sure is on record, so   *)
(* that a handler that is past the check has a command that did not.        *)

Settled(m, c) == effects[m][c] = 0 \/ <<m, c>> \in unsure

CallOK(w) ==
  at[w].slot \in Commands /\ handles[w] \notin outlived =>
    /\ stage[w] \in {"record", "guard"} => Settled(handles[w], at[w].slot)
    /\ stage[w] \in {"guard", "report"} => executions[handles[w]][at[w].slot] = "running"
    /\ stage[w] = "report" =>
         Settled(handles[w], at[w].slot) \/ at[w].result = "complete"

RepeatInv ==
  /\ RepeatNeedsFailure
  /\ \A m \in Messages : \A c \in Commands :
       m \in outlived \/ Settled(m, c) \/ executions[m][c] \in {"running", "complete"}
  /\ \A w \in Workers : CallOK(w)

(* A handler that does not come near the call. *)
LEMMA RepeatAside ==
  ASSUME TypeInv, RepeatInv, NEW w \in Workers, NEW s, NEW l, Go(w, s, l),
         \A v \in Workers : v # w => handles'[v] = handles[v],
         s \notin {"record", "guard", "report"},
         UNCHANGED <<executions, effects, unsure, outlived>>
  PROVE  RepeatInv'
<1>1. RepeatNeedsFailure'
  BY DEF RepeatInv, RepeatNeedsFailure
<1>2. \A m \in Messages : \A c \in Commands :
        m \in outlived' \/ Settled(m, c)' \/ executions'[m][c] \in {"running", "complete"}
  BY DEF RepeatInv, Settled
<1>3. ASSUME NEW v \in Workers PROVE CallOK(v)'
  <2>1. CASE v = w
    BY <2>1 DEF Go, TypeInv, CoreOK, CallOK
  <2>2. CASE v # w
    BY <2>2 DEF Go, TypeInv, CoreOK, CallOK, RepeatInv, Settled
  <2> QED BY <2>1, <2>2
<1> QED BY <1>1, <1>2, <1>3 DEF RepeatInv

(* Nothing a call depends on changes, and more handlers outlive claims. *)
LEMMA RepeatStays ==
  ASSUME RepeatInv, UNCHANGED <<handles, stage, at, executions, effects, unsure>>,
         outlived \subseteq outlived'
  PROVE  RepeatInv'
<1>1. RepeatNeedsFailure'
  BY DEF RepeatInv, RepeatNeedsFailure
<1>2. \A m \in Messages : \A c \in Commands :
        m \in outlived' \/ Settled(m, c)' \/ executions'[m][c] \in {"running", "complete"}
  BY DEF RepeatInv, Settled
<1>3. ASSUME NEW v \in Workers PROVE CallOK(v)'
  BY DEF RepeatInv, CallOK, Settled
<1> QED BY <1>1, <1>2, <1>3 DEF RepeatInv

(* The record of the handler's own command changes, or its effect: another  *)
(* process handles another message.                                         *)
LEMMA OthersCalls ==
  ASSUME TypeInv, OneHandler, RepeatInv, NEW w \in Workers,
         NEW s, NEW l, Go(w, s, l), UNCHANGED outlived,
         \A v \in Workers : v # w => handles'[v] = handles[v],
         \A m \in Messages : \A c \in Commands : m # handles[w] =>
            /\ executions'[m][c] = executions[m][c]
            /\ effects'[m][c] = effects[m][c]
            /\ <<m, c>> \in unsure => <<m, c>> \in unsure',
         NEW v \in Workers, v # w
  PROVE  CallOK(v)'
<1>1. stage'[v] = stage[v] /\ at'[v] = at[v] /\ handles'[v] = handles[v]
  BY DEF Go, TypeInv, CoreOK
<1>2. SUFFICES ASSUME at[v].slot \in Commands, stage[v] \in {"record", "guard", "report"},
                      handles[v] \notin outlived
               PROVE  CallOK(v)'
  BY <1>1 DEF CallOK
<1>3. handles[v] \in Messages /\ handles[v] # NoEvent
  BY <1>2, HandlesMessage DEF TypeInv, Busy, Stages
<1>4. handles[v] # handles[w]
  BY <1>2, <1>3 DEF OneHandler
<1>5. Settled(handles[v], at[v].slot) => Settled(handles[v], at[v].slot)'
  BY <1>1, <1>2, <1>3, <1>4 DEF Settled
<1>6. CallOK(v)
  BY DEF RepeatInv
<1> QED BY <1>1, <1>2, <1>3, <1>4, <1>5, <1>6 DEF CallOK

(* Where the result of a call leads.                                        *)
LEMMA AfterGoes ==
  ASSUME CoreOK, NEW w \in Workers, stage[w] \in Executing, NEW result,
         After(w, result)
  PROVE  /\ \E s, l : Go(w, s, l) /\ s \notin {"record", "guard", "report"}
         /\ \A v \in Workers : v # w => handles'[v] = handles[v]
<1>1. \E s \in {"check", "round", "confirming", "answering", "sent", "down"} :
        \E l : Go(w, s, l)
  BY AfterMoves DEF With, Throw
<1>2. UNCHANGED handles \/ Leave(w)
  BY AfterMoves DEF With, Throw, claimVars, Release
<1> QED BY <1>1, <1>2 DEF Leave, CoreOK

LEMMA RepeatGuard ==
  ASSUME TypeInv, OneHandler, RepeatInv, NEW w \in Workers, Guard(w)
  PROVE  RepeatInv'
<1> DEFINE m == handles[w]
           c == at[w].slot
<1>0. CoreOK /\ TablesOK /\ stage[w] = "guard"
  BY DEF TypeInv, Guard
<1>1. m \in Messages /\ stage[w] \in Busy
  BY <1>0, HandlesMessage DEF Busy, Stages
<1>2. PICK result : /\ With(w, [at[w] EXCEPT !.result = result], "report")
                    /\ Perform(w, result) \/ UNCHANGED worldVars
  BY DEF Guard
<1>3. Go(w, "report", [at[w] EXCEPT !.result = result]) /\ UNCHANGED handles
  BY <1>2 DEF With, claimVars
<1>4. UNCHANGED <<executions, outlived>>
  BY DEF Guard, tableVars, pastVars
<1>5. at'[w].slot = c /\ at'[w].result = result /\ stage'[w] = "report"
  BY <1>0, <1>3 DEF Go, CoreOK, Locals
<1>6. c \in Commands /\ m \notin outlived => Settled(m, c) /\ executions[m][c] = "running"
  BY <1>0 DEF RepeatInv, CallOK
<1>7. \A n \in Messages : \A d \in Commands : n # m \/ d # c =>
        effects'[n][d] = effects[n][d] /\ (<<n, d>> \in unsure <=> <<n, d>> \in unsure')
  BY <1>0, <1>2 DEF Perform, worldVars, TablesOK
<1>8. c \in Commands /\ m \notin outlived =>
        /\ <<m, c>> \in unsure => <<m, c>> \in unsure'
        /\ effects'[m][c] > 1 => <<m, c>> \in unsure'
        /\ Settled(m, c)' \/ result = "complete"
  <2>1. CASE UNCHANGED worldVars
    <3>1. UNCHANGED <<effects, unsure, handles>> /\ at'[w].slot = c
      BY <1>3, <1>5, <2>1 DEF worldVars
    <3> QED BY <1>1, <1>6, <3>1 DEF RepeatInv, RepeatNeedsFailure, Settled
  <2>2. ASSUME Perform(w, result), c \in Commands, m \notin outlived
        PROVE  /\ <<m, c>> \in unsure => <<m, c>> \in unsure'
               /\ effects'[m][c] > 1 => <<m, c>> \in unsure'
               /\ Settled(m, c)' \/ result = "complete"
    <3>1. effects'[m][c] = Bump(effects[m][c])
      BY <1>0, <1>1, <2>2 DEF Perform, TablesOK
    <3>2. /\ <<m, c>> \in unsure => <<m, c>> \in unsure'
          /\ result # "complete" => <<m, c>> \in unsure'
      BY <2>2 DEF Perform
    <3>3. <<m, c>> \notin unsure => effects[m][c] = 0
      BY <1>6, <2>2 DEF Settled
    <3>4. UNCHANGED handles /\ at'[w].slot = c
      BY <1>3, <1>5
    <3> QED BY <3>1, <3>2, <3>3, <3>4 DEF Settled, Bump, MaxCount
  <2> QED BY <1>2, <2>1, <2>2
<1>9. RepeatNeedsFailure'
  BY <1>4, <1>7, <1>8 DEF RepeatInv, RepeatNeedsFailure
<1>10. ASSUME NEW n \in Messages, NEW d \in Commands
       PROVE  \/ n \in outlived' \/ Settled(n, d)'
              \/ executions'[n][d] \in {"running", "complete"}
  <2>1. CASE n = m /\ d = c
    BY <1>4, <1>6, <2>1
  <2>2. CASE n # m \/ d # c
    BY <1>4, <1>7, <2>2 DEF RepeatInv, Settled
  <2> QED BY <2>1, <2>2
<1>11. CallOK(w)'
  BY <1>3, <1>4, <1>5, <1>6, <1>8 DEF CallOK, Settled
<1>12. ASSUME NEW v \in Workers, v # w PROVE CallOK(v)'
  <2>1. \A u \in Workers : u # w => handles'[u] = handles[u]
    BY <1>3
  <2> QED BY <1>1, <1>3, <1>4, <1>7, <1>12, <2>1, OthersCalls
<1> QED BY <1>9, <1>10, <1>11, <1>12 DEF RepeatInv

LEMMA RepeatHandle ==
  ASSUME TypeInv, OneHandler, RepeatInv, NEW w \in Workers, Handle(w)
  PROVE  RepeatInv'
<1> USE DEF Executing
<1>0. CoreOK /\ TablesOK
  BY DEF TypeInv
<1>1. CASE Aside(w) \/ BeginReply(w) \/ ReplySent(w)
  <2>1. CASE Aside(w)
    <3>1. PICK s, l : Go(w, s, l) /\ s \notin {"record", "guard", "report", "sent"}
      BY <1>0, <2>1, AsideLeaves
    <3>2. /\ UNCHANGED <<executions, effects, unsure, outlived>>
          /\ \A v \in Workers : v # w => handles'[v] = handles[v]
      BY <1>0, <2>1, AsideLeaves DEF pastVars
    <3> QED BY <3>1, <3>2, RepeatAside
  <2>2. CASE BeginReply(w) \/ ReplySent(w)
    <3>1. /\ UNCHANGED <<executions, effects, unsure, outlived>>
          /\ \A v \in Workers : v # w => handles'[v] = handles[v]
      BY <2>2 DEF BeginReply, ReplySent, With, claimVars, worldVars, pastVars
    <3>2. PICK s, l : Go(w, s, l) /\ s \in {"check", "closing"}
      BY <2>2 DEF BeginReply, ReplySent, With
    <3> QED BY <3>1, <3>2, RepeatAside
  <2> QED BY <1>1, <2>1, <2>2
<1>2. CASE Check(w)
  <2>1. UNCHANGED <<executions, effects, unsure, outlived>> /\ stage[w] = "check"
    BY <1>2 DEF Check, tableVars, worldVars, pastVars
  <2>2. CASE Performed(w)
    <3>1. After(w, "duplicate")
      BY <1>2, <2>2 DEF Check
    <3>2. /\ \E s, l : Go(w, s, l) /\ s \notin {"record", "guard", "report"}
          /\ \A v \in Workers : v # w => handles'[v] = handles[v]
      BY <1>0, <2>1, <3>1, AfterGoes
    <3>3. PICK s, l : Go(w, s, l) /\ s \notin {"record", "guard", "report"}
      BY <3>2
    <3> QED BY <2>1, <3>2, <3>3, RepeatAside
  <2>3. CASE ~Performed(w)
    <3>1. Go(w, "record", [at[w] EXCEPT !.halt = FlagAtCheck(w)]) /\ UNCHANGED handles
      BY <1>2, <2>3 DEF Check, With, claimVars
    <3>2. at'[w].slot = at[w].slot /\ stage'[w] = "record"
      BY <1>0, <3>1 DEF Go, CoreOK, Locals
    <3>3. handles[w] \in Messages /\ stage[w] \in Busy
      BY <1>0, <2>1, HandlesMessage DEF Busy, Stages
    <3>4. at[w].slot \in Commands /\ handles[w] \notin outlived =>
            Settled(handles[w], at[w].slot)
      BY <2>3, <3>3 DEF Performed, RepeatInv
    <3>5. CallOK(w)'
      BY <2>1, <3>1, <3>2, <3>4 DEF CallOK, Settled
    <3>6. ASSUME NEW v \in Workers, v # w PROVE CallOK(v)'
      <4>1. \A u \in Workers : u # w => handles'[u] = handles[u]
        BY <3>1
      <4> QED BY <2>1, <3>1, <3>3, <3>6, <4>1, OthersCalls
    <3>7. RepeatNeedsFailure'
      BY <2>1 DEF RepeatInv, RepeatNeedsFailure
    <3>8. \A m \in Messages : \A c \in Commands :
            \/ m \in outlived' \/ Settled(m, c)'
            \/ executions'[m][c] \in {"running", "complete"}
      BY <2>1 DEF RepeatInv, Settled
    <3> QED BY <3>5, <3>6, <3>7, <3>8 DEF RepeatInv
  <2> QED BY <2>2, <2>3
<1>3. CASE Record(w)
  <2>1. /\ Go(w, "guard", at[w]) /\ UNCHANGED <<handles, effects, unsure, outlived>>
        /\ executions' = [executions EXCEPT ![handles[w]][at[w].slot] = "running"]
        /\ stage[w] = "record"
    BY <1>3 DEF Record, With, claimVars, worldVars, pastVars
  <2>2. handles[w] \in Messages /\ stage[w] \in Busy
    BY <1>0, <2>1, HandlesMessage DEF Busy, Stages
  <2>3. ASSUME NEW m \in Messages, NEW c \in Commands
        PROVE  executions'[m][c] =
                 IF m = handles[w] /\ c = at[w].slot THEN "running" ELSE executions[m][c]
    BY <1>0, <2>1 DEF TablesOK, Slots
  <2>4. at'[w] = at[w] /\ stage'[w] = "guard"
    BY <1>0, <2>1 DEF Go, CoreOK
  <2>5. CallOK(w)'
    BY <2>1, <2>2, <2>3, <2>4 DEF RepeatInv, CallOK, Settled
  <2>6. ASSUME NEW v \in Workers, v # w PROVE CallOK(v)'
    <3>1. \A u \in Workers : u # w => handles'[u] = handles[u]
      BY <2>1
    <3> QED BY <2>1, <2>2, <2>3, <2>6, <3>1, OthersCalls
  <2>7. RepeatNeedsFailure'
    BY <2>1 DEF RepeatInv, RepeatNeedsFailure
  <2>8. ASSUME NEW m \in Messages, NEW c \in Commands
        PROVE  \/ m \in outlived' \/ Settled(m, c)'
               \/ executions'[m][c] \in {"running", "complete"}
    <3>1. Settled(m, c)' <=> Settled(m, c)
      BY <2>1 DEF Settled
    <3> QED BY <2>1, <2>3, <3>1 DEF RepeatInv
  <2> QED BY <2>5, <2>6, <2>7, <2>8 DEF RepeatInv
<1>4. CASE Guard(w)
  BY <1>4, RepeatGuard
<1>5. CASE Report(w)
  <2>1. /\ After(w, at[w].result) /\ UNCHANGED <<effects, unsure, outlived>>
        /\ executions' = [executions EXCEPT ![handles[w]][at[w].slot] = at[w].result]
        /\ stage[w] = "report"
    BY <1>5 DEF Report, worldVars, pastVars
  <2>2. handles[w] \in Messages /\ stage[w] \in Busy
    BY <1>0, <2>1, HandlesMessage DEF Busy, Stages
  <2>3. ASSUME NEW m \in Messages, NEW c \in Commands
        PROVE  executions'[m][c] =
                 IF m = handles[w] /\ c = at[w].slot THEN at[w].result ELSE executions[m][c]
    BY <1>0, <2>1 DEF TablesOK, Slots
  <2>4. /\ \E s, l : Go(w, s, l) /\ s \notin {"record", "guard", "report"}
        /\ \A v \in Workers : v # w => handles'[v] = handles[v]
    BY <1>0, <2>1, AfterGoes
  <2>5. PICK s, l : Go(w, s, l) /\ s \notin {"record", "guard", "report"}
    BY <2>4
  <2>6. CallOK(w)'
    BY <1>0, <2>5 DEF CallOK, Go, CoreOK
  <2>7. ASSUME NEW v \in Workers, v # w PROVE CallOK(v)'
    BY <2>1, <2>2, <2>3, <2>4, <2>5, <2>7, OthersCalls
  <2>8. RepeatNeedsFailure'
    BY <2>1 DEF RepeatInv, RepeatNeedsFailure
  <2>9. ASSUME NEW m \in Messages, NEW c \in Commands
        PROVE  \/ m \in outlived' \/ Settled(m, c)'
               \/ executions'[m][c] \in {"running", "complete"}
    <3>1. CASE m = handles[w] /\ c = at[w].slot
      BY <2>1, <2>3, <3>1 DEF RepeatInv, CallOK, Settled
    <3>2. CASE ~(m = handles[w] /\ c = at[w].slot)
      BY <2>1, <2>3, <3>2 DEF RepeatInv, Settled
    <3> QED BY <3>1, <3>2
  <2> QED BY <2>6, <2>7, <2>8, <2>9 DEF RepeatInv
<1> QED BY <1>1, <1>2, <1>3, <1>4, <1>5 DEF Handle, Aside, Deciding

LEMMA RepeatStep ==
  ASSUME TypeInv, OneHandler, RepeatInv, [Next]_serviceVars PROVE RepeatInv'
<1>0. CoreOK
  BY DEF TypeInv
<1>1. ASSUME NEW w \in Workers, Handle(w) PROVE RepeatInv'
  BY <1>1, RepeatHandle
<1>2. ASSUME NEW w \in Workers,
             (\E m \in Messages : Receive(w, m))
               \/ Disabled(w) \/ Fail(w) \/ Crash(w) \/ Restart(w)
      PROVE  RepeatInv'
  <2>1. UNCHANGED <<executions, effects, unsure, outlived>>
    BY <1>2
    DEF Receive, Disabled, Fail, Crash, Restart, tableVars, worldVars, pastVars
  <2>2. \E s, l : Go(w, s, l) /\ s \notin {"record", "guard", "report"}
    BY <1>2 DEF Receive, Disabled, Fail, Crash, Restart, Throw
  <2>3. \A v \in Workers : v # w => handles'[v] = handles[v]
    BY <1>0, <1>2
    DEF Receive, Disabled, Fail, Crash, Restart, Throw, Take, Complete, Release,
        Abandon, Leave, claimVars, CoreOK
  <2>4. PICK s, l : Go(w, s, l) /\ s \notin {"record", "guard", "report"}
    BY <2>2
  <2> QED BY <2>1, <2>3, <2>4, RepeatAside
<1>3. CASE Freeze \/ Resume \/ ClaimsAge
  <2>1. UNCHANGED <<handles, stage, at, executions, effects, unsure>>
    BY <1>3
    DEF Freeze, Resume, ClaimsAge, Lapse, Sweep, claimVars, tableVars, worldVars
  <2>2. outlived \subseteq outlived'
    BY <1>3 DEF Freeze, Resume, ClaimsAge, pastVars
  <2> QED BY <2>1, <2>2, RepeatStays
<1>4. CASE UNCHANGED serviceVars
  BY <1>4, RepeatStays DEF serviceVars, claimVars, tableVars, worldVars, pastVars
<1> QED BY <1>1, <1>2, <1>3, <1>4 DEF Next

LEMMA InitOnce == Init => OneHandler /\ RepeatInv
<1> SUFFICES ASSUME Init PROVE OneHandler /\ RepeatInv
  OBVIOUS
<1>1. OneHandler
  BY DEF Init, ClaimInit, OneHandler
<1>2. \A m \in Messages : \A c \in Commands : effects[m][c] = 0
  BY DEF Init
<1>3. \A w \in Workers : stage[w] = "idle"
  BY DEF Init
<1> QED BY <1>1, <1>2, <1>3 DEF RepeatInv, RepeatNeedsFailure, CallOK, Settled

(* A command that took effect and was not reported as failed is not         *)
(* performed again, whatever crashes, redeliveries and readings there are,  *)
(* for any processes, messages and commands; except on a message that a     *)
(* handler worked on longer than its claim lasted.                          *)
THEOREM CommandsAreNotRepeated == Spec => []RepeatNeedsFailure
<1>1. RepeatInv => RepeatNeedsFailure
  BY DEF RepeatInv
<1>2. TypeInv /\ OneHandler /\ RepeatInv /\ [Next]_serviceVars =>
        (TypeInv /\ OneHandler /\ RepeatInv)'
  BY TypeStep, OneStep, RepeatStep
<1> QED BY <1>1, <1>2, InitTypeInv, InitOnce, PTL DEF Spec

-----------------------------------------------------------------------------
(* A reply that was begun.  Whoever handles its message before it is        *)
(* delivered knows that it is retrying it, and has no commands.             *)

Acting(w) ==
  \/ stage[w] \in {"asking", "confirming"}
  \/ stage[w] \in Executing /\ at[w].slot \in Commands

ReplyOK(w) ==
  /\ stage[w] \in Stages \ {"idle", "down", "claimed", "round", "closing"} =>
       handles[w] \notin Controls
  /\ handles[w] \notin outlived =>
       /\ /\ stage[w] \in {"round", "deciding", "answering", "noticed"}
          /\ retry[handles[w]] = "pending"
          => at[w].retrying
       /\ Acting(w) => ~at[w].retrying /\ retry[handles[w]] # "pending"
       /\ stage[w] = "closing" => retry[handles[w]] # "pending"

ReplyInv ==
  /\ ReplyBeforeComplete
  /\ \A m \in Controls : retry[m] = "absent"
  /\ \A w \in Workers : ReplyOK(w)

(* A handler moves on; the rows of other messages stay. *)
LEMMA ReplyOthers ==
  ASSUME TypeInv, OneHandler, ReplyInv, NEW w \in Workers, stage[w] \in Busy,
         NEW s, NEW l, Go(w, s, l), UNCHANGED outlived,
         \A v \in Workers : v # w => handles'[v] = handles[v],
         \A m \in Messages : m # handles[w] => retry'[m] = retry[m],
         NEW v \in Workers, v # w
  PROVE  ReplyOK(v)'
<1>1. stage'[v] = stage[v] /\ at'[v] = at[v] /\ handles'[v] = handles[v]
  BY DEF Go, TypeInv, CoreOK
<1>2. CASE stage[v] \in {"idle", "down", "claimed"}
  BY <1>1, <1>2 DEF ReplyOK, Acting, Executing
<1>3. CASE stage[v] \in Busy /\ handles[v] \notin outlived
  <2>1. handles[v] \in Messages /\ handles[v] # handles[w]
    BY <1>3, HandlesMessage DEF TypeInv, OneHandler
  <2>2. retry'[handles[v]] = retry[handles[v]] /\ ReplyOK(v)
    BY <2>1 DEF ReplyInv
  <2> QED BY <1>1, <2>2 DEF ReplyOK, Acting
<1>4. CASE handles[v] \in outlived
  <2>1. ReplyOK(v)
    BY DEF ReplyInv
  <2> QED BY <1>1, <1>4, <2>1 DEF ReplyOK
<1> QED BY <1>2, <1>3, <1>4 DEF TypeInv, CoreOK, Busy

(* It leaves the rows alone, and ends without completing the message. *)
LEMMA ReplyAside ==
  ASSUME TypeInv, OneHandler, ReplyInv, NEW w \in Workers, stage[w] \in Busy,
         NEW s, NEW l, Go(w, s, l), UNCHANGED <<retry, pastVars>>,
         UNCHANGED claimVars \/ Release(w) \/ Abandon(w), ReplyOK(w)'
  PROVE  ReplyInv'
<1>1. \A v \in Workers : v # w => handles'[v] = handles[v]
  BY DEF claimVars, Release, Abandon, Leave, TypeInv, CoreOK
<1>2. \A m \in Messages : claim'[m] = "complete" => claim[m] = "complete"
  BY DEF claimVars, Release, Abandon, Closed, TypeInv, CoreOK, Events
<1>3. ReplyBeforeComplete'
  BY <1>2 DEF ReplyInv, ReplyBeforeComplete, pastVars
<1>4. \A v \in Workers : v # w => ReplyOK(v)'
  BY <1>1, ReplyOthers DEF pastVars
<1> QED BY <1>3, <1>4 DEF ReplyInv

(* It ends. *)
LEMMA ReplyEnds ==
  ASSUME TypeInv, OneHandler, ReplyInv, NEW w \in Workers, stage[w] \in Busy,
         NEW s \in {"idle", "down"}, NEW l, Go(w, s, l), UNCHANGED <<retry, pastVars>>,
         Release(w) \/ Abandon(w)
  PROVE  ReplyInv'
<1>1. stage'[w] = s
  BY DEF Go, TypeInv, CoreOK
<1>2. ReplyOK(w)'
  BY <1>1 DEF ReplyOK, Acting, Executing
<1> QED BY <1>2, ReplyAside

(* The handler's message becomes complete, owing nothing, or is ignored. *)
LEMMA ReplyCompletes ==
  ASSUME TypeInv, OneHandler, ReplyInv, NEW w \in Workers, stage[w] \in Busy,
         NEW l, Go(w, "idle", l), UNCHANGED retry, Complete(w),
         ignored \subseteq ignored', UNCHANGED outlived,
         retry[handles[w]] = "pending" => handles[w] \in ignored' \cup outlived
  PROVE  ReplyInv'
<1>1. \A v \in Workers : v # w => handles'[v] = handles[v]
  BY DEF Complete, Leave, TypeInv, CoreOK
<1>2. \A m \in Messages : m # handles[w] => claim'[m] = claim[m]
  BY DEF Complete, Closed, TypeInv, CoreOK, Events
<1>3. ReplyBeforeComplete'
  BY <1>2 DEF ReplyInv, ReplyBeforeComplete
<1>4. stage'[w] = "idle"
  BY DEF Go, TypeInv, CoreOK
<1>5. ReplyOK(w)'
  BY <1>4 DEF ReplyOK, Acting, Executing
<1>6. \A v \in Workers : v # w => ReplyOK(v)'
  BY <1>1, ReplyOthers
<1> QED BY <1>3, <1>5, <1>6 DEF ReplyInv

(* The row of the handler's own message changes. *)
LEMMA ReplyWrites ==
  ASSUME TypeInv, OneHandler, ReplyInv, NEW w \in Workers, stage[w] \in Busy,
         handles[w] \notin Controls, NEW s, NEW l, Go(w, s, l), NEW status,
         retry' = [retry EXCEPT ![handles[w]] = status],
         UNCHANGED pastVars, UNCHANGED claimVars, ReplyOK(w)'
  PROVE  ReplyInv'
<1>1. /\ handles[w] \in Messages
      /\ handles[w] \notin outlived => claim[handles[w]] = "held"
  BY HandlesMessage DEF TypeInv, OneHandler
<1>2. \A m \in Messages : m # handles[w] => retry'[m] = retry[m]
  BY DEF TypeInv, TablesOK
<1>3. UNCHANGED <<claim, handles, ignored, outlived>>
  BY DEF claimVars, pastVars
<1>4. ReplyBeforeComplete'
  BY <1>1, <1>2, <1>3 DEF ReplyInv, ReplyBeforeComplete
<1>5. \A v \in Workers : v # w => ReplyOK(v)'
  BY <1>2, <1>3, ReplyOthers
<1>6. \A m \in Controls : retry'[m] = "absent"
  BY <1>2, ServiceAssumption DEF ReplyInv
<1> QED BY <1>4, <1>5, <1>6 DEF ReplyInv

(* What executeCommand's caller does next, after a command or a reply. *)
LEMMA ReplyAfter ==
  ASSUME TypeInv, OneHandler, ReplyInv, NEW w \in Workers, stage[w] \in Executing,
         NEW result, After(w, result), UNCHANGED <<retry, pastVars>>
  PROVE  ReplyInv'
<1>0. CoreOK /\ stage[w] \in Busy /\ ReplyOK(w)
  BY DEF TypeInv, Executing, Busy, Stages, ReplyInv
<1>1. CASE /\ at[w].slot \in Commands
           /\ \E l \in Locals : \E s \in {"check", "round", "confirming", "answering"} :
                /\ s = "check" => l.slot \in Commands
                /\ s = "confirming" => result = "confirmation-required"
                /\ l.retrying = at[w].retrying
                /\ With(w, l, s)
  <2>1. PICK l \in Locals, s \in {"check", "round", "confirming", "answering"} :
          l.retrying = at[w].retrying /\ With(w, l, s)
    BY <1>1
  <2>2. Go(w, s, l) /\ UNCHANGED <<claimVars, handles>>
    BY <2>1 DEF With, claimVars
  <2>3. stage'[w] = s /\ at'[w] = l
    BY <1>0, <2>2 DEF Go, CoreOK
  <2>4. /\ handles[w] \notin Controls
        /\ handles[w] \notin outlived => ~at[w].retrying /\ retry[handles[w]] # "pending"
    BY <1>0, <1>1 DEF ReplyOK, Acting, Executing, Stages
  <2>5. ReplyOK(w)'
    BY <2>1, <2>2, <2>3, <2>4 DEF ReplyOK, Acting, Executing, pastVars
  <2> QED BY <1>0, <2>2, <2>5, ReplyAside
<1>2. CASE With(w, [at[w] EXCEPT !.slot = None], "sent")
  <2>1. Go(w, "sent", [at[w] EXCEPT !.slot = None]) /\ UNCHANGED <<claimVars, handles>>
    BY <1>2 DEF With, claimVars
  <2>2. stage'[w] = "sent" /\ handles[w] \notin Controls
    BY <1>0, <2>1 DEF Go, CoreOK, ReplyOK, Executing, Stages
  <2>3. ReplyOK(w)'
    BY <2>1, <2>2 DEF ReplyOK, Acting, Executing
  <2> QED BY <1>0, <2>1, <2>3, ReplyAside
<1>3. CASE Throw(w)
  BY <1>0, <1>3, ReplyEnds DEF Throw
<1> QED BY <1>0, <1>1, <1>2, <1>3, AfterMoves

LEMMA ReplyHandle ==
  ASSUME TypeInv, OneHandler, ReplyInv, NEW w \in Workers, Handle(w)
  PROVE  ReplyInv'
<1>0. CoreOK /\ TablesOK /\ at[w] \in Locals /\ ReplyOK(w)
  BY DEF TypeInv, CoreOK, ReplyInv
<1>1. CASE Start(w)
  <2>1. /\ Go(w, "round", [Fresh EXCEPT !.retrying = retry[handles[w]] = "pending"])
        /\ UNCHANGED <<claimVars, handles, retry, pastVars>> /\ stage[w] \in Busy
    BY <1>1 DEF Start, With, claimVars, tableVars, Busy, Stages
  <2>2. stage'[w] = "round" /\ at'[w].retrying = (retry[handles[w]] = "pending")
    BY <1>0, <2>1, FreshIsLocal DEF Go, CoreOK, Locals
  <2>3. ReplyOK(w)'
    BY <2>1, <2>2 DEF ReplyOK, Acting, Executing, Stages, pastVars
  <2> QED BY <2>1, <2>3, ReplyAside
<1>2. CASE Control(w)
  <2>1. /\ Go(w, "closing", at[w]) /\ stage[w] \in Busy /\ handles[w] \in Controls
        /\ UNCHANGED <<claimVars, handles, retry, pastVars>>
    BY <1>2 DEF Control, With, claimVars, tableVars, Busy, Stages
  <2>2. retry[handles[w]] = "absent" /\ stage'[w] = "closing"
    BY <1>0, <2>1 DEF ReplyInv, Go, CoreOK
  <2>3. ReplyOK(w)'
    BY <2>1, <2>2 DEF ReplyOK, Acting, Executing, Stages, pastVars
  <2> QED BY <2>1, <2>3, ReplyAside
<1>3. CASE Consult(w)
  <2>1. /\ Go(w, "deciding", [at[w] EXCEPT !.draft = frozen]) /\ stage[w] = "round"
        /\ UNCHANGED <<claimVars, handles, retry, pastVars>>
        /\ handles[w] \notin Controls
    BY <1>3 DEF Consult, With, claimVars, tableVars
  <2>2. stage'[w] = "deciding" /\ at'[w].retrying = at[w].retrying
    BY <1>0, <2>1 DEF Go, CoreOK, Locals
  <2>3. ReplyOK(w)'
    BY <1>0, <2>1, <2>2 DEF ReplyOK, Acting, Executing, Stages, pastVars
  <2> QED BY <2>1, <2>3, ReplyAside DEF Busy, Stages
<1>4. CASE Deciding(w)
  <2>1. PICK l \in Locals : /\ Decide(w, l)
                            /\ l.retrying = at[w].retrying
                            /\ l.asks > 0 \/ l.todo # {} => MayCommand(w)
    BY <1>0, <1>4, Decides
  <2>2. Proceed(w, l) /\ UNCHANGED <<retry, pastVars>> /\ stage[w] = "deciding"
    BY <1>0, <1>4, <2>1, Decides DEF Decide, tableVars
  <2>3. PICK k \in Locals, s \in {"asking", "check", "answering"} :
          /\ With(w, k, s)
          /\ k.retrying = l.retrying
          /\ s # "answering" => l.asks > 0 \/ l.todo # {}
    BY <2>2, ProceedMoves
  <2>4. Go(w, s, k) /\ UNCHANGED <<claimVars, handles>>
    BY <2>3 DEF With, claimVars
  <2>5. /\ stage'[w] = s /\ at'[w].retrying = at[w].retrying
        /\ s # "answering" => ~at[w].retrying
    BY <1>0, <2>1, <2>3, <2>4 DEF Go, CoreOK, MayCommand
  <2>6. ReplyOK(w)'
    BY <1>0, <2>2, <2>3, <2>4, <2>5 DEF ReplyOK, Acting, Executing, Stages, pastVars
  <2> QED BY <2>2, <2>4, <2>6, ReplyAside DEF Busy, Stages
<1>5. CASE SendConfirmation(w)
  <2> DEFINE l == [at[w] EXCEPT !.asks = @ - 1]
  <2>1. /\ l \in Locals /\ l.retrying = at[w].retrying
        /\ Proceed(w, l) /\ UNCHANGED <<retry, pastVars>> /\ stage[w] = "asking"
    BY <1>0, <1>5, SendLocal DEF SendConfirmation, tableVars
  <2> HIDE DEF l
  <2>2. PICK k \in Locals, s \in {"asking", "check", "answering"} :
          With(w, k, s) /\ k.retrying = l.retrying
    BY <2>1, ProceedMoves
  <2>3. Go(w, s, k) /\ UNCHANGED <<claimVars, handles>>
    BY <2>2 DEF With, claimVars
  <2>4. stage'[w] = s /\ at'[w].retrying = at[w].retrying
    BY <1>0, <2>1, <2>2, <2>3 DEF Go, CoreOK
  <2>5. ReplyOK(w)'
    BY <1>0, <2>1, <2>2, <2>3, <2>4 DEF ReplyOK, Acting, Executing, Stages, pastVars
  <2> QED BY <2>1, <2>3, <2>5, ReplyAside DEF Busy, Stages
<1>6. CASE Check(w)
  <2>1. UNCHANGED <<retry, pastVars>> /\ stage[w] = "check"
    BY <1>6 DEF Check, tableVars
  <2>2. CASE Performed(w)
    BY <1>6, <2>1, <2>2, ReplyAfter DEF Check, Executing
  <2>3. CASE ~Performed(w)
    <3>1. /\ Go(w, "record", [at[w] EXCEPT !.halt = FlagAtCheck(w)])
          /\ UNCHANGED <<claimVars, handles>>
      BY <1>6, <2>3 DEF Check, With, claimVars
    <3>2. /\ stage'[w] = "record" /\ at'[w].slot = at[w].slot
          /\ at'[w].retrying = at[w].retrying
      BY <1>0, <3>1 DEF Go, CoreOK, Locals
    <3>3. ReplyOK(w)'
      BY <1>0, <2>1, <3>1, <3>2 DEF ReplyOK, Acting, Executing, Stages, pastVars
    <3> QED BY <2>1, <3>1, <3>3, ReplyAside DEF Busy, Stages
  <2> QED BY <2>2, <2>3
<1>7. CASE Record(w)
  <2>1. /\ Go(w, "guard", at[w]) /\ stage[w] = "record"
        /\ UNCHANGED <<claimVars, handles, retry, pastVars>>
    BY <1>7 DEF Record, With, claimVars
  <2>2. stage'[w] = "guard" /\ at'[w] = at[w]
    BY <1>0, <2>1 DEF Go, CoreOK
  <2>3. ReplyOK(w)'
    BY <1>0, <2>1, <2>2 DEF ReplyOK, Acting, Executing, Stages, pastVars
  <2> QED BY <2>1, <2>3, ReplyAside DEF Busy, Stages
<1>8. CASE Guard(w)
  <2>1. /\ \E result : Go(w, "report", [at[w] EXCEPT !.result = result])
        /\ UNCHANGED <<claimVars, handles, retry, pastVars>> /\ stage[w] = "guard"
    BY <1>8 DEF Guard, With, claimVars, tableVars
  <2>2. PICK result : Go(w, "report", [at[w] EXCEPT !.result = result])
    BY <2>1
  <2>3. /\ stage'[w] = "report" /\ at'[w].slot = at[w].slot
        /\ at'[w].retrying = at[w].retrying
    BY <1>0, <2>2 DEF Go, CoreOK, Locals
  <2>4. ReplyOK(w)'
    BY <1>0, <2>1, <2>3 DEF ReplyOK, Acting, Executing, Stages, pastVars
  <2> QED BY <2>1, <2>2, <2>4, ReplyAside DEF Busy, Stages
<1>9. CASE Report(w)
  BY <1>9, ReplyAfter DEF Report, Executing
<1>10. CASE BeginReply(w)
  <2>1. /\ stage[w] \in {"answering", "noticed"} /\ UNCHANGED <<claimVars, handles, pastVars>>
        /\ retry' = [retry EXCEPT ![handles[w]] = "pending"]
    BY <1>10 DEF BeginReply, With, claimVars
  <2>2. PICK text \in Texts : Go(w, "check", [at[w] EXCEPT !.slot = text])
    BY <1>10 DEF BeginReply, With
  <2>3. stage'[w] = "check" /\ at'[w].slot \notin Commands
    BY <1>0, <2>2, ServiceAssumption DEF Go, CoreOK, Locals
  <2>4. handles[w] \notin Controls
    BY <1>0, <2>1 DEF ReplyOK, Stages
  <2>5. ReplyOK(w)'
    BY <2>1, <2>3, <2>4 DEF ReplyOK, Acting, pastVars
  <2> QED BY <2>1, <2>2, <2>4, <2>5, ReplyWrites DEF Busy, Stages
<1>11. CASE ReplySent(w)
  <2>1. /\ stage[w] = "sent" /\ UNCHANGED <<claimVars, handles, pastVars>>
        /\ retry' = [retry EXCEPT ![handles[w]] = "complete"]
        /\ Go(w, "closing", at[w])
    BY <1>11 DEF ReplySent, With, claimVars
  <2>2. stage'[w] = "closing" /\ handles[w] \notin Controls /\ handles[w] \in Messages
    BY <1>0, <2>1, HandlesMessage DEF Go, CoreOK, ReplyOK, Busy, Stages
  <2>3. retry'[handles[w]] = "complete"
    BY <1>0, <2>1, <2>2 DEF TablesOK
  <2>4. ReplyOK(w)'
    BY <2>1, <2>2, <2>3 DEF ReplyOK, Acting, Executing, Stages, pastVars
  <2> QED BY <2>1, <2>2, <2>4, ReplyWrites DEF Busy, Stages
<1>12. CASE NoReply(w)
  <2>1. stage[w] \in {"answering", "noticed"} /\ UNCHANGED <<retry, pastVars>>
    BY <1>12 DEF NoReply, tableVars
  <2>2. CASE at[w].retrying
    BY <1>12, <2>1, <2>2, ReplyEnds DEF NoReply, Throw, Busy, Stages
  <2>3. CASE ~at[w].retrying
    <3>1. Go(w, "closing", at[w]) /\ UNCHANGED <<claimVars, handles>>
      BY <1>12, <2>3 DEF NoReply, With, claimVars
    <3>2. stage'[w] = "closing"
      BY <1>0, <3>1 DEF Go, CoreOK
    <3>3. ReplyOK(w)'
      BY <1>0, <2>1, <2>3, <3>1, <3>2 DEF ReplyOK, Acting, Executing, Stages, pastVars
    <3> QED BY <2>1, <3>1, <3>3, ReplyAside DEF Busy, Stages
  <2> QED BY <2>2, <2>3
<1>13. CASE Close(w)
  <2>1. retry[handles[w]] = "pending" => handles[w] \in outlived
    BY <1>0, <1>13 DEF Close, ReplyOK
  <2> QED BY <1>13, <2>1, ReplyCompletes DEF Close, tableVars, pastVars, Busy, Stages
<1>14. CASE ConfirmRisk(w) \/ Notify(w)
  <2>1. /\ \E s \in {"answering", "noticed"} : Go(w, s, at[w])
        /\ UNCHANGED <<claimVars, handles, retry, pastVars>>
        /\ stage[w] \in {"confirming", "answering"}
    BY <1>14 DEF ConfirmRisk, Notify, With, claimVars, tableVars
  <2>2. PICK s \in {"answering", "noticed"} : Go(w, s, at[w])
    BY <2>1
  <2>3. stage'[w] = s /\ at'[w] = at[w]
    BY <1>0, <2>2 DEF Go, CoreOK
  <2>4. ReplyOK(w)'
    BY <1>0, <2>1, <2>3 DEF ReplyOK, Acting, Executing, Stages, pastVars
  <2> QED BY <2>1, <2>2, <2>4, ReplyAside DEF Busy, Stages
<1> QED
  BY <1>1, <1>2, <1>3, <1>4, <1>5, <1>6, <1>7, <1>8, <1>9, <1>10, <1>11, <1>12, <1>13,
     <1>14
  DEF Handle, Deciding

LEMMA ReplyStep ==
  ASSUME TypeInv, OneHandler, ReplyInv, [Next]_serviceVars PROVE ReplyInv'
<1>0. CoreOK
  BY DEF TypeInv
<1>1. ASSUME NEW w \in Workers, Handle(w) PROVE ReplyInv'
  BY <1>1, ReplyHandle
<1>2. ASSUME NEW w \in Workers, NEW m \in Messages, Receive(w, m) PROVE ReplyInv'
  <2>1. /\ Go(w, "claimed", Fresh) /\ UNCHANGED <<retry, pastVars>> /\ Take(w, m)
    BY <1>2 DEF Receive, tableVars
  <2>2. \A n \in Messages : claim'[n] = "complete" => claim[n] = "complete"
    BY <1>0, <2>1 DEF Take, CoreOK, Events
  <2>3. ReplyBeforeComplete'
    BY <2>1, <2>2 DEF ReplyInv, ReplyBeforeComplete, pastVars
  <2>4. ASSUME NEW v \in Workers PROVE ReplyOK(v)'
    <3>1. CASE v = w
      BY <1>0, <2>1, <3>1 DEF Go, CoreOK, ReplyOK, Acting, Executing
    <3>2. CASE v # w
      <4>1. stage'[v] = stage[v] /\ at'[v] = at[v] /\ handles'[v] = handles[v]
        BY <1>0, <2>1, <3>2 DEF Go, Take, CoreOK
      <4> QED BY <2>1, <4>1 DEF ReplyInv, ReplyOK, Acting, pastVars
    <3> QED BY <3>1, <3>2
  <2> QED BY <2>1, <2>3, <2>4 DEF ReplyInv
<1>3. ASSUME NEW w \in Workers, Disabled(w) PROVE ReplyInv'
  BY <1>3, ReplyCompletes DEF Disabled, tableVars, Busy, Stages
<1>4. ASSUME NEW w \in Workers, Fail(w) PROVE ReplyInv'
  BY <1>4, ReplyEnds DEF Fail, Throw, tableVars, Busy, Stages
<1>5. ASSUME NEW w \in Workers, Crash(w) PROVE ReplyInv'
  <2>1. stage[w] \in Busy
    BY <1>0, <1>5 DEF Crash, Abandon, Leave, CoreOK, Busy
  <2> QED BY <1>5, <2>1, ReplyEnds DEF Crash, tableVars
<1>6. ASSUME NEW w \in Workers, Restart(w) PROVE ReplyInv'
  <2>1. /\ Go(w, "idle", Fresh) /\ UNCHANGED <<claim, handles, retry, ignored, outlived>>
    BY <1>6 DEF Restart, claimVars, tableVars, pastVars
  <2>2. ASSUME NEW v \in Workers PROVE ReplyOK(v)'
    <3>1. CASE v = w
      BY <1>0, <2>1, <3>1 DEF Go, CoreOK, ReplyOK, Acting, Executing
    <3>2. CASE v # w
      BY <1>0, <2>1, <3>2 DEF Go, CoreOK, ReplyInv, ReplyOK, Acting
    <3> QED BY <3>1, <3>2
  <2> QED BY <2>1, <2>2 DEF ReplyInv, ReplyBeforeComplete
<1>7. CASE Freeze \/ Resume \/ UNCHANGED serviceVars
  <2>1. UNCHANGED <<claim, handles, retry, ignored, outlived, stage, at>>
    BY <1>7 DEF Freeze, Resume, serviceVars, claimVars, tableVars, pastVars
  <2> QED BY <2>1 DEF ReplyInv, ReplyBeforeComplete, ReplyOK, Acting
<1>8. CASE ClaimsAge
  <2>1. UNCHANGED <<handles, retry, ignored, stage, at>> /\ outlived \subseteq outlived'
    BY <1>8 DEF ClaimsAge, Lapse, Sweep, tableVars
  <2>2. \A m \in Messages : claim'[m] = "complete" => claim[m] = "complete"
    BY <1>0, <1>8 DEF ClaimsAge, Lapse, Sweep, CoreOK, Events
  <2>3. ReplyBeforeComplete'
    BY <2>1, <2>2 DEF ReplyInv, ReplyBeforeComplete
  <2>4. \A v \in Workers : ReplyOK(v)'
    BY <2>1 DEF ReplyInv, ReplyOK, Acting
  <2> QED BY <2>1, <2>3, <2>4 DEF ReplyInv
<1> QED BY <1>1, <1>2, <1>3, <1>4, <1>5, <1>6, <1>7, <1>8 DEF Next

LEMMA InitReply == Init => ReplyInv
  BY ServiceAssumption
  DEF Init, ReplyInv, ReplyBeforeComplete, ReplyOK, Acting, Executing, ClaimInit

OnceInv == TypeInv /\ OneHandler /\ ReplyInv

LEMMA OnceStep == OnceInv /\ [Next]_serviceVars => OnceInv'
  BY TypeStep, OneStep, ReplyStep DEF OnceInv

LEMMA OnceInit == Init => OnceInv
  BY InitTypeInv, InitOnce, InitReply DEF OnceInv

(* No message becomes complete owing a reply it has begun, unless           *)
(* production was off or a handler of it outlived its claim: a retry that   *)
(* has nothing to send throws, and one that sends settles its row first.    *)
THEOREM RepliesAreNotDropped == Spec => []ReplyBeforeComplete
<1>1. OnceInv => ReplyBeforeComplete
  BY DEF OnceInv, ReplyInv
<1> QED BY <1>1, OnceInit, OnceStep, PTL DEF Spec

LEMMA GuardBehindReply ==
  ASSUME OnceInv, NEW w \in Workers, Guard(w), NEW m \in Messages,
         retry[m] = "pending", m \notin outlived
  PROVE  effects'[m] = effects[m]
<1>1. stage[w] = "guard" /\ ReplyOK(w) /\ handles[w] \in Messages
  BY HandlesMessage DEF Guard, OnceInv, ReplyInv, TypeInv, Busy, Stages
<1>2. CASE UNCHANGED worldVars
  BY <1>2 DEF worldVars
<1>3. ASSUME NEW result, Perform(w, result) PROVE effects'[m] = effects[m]
  <2>1. CASE at[w].slot \in Commands
    <3>1. handles[w] # m
      BY <1>1, <2>1 DEF ReplyOK, Acting, Executing
    <3> QED BY <1>1, <1>3, <2>1, <3>1 DEF Perform, OnceInv, TypeInv, TablesOK
  <2>2. CASE at[w].slot \notin Commands
    BY <1>3, <2>2 DEF Perform
  <2> QED BY <2>1, <2>2
<1> QED BY <1>2, <1>3 DEF Guard

(* And no command takes effect between the beginning of a reply and its     *)
(* delivery, in the first handling of a message or in any retry, but for a  *)
(* handler that outlived its claim.                                         *)
THEOREM NothingBehindReply == Spec => NoCommandBehindReply
<1>1. ASSUME OnceInv, [Next]_serviceVars, NEW m \in Messages, retry[m] = "pending"
      PROVE  effects'[m] = effects[m] \/ m \in outlived
  <2>0. CoreOK
    BY <1>1 DEF OnceInv, TypeInv
  <2>1. ASSUME NEW w \in Workers, Guard(w)
        PROVE  effects'[m] = effects[m] \/ m \in outlived
    BY <1>1, <2>1, GuardBehindReply
  <2>2. ASSUME NEW w \in Workers, Aside(w) PROVE UNCHANGED effects
    BY <2>0, <2>2, AsideLeaves
  <2>3. ASSUME NEW w \in Workers,
               \/ Check(w) \/ Record(w) \/ Report(w) \/ BeginReply(w) \/ ReplySent(w)
               \/ (\E n \in Messages : Receive(w, n))
               \/ Disabled(w) \/ Fail(w) \/ Crash(w) \/ Restart(w)
        PROVE  UNCHANGED effects
    BY <2>3
    DEF Check, Record, Report, BeginReply, ReplySent, Receive, Disabled, Fail, Crash,
        Restart, worldVars
  <2>4. CASE Freeze \/ Resume \/ ClaimsAge \/ UNCHANGED serviceVars
    BY <2>4 DEF Freeze, Resume, ClaimsAge, serviceVars, worldVars
  <2> QED BY <1>1, <2>1, <2>2, <2>3, <2>4 DEF Next, Handle, Aside, Deciding
<1>2. OnceInv /\ [Next]_serviceVars =>
        [\A m \in Messages :
           retry[m] = "pending" => effects'[m] = effects[m] \/ m \in outlived]_serviceVars
  BY <1>1
<1> QED BY <1>2, OnceInit, OnceStep, PTL DEF Spec, NoCommandBehindReply

=============================================================================
