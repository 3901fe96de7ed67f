------------------------ MODULE ConfirmationsProofs ------------------------
(***************************************************************************)
(* Proofs about Confirmations, for any processes, replies and actions, and *)
(* whether or not claims expire under their handlers and whether or not    *)
(* the asking messages are read otherwise a second time: an action is      *)
(* performed once but for stated exceptions, and the promise of            *)
(* ConfirmedAction is kept; an accepted approval finds its action, what    *)
(* the chat is told was executed was, and everything keeps its type.       *)
(***************************************************************************)
EXTENDS Confirmations, TLAPS

Statuses == {"absent", "pending", "approved", "rejected", "expired"}
Busy == Stages \ {"idle", "down"}

(* The types that the argument needs: only messages with a reply are        *)
(* handled.                                                                 *)
Typed ==
  /\ status \in [Ids -> Statuses]
  /\ handles \in [Workers -> Messages \cup {NoEvent}]
  /\ reply \in [Messages -> (Ids \X BOOLEAN) \cup {None}]
  /\ stage \in [Workers -> Stages]
  /\ at \in [Workers -> Locals]
  /\ performed \in [Actions -> 0 .. MaxCount]
  /\ \A w \in Workers : stage[w] \in Busy =>
       handles[w] \in Messages /\ reply[handles[w]] # None

(* A process that may still perform an action holds a confirmation that it  *)
(* approved itself, since an answer is accepted once; no other process      *)
(* holds the same one, and the action has not been performed.               *)
Executes(w) == stage[w] \in {"check", "record", "guard"}

HoldsApproval == \A w \in Workers : Executes(w) => status[Id(w)] = "approved"
HoldsAlone ==
  \A v, w \in Workers : Executes(v) /\ Executes(w) /\ Id(v) = Id(w) => v = w
NotYetPerformed ==
  \A w \in Workers : \A a \in Actions :
    Executes(w) /\ Id(w) = Last(a) => performed[a] = 0
PerformedIsApproved ==
  \A a \in Actions :
    performed[a] <= 1 /\ (performed[a] > 0 => status[Last(a)] = "approved")

(* Only a high-risk action has a second confirmation. *)
SecondIsRisky == \A a \in Actions : status[<<a, TRUE>>] # "absent" => a \in Risky
AskedIsRisky ==
  \A w \in Workers :
    \/ stage[w] \in {"followup", "show"}
    \/ stage[w] = "report" /\ at[w].result = "confirmation-required"
    => ActionOf(Id(w)) \in Risky

PromiseInv ==
  /\ Typed
  /\ HoldsApproval
  /\ HoldsAlone
  /\ NotYetPerformed
  /\ PerformedIsApproved
  /\ SecondIsRisky
  /\ AskedIsRisky

-----------------------------------------------------------------------------

LEMMA LastOK == \A a \in Actions : Last(a) \in Ids
<1> TAKE a \in Actions
<1>1. \A b \in BOOLEAN : <<a, b>> \in Ids
  BY DEF Ids
<1>2. (a \in Risky) \in BOOLEAN
  OBVIOUS
<1> QED BY <1>1, <1>2, Zenon DEF Last

LEMMA IdOK ==
  ASSUME Typed, NEW w \in Workers, stage[w] \in Busy
  PROVE  /\ Id(w) \in Ids
         /\ ActionOf(Id(w)) \in Actions
         /\ RequiresYes(Id(w)) \in BOOLEAN
         /\ Id(w) = <<ActionOf(Id(w)), RequiresYes(Id(w))>>
<1>1. reply[handles[w]] \in Ids \X BOOLEAN
  BY DEF Typed
<1>2. Id(w) \in Ids
  BY <1>1 DEF Id
<1> QED BY <1>2 DEF Ids, ActionOf, RequiresYes

(* An action that the platform performs on a confirmation is settled by it. *)
LEMMA ExecutesLast ==
  ASSUME PromiseInv, NEW w \in Workers, Executes(w),
         ActionOf(Id(w)) \in Risky => RequiresYes(Id(w))
  PROVE  Id(w) = Last(ActionOf(Id(w)))
<1>1. stage[w] \in Busy
  BY DEF Executes, Busy, Stages
<1>2. /\ ActionOf(Id(w)) \in Actions
      /\ RequiresYes(Id(w)) \in BOOLEAN
      /\ Id(w) = <<ActionOf(Id(w)), RequiresYes(Id(w))>>
  BY <1>1, IdOK DEF PromiseInv
<1>3. status[Id(w)] = "approved"
  BY DEF PromiseInv, HoldsApproval
<1>4. RequiresYes(Id(w)) = TRUE => ActionOf(Id(w)) \in Risky
  BY <1>2, <1>3 DEF PromiseInv, SecondIsRisky
<1>5. RequiresYes(Id(w)) = (ActionOf(Id(w)) \in Risky)
  BY <1>2, <1>4
<1> QED BY <1>2, <1>5 DEF Last

(* A step after which no process executes that did not before keeps the     *)
(* invariant, if it keeps what is approved and what is performed.           *)
LEMMA InvFollows ==
  ASSUME PromiseInv, Typed', SecondIsRisky', AskedIsRisky',
         performed' = performed,
         \A id \in Ids : status[id] = "approved" => status'[id] = "approved",
         \A w \in Workers : Executes(w)' => Executes(w) /\ Id(w)' = Id(w)
  PROVE  PromiseInv'
<1>1. \A w \in Workers : Executes(w) => Id(w) \in Ids
  BY IdOK DEF PromiseInv, Executes, Busy, Stages
<1>2. \A a \in Actions : Last(a) \in Ids
  BY LastOK
<1>3. HoldsApproval'
  BY <1>1 DEF PromiseInv, HoldsApproval
<1>4. HoldsAlone'
  BY DEF PromiseInv, HoldsAlone
<1>5. NotYetPerformed'
  BY DEF PromiseInv, NotYetPerformed, Last
<1>6. PerformedIsApproved'
  BY <1>2 DEF PromiseInv, PerformedIsApproved, Last
<1> QED BY <1>3, <1>4, <1>5, <1>6 DEF PromiseInv

-----------------------------------------------------------------------------
(* What the ways to move on do to the processes.                            *)

ProcessesOK ==
  /\ handles \in [Workers -> Messages \cup {NoEvent}]
  /\ reply \in [Messages -> (Ids \X BOOLEAN) \cup {None}]
  /\ stage \in [Workers -> Stages]
  /\ at \in [Workers -> Locals]
  /\ \A w \in Workers : stage[w] \in Busy =>
       handles[w] \in Messages /\ reply[handles[w]] # None

(* Process w moves to stage s; the others stay where they are. *)
Moved(w, s, l) ==
  /\ ProcessesOK'
  /\ stage'[w] = s
  /\ at'[w] = l
  /\ \A v \in Workers : v # w => /\ stage'[v] = stage[v]
                                 /\ at'[v] = at[v]
                                 /\ Id(v)' = Id(v)

LEMMA FreshIsLocal == Fresh \in Locals
  BY DEF Fresh, Locals, Results

LEMMA WithMoves ==
  ASSUME Typed, NEW w \in Workers, stage[w] \in Busy, NEW s \in Busy, NEW l \in Locals,
         With(w, l, s), reply' = reply
  PROVE  Moved(w, s, l) /\ Id(w)' = Id(w)
<1>1. /\ stage' = [stage EXCEPT ![w] = s] /\ at' = [at EXCEPT ![w] = l]
      /\ handles' = handles
  BY DEF With, Go, claimVars
<1>2. s \in Stages
  BY DEF Busy
<1> QED BY <1>1, <1>2 DEF Moved, Typed, ProcessesOK, Id

LEMMA LeaveMoves ==
  ASSUME Typed, NEW w \in Workers, NEW s \in {"idle", "down"},
         Complete(w) \/ Release(w) \/ Abandon(w) \/ UNCHANGED handles,
         Go(w, s, Fresh), reply' = reply
  PROVE  Moved(w, s, Fresh)
<1>1. stage' = [stage EXCEPT ![w] = s] /\ at' = [at EXCEPT ![w] = Fresh]
  BY DEF Go
<1>2. handles' = [handles EXCEPT ![w] = NoEvent] \/ handles' = handles
  BY DEF Complete, Release, Abandon, Leave
<1>3. s \in Stages /\ s \notin Busy
  BY DEF Stages, Busy
<1> QED BY <1>1, <1>2, <1>3, FreshIsLocal DEF Moved, Typed, ProcessesOK, Id

LEMMA TakeMoves ==
  ASSUME Typed, NEW w \in Workers, NEW m \in Messages, reply[m] # None,
         Take(w, m), Go(w, "claimed", Fresh), reply' = reply
  PROVE  Moved(w, "claimed", Fresh)
<1>1. stage' = [stage EXCEPT ![w] = "claimed"] /\ at' = [at EXCEPT ![w] = Fresh]
  BY DEF Go
<1>2. handles' = [handles EXCEPT ![w] = m]
  BY DEF Take
<1>3. "claimed" \in Stages
  BY DEF Stages
<1> QED BY <1>1, <1>2, <1>3, FreshIsLocal DEF Moved, Typed, ProcessesOK, Id

(* A process that moves, and does not begin to execute, keeps the invariant *)
(* if what it does to the rows does.                                        *)
LEMMA MovedKeeps ==
  ASSUME PromiseInv, NEW w \in Workers, NEW s, NEW l, Moved(w, s, l),
         status' \in [Ids -> Statuses], SecondIsRisky',
         performed' = performed,
         \A id \in Ids : status[id] = "approved" => status'[id] = "approved",
         s \in {"check", "record", "guard"} => Executes(w) /\ Id(w)' = Id(w),
         \/ s \in {"followup", "show"}
         \/ s = "report" /\ l.result = "confirmation-required"
         => ActionOf(Id(w)') \in Risky
  PROVE  PromiseInv'
<1>1. Typed'
  BY DEF Typed, PromiseInv, Moved, ProcessesOK
<1>2. AskedIsRisky'
  BY DEF AskedIsRisky, PromiseInv, Moved, ActionOf
<1>3. \A v \in Workers : Executes(v)' => Executes(v) /\ Id(v)' = Id(v)
  BY DEF Moved, Executes
<1> QED BY <1>1, <1>2, <1>3, InvFollows

(* A step that leaves the processes alone. *)
LEMMA RowsKeep ==
  ASSUME PromiseInv, UNCHANGED <<handles, stage, at, performed>>,
         ProcessesOK', \A w \in Workers : stage[w] \in Busy => Id(w)' = Id(w),
         status' \in [Ids -> Statuses], SecondIsRisky',
         \A id \in Ids : status[id] = "approved" => status'[id] = "approved"
  PROVE  PromiseInv'
<1>1. Typed'
  BY DEF Typed, PromiseInv, ProcessesOK
<1>2. AskedIsRisky'
  BY DEF AskedIsRisky, PromiseInv, ActionOf, Busy, Stages
<1>3. \A v \in Workers : Executes(v)' => Executes(v) /\ Id(v)' = Id(v)
  BY DEF Executes, Busy, Stages
<1> QED BY <1>1, <1>2, <1>3, InvFollows

LEMMA CreateRows ==
  ASSUME PromiseInv, NEW a \in Actions, NEW yes \in BOOLEAN, yes => a \in Risky,
         Create(<<a, yes>>)
  PROVE  /\ status' \in [Ids -> Statuses]
         /\ SecondIsRisky'
         /\ \A id \in Ids : status[id] = "approved" => status'[id] = "approved"
<1>1. <<a, yes>> \in Ids
  BY DEF Ids
<1>2. \/ status' = status
      \/ status[<<a, yes>>] = "absent" /\ status' = [status EXCEPT ![<<a, yes>>] = "pending"]
  BY DEF Create
<1>3. status' \in [Ids -> Statuses]
  BY <1>1, <1>2 DEF PromiseInv, Typed, Statuses
<1>4. SecondIsRisky'
  <2> SUFFICES ASSUME NEW b \in Actions, status'[<<b, TRUE>>] # "absent" PROVE b \in Risky
    BY DEF SecondIsRisky
  <2>1. <<b, TRUE>> \in Ids
    BY DEF Ids
  <2>2. CASE status[<<b, TRUE>>] # "absent"
    BY <2>2 DEF PromiseInv, SecondIsRisky
  <2>3. CASE status[<<b, TRUE>>] = "absent"
    <3>1. <<b, TRUE>> = <<a, yes>>
      BY <1>1, <1>2, <2>1, <2>3 DEF PromiseInv, Typed
    <3> QED BY <3>1
  <2> QED BY <2>2, <2>3
<1>5. \A id \in Ids : status[id] = "approved" => status'[id] = "approved"
  BY <1>1, <1>2 DEF PromiseInv, Typed
<1> QED BY <1>3, <1>4, <1>5

LEMMA ExpireRows ==
  ASSUME PromiseInv, ExpireConfirmations
  PROVE  /\ status' \in [Ids -> Statuses]
         /\ SecondIsRisky'
         /\ \A id \in Ids : status[id] = "approved" => status'[id] = "approved"
<1>1. status' \in [Ids -> Statuses]
  BY DEF ExpireConfirmations, PromiseInv, Typed, Statuses
<1>2. \A id \in Ids : status'[id] # status[id] => status[id] = "pending"
  BY DEF ExpireConfirmations
<1>3. \A a \in Actions : <<a, TRUE>> \in Ids
  BY DEF Ids
<1>4. SecondIsRisky'
  BY <1>2, <1>3 DEF SecondIsRisky, PromiseInv
<1> QED BY <1>1, <1>2, <1>4

-----------------------------------------------------------------------------
(* The two steps on which the promise turns.                                *)

(* An answer is accepted while its confirmation is pending: nobody executes *)
(* on it yet, and so its action has not been performed.                     *)
LEMMA AcceptedStep ==
  ASSUME PromiseInv, NEW w \in Workers, ResolveAccepted(w)
  PROVE  PromiseInv'
<1> USE DEF Busy, Stages
<1>1. Typed /\ stage[w] = "resolve" /\ at[w] \in Locals
  BY DEF PromiseInv, Typed, ResolveAccepted
<1>2. Id(w) \in Ids /\ status[Id(w)] = "pending"
  BY <1>1, IdOK DEF ResolveAccepted, Open
<1>3. PICK to \in {"approved", "rejected"} :
        /\ status' = [status EXCEPT ![Id(w)] = to]
        /\ to = "approved" \/ ~Approves(w)
  BY DEF ResolveAccepted
<1>4. \E s \in {"check", "notify"}, l \in Locals :
        With(w, l, s) /\ (s = "check" => Approves(w))
  <2>1. [at[w] EXCEPT !.result = "missing"] \in Locals
    BY <1>1 DEF Locals, Results
  <2> QED BY <1>1, <2>1 DEF ResolveAccepted
<1>5. PICK s \in {"check", "notify"}, l \in Locals :
        With(w, l, s) /\ (s = "check" => Approves(w))
  BY <1>4
<1>6. Moved(w, s, l) /\ Id(w)' = Id(w)
  BY <1>1, <1>5, WithMoves DEF ResolveAccepted, askVars
<1>7. performed' = performed
  BY DEF ResolveAccepted, ghostVars
<1>8. /\ status' \in [Ids -> Statuses]
      /\ \A id \in Ids : id # Id(w) => status'[id] = status[id]
      /\ s = "check" => status'[Id(w)] = "approved"
  BY <1>1, <1>2, <1>3, <1>5 DEF Typed, Statuses
<1>9. \A a \in Actions : Last(a) = Id(w) => performed[a] = 0
  <2> SUFFICES ASSUME NEW a \in Actions, Last(a) = Id(w) PROVE performed[a] = 0
    OBVIOUS
  <2>1. performed[a] \in 0 .. MaxCount /\ ~(performed[a] > 0)
    BY <1>2 DEF PromiseInv, PerformedIsApproved, Typed
  <2> QED BY <2>1 DEF MaxCount
<1>10. \A v \in Workers : Executes(v) => Id(v) # Id(w)
  BY <1>2 DEF PromiseInv, HoldsApproval
<1>11. \A v \in Workers : v # w => (Executes(v)' <=> Executes(v)) /\ Id(v)' = Id(v)
  BY <1>6 DEF Moved, Executes
<1>12. \A v \in Workers : Executes(v) => Id(v) \in Ids
  BY <1>1, IdOK DEF Executes
<1>13. Executes(w)' => s = "check"
  BY <1>6 DEF Moved, Executes
<1>14. Typed'
  BY <1>1, <1>6, <1>7, <1>8 DEF Moved, ProcessesOK, Typed
<1>15. HoldsApproval'
  <2> SUFFICES ASSUME NEW v \in Workers, Executes(v)' PROVE status'[Id(v)'] = "approved"
    BY DEF HoldsApproval
  <2>1. CASE v = w
    BY <1>6, <1>8, <1>13, <2>1
  <2>2. CASE v # w
    BY <1>8, <1>10, <1>11, <1>12, <2>2 DEF PromiseInv, HoldsApproval
  <2> QED BY <2>1, <2>2
<1>16. HoldsAlone'
  BY <1>6, <1>10, <1>11 DEF PromiseInv, HoldsAlone
<1>17. NotYetPerformed'
  <2> SUFFICES ASSUME NEW v \in Workers, NEW a \in Actions, Executes(v)', Id(v)' = Last(a)
               PROVE  performed'[a] = 0
    BY DEF NotYetPerformed, Last
  <2>1. CASE v = w
    BY <1>6, <1>7, <1>9, <2>1
  <2>2. CASE v # w
    BY <1>7, <1>11, <2>2 DEF PromiseInv, NotYetPerformed
  <2> QED BY <2>1, <2>2
<1>18. PerformedIsApproved'
  <2> SUFFICES ASSUME NEW a \in Actions
               PROVE  /\ performed'[a] <= 1
                      /\ performed'[a] > 0 => status'[Last(a)] = "approved"
    BY DEF PerformedIsApproved, Last
  <2>1. Last(a) \in Ids
    BY LastOK
  <2> QED BY <1>7, <1>8, <1>9, <2>1 DEF PromiseInv, PerformedIsApproved
<1>19. SecondIsRisky'
  <2>1. \A a \in Actions : status'[<<a, TRUE>>] # "absent" => status[<<a, TRUE>>] # "absent"
    BY <1>2, <1>8 DEF Ids
  <2> QED BY <2>1 DEF PromiseInv, SecondIsRisky
<1>20. AskedIsRisky'
  BY <1>6 DEF Moved, PromiseInv, AskedIsRisky, ActionOf
<1> QED
  BY <1>14, <1>15, <1>16, <1>17, <1>18, <1>19, <1>20 DEF PromiseInv

(* The platform performs the action: on a confirmation that is approved and *)
(* that this process alone holds, and for the first time.                   *)
LEMMA PerformsStep ==
  ASSUME PromiseInv, NEW w \in Workers, GuardPerforms(w)
  PROVE  /\ PromiseInv'
         /\ \E a \in Actions :
              /\ performed[a] = 0
              /\ status[Last(a)] = "approved"
              /\ performed' = [performed EXCEPT ![a] = 1]
<1> USE DEF Busy, Stages
<1>1. Typed /\ stage[w] = "guard" /\ at[w] \in Locals /\ Executes(w)
  BY DEF PromiseInv, Typed, GuardPerforms, Executes
<1> DEFINE a == ActionOf(Id(w))
<1>2. a \in Actions /\ Id(w) \in Ids
  BY <1>1, IdOK
<1>3. Id(w) = Last(a)
  BY <1>1, ExecutesLast DEF GuardPerforms
<1>4. performed[a] = 0 /\ status[Last(a)] = "approved"
  BY <1>1, <1>2, <1>3 DEF PromiseInv, NotYetPerformed, HoldsApproval
<1>5. performed' = [performed EXCEPT ![a] = 1]
  BY <1>4 DEF GuardPerforms, Bump, MaxCount
<1>6. PICK result \in {"complete", "failed"} :
        With(w, [at[w] EXCEPT !.result = result], "report")
  BY DEF GuardPerforms
<1> DEFINE l == [at[w] EXCEPT !.result = result]
<1>7. l \in Locals /\ l.result = result
  BY <1>1 DEF Locals, Results
<1>8. With(w, l, "report")
  BY <1>6
<1> HIDE DEF l, a
<1>9. Moved(w, "report", l) /\ Id(w)' = Id(w) /\ status' = status
  BY <1>1, <1>7, <1>8, WithMoves DEF GuardPerforms, askVars, rowVars
<1>10. \A v \in Workers : Executes(v)' => v # w /\ Executes(v) /\ Id(v)' = Id(v)
  BY <1>9 DEF Moved, Executes
<1>11. Typed'
  <2>1. performed' \in [Actions -> 0 .. MaxCount]
    <3>1. 1 \in 0 .. MaxCount
      BY DEF MaxCount
    <3>2. performed \in [Actions -> 0 .. MaxCount]
      BY <1>1 DEF Typed
    <3> QED BY <1>5, <3>1, <3>2
  <2>2. ProcessesOK' /\ status' \in [Ids -> Statuses]
    BY <1>1, <1>9 DEF Moved, Typed
  <2> QED BY <2>1, <2>2 DEF ProcessesOK, Typed
<1>12. HoldsApproval' /\ HoldsAlone'
  BY <1>9, <1>10 DEF PromiseInv, HoldsApproval, HoldsAlone
<1>13. NotYetPerformed'
  <2> SUFFICES ASSUME NEW v \in Workers, NEW b \in Actions, Executes(v)', Id(v)' = Last(b)
               PROVE  performed'[b] = 0
    BY DEF NotYetPerformed, Last
  <2>1. Executes(v) /\ v # w /\ Id(v) = Last(b)
    BY <1>10
  <2>2. b # a
    BY <1>1, <1>3, <2>1 DEF PromiseInv, HoldsAlone
  <2>3. performed[b] = 0
    BY <2>1 DEF PromiseInv, NotYetPerformed
  <2> QED BY <1>1, <1>5, <2>2, <2>3 DEF Typed
<1>14. PerformedIsApproved'
  <2> SUFFICES ASSUME NEW b \in Actions
               PROVE  /\ performed'[b] <= 1
                      /\ performed'[b] > 0 => status'[Last(b)] = "approved"
    BY DEF PerformedIsApproved, Last
  <2>1. CASE b = a
    BY <1>1, <1>2, <1>4, <1>5, <1>9, <2>1 DEF Typed
  <2>2. CASE b # a
    BY <1>1, <1>5, <1>9, <2>2 DEF Typed, PromiseInv, PerformedIsApproved
  <2> QED BY <2>1, <2>2
<1>15. SecondIsRisky'
  BY <1>9 DEF PromiseInv, SecondIsRisky
<1>16. AskedIsRisky'
  BY <1>7, <1>9 DEF Moved, PromiseInv, AskedIsRisky, ActionOf
<1>17. PromiseInv'
  BY <1>11, <1>12, <1>13, <1>14, <1>15, <1>16 DEF PromiseInv
<1> QED BY <1>2, <1>4, <1>5, <1>17

-----------------------------------------------------------------------------
(* The other steps.                                                         *)

RowsKept == /\ status' \in [Ids -> Statuses]
            /\ SecondIsRisky'
            /\ \A id \in Ids : status[id] = "approved" => status'[id] = "approved"

LEMMA SameRows == ASSUME PromiseInv, status' = status PROVE RowsKept
  BY DEF RowsKept, PromiseInv, Typed, SecondIsRisky

LEMMA HandleStep ==
  ASSUME PromiseInv, NEW w \in Workers, Handle(w), ~ResolveAccepted(w),
         ~GuardPerforms(w)
  PROVE  PromiseInv'
<1> USE DEF Busy, Stages
<1>0. Typed /\ at[w] \in Locals
  BY DEF PromiseInv, Typed
<1>1. CASE Lookup(w)
  <2> DEFINE l == [Fresh EXCEPT !.action = Id(w) \in payload]
  <2>1. l \in Locals
    <3>1. \A b \in BOOLEAN : [Fresh EXCEPT !.action = b] \in Locals
      BY FreshIsLocal DEF Locals
    <3>2. (Id(w) \in payload) \in BOOLEAN
      OBVIOUS
    <3> QED BY <3>1, <3>2, Zenon
  <2>2. With(w, l, "resolve") /\ stage[w] = "claimed"
    BY <1>1 DEF Lookup
  <2> HIDE DEF l
  <2>3. Moved(w, "resolve", l)
    BY <1>0, <1>1, <2>1, <2>2, WithMoves DEF Lookup, askVars
  <2> QED BY <1>1, <2>3, SameRows, MovedKeeps DEF RowsKept, Lookup, rowVars, ghostVars
<1>2. CASE ResolveLate(w)
  <2>1. Moved(w, "closing", at[w])
    BY <1>0, <1>2, WithMoves DEF ResolveLate, askVars
  <2>2. Id(w) \in Ids /\ status[Id(w)] = "pending"
    BY <1>0, <1>2, IdOK DEF ResolveLate, Open
  <2>3. status' = [status EXCEPT ![Id(w)] = "expired"]
    BY <1>2 DEF ResolveLate
  <2>4. status' \in [Ids -> Statuses]
    BY <1>0, <2>3 DEF Typed, Statuses
  <2>5. \A id \in Ids : status[id] = "approved" => status'[id] = "approved"
    BY <1>0, <2>2, <2>3 DEF Typed
  <2>6. \A a \in Actions : status'[<<a, TRUE>>] # "absent" => status[<<a, TRUE>>] # "absent"
    BY <1>0, <2>2, <2>3 DEF Typed, Ids
  <2>7. SecondIsRisky'
    BY <2>6 DEF PromiseInv, SecondIsRisky
  <2> QED BY <1>2, <2>1, <2>4, <2>5, <2>7, MovedKeeps DEF ResolveLate, ghostVars
<1>3. CASE ResolveRefused(w)
  <2>1. Moved(w, "closing", at[w])
    BY <1>0, <1>3, WithMoves DEF ResolveRefused, askVars
  <2> QED BY <1>3, <2>1, SameRows, MovedKeeps
          DEF RowsKept, ResolveRefused, rowVars, ghostVars
<1>4. CASE Check(w)
  <2>1. PICK s \in {"notify", "record"} : With(w, at[w], s)
    BY <1>4 DEF Check
  <2>2. Moved(w, s, at[w]) /\ Id(w)' = Id(w) /\ Executes(w)
    BY <1>0, <1>4, <2>1, WithMoves DEF Check, askVars, Executes
  <2> QED BY <1>4, <2>2, SameRows, MovedKeeps DEF RowsKept, Check, rowVars, ghostVars
<1>5. CASE Record(w)
  <2>1. Moved(w, "guard", at[w]) /\ Id(w)' = Id(w) /\ Executes(w)
    BY <1>0, <1>5, WithMoves DEF Record, askVars, Executes
  <2> QED BY <1>5, <2>1, SameRows, MovedKeeps DEF RowsKept, Record, Runs, rowVars
<1>6. CASE GuardWithholds(w)
  <2>1. PICK result \in Results :
          /\ With(w, [at[w] EXCEPT !.result = result], "report")
          /\ result = "confirmation-required" => ActionOf(Id(w)) \in Risky
    BY <1>6 DEF GuardWithholds, Results
  <2> DEFINE l == [at[w] EXCEPT !.result = result]
  <2>2. l \in Locals /\ l.result = result
    BY <1>0 DEF Locals
  <2>3. With(w, l, "report") /\ stage[w] = "guard"
    BY <1>6, <2>1 DEF GuardWithholds
  <2> HIDE DEF l
  <2>4. Moved(w, "report", l) /\ Id(w)' = Id(w)
    BY <1>0, <1>6, <2>2, <2>3, WithMoves DEF GuardWithholds, askVars
  <2> QED BY <1>6, <2>1, <2>2, <2>4, SameRows, MovedKeeps
          DEF RowsKept, GuardWithholds, rowVars, ghostVars
<1>7. CASE Report(w)
  <2>1. PICK s \in {"followup", "notify"} :
          With(w, at[w], s) /\ (s = "followup" => at[w].result = "confirmation-required")
    BY <1>7 DEF Report
  <2>2. Moved(w, s, at[w]) /\ Id(w)' = Id(w) /\ stage[w] = "report"
    BY <1>0, <1>7, <2>1, WithMoves DEF Report, askVars
  <2>3. s = "followup" => ActionOf(Id(w)) \in Risky
    BY <2>1, <2>2 DEF PromiseInv, AskedIsRisky
  <2> QED BY <1>7, <2>2, <2>3, SameRows, MovedKeeps
          DEF RowsKept, Report, rowVars, ghostVars
<1>8. CASE Followup(w)
  <2>1. Moved(w, "show", at[w]) /\ Id(w)' = Id(w) /\ stage[w] = "followup"
    BY <1>0, <1>8, WithMoves DEF Followup, askVars
  <2>2. ActionOf(Id(w)) \in Actions /\ ActionOf(Id(w)) \in Risky
    BY <1>0, <2>1, IdOK DEF PromiseInv, AskedIsRisky
  <2>3. RowsKept
    BY <1>8, <2>2, CreateRows DEF Followup, RowsKept
  <2> QED BY <1>8, <2>1, <2>2, <2>3, MovedKeeps DEF RowsKept, Followup, ghostVars
<1>9. CASE ShowFollowup(w)
  <2>1. Moved(w, "notify", at[w])
    BY <1>0, <1>9, WithMoves DEF ShowFollowup
  <2> QED BY <1>9, <2>1, SameRows, MovedKeeps
          DEF RowsKept, ShowFollowup, rowVars, ghostVars
<1>10. CASE Notify(w)
  <2>1. Moved(w, "clear", at[w])
    BY <1>0, <1>10, WithMoves DEF Notify, askVars
  <2> QED BY <1>10, <2>1, SameRows, MovedKeeps DEF RowsKept, Notify, rowVars
<1>11. CASE Clear(w)
  <2>1. Moved(w, "closing", at[w])
    BY <1>0, <1>11, WithMoves DEF Clear, askVars
  <2> QED BY <1>11, <2>1, SameRows, MovedKeeps DEF RowsKept, Clear, ghostVars
<1>12. CASE Close(w)
  <2>1. Moved(w, "idle", Fresh)
    BY <1>0, <1>12, LeaveMoves DEF Close, askVars
  <2> QED BY <1>12, <2>1, SameRows, MovedKeeps DEF RowsKept, Close, rowVars, ghostVars
<1> QED
  BY <1>1, <1>2, <1>3, <1>4, <1>5, <1>6, <1>7, <1>8, <1>9, <1>10, <1>11, <1>12
  DEF Handle

LEMMA ProcessesStay ==
  ASSUME PromiseInv, UNCHANGED <<handles, reply, stage, at>>
  PROVE  ProcessesOK' /\ \A w \in Workers : stage[w] \in Busy => Id(w)' = Id(w)
  BY DEF PromiseInv, Typed, ProcessesOK, Id

(* What the handler of an asking message leaves alone. *)
LEMMA AskerLeaves ==
  ASSUME NEW h \in Askers, Asks(h)
  PROVE  /\ UNCHANGED <<claim, handles, seen, due, shown, reply, stage, at, performed,
                       announced>>
         /\ \/ UNCHANGED <<status, payload>>
            \/ \E a \in Actions : a \in Risky /\ Create(<<a, TRUE>>)
         /\ faults' = faults \/ (faults < MaxFaults /\ faults' = faults + 1)
<1>1. ASSUME NEW a \in Actions, AskChecks(h, a)
      PROVE  UNCHANGED <<claimVars, rowVars, askVars, stage, at, ghostVars, faults>>
  BY <1>1 DEF AskChecks
<1>2. CASE AskRecords(h)
  BY <1>2 DEF AskRecords, Runs, claimVars, rowVars, askVars
<1>3. CASE AskWithholds(h)
  BY <1>3 DEF AskWithholds, claimVars, askVars, ghostVars
<1>4. CASE AskPerforms(h)
  BY <1>4 DEF AskPerforms, PerformsOwn, claimVars, rowVars, askVars
<1>5. CASE AskDies(h)
  BY <1>5 DEF AskDies, PerformsOwn, claimVars, rowVars, askVars, ghostVars
<1> QED
  BY <1>1, <1>2, <1>3, <1>4, <1>5 DEF Asks, claimVars, rowVars, askVars, ghostVars

(* The asking message, the principal, and time. *)
LEMMA WorldStep ==
  ASSUME PromiseInv,
         \/ \E a \in Actions : Ask(a)
         \/ \E h \in Askers : Asks(h)
         \/ \E id \in Ids : Show(id) \/ ComeDue(id)
         \/ \E m \in Messages, id \in Ids, yes \in BOOLEAN : Reply(m, id, yes)
         \/ MaintainState
         \/ ClaimsAge
  PROVE  PromiseInv'
<1>1. ASSUME NEW a \in Actions, Ask(a) PROVE PromiseInv'
  <2>1. UNCHANGED <<handles, reply, stage, at, performed>> /\ RowsKept
    BY <1>1, CreateRows DEF Ask, RowsKept, claimVars, askVars, ghostVars
  <2> QED BY <2>1, ProcessesStay, RowsKeep DEF RowsKept
<1>2. ASSUME NEW h \in Askers, Asks(h) PROVE PromiseInv'
  <2>1. UNCHANGED <<handles, reply, stage, at, performed>>
    BY <1>2, AskerLeaves
  <2>2. RowsKept
    <3>1. CASE status' = status
      BY <3>1, SameRows
    <3>2. CASE \E a \in Actions : a \in Risky /\ Create(<<a, TRUE>>)
      BY <3>2, CreateRows DEF RowsKept
    <3> QED BY <1>2, <3>1, <3>2, AskerLeaves
  <2> QED BY <2>1, <2>2, ProcessesStay, RowsKeep DEF RowsKept
<1>4. ASSUME NEW id \in Ids, Show(id) \/ ComeDue(id) PROVE PromiseInv'
  <2>1. UNCHANGED <<handles, reply, stage, at, performed, status>>
    BY <1>4 DEF Show, ComeDue, claimVars, ghostVars, rowVars
  <2> QED BY <2>1, SameRows, ProcessesStay, RowsKeep DEF RowsKept
<1>5. ASSUME NEW m \in Messages, NEW id \in Ids, NEW yes \in BOOLEAN, Reply(m, id, yes)
      PROVE  PromiseInv'
  <2>1. /\ UNCHANGED <<handles, stage, at, performed, status>>
        /\ reply[m] = None /\ reply' = [reply EXCEPT ![m] = <<id, yes>>]
    BY <1>5 DEF Reply, claimVars, ghostVars, rowVars
  <2>2. <<id, yes>> \in Ids \X BOOLEAN /\ <<id, yes>> # None
    BY ConfirmationAssumption DEF Ids
  <2>3. reply' \in [Messages -> (Ids \X BOOLEAN) \cup {None}]
    BY <2>1, <2>2 DEF PromiseInv, Typed
  <2>4. \A w \in Workers : stage[w] \in Busy => reply'[handles[w]] = reply[handles[w]]
    BY <2>1 DEF PromiseInv, Typed
  <2>5. ProcessesOK' /\ \A w \in Workers : stage[w] \in Busy => Id(w)' = Id(w)
    BY <2>1, <2>3, <2>4 DEF PromiseInv, Typed, ProcessesOK, Id
  <2> QED BY <2>1, <2>5, SameRows, RowsKeep DEF RowsKept
<1>6. CASE MaintainState
  <2>1. UNCHANGED <<handles, reply, stage, at, performed>> /\ RowsKept
    BY <1>6, ExpireRows DEF MaintainState, RowsKept, claimVars, askVars, ghostVars
  <2> QED BY <2>1, ProcessesStay, RowsKeep DEF RowsKept
<1>7. CASE ClaimsAge
  <2>1. UNCHANGED <<handles, reply, stage, at, performed, status>>
    BY <1>7 DEF ClaimsAge, Lapse, Sweep, askVars, ghostVars, rowVars
  <2> QED BY <2>1, SameRows, ProcessesStay, RowsKeep DEF RowsKept
<1> QED BY <1>1, <1>2, <1>4, <1>5, <1>6, <1>7

(* The start and the untimely end of a handler. *)
LEMMA EndsStep ==
  ASSUME PromiseInv, NEW w \in Workers,
         \/ \E m \in Messages : Receive(w, m)
         \/ Disabled(w) \/ ShowFails(w) \/ Crash(w) \/ Restart(w)
  PROVE  PromiseInv'
<1>0. Typed
  BY DEF PromiseInv
<1>1. ASSUME NEW m \in Messages, Receive(w, m) PROVE PromiseInv'
  <2>1. Moved(w, "claimed", Fresh)
    BY <1>0, <1>1, TakeMoves DEF Receive, askVars
  <2> QED BY <1>1, <2>1, SameRows, MovedKeeps DEF RowsKept, Receive, rowVars, ghostVars
<1>2. CASE Disabled(w)
  <2>1. Moved(w, "idle", Fresh)
    BY <1>0, <1>2, LeaveMoves DEF Disabled, askVars
  <2> QED BY <1>2, <2>1, SameRows, MovedKeeps DEF RowsKept, Disabled, rowVars, ghostVars
<1>3. CASE ShowFails(w) \/ Crash(w)
  <2>1. Moved(w, "down", Fresh)
    BY <1>0, <1>3, LeaveMoves DEF ShowFails, Crash, askVars
  <2> QED BY <1>3, <2>1, SameRows, MovedKeeps
          DEF RowsKept, ShowFails, Crash, rowVars, ghostVars
<1>4. CASE Restart(w)
  <2>1. Moved(w, "idle", Fresh)
    BY <1>0, <1>4, LeaveMoves DEF Restart, askVars, claimVars
  <2>2. RowsKept
    BY <1>4, ExpireRows DEF Restart, RowsKept
  <2> QED BY <1>4, <2>1, <2>2, MovedKeeps DEF RowsKept, Restart, ghostVars
<1> QED BY <1>1, <1>2, <1>3, <1>4

LEMMA InvStutters ==
  ASSUME PromiseInv, UNCHANGED confirmationVars PROVE PromiseInv'
<1>1. UNCHANGED <<handles, reply, stage, at, performed, status>>
  BY DEF confirmationVars, claimVars, rowVars, askVars, ghostVars
<1> QED BY <1>1, SameRows, ProcessesStay, RowsKeep DEF RowsKept

LEMMA InvStep == PromiseInv /\ [Next]_confirmationVars => PromiseInv'
<1> SUFFICES ASSUME PromiseInv, [Next]_confirmationVars PROVE PromiseInv'
  OBVIOUS
<1>1. ASSUME NEW w \in Workers, Handle(w) PROVE PromiseInv'
  BY <1>1, HandleStep, AcceptedStep, PerformsStep
<1> QED BY <1>1, WorldStep, EndsStep, InvStutters DEF Next

LEMMA InitInv == Init => PromiseInv
<1> SUFFICES ASSUME Init PROVE PromiseInv
  OBVIOUS
<1>1. Typed
  BY FreshIsLocal DEF Init, Typed, ClaimInit, Statuses, Stages, Busy, MaxCount
<1>2. HoldsApproval /\ HoldsAlone /\ NotYetPerformed /\ AskedIsRisky
  BY DEF Init, HoldsApproval, HoldsAlone, NotYetPerformed, AskedIsRisky, Executes
<1>3. PerformedIsApproved
  BY DEF Init, PerformedIsApproved
<1>4. SecondIsRisky
  BY DEF Init, SecondIsRisky, Ids
<1> QED BY <1>1, <1>2, <1>3, <1>4 DEF PromiseInv

LEMMA EndsKeepWord ==
  ASSUME PromiseInv, NEW w \in Workers,
         \/ \E m \in Messages : Receive(w, m)
         \/ Disabled(w) \/ ShowFails(w) \/ Crash(w) \/ Restart(w)
  PROVE  \E s \in {"claimed", "idle", "down"} : Moved(w, s, Fresh)
<1>0. Typed
  BY DEF PromiseInv
<1>1. ASSUME NEW m \in Messages, Receive(w, m) PROVE Moved(w, "claimed", Fresh)
  BY <1>0, <1>1, TakeMoves DEF Receive, askVars
<1>2. CASE Disabled(w)
  BY <1>0, <1>2, LeaveMoves DEF Disabled, askVars
<1>3. CASE ShowFails(w) \/ Crash(w)
  BY <1>0, <1>3, LeaveMoves DEF ShowFails, Crash, askVars
<1>4. CASE Restart(w)
  BY <1>0, <1>4, LeaveMoves DEF Restart, askVars, claimVars
<1> QED BY <1>1, <1>2, <1>3, <1>4

LEMMA WorldKeepsPlace ==
  ASSUME Typed,
         \/ \E a \in Actions : Ask(a)
         \/ \E h \in Askers : Asks(h)
         \/ \E id \in Ids : Show(id) \/ ComeDue(id)
         \/ \E m \in Messages, id \in Ids, yes \in BOOLEAN : Reply(m, id, yes)
         \/ MaintainState \/ ClaimsAge \/ UNCHANGED confirmationVars,
         NEW v \in Workers
  PROVE  /\ stage'[v] = stage[v] /\ at'[v] = at[v]
         /\ stage[v] \in Busy => Id(v)' = Id(v)
<1>1. UNCHANGED <<stage, at, handles>>
  BY AskerLeaves DEF Ask, Show, ComeDue, Reply, MaintainState,
         ClaimsAge, Lapse, Sweep, confirmationVars, claimVars
<1>2. \/ reply' = reply
      \/ \E m \in Messages, id \in Ids, yes \in BOOLEAN : Reply(m, id, yes)
  BY AskerLeaves DEF Ask, Show, ComeDue, MaintainState, ClaimsAge, confirmationVars, askVars
<1>3. stage[v] \in Busy => reply'[handles[v]] = reply[handles[v]]
  BY <1>2 DEF Reply, Typed
<1> QED BY <1>1, <1>3 DEF Id

-----------------------------------------------------------------------------
(* Once, for the actions that the asking handlers may perform as well.      *)

ExecutionRows == Results \cup {"absent", "running"}
AskTyped ==
  /\ execution \in [Actions -> ExecutionRows]
  /\ asking \in [Askers -> Commands \cup {None}]
  /\ own \in [Actions -> 0 .. MaxCount]
  /\ doubtful \subseteq Actions

OwnIsPlain == \A a \in Risky : own[a] = 0

(* The handlers between their record and their report, by their action.     *)
Running(w, a) == stage[w] \in {"guard", "report"} /\ ActionOf(Id(w)) = a
Recorded(h, a) == asking[h] = <<a, "recorded">>
Undone(a) == performed[a] = 0 /\ own[a] = 0

(* As long as nothing about an action is doubtful, one handler at most is   *)
(* between its record and its report, the row says so, and the row also     *)
(* tells whether the action may have been performed.                        *)
OnceFor(a) ==
  /\ performed[a] + own[a] <= 1
  /\ ~Undone(a) => execution[a] \in {"running", "complete"}
  /\ \A w \in Workers : Running(w, a) =>
       /\ execution[a] = "running"
       /\ Undone(a) \/ (stage[w] = "report" /\ at[w].result = "complete")
  /\ \A h \in Askers : Recorded(h, a) => execution[a] = "running" /\ Undone(a)
  /\ \A v, w \in Workers : Running(v, a) /\ Running(w, a) => v = w
  /\ \A g, h \in Askers : Recorded(g, a) /\ Recorded(h, a) => g = h
  /\ \A w \in Workers, h \in Askers : ~(Running(w, a) /\ Recorded(h, a))

OnceInv ==
  /\ AskTyped
  /\ OwnIsPlain
  /\ \A a \in Actions \ Risky : a \notin doubtful => OnceFor(a)

(* A step that does nothing about the action and takes up no handling.      *)
LEMMA Untouched ==
  ASSUME NEW a, OnceFor(a), execution'[a] = execution[a], performed'[a] = performed[a],
         own'[a] = own[a],
         \A w \in Workers : Running(w, a)' =>
           Running(w, a) /\ stage'[w] = stage[w] /\ at'[w] = at[w],
         \A h \in Askers : Recorded(h, a)' => Recorded(h, a)
  PROVE  OnceFor(a)'
<1>1. Undone(a)' = Undone(a)
  BY DEF Undone
<1> QED BY <1>1 DEF OnceFor

(* Which handlers run when one of them moves.                               *)
LEMMA MovedRuns ==
  ASSUME NEW w \in Workers, NEW s, NEW l, Moved(w, s, l), NEW a
  PROVE  /\ \A v \in Workers : v # w =>
              (Running(v, a)' <=> Running(v, a)) /\ stage'[v] = stage[v] /\ at'[v] = at[v]
         /\ Running(w, a)' <=> s \in {"guard", "report"} /\ ActionOf(Id(w))' = a
  BY DEF Moved, Running, ActionOf

LEMMA AskersStay ==
  ASSUME asking' = asking, NEW a
  PROVE  \A h \in Askers : Recorded(h, a)' <=> Recorded(h, a)
  BY DEF Recorded

(* The row of an action that is not doubtful says "running" only once.      *)
LEMMA TakenUp ==
  ASSUME NEW a, OnceFor(a), Runs(a), a \notin doubtful'
  PROVE  /\ Undone(a)
         /\ \A w \in Workers : ~Running(w, a)
         /\ \A h \in Askers : ~Recorded(h, a)
<1>1. execution[a] \notin {"running", "complete"}
  BY DEF Runs
<1> QED BY <1>1 DEF OnceFor

LEMMA RecordOnce ==
  ASSUME PromiseInv, OnceInv, NEW w \in Workers, Record(w),
         NEW a \in Actions, a \notin doubtful', OnceFor(a)
  PROVE  OnceFor(a)'
<1> DEFINE b == ActionOf(Id(w))
<1>1. stage[w] \in Busy /\ Typed /\ at[w] \in Locals /\ "guard" \in Busy
  BY DEF Record, Busy, Stages, PromiseInv, Typed
<1>2. With(w, at[w], "guard") /\ reply' = reply /\ asking' = asking /\ Runs(b)
  BY DEF Record, askVars
<1>3. Moved(w, "guard", at[w]) /\ Id(w)' = Id(w) /\ b \in Actions
  BY <1>1, <1>2, WithMoves, IdOK
<1>4. ActionOf(Id(w))' = b
  BY <1>3 DEF ActionOf
<1> HIDE DEF b
<1>5. /\ \A v \in Workers : v # w =>
           (Running(v, a)' <=> Running(v, a)) /\ stage'[v] = stage[v] /\ at'[v] = at[v]
      /\ Running(w, a)' <=> b = a
  BY <1>3, <1>4, MovedRuns
<1>6. \A h \in Askers : Recorded(h, a)' <=> Recorded(h, a)
  BY <1>2, AskersStay
<1>7. /\ UNCHANGED <<performed, own>> /\ execution' = [execution EXCEPT ![b] = "running"]
      /\ execution \in [Actions -> ExecutionRows]
  BY <1>2 DEF Runs, OnceInv, AskTyped
<1>8. CASE a # b
  BY <1>3, <1>5, <1>6, <1>7, <1>8, Untouched
<1>9. CASE a = b
  <2>1. /\ Undone(a)
        /\ \A v \in Workers : ~Running(v, a)
        /\ \A h \in Askers : ~Recorded(h, a)
    BY <1>2, <1>9, TakenUp
  <2>2. execution'[a] = "running" /\ Undone(a)' /\ performed'[a] + own'[a] <= 1
    BY <1>7, <1>9, <2>1 DEF Undone
  <2>3. \A v \in Workers : Running(v, a)' => v = w
    BY <1>5, <2>1
  <2>4. \A h \in Askers : ~Recorded(h, a)'
    BY <1>6, <2>1
  <2> QED BY <2>2, <2>3, <2>4 DEF OnceFor
<1> QED BY <1>8, <1>9

(* The call: without effect, with one that is reported, or doubtful.        *)
LEMMA GuardOnce ==
  ASSUME PromiseInv, OnceInv, NEW w \in Workers, GuardWithholds(w) \/ GuardPerforms(w),
         NEW a \in Actions, a \notin doubtful', OnceFor(a)
  PROVE  OnceFor(a)'
<1> DEFINE b == ActionOf(Id(w))
<1>1. /\ stage[w] \in Busy /\ Typed /\ at[w] \in Locals /\ "report" \in Busy
      /\ stage[w] = "guard" /\ reply' = reply
  BY DEF GuardWithholds, GuardPerforms, Busy, Stages, PromiseInv, Typed, askVars
<1>2. PICK result \in Results :
        /\ With(w, [at[w] EXCEPT !.result = result], "report")
        /\ \/ UNCHANGED performed
           \/ /\ performed' = [performed EXCEPT ![b] = Bump(@)]
              /\ result = "complete" \/ b \in doubtful'
  BY DEF GuardWithholds, GuardPerforms, Results, ghostVars
<1> DEFINE l == [at[w] EXCEPT !.result = result]
<1>3. l \in Locals /\ l.result = result
  BY <1>1 DEF Locals
<1>4. With(w, l, "report")
  BY <1>2
<1> HIDE DEF l
<1>5. Moved(w, "report", l) /\ Id(w)' = Id(w) /\ b \in Actions
  BY <1>1, <1>3, <1>4, WithMoves, IdOK
<1>6. ActionOf(Id(w))' = b /\ Running(w, b)
  BY <1>1, <1>5 DEF ActionOf, Running
<1> HIDE DEF b
<1>7. /\ \A v \in Workers : v # w =>
           (Running(v, a)' <=> Running(v, a)) /\ stage'[v] = stage[v] /\ at'[v] = at[v]
      /\ Running(w, a)' <=> b = a
      /\ stage'[w] = "report" /\ at'[w] = l
  BY <1>5, <1>6, MovedRuns DEF Moved
<1>8. UNCHANGED <<execution, own, asking>>
  BY DEF GuardWithholds, GuardPerforms, ghostVars
<1>9. \A h \in Askers : Recorded(h, a)' <=> Recorded(h, a)
  BY <1>8, AskersStay
<1>10. performed \in [Actions -> 0 .. MaxCount]
  BY <1>1 DEF Typed
<1>11. CASE a # b
  <2>1. performed'[a] = performed[a]
    BY <1>2, <1>10, <1>11
  <2> QED BY <1>7, <1>8, <1>9, <1>11, <2>1, Untouched
<1>12. CASE a = b
  <2>1. /\ Undone(a) /\ execution[a] = "running"
        /\ \A v \in Workers : Running(v, a) => v = w
        /\ \A h \in Askers : ~Recorded(h, a)
    BY <1>1, <1>6, <1>12 DEF OnceFor
  <2>2. \/ performed'[a] = 0
        \/ performed'[a] = 1 /\ result = "complete"
    BY <1>2, <1>5, <1>10, <1>12, <2>1 DEF Undone, Bump, MaxCount
  <2>3. own'[a] = 0 /\ performed'[a] + own'[a] <= 1
    BY <1>8, <2>1, <2>2 DEF Undone
  <2>4. \A v \in Workers : Running(v, a)' => v = w
    BY <1>7, <2>1
  <2>5. Undone(a)' \/ at'[w].result = "complete"
    BY <1>3, <1>7, <2>2, <2>3 DEF Undone
  <2> QED BY <1>7, <1>8, <1>9, <2>1, <2>3, <2>4, <2>5 DEF OnceFor
<1> QED BY <1>11, <1>12

LEMMA ReportOnce ==
  ASSUME PromiseInv, OnceInv, NEW w \in Workers, Report(w),
         NEW a \in Actions, a \notin doubtful', OnceFor(a)
  PROVE  OnceFor(a)'
<1> DEFINE b == ActionOf(Id(w))
<1>1. /\ stage[w] \in Busy /\ Typed /\ at[w] \in Locals /\ stage[w] = "report"
      /\ reply' = reply /\ UNCHANGED <<asking, performed, own>>
  BY DEF Report, Busy, Stages, PromiseInv, Typed, askVars, ghostVars
<1>2. PICK s \in {"followup", "notify"} : With(w, at[w], s)
  BY DEF Report
<1>3. Moved(w, s, at[w]) /\ b \in Actions
  BY <1>1, <1>2, WithMoves, IdOK DEF Busy, Stages
<1>4. Running(w, b) /\ execution' = [execution EXCEPT ![b] = at[w].result]
  BY <1>1 DEF Running, Report
<1> HIDE DEF b
<1>5. /\ \A v \in Workers : v # w =>
           (Running(v, a)' <=> Running(v, a)) /\ stage'[v] = stage[v] /\ at'[v] = at[v]
      /\ ~Running(w, a)'
  BY <1>3, MovedRuns
<1>6. \A h \in Askers : Recorded(h, a)' <=> Recorded(h, a)
  BY <1>1, AskersStay
<1>7. execution \in [Actions -> ExecutionRows]
  BY DEF OnceInv, AskTyped
<1>8. CASE a # b
  BY <1>1, <1>3, <1>4, <1>5, <1>6, <1>7, <1>8, Untouched
<1>9. CASE a = b
  <2>1. /\ Undone(a) \/ at[w].result = "complete"
        /\ \A v \in Workers : Running(v, a) => v = w
        /\ \A h \in Askers : ~Recorded(h, a)
    BY <1>4, <1>9 DEF OnceFor
  <2>2. execution'[a] = at[w].result /\ Undone(a)' = Undone(a)
    BY <1>1, <1>3, <1>4, <1>7, <1>9 DEF Undone
  <2>3. performed'[a] + own'[a] <= 1
    BY <1>1 DEF OnceFor
  <2>4. \A v \in Workers : ~Running(v, a)'
    BY <1>5, <2>1
  <2> QED BY <1>6, <2>1, <2>2, <2>3, <2>4 DEF OnceFor
<1> QED BY <1>8, <1>9

(* The handlers of the asking messages. *)
LEMMA NoneIsNoCommand == ASSUME NEW a \in Actions PROVE None # <<a, "recorded">>
  BY ConfirmationAssumption

LEMMA AskRecordsOnce ==
  ASSUME PromiseInv, OnceInv, NEW h \in Askers, AskRecords(h),
         NEW a \in Actions, a \notin doubtful', OnceFor(a)
  PROVE  OnceFor(a)'
<1>1. PICK b \in Actions :
        /\ asking[h] = <<b, "checked">>
        /\ asking' = [asking EXCEPT ![h] = <<b, "recorded">>]
        /\ Runs(b)
  BY DEF AskRecords
<1>2. UNCHANGED <<stage, at, handles, reply>>
  BY DEF AskRecords, claimVars, askVars
<1>3. \A w \in Workers :
        (Running(w, a)' <=> Running(w, a)) /\ stage'[w] = stage[w] /\ at'[w] = at[w]
  BY <1>2 DEF Running, Id, ActionOf
<1>4. \A g \in Askers : Recorded(g, a)' <=> IF g = h THEN b = a ELSE Recorded(g, a)
  BY <1>1 DEF Recorded, OnceInv, AskTyped
<1>5. /\ UNCHANGED <<performed, own>> /\ execution' = [execution EXCEPT ![b] = "running"]
      /\ execution \in [Actions -> ExecutionRows]
  BY <1>1 DEF Runs, OnceInv, AskTyped
<1>6. CASE a # b
  BY <1>3, <1>4, <1>5, <1>6, Untouched
<1>7. CASE a = b
  <2>1. /\ Undone(a)
        /\ \A v \in Workers : ~Running(v, a)
        /\ \A g \in Askers : ~Recorded(g, a)
    BY <1>1, <1>7, TakenUp
  <2>2. execution'[a] = "running" /\ Undone(a)' /\ performed'[a] + own'[a] <= 1
    BY <1>5, <1>7, <2>1 DEF Undone
  <2>3. \A v \in Workers : ~Running(v, a)'
    BY <1>3, <2>1
  <2>4. \A g \in Askers : Recorded(g, a)' => g = h
    BY <1>4, <2>1
  <2> QED BY <2>2, <2>3, <2>4 DEF OnceFor
<1> QED BY <1>6, <1>7

(* An asking handler that ends, having done nothing or something once.      *)
LEMMA AskEndsOnce ==
  ASSUME PromiseInv, OnceInv, NEW h \in Askers,
         AskWithholds(h) \/ AskPerforms(h) \/ AskDies(h),
         NEW a \in Actions, a \notin doubtful', OnceFor(a)
  PROVE  OnceFor(a)'
<1>1. UNCHANGED <<stage, at, handles, reply, performed>>
  BY AskerLeaves DEF Asks
<1>2. \A w \in Workers :
        (Running(w, a)' <=> Running(w, a)) /\ stage'[w] = stage[w] /\ at'[w] = at[w]
  BY <1>1 DEF Running, Id, ActionOf
<1>3. asking' = [asking EXCEPT ![h] = None]
  BY DEF AskWithholds, AskPerforms, AskDies
<1>4. \A g \in Askers : Recorded(g, a)' <=> g # h /\ Recorded(g, a)
  BY <1>3, NoneIsNoCommand DEF Recorded, OnceInv, AskTyped
<1>5. /\ execution \in [Actions -> ExecutionRows] /\ own \in [Actions -> 0 .. MaxCount]
  BY DEF OnceInv, AskTyped
<1>6. CASE ~Recorded(h, a)
  <2>1. execution'[a] = execution[a]
    <3>1. ASSUME NEW b \in Actions, asking[h] = <<b, "recorded">> PROVE b # a
      BY <1>6, <3>1 DEF Recorded
    <3>2. \/ execution' = execution
          \/ \E b \in Actions : \E r : /\ asking[h] = <<b, "recorded">>
                                       /\ execution' = [execution EXCEPT ![b] = r]
      BY DEF AskWithholds, AskPerforms, AskDies
    <3> QED BY <1>5, <3>1, <3>2
  <2>2. own'[a] = own[a]
    <3>1. ASSUME NEW b \in Actions, asking[h] = <<b, "recorded">> PROVE b # a
      BY <1>6, <3>1 DEF Recorded
    <3>2. \/ own' = own
          \/ \E b \in Actions : \E r : /\ asking[h] = <<b, "recorded">>
                                       /\ own' = [own EXCEPT ![b] = r]
      BY DEF AskWithholds, AskPerforms, AskDies, PerformsOwn, ghostVars
    <3> QED BY <1>5, <3>1, <3>2
  <2> QED BY <1>1, <1>2, <1>4, <2>1, <2>2, Untouched
<1>7. CASE Recorded(h, a)
  <2>1. /\ Undone(a) /\ execution[a] = "running"
        /\ \A w \in Workers : ~Running(w, a)
        /\ \A g \in Askers : Recorded(g, a) => g = h
    BY <1>7 DEF OnceFor
  <2>2. /\ \A w \in Workers : ~Running(w, a)'
        /\ \A g \in Askers : ~Recorded(g, a)'
    BY <1>2, <1>4, <2>1
  <2>3. \A b \in Actions : asking[h] = <<b, "recorded">> => b = a
    BY <1>7 DEF Recorded
  <2>4. performed'[a] = 0
    BY <1>1, <2>1 DEF Undone
  <2>5. CASE own' = own
    BY <2>1, <2>2, <2>4, <2>5 DEF Undone, OnceFor
  <2>6. CASE own' # own
    <3>1. /\ own' = [own EXCEPT ![a] = Bump(@)]
          /\ execution'[a] \in {"running", "complete"}
      <4>1. CASE AskPerforms(h)
        <5>1. PICK b \in Actions :
                /\ asking[h] = <<b, "recorded">>
                /\ PerformsOwn(b)
                /\ \E result \in {"complete", "failed"} :
                     /\ execution' = [execution EXCEPT ![b] = result]
                     /\ doubtful' = IF result = "failed" THEN doubtful \cup {b}
                                    ELSE doubtful
          BY <4>1 DEF AskPerforms
        <5>2. b = a
          BY <2>3, <5>1
        <5> QED BY <1>5, <5>1, <5>2 DEF PerformsOwn
      <4>2. CASE AskDies(h)
        BY <2>1, <2>3, <2>6, <4>2 DEF AskDies, PerformsOwn, ghostVars
      <4>3. CASE AskWithholds(h)
        BY <2>6, <4>3 DEF AskWithholds, ghostVars
      <4> QED BY <4>1, <4>2, <4>3
    <3>2. own'[a] = 1
      BY <1>5, <2>1, <3>1 DEF Undone, Bump, MaxCount
    <3>3. performed'[a] + own'[a] <= 1
      BY <2>4, <3>2
    <3> QED BY <2>2, <3>1, <3>3 DEF OnceFor
  <2> QED BY <2>5, <2>6
<1> QED BY <1>6, <1>7

(* Where the other steps of a handler lead.                                 *)
LEMMA HandleMoves ==
  ASSUME PromiseInv, NEW w \in Workers, Handle(w),
         ~Record(w), ~GuardWithholds(w), ~GuardPerforms(w), ~Report(w)
  PROVE  \E s, l : Moved(w, s, l) /\ s \notin {"guard", "report"}
<1> USE DEF Busy, Stages
<1>0. Typed /\ at[w] \in Locals
  BY DEF PromiseInv, Typed
<1>1. ASSUME NEW s \in Busy, NEW l \in Locals, With(w, l, s), stage[w] \in Busy,
             reply' = reply, s \notin {"guard", "report"}
      PROVE  \E t, k : Moved(w, t, k) /\ t \notin {"guard", "report"}
  BY <1>0, <1>1, WithMoves
<1>2. CASE Lookup(w)
  <2> DEFINE l == [Fresh EXCEPT !.action = Id(w) \in payload]
  <2>1. l \in Locals
    <3>1. \A b \in BOOLEAN : [Fresh EXCEPT !.action = b] \in Locals
      BY FreshIsLocal DEF Locals
    <3>2. (Id(w) \in payload) \in BOOLEAN
      OBVIOUS
    <3> QED BY <3>1, <3>2, Zenon
  <2>2. With(w, l, "resolve") /\ stage[w] = "claimed" /\ reply' = reply
    BY <1>2 DEF Lookup, askVars
  <2> HIDE DEF l
  <2> QED BY <1>1, <2>1, <2>2
<1>3. CASE ResolveAccepted(w)
  <2>1. [at[w] EXCEPT !.result = "missing"] \in Locals
    BY <1>0 DEF Locals, Results
  <2>2. /\ \E l \in Locals, s \in {"notify", "check"} : With(w, l, s)
        /\ stage[w] = "resolve" /\ reply' = reply
    BY <1>0, <1>3, <2>1 DEF ResolveAccepted, askVars
  <2> QED BY <1>1, <2>2
<1>4. CASE Close(w)
  <2>1. Moved(w, "idle", Fresh)
    BY <1>0, <1>4, LeaveMoves DEF Close, askVars
  <2> QED BY <2>1
<1>5. CASE ~Lookup(w) /\ ~ResolveAccepted(w) /\ ~Close(w)
  <2>1. /\ \E s \in {"closing", "notify", "record", "show", "clear"} : With(w, at[w], s)
        /\ stage[w] \in Busy /\ reply' = reply
    BY <1>5
    DEF Handle, ResolveLate, ResolveRefused, Check, Followup, ShowFollowup, Notify, Clear,
        askVars
  <2> QED BY <1>0, <1>1, <2>1
<1> QED BY <1>2, <1>3, <1>4, <1>5

(* The other steps take up no handling and report nothing.                  *)
LEMMA OthersOnce ==
  ASSUME PromiseInv, OnceInv, [Next]_confirmationVars,
         \A w \in Workers :
           ~Record(w) /\ ~GuardWithholds(w) /\ ~GuardPerforms(w) /\ ~Report(w),
         \A h \in Askers : Asks(h) => \E b \in Actions : AskChecks(h, b),
         NEW a \in Actions, OnceFor(a)
  PROVE  OnceFor(a)'
<1>0. Typed
  BY DEF PromiseInv
<1>m. ASSUME NEW w \in Workers, NEW s, NEW l, Moved(w, s, l), s \notin {"guard", "report"},
             UNCHANGED <<execution, performed, own, asking>>
      PROVE  OnceFor(a)'
  BY <1>m, MovedRuns, AskersStay, Untouched
<1>1. ASSUME NEW w \in Workers, Handle(w) PROVE OnceFor(a)'
  <2>1. UNCHANGED <<execution, performed, own, asking>>
    BY <1>1
    DEF Handle, Lookup, ResolveAccepted, ResolveLate, ResolveRefused, Check, Followup,
        ShowFollowup, Notify, Clear, Close, ghostVars
  <2>2. PICK s, l : Moved(w, s, l) /\ s \notin {"guard", "report"}
    BY <1>1, HandleMoves
  <2> QED BY <1>m, <2>1, <2>2
<1>2. ASSUME NEW w \in Workers,
             \/ \E m \in Messages : Receive(w, m)
             \/ Disabled(w) \/ ShowFails(w) \/ Crash(w) \/ Restart(w)
      PROVE  OnceFor(a)'
  <2>1. UNCHANGED <<execution, performed, own, asking>>
    BY <1>2 DEF Receive, Disabled, ShowFails, Crash, Restart, ghostVars
  <2>2. PICK s \in {"claimed", "idle", "down"} : Moved(w, s, Fresh)
    BY <1>2, EndsKeepWord
  <2> QED BY <1>m, <2>1, <2>2
<1>3. CASE \/ \E b \in Actions : Ask(b)
           \/ \E id \in Ids : Show(id) \/ ComeDue(id)
           \/ \E m \in Messages, id \in Ids, yes \in BOOLEAN : Reply(m, id, yes)
           \/ MaintainState \/ ClaimsAge \/ UNCHANGED confirmationVars
  <2>1. UNCHANGED <<execution, performed, own, asking>>
    BY <1>3
    DEF Ask, Show, ComeDue, Reply, MaintainState, ClaimsAge, confirmationVars, ghostVars
  <2>2. \A v \in Workers : /\ stage'[v] = stage[v] /\ at'[v] = at[v]
                           /\ stage[v] \in Busy => Id(v)' = Id(v)
    BY <1>0, <1>3, WorldKeepsPlace
  <2>3. \A v \in Workers : Running(v, a)' => Running(v, a)
    BY <2>2 DEF Running, Busy, Stages, ActionOf
  <2> QED BY <2>1, <2>2, <2>3, AskersStay, Untouched
<1>4. ASSUME NEW h \in Askers, NEW b \in Actions, AskChecks(h, b) PROVE OnceFor(a)'
  <2>1. UNCHANGED <<execution, performed, own, stage, at, handles, reply>>
    BY <1>4 DEF AskChecks, claimVars, askVars, ghostVars
  <2>2. \A w \in Workers :
          (Running(w, a)' <=> Running(w, a)) /\ stage'[w] = stage[w] /\ at'[w] = at[w]
    BY <2>1 DEF Running, Id, ActionOf
  <2>3. \A g \in Askers : Recorded(g, a)' => Recorded(g, a)
    BY <1>4 DEF AskChecks, Recorded, OnceInv, AskTyped
  <2> QED BY <2>1, <2>2, <2>3, Untouched
<1> QED BY <1>1, <1>2, <1>3, <1>4 DEF Next

-----------------------------------------------------------------------------

LEMMA AskTypedStep ==
  ASSUME PromiseInv, AskTyped, [Next]_confirmationVars PROVE AskTyped'
<1>0. Typed
  BY DEF PromiseInv
<1>1. ASSUME UNCHANGED <<execution, asking, own, doubtful>> PROVE AskTyped'
  BY <1>1 DEF AskTyped
<1>2. ASSUME NEW a \in Actions, NEW r \in ExecutionRows
      PROVE  /\ [execution EXCEPT ![a] = r] \in [Actions -> ExecutionRows]
             /\ [own EXCEPT ![a] = Bump(@)] \in [Actions -> 0 .. MaxCount]
  BY DEF AskTyped, Bump, MaxCount
<1>3. ASSUME NEW w \in Workers, Handle(w) PROVE AskTyped'
  <2>1. asking' = asking /\ own' = own
    BY <1>3
    DEF Handle, Lookup, ResolveAccepted, ResolveLate, ResolveRefused, Check, Record, Runs,
        GuardWithholds, GuardPerforms, Report, Followup, ShowFollowup, Notify, Clear,
        Close, ghostVars
  <2>2. CASE UNCHANGED <<execution, doubtful>>
    BY <1>1, <2>1, <2>2
  <2>3. CASE Record(w) \/ Report(w) \/ GuardPerforms(w)
    <3>1. ActionOf(Id(w)) \in Actions /\ at[w].result \in ExecutionRows
      BY <1>0, <2>3, IdOK
      DEF Record, Report, GuardPerforms, Busy, Stages, Typed, Locals, ExecutionRows
    <3>2. /\ doubtful' \subseteq doubtful \cup {ActionOf(Id(w))}
          /\ \/ execution' = execution
             \/ \E r \in ExecutionRows :
                  execution' = [execution EXCEPT ![ActionOf(Id(w))] = r]
      BY <2>3, <3>1 DEF Record, Report, GuardPerforms, Runs, ghostVars, ExecutionRows
    <3> QED BY <1>2, <2>1, <3>1, <3>2 DEF AskTyped
  <2>4. CASE ~(Record(w) \/ Report(w) \/ GuardPerforms(w))
    <3>1. UNCHANGED <<execution, doubtful>>
      BY <1>3, <2>4
      DEF Handle, Lookup, ResolveAccepted, ResolveLate, ResolveRefused, Check,
          GuardWithholds, Followup, ShowFollowup, Notify, Clear, Close, ghostVars
    <3> QED BY <2>2, <3>1
  <2> QED BY <2>3, <2>4
<1>4. CASE \/ \E w \in Workers :
                \/ \E m \in Messages : Receive(w, m)
                \/ Disabled(w) \/ ShowFails(w) \/ Crash(w) \/ Restart(w)
           \/ \E b \in Actions : Ask(b)
           \/ \E id \in Ids : Show(id) \/ ComeDue(id)
           \/ \E m \in Messages, id \in Ids, yes \in BOOLEAN : Reply(m, id, yes)
           \/ MaintainState \/ ClaimsAge \/ UNCHANGED confirmationVars
  BY <1>1, <1>4
  DEF Receive, Disabled, ShowFails, Crash, Restart, Ask, Show, ComeDue, Reply,
      MaintainState, ClaimsAge, confirmationVars, ghostVars
<1>5. ASSUME NEW h \in Askers, Asks(h) PROVE AskTyped'
  <2>1. \E c \in Commands \cup {None} : asking' = [asking EXCEPT ![h] = c]
    BY <1>5 DEF Asks, AskChecks, AskRecords, AskWithholds, AskPerforms, AskDies, Commands
  <2>2. asking' \in [Askers -> Commands \cup {None}]
    BY <2>1 DEF AskTyped
  <2>3. \/ execution' = execution
        \/ \E a \in Actions, r \in ExecutionRows :
             execution' = [execution EXCEPT ![a] = r]
    BY <1>5
    DEF Asks, AskChecks, AskRecords, AskWithholds, AskPerforms, AskDies, Runs,
        ExecutionRows, Results
  <2>4. own' = own \/ \E a \in Actions : own' = [own EXCEPT ![a] = Bump(@)]
    BY <1>5
    DEF Asks, AskChecks, AskRecords, AskWithholds, AskPerforms, AskDies, Runs,
        PerformsOwn, ghostVars
  <2>5. doubtful' = doubtful \/ \E a \in Actions : doubtful' = doubtful \cup {a}
    BY <1>5
    DEF Asks, AskChecks, AskRecords, AskWithholds, AskPerforms, AskDies, Runs, ghostVars
  <2> QED BY <1>2, <2>2, <2>3, <2>4, <2>5 DEF AskTyped
<1> QED BY <1>3, <1>4, <1>5 DEF Next

LEMMA OwnOrNot ==
  ASSUME [Next]_confirmationVars
  PROVE  own' = own \/ \E a \in Actions : PerformsOwn(a)
<1>1. ASSUME NEW w \in Workers, Handle(w) PROVE own' = own
  BY <1>1
  DEF Handle, Lookup, ResolveAccepted, ResolveLate, ResolveRefused, Check, Record, Runs,
      GuardWithholds, GuardPerforms, Report, Followup, ShowFollowup, Notify, Clear, Close,
      ghostVars
<1>2. CASE \/ \E w \in Workers :
                \/ \E m \in Messages : Receive(w, m)
                \/ Disabled(w) \/ ShowFails(w) \/ Crash(w) \/ Restart(w)
           \/ \E b \in Actions : Ask(b)
           \/ \E id \in Ids : Show(id) \/ ComeDue(id)
           \/ \E m \in Messages, id \in Ids, yes \in BOOLEAN : Reply(m, id, yes)
           \/ MaintainState \/ ClaimsAge \/ UNCHANGED confirmationVars
  BY <1>2
  DEF Receive, Disabled, ShowFails, Crash, Restart, Ask, Show, ComeDue, Reply,
      MaintainState, ClaimsAge, confirmationVars, ghostVars
<1>3. ASSUME NEW h \in Askers, Asks(h)
      PROVE  own' = own \/ \E a \in Actions : PerformsOwn(a)
  BY <1>3
  DEF Asks, AskChecks, AskRecords, AskWithholds, AskPerforms, AskDies, Runs, ghostVars
<1> QED BY <1>1, <1>2, <1>3 DEF Next

LEMMA DoubtStays ==
  ASSUME [Next]_confirmationVars PROVE doubtful \subseteq doubtful'
<1>1. ASSUME NEW w \in Workers, Handle(w) PROVE doubtful \subseteq doubtful'
  BY <1>1
  DEF Handle, Lookup, ResolveAccepted, ResolveLate, ResolveRefused, Check, Record, Runs,
      GuardWithholds, GuardPerforms, Report, Followup, ShowFollowup, Notify, Clear, Close,
      ghostVars
<1>2. CASE \/ \E w \in Workers :
                \/ \E m \in Messages : Receive(w, m)
                \/ Disabled(w) \/ ShowFails(w) \/ Crash(w) \/ Restart(w)
           \/ \E b \in Actions : Ask(b)
           \/ \E id \in Ids : Show(id) \/ ComeDue(id)
           \/ \E m \in Messages, id \in Ids, yes \in BOOLEAN : Reply(m, id, yes)
           \/ MaintainState \/ ClaimsAge \/ UNCHANGED confirmationVars
  BY <1>2
  DEF Receive, Disabled, ShowFails, Crash, Restart, Ask, Show, ComeDue, Reply,
      MaintainState, ClaimsAge, confirmationVars, ghostVars
<1>3. ASSUME NEW h \in Askers, Asks(h) PROVE doubtful \subseteq doubtful'
  BY <1>3
  DEF Asks, AskChecks, AskRecords, AskWithholds, AskPerforms, AskDies, Runs, ghostVars
<1> QED BY <1>1, <1>2, <1>3 DEF Next

LEMMA OnceStep == PromiseInv /\ OnceInv /\ [Next]_confirmationVars => OnceInv'
<1> SUFFICES ASSUME PromiseInv, OnceInv, [Next]_confirmationVars PROVE OnceInv'
  OBVIOUS
<1>1. AskTyped'
  BY AskTypedStep DEF OnceInv
<1>2. OwnIsPlain'
  <2>1. CASE own' = own
    BY <2>1 DEF OnceInv, OwnIsPlain
  <2>2. CASE \E a \in Actions : PerformsOwn(a)
    BY <2>2, ConfirmationAssumption DEF OnceInv, AskTyped, OwnIsPlain, PerformsOwn
  <2> QED BY <2>1, <2>2, OwnOrNot
<1>3. ASSUME NEW a \in Actions \ Risky, a \notin doubtful' PROVE OnceFor(a)'
  <2>1. OnceFor(a)
    BY <1>3, DoubtStays DEF OnceInv
  <2>2. ASSUME NEW w \in Workers,
               Record(w) \/ GuardWithholds(w) \/ GuardPerforms(w) \/ Report(w)
        PROVE  OnceFor(a)'
    BY <1>3, <2>1, <2>2, RecordOnce, GuardOnce, ReportOnce
  <2>3. ASSUME NEW h \in Askers, Asks(h), ~\E b \in Actions : AskChecks(h, b)
        PROVE  OnceFor(a)'
    BY <1>3, <2>1, <2>3, AskRecordsOnce, AskEndsOnce DEF Asks
  <2> QED BY <2>1, <2>2, <2>3, OthersOnce
<1> QED BY <1>1, <1>2, <1>3 DEF OnceInv

LEMMA OnceInit == Init => OnceInv
<1> SUFFICES ASSUME Init PROVE OnceInv
  OBVIOUS
<1>1. AskTyped
  BY DEF Init, AskTyped, ExecutionRows, MaxCount
<1>2. OwnIsPlain
  BY ConfirmationAssumption DEF Init, OwnIsPlain
<1>3. ASSUME NEW a \in Actions PROVE OnceFor(a)
  <2>1. \A h \in Askers : ~Recorded(h, a)
    BY NoneIsNoCommand DEF Init, Recorded
  <2>2. \A w \in Workers : ~Running(w, a)
    BY DEF Init, Running
  <2>3. performed[a] = 0 /\ own[a] = 0
    BY DEF Init
  <2> QED BY <2>1, <2>2, <2>3 DEF OnceFor, Undone
<1> QED BY <1>1, <1>2, <1>3 DEF OnceInv

(* An action is performed once, on its confirmation or for the message that *)
(* asks for it, whatever becomes of the handlers: a high-risk one always,   *)
(* another one unless a call with effect was reported as failed or two      *)
(* handlers checked its row before either recorded it.                      *)
THEOREM OnlyOnce == Spec => []PerformedOnce
<1>1. PromiseInv /\ OnceInv => PerformedOnce
  <2> SUFFICES ASSUME PromiseInv, OnceInv, NEW a \in Actions, performed[a] + own[a] > 1
               PROVE  a \in doubtful \ Risky
    BY DEF PerformedOnce
  <2>1. /\ performed[a] \in Nat /\ own[a] \in Nat /\ performed[a] <= 1
    BY DEF PromiseInv, Typed, PerformedIsApproved, OnceInv, AskTyped, MaxCount
  <2>2. a \notin Risky
    BY <2>1 DEF OnceInv, OwnIsPlain
  <2>3. ~OnceFor(a)
    BY <2>1 DEF OnceFor
  <2> QED BY <2>2, <2>3 DEF OnceInv
<1> QED BY <1>1, InitInv, InvStep, OnceInit, OnceStep, PTL DEF Spec

-----------------------------------------------------------------------------
(* The promise of ConfirmedAction.                                          *)

AnswerView == [a \in Actions |-> AnswerTo(a)]
DoneView == {a \in Actions : performed[a] > 0}
OwnView == {a \in Actions : own[a] > 0}

LEMMA AnswerValues ==
  \A a \in Actions :
    /\ status[Last(a)] \in {"absent", "pending"} => AnswerTo(a) = "none"
    /\ status[Last(a)] = "approved" => AnswerTo(a) = "approved"
    /\ status[Last(a)] \in {"rejected", "expired"} => AnswerTo(a) = "refused"
  BY DEF AnswerTo

LEMMA PromiseVars == Promise!promiseVars = <<AnswerView, DoneView, OwnView>>
  BY DEF Promise!promiseVars, AnswerView, DoneView, OwnView

(* Rows that are created, rejected or expire refuse an action or change     *)
(* nothing about it.                                                        *)
LEMMA RefusesOrStutters ==
  ASSUME PromiseInv, status' \in [Ids -> Statuses], UNCHANGED <<performed, own>>,
         \A id \in Ids : status'[id] # status[id] =>
           /\ status[id] \in {"absent", "pending"}
           /\ status'[id] \in {"pending", "rejected", "expired"}
  PROVE  Promise!PromiseNext
<1> DEFINE R == {a \in Actions : AnswerTo(a)' # AnswerTo(a)}
<1>1. \A a \in Actions : Last(a) \in Ids /\ Last(a)' = Last(a)
  BY LastOK DEF Last
<1>2. \A a \in Actions :
        /\ status'[Last(a)] \in {"absent", "pending"} => AnswerTo(a)' = "none"
        /\ status'[Last(a)] = "approved" => AnswerTo(a)' = "approved"
        /\ status'[Last(a)] \in {"rejected", "expired"} => AnswerTo(a)' = "refused"
  BY DEF AnswerTo, Last
<1>3. \A a \in Actions : status[Last(a)] \in Statuses /\ status'[Last(a)] \in Statuses
  BY <1>1 DEF PromiseInv, Typed
<1>4. \A a \in R : AnswerTo(a) = "none" /\ AnswerTo(a)' = "refused"
  BY <1>1, <1>2, <1>3, AnswerValues DEF Statuses
<1>5. AnswerView' = [a \in Actions |-> IF a \in R THEN "refused" ELSE AnswerView[a]]
  BY <1>4 DEF AnswerView
<1>6. DoneView' = DoneView /\ OwnView' = OwnView
  BY DEF DoneView, OwnView
<1>7. R \in SUBSET Actions /\ \A a \in R : AnswerView[a] = "none"
  BY <1>4 DEF AnswerView
<1> HIDE DEF R
<1>8. Promise!Refuse(R)
  BY <1>5, <1>6, <1>7 DEF Promise!Refuse, AnswerView, DoneView, OwnView
<1> QED BY <1>7, <1>8 DEF Promise!PromiseNext

LEMMA LastIsOne == \A a, b \in Actions : Last(a) = Last(b) => a = b
  BY DEF Last

LEMMA ApprovesOrStutters ==
  ASSUME PromiseInv, NEW id \in Ids, status[id] = "pending",
         status' = [status EXCEPT ![id] = "approved"], UNCHANGED <<performed, own>>
  PROVE  [Promise!PromiseNext]_(Promise!promiseVars)
<1>1. \A a \in Actions : Last(a) \in Ids /\ Last(a)' = Last(a)
  BY LastOK DEF Last
<1>2. \A a \in Actions : Last(a) # id => AnswerTo(a)' = AnswerTo(a)
  BY <1>1 DEF AnswerTo, PromiseInv, Typed
<1>3. DoneView' = DoneView /\ OwnView' = OwnView
  BY DEF DoneView, OwnView
<1>4. CASE \E a \in Actions : Last(a) = id
  <2>1. PICK a \in Actions : Last(a) = id
    BY <1>4
  <2>2. AnswerTo(a) = "none" /\ AnswerTo(a)' = "approved"
    BY <1>1, <2>1 DEF AnswerTo, PromiseInv, Typed
  <2>3. \A b \in Actions : b # a => AnswerTo(b)' = AnswerTo(b)
    BY <1>2, <2>1, LastIsOne
  <2>4. AnswerView' = [AnswerView EXCEPT ![a] = "approved"]
    BY <2>2, <2>3 DEF AnswerView
  <2>5. Promise!Approve(a)
    BY <1>3, <2>2, <2>4 DEF Promise!Approve, AnswerView, DoneView, OwnView
  <2> QED BY <2>5 DEF Promise!PromiseNext
<1>5. CASE ~\E a \in Actions : Last(a) = id
  <2>1. AnswerView' = AnswerView
    BY <1>2, <1>5 DEF AnswerView
  <2> QED BY <1>3, <2>1, PromiseVars DEF Promise!promiseVars, AnswerView, DoneView, OwnView
<1> QED BY <1>4, <1>5

LEMMA PerformsIsDo ==
  ASSUME PromiseInv, NEW a \in Actions, performed[a] = 0, status[Last(a)] = "approved",
         performed' = [performed EXCEPT ![a] = 1], status' = status, own' = own
  PROVE  Promise!PromiseNext
<1>1. AnswerView' = AnswerView /\ OwnView' = OwnView
  BY DEF AnswerView, AnswerTo, Last, OwnView
<1>2. AnswerView[a] = "approved"
  BY AnswerValues DEF AnswerView
<1>3. DoneView' = DoneView \cup {a} /\ a \notin DoneView
  <2>1. performed \in [Actions -> 0 .. MaxCount]
    BY DEF PromiseInv, Typed
  <2>2. /\ performed'[a] > 0
        /\ \A b \in Actions : b # a => performed'[b] = performed[b]
    BY <2>1
  <2> QED BY <2>2 DEF DoneView
<1>4. Promise!Do(a)
  BY <1>1, <1>2, <1>3 DEF Promise!Do, AnswerView, DoneView, OwnView
<1> QED BY <1>4 DEF Promise!PromiseNext

(* The handler of the asking message performs an action without approval:   *)
(* one that is not high-risk.                                               *)
LEMMA OwnIsDoOwn ==
  ASSUME Typed, AskTyped, NEW a \in Actions, PerformsOwn(a), status' = status
  PROVE  Promise!PromiseNext
<1>1. AnswerView' = AnswerView /\ DoneView' = DoneView
  BY DEF AnswerView, AnswerTo, Last, DoneView, PerformsOwn
<1>2. OwnView' = OwnView \cup {a}
  <2>1. own[a] \in 0 .. MaxCount
    BY DEF AskTyped
  <2>2. /\ own'[a] > 0
        /\ \A b \in Actions : b # a => own'[b] = own[b]
    BY <2>1 DEF AskTyped, PerformsOwn, Bump, MaxCount
  <2> QED BY <2>2 DEF OwnView
<1>3. Promise!DoOwn(a)
  BY <1>1, <1>2 DEF PerformsOwn, Promise!DoOwn, AnswerView, DoneView, OwnView
<1> QED BY <1>3 DEF Promise!PromiseNext

LEMMA PromiseStep ==
  PromiseInv /\ AskTyped /\ [Next]_confirmationVars =>
    [Promise!PromiseNext]_(Promise!promiseVars)
<1> SUFFICES ASSUME PromiseInv, AskTyped, [Next]_confirmationVars
             PROVE  [Promise!PromiseNext]_(Promise!promiseVars)
  OBVIOUS
<1> DEFINE Goal == [Promise!PromiseNext]_(Promise!promiseVars)
<1>0. Typed /\ PromiseInv' /\ status' \in [Ids -> Statuses]
  BY InvStep DEF PromiseInv, Typed
<1>1. ASSUME NEW w \in Workers, GuardPerforms(w) PROVE Goal
  BY <1>1, PerformsStep, PerformsIsDo DEF GuardPerforms, rowVars
<1>2. ASSUME NEW w \in Workers, ResolveAccepted(w) PROVE Goal
  <2>1. Id(w) \in Ids /\ status[Id(w)] = "pending" /\ UNCHANGED <<performed, own>>
    BY <1>0, <1>2, IdOK DEF ResolveAccepted, Open, Busy, Stages, ghostVars
  <2>2. CASE Approves(w)
    BY <1>2, <2>1, <2>2, ApprovesOrStutters DEF ResolveAccepted
  <2>3. CASE ~Approves(w)
    <3>1. status' = [status EXCEPT ![Id(w)] = "rejected"]
      BY <1>2, <2>3 DEF ResolveAccepted
    <3> QED BY <1>0, <2>1, <3>1, RefusesOrStutters DEF Typed
  <2> QED BY <2>2, <2>3
<1>3. ASSUME UNCHANGED <<performed, own>>,
             \A id \in Ids : status'[id] # status[id] =>
               /\ status[id] \in {"absent", "pending"}
               /\ status'[id] \in {"pending", "rejected", "expired"}
      PROVE  Goal
  BY <1>0, <1>3, RefusesOrStutters
<1>4. ASSUME NEW w \in Workers, Handle(w), ~GuardPerforms(w), ~ResolveAccepted(w)
      PROVE  Goal
  <2>1. UNCHANGED <<performed, own>>
    BY <1>4
    DEF Handle, Lookup, ResolveLate, ResolveRefused, Check, Record, Runs,
        GuardWithholds, Report, Followup, ShowFollowup, Notify, Clear, Close, ghostVars
  <2>2. CASE ResolveLate(w)
    <3>1. status[Id(w)] = "pending" /\ status' = [status EXCEPT ![Id(w)] = "expired"]
      BY <2>2 DEF ResolveLate, Open
    <3> QED BY <1>0, <1>3, <2>1, <3>1 DEF Typed
  <2>3. CASE Followup(w)
    <3>1. Create(<<ActionOf(Id(w)), TRUE>>)
      BY <2>3 DEF Followup
    <3> QED BY <1>0, <1>3, <2>1, <3>1 DEF Create, Typed
  <2>4. CASE ~ResolveLate(w) /\ ~Followup(w)
    <3>1. status' = status
      BY <1>4, <2>4
      DEF Handle, Lookup, ResolveRefused, Check, Record, GuardWithholds, Report,
          ShowFollowup, Notify, Clear, Close, rowVars
    <3> QED BY <1>3, <2>1, <3>1
  <2> QED BY <2>2, <2>3, <2>4
<1>5. ASSUME NEW a \in Actions, Ask(a) PROVE Goal
  BY <1>0, <1>3, <1>5 DEF Ask, Create, Typed, ghostVars
<1>8. ASSUME NEW h \in Askers, Asks(h) PROVE Goal
  <2>1. performed' = performed
    BY <1>8, AskerLeaves
  <2>2. CASE own' = own
    <3>1. status' = status \/ \E id \in Ids : Create(id)
      BY <1>8, AskerLeaves DEF Ids
    <3> QED BY <1>0, <1>3, <2>1, <2>2, <3>1 DEF Create, Typed
  <2>3. CASE own' # own
    <3>1. status' = status /\ \E a \in Actions : PerformsOwn(a)
      BY <1>8, <2>3
      DEF Asks, AskChecks, AskRecords, AskWithholds, AskPerforms, AskDies, Runs, ghostVars,
          rowVars
    <3> QED BY <1>0, <3>1, OwnIsDoOwn
  <2> QED BY <2>2, <2>3
<1>6. CASE \/ \E id \in Ids : Show(id) \/ ComeDue(id)
           \/ \E m \in Messages, id \in Ids, yes \in BOOLEAN : Reply(m, id, yes)
           \/ \E w \in Workers :
                \/ \E m \in Messages : Receive(w, m)
                \/ Disabled(w) \/ ShowFails(w) \/ Crash(w)
           \/ ClaimsAge
           \/ UNCHANGED confirmationVars
  <2>1. UNCHANGED <<status, performed, own>>
    BY <1>6
    DEF Show, ComeDue, Reply, Receive, Disabled, ShowFails, Crash,
        ClaimsAge, confirmationVars, rowVars, ghostVars
  <2> QED BY <1>3, <2>1
<1>7. CASE MaintainState \/ \E w \in Workers : Restart(w)
  <2>1. UNCHANGED <<performed, own>> /\ ExpireConfirmations
    BY <1>7 DEF MaintainState, Restart, ghostVars
  <2> QED BY <1>3, <2>1 DEF ExpireConfirmations
<1> QED BY <1>1, <1>2, <1>4, <1>5, <1>6, <1>7, <1>8 DEF Next

LEMMA PromiseStarts == Init => Promise!PromiseInit
<1> SUFFICES ASSUME Init PROVE Promise!PromiseInit
  OBVIOUS
<1>1. \A a \in Actions : AnswerTo(a) = "none"
  BY LastOK, AnswerValues DEF Init
<1>2. DoneView = {} /\ OwnView = {}
  BY DEF Init, DoneView, OwnView
<1> QED BY <1>1, <1>2 DEF Promise!PromiseInit, DoneView, OwnView

(* Confirmations implement the promise of ConfirmedAction: an action is     *)
(* performed on its confirmation at most once, and only after an approval   *)
(* in time, answers are final, and only an action that is not high-risk is  *)
(* performed without one, through crashes, redeliveries, contradicting      *)
(* answers, handlers that overlap and asking messages that are read again.  *)
THEOREM PromiseIsKept == Spec => KeepsPromise
<1>1. OnceInv => AskTyped
  BY DEF OnceInv
<1> QED BY <1>1, InitInv, InvStep, OnceInit, OnceStep, PromiseStarts, PromiseStep, PTL
        DEF Spec, KeepsPromise, Promise!PromiseSpec

-----------------------------------------------------------------------------
(* What is said and what is done agree.                                     *)

Answered == {"approved", "rejected"}
Reported == {"failed", "frozen", "confirmation-required", "complete"}
AfterResolve == {"check", "record", "guard", "report", "followup", "show", "notify",
                 "clear"}

(* What a handler carries agrees with the rows: it saw the action of a      *)
(* confirmation that is still open, answered the one it goes on with, and   *)
(* holds a result that is true.                                             *)
HandlerOK(w) ==
  /\ stage[w] = "resolve" /\ status[Id(w)] = "pending" => at[w].action
  /\ stage[w] \in AfterResolve => status[Id(w)] \in Answered
  /\ stage[w] = "report" => at[w].result \in Reported
  /\ stage[w] \in Busy /\ at[w].result = "complete" => performed[ActionOf(Id(w))] > 0
  /\ at[w].result # "missing"

PendingIsKept == \A id \in Ids : status[id] = "pending" => id \in payload
ShownExists ==
  /\ \A id \in shown : status[id] # "absent"
  /\ \A m \in Messages : reply[m] # None => status[reply[m][1]] # "absent"
SecondExists ==
  \A w \in Workers : stage[w] = "show" => status[<<ActionOf(Id(w)), TRUE>>] # "absent"

WordInv ==
  /\ PendingIsKept
  /\ ShownExists
  /\ SecondExists
  /\ AnnouncedIsPerformed
  /\ \A w \in Workers : HandlerOK(w)

RestTyped ==
  /\ claim \in [Events -> {"free", "held", "lapsed", "complete"}]
  /\ payload \subseteq Ids /\ due \subseteq Ids /\ shown \subseteq Ids
  /\ seen \subseteq Messages
  /\ execution \in [Actions -> {"absent", "running", "failed", "frozen",
                                "confirmation-required", "complete"}]
  /\ announced \subseteq Actions
  /\ faults \in 0 .. MaxFaults
  /\ \A w \in Workers : handles[w] = NoEvent <=> stage[w] \in {"idle", "down"}

-----------------------------------------------------------------------------
(* Answers are final, and so are effects.                                   *)

Monotone ==
  /\ \A id \in Ids :
       /\ status'[id] = "pending" => status[id] \in {"absent", "pending"}
       /\ status[id] \in Answered => status'[id] = status[id]
       /\ status[id] # "absent" => status'[id] # "absent"
  /\ \A a \in Actions : performed[a] > 0 => performed'[a] > 0

LEMMA CreateMonotone ==
  ASSUME Typed, NEW id \in Ids, Create(id), performed' = performed
  PROVE  Monotone
  BY DEF Create, Typed, Monotone, Answered

LEMMA ExpireMonotone ==
  ASSUME Typed, ExpireConfirmations, performed' = performed
  PROVE  Monotone
  BY DEF ExpireConfirmations, Typed, Monotone, Answered

LEMMA HandleMonotone ==
  ASSUME PromiseInv, NEW w \in Workers, Handle(w) PROVE Monotone
<1>0. Typed
  BY DEF PromiseInv
<1>1. CASE ResolveAccepted(w) \/ ResolveLate(w)
  <2>1. Id(w) \in Ids /\ status[Id(w)] = "pending" /\ performed' = performed
    BY <1>0, <1>1, IdOK DEF ResolveAccepted, ResolveLate, Open, Busy, Stages, ghostVars
  <2>2. \E to \in {"approved", "rejected", "expired"} :
          status' = [status EXCEPT ![Id(w)] = to]
    BY <1>1 DEF ResolveAccepted, ResolveLate
  <2> QED BY <1>0, <2>1, <2>2 DEF Typed, Monotone, Answered
<1>2. CASE GuardPerforms(w)
  <2>1. status' = status
    BY <1>2 DEF GuardPerforms, rowVars
  <2>2. \E a \in Actions : performed[a] = 0 /\ performed' = [performed EXCEPT ![a] = 1]
    BY <1>2, PerformsStep
  <2> QED BY <1>0, <2>1, <2>2 DEF Typed, Monotone
<1>3. CASE Followup(w)
  <2>1. Id(w) \in Ids /\ ActionOf(Id(w)) \in Actions
    BY <1>0, <1>3, IdOK DEF Followup, Busy, Stages
  <2>2. <<ActionOf(Id(w)), TRUE>> \in Ids
    BY <2>1 DEF Ids
  <2> QED BY <1>0, <1>3, <2>2, CreateMonotone DEF Followup, ghostVars
<1>4. CASE ~ResolveAccepted(w) /\ ~ResolveLate(w) /\ ~GuardPerforms(w) /\ ~Followup(w)
  <2>1. UNCHANGED <<status, performed>>
    BY <1>4
    DEF Handle, Lookup, ResolveRefused, Check, Record, Runs, GuardWithholds, Report,
        ShowFollowup, Notify, Clear, Close, rowVars, ghostVars
  <2> QED BY <2>1 DEF Monotone
<1> QED BY <1>1, <1>2, <1>3, <1>4

LEMMA NextMonotone ==
  ASSUME PromiseInv, [Next]_confirmationVars PROVE Monotone
<1>0. Typed
  BY DEF PromiseInv
<1>1. ASSUME NEW w \in Workers, Handle(w) PROVE Monotone
  BY <1>1, HandleMonotone
<1>2. CASE (\E a \in Actions : Ask(a)) \/ \E h \in Askers : Asks(h)
  <2>1. performed' = performed
    BY <1>2, AskerLeaves DEF Ask, ghostVars
  <2>2. status' = status \/ \E id \in Ids : Create(id)
    BY <1>2, AskerLeaves DEF Ask, Ids
  <2>3. CASE status' = status
    BY <2>1, <2>3 DEF Monotone
  <2> QED BY <1>0, <2>1, <2>2, <2>3, CreateMonotone
<1>3. CASE MaintainState \/ \E w \in Workers : Restart(w)
  BY <1>0, <1>3, ExpireMonotone DEF MaintainState, Restart, ghostVars
<1>4. CASE \/ \E id \in Ids : Show(id) \/ ComeDue(id)
           \/ \E m \in Messages, id \in Ids, yes \in BOOLEAN : Reply(m, id, yes)
           \/ \E w \in Workers :
                \/ \E m \in Messages : Receive(w, m)
                \/ Disabled(w) \/ ShowFails(w) \/ Crash(w)
           \/ ClaimsAge
           \/ UNCHANGED confirmationVars
  <2>1. UNCHANGED <<status, performed>>
    BY <1>4
    DEF Show, ComeDue, Reply, Receive, Disabled, ShowFails, Crash,
        ClaimsAge, confirmationVars, rowVars, ghostVars
  <2> QED BY <2>1 DEF Monotone
<1> QED BY <1>1, <1>2, <1>3, <1>4 DEF Next

-----------------------------------------------------------------------------
(* A handler that stays where it is keeps its word.                         *)

LEMMA OthersKeepWord ==
  ASSUME PromiseInv, WordInv, Monotone, NEW v \in Workers,
         stage'[v] = stage[v], at'[v] = at[v], stage[v] \in Busy => Id(v)' = Id(v)
  PROVE  HandlerOK(v)'
<1>1. HandlerOK(v)
  BY DEF WordInv
<1>2. CASE stage[v] \in Busy
  <2>1. Id(v) \in Ids /\ ActionOf(Id(v)) \in Actions /\ status[Id(v)] # "absent"
    BY <1>2, IdOK DEF PromiseInv, Typed, WordInv, ShownExists, Id
  <2> QED BY <1>1, <1>2, <2>1 DEF Monotone, HandlerOK, ActionOf
<1>3. CASE stage[v] \notin Busy
  BY <1>1, <1>3 DEF HandlerOK, AfterResolve, Busy, Stages
<1> QED BY <1>2, <1>3

(* The steps of a handler, for itself.                                      *)
LEMMA HandlerKeepsWord ==
  ASSUME PromiseInv, WordInv, NEW w \in Workers, Handle(w)
  PROVE  /\ HandlerOK(w)'
         /\ \E s, l : Moved(w, s, l)
         /\ reply' = reply
<1> USE DEF Busy, Stages
<1>0. Typed /\ HandlerOK(w) /\ at[w] \in Locals
  BY DEF PromiseInv, Typed, WordInv
<1>1. CASE Lookup(w)
  <2> DEFINE l == [Fresh EXCEPT !.action = Id(w) \in payload]
  <2>1. l.action = (Id(w) \in payload) /\ l.result = "none" /\ l \in Locals
    <3>1. \A b \in BOOLEAN : /\ [Fresh EXCEPT !.action = b] \in Locals
                             /\ [Fresh EXCEPT !.action = b].action = b
                             /\ [Fresh EXCEPT !.action = b].result = "none"
      BY FreshIsLocal DEF Fresh, Locals
    <3>2. (Id(w) \in payload) \in BOOLEAN
      OBVIOUS
    <3> QED BY <3>1, <3>2, Zenon
  <2>2. With(w, l, "resolve") /\ stage[w] = "claimed" /\ UNCHANGED <<reply, status>>
    BY <1>1 DEF Lookup, rowVars, askVars
  <2> HIDE DEF l
  <2>3. Moved(w, "resolve", l) /\ Id(w)' = Id(w)
    BY <1>0, <2>1, <2>2, WithMoves
  <2>4. Id(w) \in Ids
    BY <1>0, <2>2, IdOK
  <2>5. HandlerOK(w)'
    BY <2>1, <2>2, <2>3, <2>4 DEF Moved, HandlerOK, AfterResolve, WordInv, PendingIsKept
  <2> QED BY <2>2, <2>3, <2>5
<1>2. CASE ResolveAccepted(w)
  <2>1. /\ stage[w] = "resolve" /\ status[Id(w)] = "pending" /\ reply' = reply
        /\ status' = [status EXCEPT ![Id(w)] = IF Approves(w) THEN "approved"
                                              ELSE "rejected"]
    BY <1>2 DEF ResolveAccepted, Open, askVars
  <2>2. at[w].action
    BY <1>0, <2>1 DEF HandlerOK
  <2>3. PICK s \in {"notify", "check"} : With(w, at[w], s)
    BY <1>2, <2>2 DEF ResolveAccepted
  <2>4. Moved(w, s, at[w]) /\ Id(w)' = Id(w)
    BY <1>0, <2>1, <2>3, WithMoves
  <2>5. status'[Id(w)] \in Answered
    BY <1>0, <2>1, IdOK DEF Typed, Answered
  <2>6. performed' = performed
    BY <1>2 DEF ResolveAccepted, ghostVars
  <2>7. HandlerOK(w)'
    BY <1>0, <2>1, <2>4, <2>5, <2>6 DEF Moved, HandlerOK, AfterResolve, ActionOf
  <2> QED BY <2>1, <2>4, <2>7
<1>3. CASE ResolveLate(w) \/ ResolveRefused(w)
  <2>1. /\ With(w, at[w], "closing") /\ stage[w] = "resolve"
        /\ UNCHANGED <<reply, performed>>
    BY <1>3 DEF ResolveLate, ResolveRefused, askVars, ghostVars
  <2>2. Moved(w, "closing", at[w]) /\ Id(w)' = Id(w)
    BY <1>0, <2>1, WithMoves
  <2>3. HandlerOK(w)'
    BY <1>0, <2>1, <2>2 DEF Moved, HandlerOK, AfterResolve, ActionOf
  <2> QED BY <2>1, <2>2, <2>3
<1>4. CASE Check(w) \/ Record(w) \/ Followup(w) \/ ShowFollowup(w) \/ Notify(w) \/ Report(w)
  <2>1. \E s \in {"notify", "record", "guard", "followup", "show", "clear"} :
          With(w, at[w], s)
    BY <1>4 DEF Check, Record, Followup, ShowFollowup, Notify, Report
  <2>2. PICK s \in {"notify", "record", "guard", "followup", "show", "clear"} :
          With(w, at[w], s)
    BY <2>1
  <2>3. stage[w] \in AfterResolve /\ UNCHANGED <<reply, performed>>
    BY <1>4
    DEF Check, Record, Runs, Followup, ShowFollowup, Notify, Report, AfterResolve, askVars,
        ghostVars
  <2>4. Moved(w, s, at[w]) /\ Id(w)' = Id(w) /\ Id(w) \in Ids
    BY <1>0, <2>2, <2>3, WithMoves, IdOK DEF AfterResolve
  <2>5. status'[Id(w)] = status[Id(w)]
    BY <1>0, <2>3, <2>4, HandleMonotone DEF Monotone, HandlerOK
  <2>6. HandlerOK(w)'
    BY <1>0, <2>3, <2>4, <2>5 DEF Moved, HandlerOK, AfterResolve, ActionOf
  <2> QED BY <2>3, <2>4, <2>6
<1>5. CASE GuardWithholds(w)
  <2>1. PICK result \in {"frozen", "failed", "confirmation-required"} :
          With(w, [at[w] EXCEPT !.result = result], "report")
    BY <1>5 DEF GuardWithholds
  <2> DEFINE l == [at[w] EXCEPT !.result = result]
  <2>2. l \in Locals /\ l.result = result
    BY <1>0 DEF Locals, Results
  <2>3. With(w, l, "report") /\ stage[w] = "guard" /\ UNCHANGED <<reply, status>>
    BY <1>5, <2>1 DEF GuardWithholds, rowVars, askVars
  <2> HIDE DEF l
  <2>4. Moved(w, "report", l) /\ Id(w)' = Id(w)
    BY <1>0, <2>2, <2>3, WithMoves
  <2>5. HandlerOK(w)'
    BY <1>0, <2>2, <2>3, <2>4 DEF Moved, HandlerOK, AfterResolve, Reported
  <2> QED BY <2>3, <2>4, <2>5
<1>6. CASE GuardPerforms(w)
  <2>1. PICK result \in {"complete", "failed"} :
          With(w, [at[w] EXCEPT !.result = result], "report")
    BY <1>6 DEF GuardPerforms
  <2> DEFINE l == [at[w] EXCEPT !.result = result]
  <2>2. l \in Locals /\ l.result = result
    BY <1>0 DEF Locals, Results
  <2>3. With(w, l, "report") /\ stage[w] = "guard" /\ UNCHANGED <<reply, status>>
    BY <1>6, <2>1 DEF GuardPerforms, rowVars, askVars
  <2> HIDE DEF l
  <2>4. Moved(w, "report", l) /\ Id(w)' = Id(w) /\ ActionOf(Id(w)) \in Actions
    BY <1>0, <2>2, <2>3, WithMoves, IdOK
  <2>5. performed'[ActionOf(Id(w))] = Bump(performed[ActionOf(Id(w))])
    BY <1>0, <1>6, <2>4 DEF GuardPerforms, Typed
  <2>6. performed'[ActionOf(Id(w))] > 0
    BY <1>0, <2>4, <2>5 DEF Bump, MaxCount, Typed
  <2>7. HandlerOK(w)'
    BY <1>0, <2>2, <2>3, <2>4, <2>6 DEF Moved, HandlerOK, AfterResolve, Reported, ActionOf
  <2> QED BY <2>3, <2>4, <2>7
<1>7. CASE Clear(w)
  <2>1. With(w, at[w], "closing") /\ stage[w] = "clear" /\ UNCHANGED <<reply, performed>>
    BY <1>7 DEF Clear, askVars, ghostVars
  <2>2. Moved(w, "closing", at[w]) /\ Id(w)' = Id(w)
    BY <1>0, <2>1, WithMoves
  <2>3. HandlerOK(w)'
    BY <1>0, <2>1, <2>2 DEF Moved, HandlerOK, AfterResolve, ActionOf
  <2> QED BY <2>1, <2>2, <2>3
<1>8. CASE Close(w)
  <2>1. Moved(w, "idle", Fresh) /\ reply' = reply
    BY <1>0, <1>8, LeaveMoves DEF Close, askVars
  <2>2. HandlerOK(w)'
    BY <2>1 DEF Moved, HandlerOK, AfterResolve, Fresh
  <2> QED BY <2>1, <2>2
<1> QED BY <1>1, <1>2, <1>3, <1>4, <1>5, <1>6, <1>7, <1>8 DEF Handle

-----------------------------------------------------------------------------
(* The rows, what was shown, and what was announced.                        *)

LEMMA CreateKeeps ==
  ASSUME Typed, PendingIsKept, NEW id \in Ids, Create(id) PROVE PendingIsKept'
  BY DEF Create, Typed, PendingIsKept

LEMMA ExpireKeeps ==
  ASSUME Typed, PendingIsKept, ExpireConfirmations PROVE PendingIsKept'
  BY DEF ExpireConfirmations, Kept, Typed, PendingIsKept

LEMMA HandleKeepsPending ==
  ASSUME PromiseInv, WordInv, NEW w \in Workers, Handle(w) PROVE PendingIsKept'
<1>0. Typed /\ PendingIsKept /\ HandlerOK(w)
  BY DEF PromiseInv, WordInv
<1>1. CASE ResolveAccepted(w) \/ ResolveLate(w)
  <2>1. Id(w) \in Ids
    BY <1>0, <1>1, IdOK DEF ResolveAccepted, ResolveLate, Busy, Stages
  <2>2. \E to \in {"approved", "rejected", "expired"} :
          status' = [status EXCEPT ![Id(w)] = to]
    BY <1>1 DEF ResolveAccepted, ResolveLate
  <2>3. payload' = payload \/ payload' = payload \ {Id(w)}
    BY <1>1 DEF ResolveAccepted, ResolveLate
  <2> QED BY <1>0, <2>1, <2>2, <2>3 DEF Typed, PendingIsKept
<1>2. CASE Followup(w)
  <2>1. <<ActionOf(Id(w)), TRUE>> \in Ids
    BY <1>0, <1>2, IdOK DEF Followup, Busy, Stages, Ids
  <2> QED BY <1>0, <1>2, <2>1, CreateKeeps DEF Followup
<1>3. CASE Clear(w)
  <2>1. status[Id(w)] \in Answered /\ status' = status /\ payload' = payload \ {Id(w)}
    BY <1>0, <1>3 DEF Clear, HandlerOK, AfterResolve
  <2> QED BY <1>0, <2>1 DEF PendingIsKept, Answered
<1>4. CASE ~ResolveAccepted(w) /\ ~ResolveLate(w) /\ ~Followup(w) /\ ~Clear(w)
  <2>1. UNCHANGED <<status, payload>>
    BY <1>4
    DEF Handle, Lookup, ResolveRefused, Check, Record, GuardWithholds, GuardPerforms,
        Report, ShowFollowup, Notify, Close, rowVars
  <2> QED BY <1>0, <2>1 DEF PendingIsKept
<1> QED BY <1>1, <1>2, <1>3, <1>4

LEMMA PendingStaysKept ==
  ASSUME PromiseInv, WordInv, [Next]_confirmationVars PROVE PendingIsKept'
<1>0. Typed /\ PendingIsKept
  BY DEF PromiseInv, WordInv
<1>1. ASSUME NEW w \in Workers, Handle(w) PROVE PendingIsKept'
  BY <1>1, HandleKeepsPending
<1>2. CASE (\E a \in Actions : Ask(a)) \/ \E h \in Askers : Asks(h)
  <2>1. UNCHANGED <<status, payload>> \/ \E id \in Ids : Create(id)
    BY <1>2, AskerLeaves DEF Ask, Ids
  <2>2. CASE UNCHANGED <<status, payload>>
    BY <1>0, <2>2 DEF PendingIsKept
  <2> QED BY <1>0, <2>1, <2>2, CreateKeeps
<1>3. CASE MaintainState \/ \E w \in Workers : Restart(w)
  BY <1>0, <1>3, ExpireKeeps DEF MaintainState, Restart
<1>4. CASE \/ \E id \in Ids : Show(id) \/ ComeDue(id)
           \/ \E m \in Messages, id \in Ids, yes \in BOOLEAN : Reply(m, id, yes)
           \/ \E w \in Workers :
                \/ \E m \in Messages : Receive(w, m)
                \/ Disabled(w) \/ ShowFails(w) \/ Crash(w)
           \/ ClaimsAge
           \/ UNCHANGED confirmationVars
  <2>1. UNCHANGED <<status, payload>>
    BY <1>4
    DEF Show, ComeDue, Reply, Receive, Disabled, ShowFails, Crash,
        ClaimsAge, confirmationVars, rowVars
  <2> QED BY <1>0, <2>1 DEF PendingIsKept
<1> QED BY <1>1, <1>2, <1>3, <1>4 DEF Next

(* A reply is to a confirmation that was shown, and only a row that exists  *)
(* is shown.                                                                *)
LEMMA ShownStays ==
  ASSUME PromiseInv, WordInv, RestTyped, [Next]_confirmationVars, Monotone
  PROVE  ShownExists'
<1>0. Typed /\ ShownExists /\ shown \subseteq Ids
  BY DEF PromiseInv, WordInv, RestTyped
<1>r. ASSUME reply' = reply
      PROVE  \A m \in Messages : reply'[m] # None => status'[reply'[m][1]] # "absent"
  BY <1>0, <1>r DEF Typed, ShownExists, Monotone
<1>s. ASSUME shown' = shown PROVE \A id \in shown' : status'[id] # "absent"
  BY <1>0, <1>s DEF ShownExists, Monotone
<1>1. ASSUME NEW id \in Ids, Show(id) PROVE ShownExists'
  <2>1. reply' = reply /\ shown' = shown \cup {id} /\ status[id] # "absent"
    BY <1>1 DEF Show
  <2> QED BY <1>0, <1>r, <2>1 DEF ShownExists, Monotone
<1>2. ASSUME NEW m \in Messages, NEW id \in Ids, NEW yes \in BOOLEAN, Reply(m, id, yes)
      PROVE  ShownExists'
  <2>1. /\ shown' = shown /\ id \in shown /\ status' = status
        /\ reply' = [reply EXCEPT ![m] = <<id, yes>>]
    BY <1>2 DEF Reply, rowVars
  <2>2. \A n \in Messages : reply'[n] # None => status'[reply'[n][1]] # "absent"
    BY <1>0, <2>1 DEF Typed, ShownExists
  <2> QED BY <1>s, <2>1, <2>2 DEF ShownExists
<1>3. ASSUME NEW w \in Workers, ShowFollowup(w) PROVE ShownExists'
  <2> DEFINE second == <<ActionOf(Id(w)), TRUE>>
  <2>1. /\ reply' = reply /\ stage[w] = "show"
        /\ shown' = shown \cup {second}
    BY <1>3 DEF ShowFollowup
  <2>2. second \in Ids
    BY <1>0, <2>1, IdOK DEF Busy, Stages, Ids
  <2>3. status[second] # "absent"
    BY <2>1 DEF WordInv, SecondExists
  <2> HIDE DEF second
  <2> QED BY <1>0, <1>r, <2>1, <2>2, <2>3 DEF ShownExists, Monotone
<1>4. ASSUME UNCHANGED <<reply, shown>> PROVE ShownExists'
  BY <1>r, <1>s, <1>4 DEF ShownExists
<1>5. ASSUME NEW w \in Workers, Handle(w), ~ShowFollowup(w) PROVE UNCHANGED <<reply, shown>>
  BY <1>5
  DEF Handle, Lookup, ResolveAccepted, ResolveLate, ResolveRefused, Check, Record,
      GuardWithholds, GuardPerforms, Report, Followup, Notify, Clear, Close, askVars
<1>6. ASSUME NEW w \in Workers,
             \/ \E m \in Messages : Receive(w, m)
             \/ Disabled(w) \/ ShowFails(w) \/ Crash(w) \/ Restart(w)
      PROVE  UNCHANGED <<reply, shown>>
  BY <1>6 DEF Receive, Disabled, ShowFails, Crash, Restart, askVars
<1>7. ASSUME (\E a \in Actions : Ask(a)) \/ \E h \in Askers : Asks(h)
      PROVE  UNCHANGED <<reply, shown>>
  BY <1>7, AskerLeaves DEF Ask, askVars
<1>8. ASSUME \/ \E id \in Ids : ComeDue(id)
             \/ MaintainState \/ ClaimsAge \/ UNCHANGED confirmationVars
      PROVE  UNCHANGED <<reply, shown>>
  BY <1>8 DEF ComeDue, MaintainState, ClaimsAge, confirmationVars, askVars
<1> QED BY <1>1, <1>2, <1>3, <1>4, <1>5, <1>6, <1>7, <1>8 DEF Next

-----------------------------------------------------------------------------
(* The handlers, whoever moves.                                             *)

LEMMA HandlersStay ==
  ASSUME PromiseInv, WordInv, [Next]_confirmationVars, Monotone
  PROVE  \A v \in Workers : HandlerOK(v)'
<1>0. Typed
  BY DEF PromiseInv
<1>1. ASSUME NEW w \in Workers, NEW s, NEW l, Moved(w, s, l), HandlerOK(w)'
      PROVE  \A v \in Workers : HandlerOK(v)'
  BY <1>1, OthersKeepWord DEF Moved
<1>2. ASSUME NEW w \in Workers, Handle(w) PROVE \A v \in Workers : HandlerOK(v)'
  BY <1>1, <1>2, HandlerKeepsWord
<1>3. ASSUME NEW w \in Workers,
             \/ \E m \in Messages : Receive(w, m)
             \/ Disabled(w) \/ ShowFails(w) \/ Crash(w) \/ Restart(w)
      PROVE  \A v \in Workers : HandlerOK(v)'
  <2>1. PICK s \in {"claimed", "idle", "down"} : Moved(w, s, Fresh)
    BY <1>3, EndsKeepWord
  <2>2. HandlerOK(w)'
    BY <2>1 DEF Moved, HandlerOK, AfterResolve, Fresh
  <2> QED BY <1>1, <2>1, <2>2
<1>4. CASE \/ \E a \in Actions : Ask(a)
           \/ \E h \in Askers : Asks(h)
           \/ \E id \in Ids : Show(id) \/ ComeDue(id)
           \/ \E m \in Messages, id \in Ids, yes \in BOOLEAN : Reply(m, id, yes)
           \/ MaintainState \/ ClaimsAge \/ UNCHANGED confirmationVars
  <2>1. SUFFICES ASSUME NEW v \in Workers PROVE HandlerOK(v)'
    OBVIOUS
  <2>2. /\ stage'[v] = stage[v] /\ at'[v] = at[v]
        /\ stage[v] \in Busy => Id(v)' = Id(v)
    BY <1>0, <1>4, WorldKeepsPlace
  <2> QED BY <2>2, OthersKeepWord
<1> QED BY <1>2, <1>3, <1>4 DEF Next

(* The second confirmation is written before it is sent.                    *)
LEMMA SecondStays ==
  ASSUME PromiseInv, WordInv, [Next]_confirmationVars, Monotone
  PROVE  SecondExists'
<1>0. Typed /\ SecondExists
  BY DEF PromiseInv, WordInv
<1>k. ASSUME NEW v \in Workers, stage'[v] = stage[v], stage[v] \in Busy => Id(v)' = Id(v),
             stage'[v] = "show"
      PROVE  status'[<<ActionOf(Id(v)'), TRUE>>] # "absent"
  <2>1. stage[v] \in Busy /\ stage[v] = "show" /\ Id(v)' = Id(v)
    BY <1>k DEF Busy, Stages
  <2>2. <<ActionOf(Id(v)), TRUE>> \in Ids
    BY <1>0, <2>1, IdOK DEF Ids
  <2> QED BY <1>0, <2>1, <2>2 DEF SecondExists, Monotone
<1>1. ASSUME NEW w \in Workers, NEW s, NEW l, Moved(w, s, l), s # "show"
      PROVE  SecondExists'
  BY <1>1, <1>k DEF Moved, SecondExists, ActionOf
<1>2. ASSUME NEW w \in Workers, Followup(w) PROVE SecondExists'
  <2>1. /\ stage[w] \in Busy /\ With(w, at[w], "show") /\ reply' = reply
        /\ Create(<<ActionOf(Id(w)), TRUE>>)
    BY <1>2 DEF Followup, askVars, Busy, Stages
  <2>2. Moved(w, "show", at[w]) /\ Id(w)' = Id(w)
    BY <1>0, <2>1, WithMoves DEF Typed, Busy, Stages
  <2>3. <<ActionOf(Id(w)), TRUE>> \in Ids
    BY <1>0, <2>1, IdOK DEF Ids
  <2>4. status'[<<ActionOf(Id(w)), TRUE>>] # "absent"
    BY <1>0, <2>1, <2>3 DEF Create, Typed
  <2> QED BY <1>k, <2>2, <2>4 DEF Moved, SecondExists, ActionOf
<1>3. ASSUME NEW w \in Workers, Handle(w), ~Followup(w) PROVE SecondExists'
  <2>1. PICK s, l : Moved(w, s, l)
    BY <1>3, HandlerKeepsWord
  <2>2. stage'[w] # "show"
    <3>1. \E t \in Stages \ {"show"} : stage' = [stage EXCEPT ![w] = t]
      BY <1>3
      DEF Handle, Lookup, ResolveAccepted, ResolveLate, ResolveRefused, Check, Record,
          GuardWithholds, GuardPerforms, Report, ShowFollowup, Notify, Clear, Close, With,
          Go, Stages
    <3> QED BY <1>0, <3>1 DEF Typed
  <2> QED BY <1>1, <2>1, <2>2 DEF Moved
<1>4. ASSUME NEW w \in Workers,
             \/ \E m \in Messages : Receive(w, m)
             \/ Disabled(w) \/ ShowFails(w) \/ Crash(w) \/ Restart(w)
      PROVE  SecondExists'
  BY <1>1, <1>4, EndsKeepWord
<1>5. CASE \/ \E a \in Actions : Ask(a)
           \/ \E h \in Askers : Asks(h)
           \/ \E id \in Ids : Show(id) \/ ComeDue(id)
           \/ \E m \in Messages, id \in Ids, yes \in BOOLEAN : Reply(m, id, yes)
           \/ MaintainState \/ ClaimsAge \/ UNCHANGED confirmationVars
  <2>1. \A v \in Workers : /\ stage'[v] = stage[v]
                           /\ stage[v] \in Busy => Id(v)' = Id(v)
    BY <1>0, <1>5, WorldKeepsPlace
  <2> QED BY <1>k, <2>1 DEF SecondExists, ActionOf
<1> QED BY <1>2, <1>3, <1>4, <1>5 DEF Next

(* Only a result that is complete is announced.                             *)
LEMMA AnnouncedStays ==
  ASSUME PromiseInv, WordInv, RestTyped, [Next]_confirmationVars, Monotone
  PROVE  AnnouncedIsPerformed'
<1>0. Typed /\ AnnouncedIsPerformed /\ announced \subseteq Actions
  BY DEF PromiseInv, WordInv, RestTyped
<1>1. ASSUME NEW w \in Workers, Notify(w) PROVE AnnouncedIsPerformed'
  <2>1. stage[w] \in Busy /\ HandlerOK(w) /\ performed' = performed
    BY <1>1 DEF Notify, Busy, Stages, WordInv
  <2>2. TellsExecuted(w) => performed[ActionOf(Id(w))] > 0
    BY <2>1 DEF HandlerOK, TellsExecuted
  <2> QED BY <1>0, <1>1, <2>1, <2>2 DEF Notify, AnnouncedIsPerformed
<1>2. ASSUME announced' = announced PROVE AnnouncedIsPerformed'
  BY <1>0, <1>2 DEF AnnouncedIsPerformed, Monotone
<1>3. ASSUME NEW w \in Workers, Handle(w), ~Notify(w) PROVE announced' = announced
  BY <1>3
  DEF Runs, Handle, Lookup, ResolveAccepted, ResolveLate, ResolveRefused, Check, Record,
      GuardWithholds, GuardPerforms, Report, Followup, ShowFollowup, Clear, Close, ghostVars
<1>4. ASSUME NEW w \in Workers,
             \/ \E m \in Messages : Receive(w, m)
             \/ Disabled(w) \/ ShowFails(w) \/ Crash(w) \/ Restart(w)
      PROVE  announced' = announced
  BY <1>4 DEF Receive, Disabled, ShowFails, Crash, Restart, ghostVars
<1>5. CASE \/ \E a \in Actions : Ask(a)
           \/ \E h \in Askers : Asks(h)
           \/ \E id \in Ids : Show(id) \/ ComeDue(id)
           \/ \E m \in Messages, id \in Ids, yes \in BOOLEAN : Reply(m, id, yes)
           \/ MaintainState \/ ClaimsAge \/ UNCHANGED confirmationVars
  <2>1. announced' = announced
    BY <1>5, AskerLeaves
    DEF Ask, Show, ComeDue, Reply, MaintainState,
        ClaimsAge, confirmationVars, ghostVars
  <2> QED BY <1>2, <2>1
<1> QED BY <1>1, <1>2, <1>3, <1>4, <1>5 DEF Next

-----------------------------------------------------------------------------
(* Types.                                                                   *)

Started(w) == \E m \in Messages : Receive(w, m)
Ended(w) == Disabled(w) \/ ShowFails(w) \/ Crash(w) \/ Restart(w)
World ==
  \/ \E a \in Actions : Ask(a)
  \/ \E h \in Askers : Asks(h)
  \/ \E id \in Ids : Show(id) \/ ComeDue(id)
  \/ \E m \in Messages, id \in Ids, yes \in BOOLEAN : Reply(m, id, yes)
  \/ MaintainState
  \/ ClaimsAge

LEMMA NextSplits ==
  [Next]_confirmationVars =>
    \/ \E w \in Workers : Handle(w) \/ Started(w) \/ Ended(w)
    \/ World
    \/ UNCHANGED confirmationVars
  BY DEF Next, Started, Ended, World

ClaimRows == [Events -> {"free", "held", "lapsed", "complete"}]

LEMMA ClaimTyped ==
  ASSUME RestTyped, [Next]_confirmationVars PROVE claim' \in ClaimRows
<1>0. claim \in ClaimRows
  BY DEF RestTyped, ClaimRows
<1>e. ASSUME NEW e, NEW r \in {"free", "held", "complete"}
      PROVE  [claim EXCEPT ![e] = r] \in ClaimRows /\ Closed(e, r) \in ClaimRows
  BY <1>0 DEF ClaimRows, Closed
<1>1. ASSUME NEW w \in Workers, NEW m \in Messages, Take(w, m) PROVE claim' \in ClaimRows
  BY <1>1, <1>e DEF Take
<1>2. ASSUME NEW w \in Workers, Complete(w) \/ Release(w) PROVE claim' \in ClaimRows
  <2>1. \E r \in {"free", "complete"} : claim' = Closed(handles[w], r)
    BY <1>2 DEF Complete, Release
  <2> QED BY <1>e, <2>1
<1>3. CASE ClaimsAge
  <2>1. CASE \E S \in SUBSET Messages \ {{}} : Lapse(S)
    BY <1>0, <2>1 DEF ClaimRows, Lapse
  <2>2. CASE Sweep({})
    BY <1>0, <2>2 DEF ClaimRows, Sweep
  <2> QED BY <1>3, <2>1, <2>2 DEF ClaimsAge
<1>4. ASSUME NEW w \in Workers, Handle(w) PROVE claim' \in ClaimRows
  <2>1. claim' = claim \/ Complete(w)
    BY <1>4
    DEF Handle, Lookup, ResolveAccepted, ResolveLate, ResolveRefused, Check, Record,
        GuardWithholds, GuardPerforms, Report, Followup, ShowFollowup, Notify, Clear,
        Close, With, claimVars
  <2> QED BY <1>0, <1>2, <2>1
<1>5. ASSUME NEW w \in Workers, Started(w) PROVE claim' \in ClaimRows
  BY <1>1, <1>5 DEF Started, Receive
<1>6. ASSUME NEW w \in Workers, Ended(w) PROVE claim' \in ClaimRows
  <2>1. claim' = claim \/ Complete(w) \/ Release(w)
    BY <1>6 DEF Ended, Disabled, ShowFails, Crash, Restart, Abandon, claimVars
  <2> QED BY <1>0, <1>2, <2>1
<1>7. CASE World /\ ~ClaimsAge
  BY <1>0, <1>7, AskerLeaves
  DEF World, Ask, Show, ComeDue, Reply, MaintainState,
      claimVars
<1>8. CASE UNCHANGED confirmationVars
  BY <1>0, <1>8 DEF confirmationVars, claimVars
<1> QED BY <1>3, <1>4, <1>5, <1>6, <1>7, <1>8, NextSplits

(* A handler records only what it found. *)
LEMMA ExecutionTyped ==
  ASSUME PromiseInv, WordInv, RestTyped, [Next]_confirmationVars
  PROVE  execution' \in [Actions -> {"absent", "running", "failed", "frozen",
                                     "confirmation-required", "complete"}]
<1>0. Typed
  BY DEF PromiseInv
<1>1. CASE execution' = execution
  BY <1>1 DEF RestTyped
<1>2. ASSUME NEW w \in Workers, Handle(w)
      PROVE  \/ execution' = execution
             \/ \E r \in Reported \cup {"running"} :
                  execution' = [execution EXCEPT ![ActionOf(Id(w))] = r]
  <2>1. CASE Report(w)
    BY <2>1 DEF Report, WordInv, HandlerOK
  <2>2. CASE Record(w)
    BY <2>2 DEF Record, Runs
  <2>3. CASE ~Report(w) /\ ~Record(w)
    BY <1>2, <2>3
    DEF Handle, Lookup, ResolveAccepted, ResolveLate, ResolveRefused, Check,
        GuardWithholds, GuardPerforms, Followup, ShowFollowup, Notify, Clear, Close
  <2> QED BY <2>1, <2>2, <2>3
<1>3. CASE \E w \in Workers : Handle(w)
  <2>1. PICK w \in Workers : Handle(w)
    BY <1>3
  <2>2. CASE execution' = execution
    BY <2>2, <1>1
  <2>3. CASE \E r \in Reported \cup {"running"} :
               execution' = [execution EXCEPT ![ActionOf(Id(w))] = r]
    BY <2>3 DEF RestTyped, Reported
  <2> QED BY <1>2, <2>1, <2>2, <2>3
<1>4. CASE \E w \in Workers : Started(w) \/ Ended(w)
  BY <1>1, <1>4 DEF Started, Ended, Receive, Disabled, ShowFails, Crash, Restart
<1>5. CASE World
  <2>1. CASE \E h \in Askers : Asks(h)
    BY <2>1
    DEF Asks, AskChecks, AskRecords, AskWithholds, AskPerforms, AskDies, Runs, RestTyped
  <2>2. CASE ~\E h \in Askers : Asks(h)
    BY <1>1, <1>5, <2>2
    DEF World, Ask, Show, ComeDue, Reply, MaintainState, ClaimsAge
  <2> QED BY <2>1, <2>2
<1>6. CASE UNCHANGED confirmationVars
  BY <1>1, <1>6 DEF confirmationVars
<1> QED BY <1>3, <1>4, <1>5, <1>6, NextSplits

LEMMA RowSetsTyped ==
  ASSUME PromiseInv, RestTyped, [Next]_confirmationVars
  PROVE  /\ payload' \subseteq Ids /\ due' \subseteq Ids /\ shown' \subseteq Ids
         /\ seen' \subseteq Messages /\ announced' \subseteq Actions
         /\ faults' \in 0 .. MaxFaults
<1>0. Typed /\ MaxFaults \in Nat
  BY ConfirmationAssumption DEF PromiseInv
<1>c. ASSUME NEW id \in Ids, Create(id) PROVE payload' \subseteq Ids
  BY <1>c DEF Create, RestTyped
<1>1. ASSUME NEW w \in Workers, Handle(w)
      PROVE  /\ payload' \subseteq Ids /\ due' \subseteq Ids /\ shown' \subseteq Ids
             /\ seen' \subseteq Messages /\ announced' \subseteq Actions
             /\ faults' \in 0 .. MaxFaults
  <2>1. stage[w] \in Busy
    BY <1>1
    DEF Handle, Lookup, ResolveAccepted, ResolveLate, ResolveRefused, Check, Record,
        GuardWithholds, GuardPerforms, Report, Followup, ShowFollowup, Notify, Clear,
        Close, Busy, Stages
  <2>2. /\ ActionOf(Id(w)) \in Actions /\ <<ActionOf(Id(w)), TRUE>> \in Ids
        /\ handles[w] \in Messages
    BY <1>0, <2>1, IdOK DEF Ids, Typed
  <2>3. due' = due /\ faults' = faults
    BY <1>1
    DEF Handle, Lookup, ResolveAccepted, ResolveLate, ResolveRefused, Check, Record,
        GuardWithholds, GuardPerforms, Report, Followup, ShowFollowup, Notify, Clear,
        Close, askVars
  <2>4. shown' = shown \/ shown' = shown \cup {<<ActionOf(Id(w)), TRUE>>}
    BY <1>1
    DEF Handle, Lookup, ResolveAccepted, ResolveLate, ResolveRefused, Check, Record,
        GuardWithholds, GuardPerforms, Report, Followup, ShowFollowup, Notify, Clear,
        Close, askVars
  <2>5. announced' = announced \/ announced' = announced \cup {ActionOf(Id(w))}
    BY <1>1
    DEF Runs, Handle, Lookup, ResolveAccepted, ResolveLate, ResolveRefused, Check, Record,
        GuardWithholds, GuardPerforms, Report, Followup, ShowFollowup, Notify, Clear,
        Close, ghostVars
  <2>6. seen' = seen \/ seen' = seen \cup {handles[w]}
    BY <1>1
    DEF Handle, Lookup, ResolveAccepted, ResolveLate, ResolveRefused, Check, Record,
        GuardWithholds, GuardPerforms, Report, Followup, ShowFollowup, Notify, Clear,
        Close, rowVars
  <2>7. payload' \subseteq payload \cup {<<ActionOf(Id(w)), TRUE>>}
    BY <1>1
    DEF Handle, Lookup, ResolveAccepted, ResolveLate, ResolveRefused, Check, Record,
        GuardWithholds, GuardPerforms, Report, Followup, Create, ShowFollowup, Notify,
        Clear, Close, rowVars
  <2> QED BY <2>2, <2>3, <2>4, <2>5, <2>6, <2>7 DEF RestTyped
<1>2. ASSUME NEW w \in Workers, Started(w) \/ Ended(w)
      PROVE  /\ payload' \subseteq payload /\ UNCHANGED <<due, shown, seen, announced>>
             /\ faults' \in 0 .. MaxFaults
  BY <1>0, <1>2
  DEF Started, Ended, Receive, Disabled, ShowFails, Crash, Restart, ExpireConfirmations,
      Kept, rowVars, askVars, ghostVars, RestTyped
<1>3. ASSUME (\E a \in Actions : Ask(a)) \/ \E h \in Askers : Asks(h)
      PROVE  /\ payload' \subseteq Ids /\ UNCHANGED <<due, shown, seen, announced>>
             /\ faults' \in 0 .. MaxFaults
  <2>1. payload' = payload \/ \E id \in Ids : Create(id)
    BY <1>3, AskerLeaves DEF Ask, Ids
  <2>2. UNCHANGED <<due, shown, seen, announced>>
    BY <1>3, AskerLeaves DEF Ask, askVars, ghostVars
  <2>3. faults' = faults \/ (faults < MaxFaults /\ faults' = faults + 1)
    BY <1>3, AskerLeaves DEF Ask
  <2> QED BY <1>0, <1>c, <2>1, <2>2, <2>3 DEF RestTyped
<1>4. CASE \/ \E id \in Ids : Show(id) \/ ComeDue(id)
           \/ \E m \in Messages, id \in Ids, yes \in BOOLEAN : Reply(m, id, yes)
           \/ MaintainState \/ ClaimsAge \/ UNCHANGED confirmationVars
  BY <1>4
  DEF Show, ComeDue, Reply, MaintainState, ExpireConfirmations, Kept, ClaimsAge,
      confirmationVars, rowVars, askVars, ghostVars, RestTyped
<1> QED BY <1>1, <1>2, <1>3, <1>4, NextSplits DEF World, RestTyped

(* A process is at work exactly while it holds a message. *)
Placed(w) == handles[w] = NoEvent <=> stage[w] \in {"idle", "down"}

LEMMA PlacesStay ==
  ASSUME PromiseInv, RestTyped, [Next]_confirmationVars
  PROVE  \A w \in Workers : Placed(w)'
<1>0. /\ handles \in [Workers -> Messages \cup {NoEvent}]
      /\ stage \in [Workers -> Stages]
      /\ NoEvent \notin Messages
      /\ \A w \in Workers : Placed(w)
  BY ClaimAssumption DEF PromiseInv, Typed, RestTyped, Placed
<1>1. ASSUME NEW w \in Workers, NEW m \in Messages \cup {NoEvent}, NEW s \in Stages,
             handles' = [handles EXCEPT ![w] = m], stage' = [stage EXCEPT ![w] = s],
             m = NoEvent <=> s \in {"idle", "down"}
      PROVE  \A v \in Workers : Placed(v)'
  BY <1>0, <1>1 DEF Placed
<1>2. ASSUME NEW w \in Workers, Handle(w) PROVE \A v \in Workers : Placed(v)'
  <2>1. CASE Close(w)
    BY <1>1, <2>1 DEF Close, Complete, Leave, Go, Stages
  <2>2. CASE ~Close(w)
    <3>1. /\ stage[w] \in Busy /\ handles' = handles
          /\ \E s \in Busy : stage' = [stage EXCEPT ![w] = s]
      BY <1>2, <2>2
      DEF Handle, Lookup, ResolveAccepted, ResolveLate, ResolveRefused, Check, Record,
          GuardWithholds, GuardPerforms, Report, Followup, ShowFollowup, Notify, Clear,
          With, Go, claimVars, Busy, Stages
    <3> QED BY <1>0, <3>1 DEF Placed, Busy
  <2> QED BY <2>1, <2>2
<1>3. ASSUME NEW w \in Workers, Started(w) PROVE \A v \in Workers : Placed(v)'
  <2>1. PICK m \in Messages : Receive(w, m)
    BY <1>3 DEF Started
  <2> QED BY <1>0, <1>1, <2>1 DEF Receive, Take, Go, Stages
<1>4. ASSUME NEW w \in Workers, Disabled(w) \/ ShowFails(w) \/ Crash(w)
      PROVE  \A v \in Workers : Placed(v)'
  BY <1>1, <1>4
  DEF Disabled, ShowFails, Crash, Complete, Release, Abandon, Leave, Go, Stages
<1>5. ASSUME NEW w \in Workers, Restart(w) PROVE \A v \in Workers : Placed(v)'
  BY <1>0, <1>5 DEF Restart, Go, claimVars, Placed
<1>6. CASE World \/ UNCHANGED confirmationVars
  <2>1. UNCHANGED <<handles, stage>>
    BY <1>6, AskerLeaves
    DEF World, Ask, Show, ComeDue, Reply, MaintainState,
        ClaimsAge, Lapse, Sweep, confirmationVars, claimVars
  <2> QED BY <1>0, <2>1 DEF Placed
<1> QED BY <1>2, <1>3, <1>4, <1>5, <1>6, NextSplits DEF Ended

-----------------------------------------------------------------------------

WholeInv == PromiseInv /\ AskTyped /\ WordInv /\ RestTyped

LEMMA WordInit == Init => WholeInv
<1> SUFFICES ASSUME Init PROVE WholeInv
  OBVIOUS
<1>1. PromiseInv /\ AskTyped
  BY InitInv, OnceInit DEF OnceInv
<1>2. WordInv
  BY DEF Init, WordInv, PendingIsKept, ShownExists, SecondExists, AnnouncedIsPerformed,
         HandlerOK, AfterResolve, Busy, Stages, Fresh, Ids
<1>3. RestTyped
  BY ConfirmationAssumption DEF Init, ClaimInit, RestTyped
<1> QED BY <1>1, <1>2, <1>3 DEF WholeInv

LEMMA WordStep == WholeInv /\ [Next]_confirmationVars => WholeInv'
<1> SUFFICES ASSUME WholeInv, [Next]_confirmationVars PROVE WholeInv'
  OBVIOUS
<1>0. PromiseInv /\ AskTyped /\ WordInv /\ RestTyped
  BY DEF WholeInv
<1>1. PromiseInv' /\ AskTyped'
  BY <1>0, InvStep, AskTypedStep
<1>2. Monotone
  BY <1>0, NextMonotone
<1>3. PendingIsKept'
  BY <1>0, PendingStaysKept
<1>4. ShownExists'
  BY <1>0, <1>2, ShownStays
<1>5. SecondExists'
  BY <1>0, <1>2, SecondStays
<1>6. AnnouncedIsPerformed'
  BY <1>0, <1>2, AnnouncedStays
<1>7. \A w \in Workers : HandlerOK(w)'
  BY <1>0, <1>2, HandlersStay
<1>8. WordInv'
  BY <1>3, <1>4, <1>5, <1>6, <1>7 DEF WordInv
<1>9. RestTyped'
  BY <1>0, ClaimTyped, ExecutionTyped, RowSetsTyped, PlacesStay
  DEF RestTyped, ClaimRows, Placed
<1> QED BY <1>1, <1>8, <1>9 DEF WholeInv

(* An approval that is accepted finds its action in the row that was read   *)
(* before it: nothing clears an action between the two.                     *)
THEOREM ApprovalFindsAction == Spec => []ApprovedHasAction
<1>1. WholeInv => ApprovedHasAction
  BY DEF WholeInv, WordInv, HandlerOK, ApprovedHasAction
<1> QED BY <1>1, WordInit, WordStep, PTL DEF Spec

(* The chat is told that an action was executed only if the platform has    *)
(* performed it, whichever handlers crash, overlap or answer twice.         *)
THEOREM NoticesAreTrue == Spec => []AnnouncedIsPerformed
<1>1. WholeInv => AnnouncedIsPerformed
  BY DEF WholeInv, WordInv
<1> QED BY <1>1, WordInit, WordStep, PTL DEF Spec

(* Every variable keeps its type, and a process holds a message with an     *)
(* answer exactly while it handles one.                                     *)
THEOREM ConfirmationsTyped == Spec => []TypeOK
<1>1. WholeInv => TypeOK
  <2> SUFFICES ASSUME WholeInv PROVE TypeOK
    OBVIOUS
  <2>1. Typed /\ RestTyped /\ AskTyped
    BY DEF WholeInv, PromiseInv
  <2>2. ClaimTypeOK
    BY <2>1 DEF Typed, RestTyped, ClaimTypeOK, Events
  <2>3. \A w \in Workers :
          /\ handles[w] = NoEvent <=> stage[w] \in {"idle", "down"}
          /\ handles[w] # NoEvent => handles[w] \in Messages /\ reply[handles[w]] # None
    BY <2>1 DEF Typed, RestTyped, Busy
  <2> QED BY <2>1, <2>2, <2>3 DEF TypeOK, Typed, RestTyped, AskTyped, Statuses
<1> QED BY <1>1, WordInit, WordStep, PTL DEF Spec

=============================================================================
