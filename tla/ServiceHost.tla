---------------------------- MODULE ServiceHost ----------------------------
(***************************************************************************)
(* runServiceRole of service-host.mjs for the daily_memory role, over the  *)
(* runs of DailyMemory.  launchd starts the host every minute, one at a    *)
(* time; the host starts a run when the day's time has come and the marker *)
(* file does not say that the day is done, and writes the marker when run  *)
(* and logger have ended well.  Runs may also be started by hand, the      *)
(* active version may change, and the host may die without its run.        *)
(***************************************************************************)
EXTENDS DailyMemory

CONSTANTS
  LastDate    \* dates are 1 .. LastDate; date n is the target of day n

ASSUME HostAssumption == LastDate \in Nat \ {0} /\ Dates = 1 .. LastDate

VARIABLES
  day,      \* [date |-> the local day, open |-> its scheduled time has come]
  version,  \* installation.active_version (a parity)
  marker,   \* daily-memory-schedule.json
  host      \* what the host process is doing, and what it read when it started

hostVars == <<day, version, marker, host>>
vars == <<dailyVars, hostVars>>

NoHost == [doing |-> "nothing", slot |-> None, date |-> None, version |-> 0]

TypeOK ==
  /\ DailyTypeOK
  /\ day \in [date : Dates, open : BOOLEAN]
  /\ version \in 0 .. 1
  /\ marker \in [date : Dates \cup {None}, version : 0 .. 1]
  /\ host \in [doing : {"nothing", "running", "logging"}, slot : Runs \cup {None},
               date : Dates \cup {None}, version : 0 .. 1]

Init ==
  /\ DailyInit
  /\ day = [date |-> 1, open |-> FALSE]
  /\ version = 0
  /\ marker = [date |-> None, version |-> 0]
  /\ host = NoHost

-----------------------------------------------------------------------------
(* The host.                                                                *)

(* dailyMemoryDue.                                                          *)
Due == day.open /\ marker.date # day.date
EvidenceOnly == day.open /\ marker.date = day.date /\ marker.version # version

(* Processes are interchangeable: a new one takes the first free name.      *)
Slot ==
  LET free == {r \in Runs : In(r, "idle")} IN
  IF free = {} THEN {} ELSE {CHOOSE r \in free : TRUE}

(* A run is started for the date that is due, which the host keeps.         *)
HostRuns ==
  \E r \in Slot :
  /\ host.doing = "nothing"
  /\ Due
  /\ Begin(r, day.date) \/ Refused(r, day.date)
  /\ host' = [doing |-> "running", slot |-> r, date |-> day.date, version |-> version]
  /\ UNCHANGED <<incidents, day, version, marker>>

(* Nothing is due: the host ends at once.                                   *)
HostEndsAtOnce ==
  /\ host.doing = "nothing"
  /\ ~Due /\ ~EvidenceOnly
  /\ UNCHANGED vars

HostLogsEvidence ==
  /\ host.doing = "nothing"
  /\ EvidenceOnly
  /\ host' = [doing |-> "logging", slot |-> None, date |-> day.date, version |-> version]
  /\ UNCHANGED <<dailyVars, day, version, marker>>

(* The pipeline has ended: the marker is written if run and logger ended    *)
(* with code 0.                                                             *)
Marked(ok) == IF ok THEN [date |-> host.date, version |-> host.version] ELSE marker

LogEnds(ok) ==
  IF ok THEN UNCHANGED incidents ELSE Incident

HostEnds(logged) ==
  LET r == host.slot IN
  /\ host.doing = "running"
  /\ In(r, "exited")
  /\ LogEnds(logged)
  /\ marker' = Marked(run[r].ok /\ logged)
  /\ Go(r, Fresh)
  /\ host' = NoHost
  /\ UNCHANGED <<lock, platform, operator, ghosts, day, version>>

EvidenceEnds(logged) ==
  /\ host.doing = "logging"
  /\ LogEnds(logged)
  /\ marker' = IF logged THEN [marker EXCEPT !.version = host.version] ELSE marker
  /\ host' = NoHost
  /\ UNCHANGED <<lock, platform, run, operator, ghosts, day, version>>

(* The host dies between the end of the run and the marker, or before; its  *)
(* run goes on.                                                             *)
HostDies ==
  /\ host.doing # "nothing"
  /\ Incident
  /\ host' = NoHost
  /\ UNCHANGED <<lock, platform, run, operator, ghosts, day, version, marker>>

-----------------------------------------------------------------------------
(* The operator, and the calendar.                                          *)

(* A process that nobody waits for is gone.                                 *)
Reap(r) ==
  /\ In(r, "exited")
  /\ host.slot # r
  /\ Go(r, Fresh)
  /\ UNCHANGED <<lock, platform, operator, ghosts, incidents, hostVars>>

(* For the date that is due, or an earlier one.  One that is refused        *)
(* changes nothing.                                                         *)
RunByHand(d) ==
  /\ d <= day.date
  /\ Incident
  /\ \E r \in Slot : Begin(r, d)
  /\ UNCHANGED hostVars

Switch ==
  /\ Incident
  /\ \/ enabled' = FALSE /\ UNCHANGED frozen
     \/ frozen' = TRUE /\ UNCHANGED enabled
  /\ UNCHANGED <<lock, platform, run, ghosts, hostVars>>

SwitchBack ==
  /\ ~enabled \/ frozen
  /\ enabled' = TRUE /\ frozen' = FALSE
  /\ UNCHANGED <<lock, platform, run, ghosts, incidents, hostVars>>

Upgrade ==
  /\ Incident
  /\ version' = 1 - version
  /\ UNCHANGED <<lock, platform, run, operator, ghosts, day, marker, host>>

TimeComes ==
  /\ ~day.open
  /\ day' = [day EXCEPT !.open = TRUE]
  /\ UNCHANGED <<dailyVars, version, marker, host>>

Midnight ==
  /\ day.date < LastDate
  /\ Incident
  /\ day' = [date |-> day.date + 1, open |-> FALSE]
  /\ UNCHANGED <<lock, platform, run, operator, ghosts, version, marker, host>>

-----------------------------------------------------------------------------

HostStep ==
  \/ HostRuns
  \/ HostLogsEvidence
  \/ \E ok \in BOOLEAN : HostEnds(ok) \/ EvidenceEnds(ok)

Next ==
  \/ HostStep \/ HostEndsAtOnce \/ HostDies
  \/ DailyStep /\ UNCHANGED hostVars
  \/ TimePasses /\ UNCHANGED hostVars
  \/ (\E r \in Runs : Reap(r)) \/ (\E d \in Dates : RunByHand(d))
  \/ Switch \/ SwitchBack \/ Upgrade
  \/ TimeComes \/ Midnight

Spec == Init /\ [][Next]_vars

(* launchd starts the host again and again, a run at work goes on or fails, *)
(* locks expire and orphaned calls end.  The operator need not do anything. *)
Fairness ==
  /\ WF_vars(HostStep)
  /\ WF_vars(TimePasses /\ UNCHANGED hostVars)
  /\ \A r \in Runs : WF_vars((RunGoesOn(r) /\ UNCHANGED hostVars) \/ Reap(r))

FairSpec == Spec /\ Fairness

-----------------------------------------------------------------------------

(* A day that is marked as done has a document that was read back, unless   *)
(* production was disabled when its run began: no failure of the run, of    *)
(* the logger or of the host marks a day that has none.                     *)
MarkedIsVerified == marker.date # None => marker.date \in verified \cup skipped

(* A day that is due does not stay unattempted: whatever died with the lock *)
(* in its hands, a run gets the lock, unless the day passes or is done.     *)
Attempted(d) == \E r \in Runs : run[r].date = d /\ run[r].phase \in Live /\ Holds(r)
DueIsAttempted == Due ~> (~Due \/ Attempted(day.date))

=============================================================================
