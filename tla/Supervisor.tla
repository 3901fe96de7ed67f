---------------------------- MODULE Supervisor ----------------------------
(***************************************************************************)
(* runSupervisor: the realtime service is a supervisor with two children,  *)
(* the intake, whose output is piped to the runtime, and the runtime.  The *)
(* supervisor waits for both to be ready, an exit, a signal or the startup *)
(* timeout, whichever comes first; then for an exit or a signal; then it   *)
(* terminates both, waits until both have closed and exits with the code   *)
(* of what came first.                                                     *)
(***************************************************************************)

VARIABLES
  child,    \* "none" before the supervisor is spawned, "starting", "ready", or
            \* how the child ended: "ok", with a code ("bad"), by a signal ("killed")
  started,  \* both children have been ready
  event     \* what settled the race that ends the run: a child, "signal", "timeout"

supervisorVars == <<child, started, event>>

Children == {"intake", "runtime"}
Ends == {"ok", "bad", "killed"}
NoChild == [c \in Children |-> "none"]

SupervisorTypeOK ==
  /\ child \in [Children -> {"none", "starting", "ready"} \cup Ends]
  /\ started \in BOOLEAN
  /\ event \in Children \cup {"none", "signal", "timeout"}
  /\ (\E c \in Children : child[c] = "none") =>
       child = NoChild /\ ~started /\ event = "none"
  /\ started => \A c \in Children : child[c] # "starting"
  /\ event = "timeout" => ~started
  /\ event = "none" => \A c \in Children : child[c] \notin Ends

SupervisorInit == child = NoChild /\ started = FALSE /\ event = "none"

Up == child # NoChild

-----------------------------------------------------------------------------

SpawnChildren ==
  /\ child' = [c \in Children |-> "starting"]
  /\ started' = FALSE
  /\ event' = "none"

(* A child prints its ready line; what it prints after the race is over is  *)
(* of no account.                                                           *)
ChildReady(c) ==
  /\ child[c] = "starting" /\ event = "none"
  /\ child' = [child EXCEPT ![c] = "ready"]
  /\ started' = (\A d \in Children : child'[d] = "ready")
  /\ UNCHANGED event

(* A child ends, of itself or because the supervisor terminated it.         *)
ChildExit(c, how) ==
  /\ child[c] \in {"starting", "ready"}
  /\ child' = [child EXCEPT ![c] = how]
  /\ event' = IF event = "none" THEN c ELSE event
  /\ UNCHANGED started

(* SIGTERM reaches the supervisor: only the first event counts.             *)
Interrupt ==
  /\ event' = IF Up /\ event = "none" THEN "signal" ELSE event
  /\ UNCHANGED <<child, started>>

(* Mutant: the timer is cleared when the first child is ready. *)
StartupTimeoutOfBoth ==
  /\ \A c \in Children : child[c] = "starting"
  /\ event = "none"
  /\ event' = "timeout"
  /\ UNCHANGED <<child, started>>

StartupTimeout ==
  /\ Up /\ ~started /\ event = "none"
  /\ event' = "timeout"
  /\ UNCHANGED <<child, started>>

(* Both children have closed: the supervisor can return.                    *)
Over == Up /\ event # "none" /\ \A c \in Children : child[c] \in Ends

(* The exit code is 0 only if the run had started and ended with a child's  *)
(* clean exit, and the other did not fail; one that was terminated did not. *)
CodeIsZero ==
  /\ started /\ event \in Children
  /\ child[event] = "ok" /\ \A c \in Children : child[c] # "bad"

(* Mutant: what ended this run is taken for the end of the next. *)
ReturnWithEvent ==
  /\ child' = NoChild /\ started' = FALSE /\ UNCHANGED event

(* The supervisor process is gone.                                          *)
Return ==
  /\ child' = NoChild /\ started' = FALSE /\ event' = "none"

=============================================================================
