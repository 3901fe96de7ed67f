---------------------------- MODULE BaseConsole ----------------------------
(***************************************************************************)
(* The Base console (base-console.mjs): tables that people edit at any     *)
(* time, which switch production on and may narrow the capabilities that   *)
(* the local configuration allows.  Each runtime process reads them when   *)
(* it starts and keeps what it read until a TTL has passed; it reads again *)
(* when an event arrives after that, and dies if that fails.               *)
(*                                                                         *)
(* A state of the console is [ok, on, caps]: whether it can be read and    *)
(* has the rows and fields it must have, the switch, and the capabilities  *)
(* it lists, or Inherit.  Domains are narrowed by the same rules and are   *)
(* not modelled, nor are the texts of the rules.                           *)
(***************************************************************************)
CONSTANTS
  Readers,    \* runtime processes
  Consoles,   \* states of the console
  Ceiling,    \* config.allowed_capabilities
  Inherit     \* the console's word for all of them

ASSUME ConsoleAssumption ==
  \A c \in Consoles : {c.ok, c.on} \subseteq BOOLEAN

VARIABLES
  console,   \* the tables
  cache,     \* what each process read last
  fresh      \* the processes for which the TTL has not passed since

consoleVars == <<console, cache, fresh>>

Snapshots == [on : BOOLEAN, caps : SUBSET Ceiling]
Nothing == [on |-> FALSE, caps |-> {}]

ConsoleTypeOK ==
  /\ console \in Consoles
  /\ cache \in [Readers -> Snapshots]
  /\ fresh \subseteq Readers

ConsoleInit ==
  /\ console \in Consoles
  /\ cache = [p \in Readers |-> Nothing]
  /\ fresh = {}

-----------------------------------------------------------------------------

(* allowedCapabilities: nothing beyond the local ceiling, and not nothing.  *)
(* Mutant: the ceiling is not compared.                                     *)
AnyCaps(c) == c.caps # Inherit => c.caps # {}
CapsAcceptable(c) == c.caps # Inherit => c.caps # {} /\ c.caps \subseteq Ceiling
Allowed(c) == IF c.caps = Inherit THEN Ceiling ELSE c.caps

(* loadBaseConsole, or throws.                                              *)
Loads(c) == c.ok /\ CapsAcceptable(c)
Load(c) == [on |-> c.on, caps |-> Allowed(c)]

(* createBaseConsoleRefresher: what is read before an event is handled.     *)
Stale(p) == p \notin fresh

CanRefresh(p) == Stale(p) => Loads(console)
Refreshed(p) == IF Stale(p) THEN Load(console) ELSE cache[p]

Keep(p, snapshot) ==
  /\ cache' = [cache EXCEPT ![p] = snapshot]
  /\ fresh' = fresh \cup {p}
  /\ UNCHANGED console

GrowsStale(p) ==
  /\ p \in fresh
  /\ fresh' = fresh \ {p}
  /\ UNCHANGED <<console, cache>>

Edit(c) ==
  /\ console # c
  /\ console' = c
  /\ UNCHANGED <<cache, fresh>>

Forget(p) ==
  /\ cache' = [cache EXCEPT ![p] = Nothing]
  /\ fresh' = fresh \ {p}
  /\ UNCHANGED console

=============================================================================
