--------------------------- MODULE ClientAbstract ---------------------------
(***************************************************************************)
(* What a Client promises about the plugin processes it owns (spec 3 and  *)
(* 4.2), without callers, locks or goroutines. A Client launches plugin    *)
(* processes, one per Start attempt, only while it has no address; it      *)
(* owns at most one plugin it has not ordered to die, and a launch happens *)
(* only when it owns none; it takes an address once, from a plugin it has  *)
(* not doomed, and keeps it; a plugin it has doomed (runner.Kill) dies.    *)
(***************************************************************************)
EXTENDS FiniteSets

CONSTANTS Ids,         \* identities of plugin processes (Start attempts)
          NoAddr, PluginAddr

VARIABLES
    address,    \* the address Start returns
    launched,   \* plugins whose process was started
    alive,      \* plugins still running
    doomed      \* plugins the Client sent runner.Kill

vars == <<address, launched, alive, doomed>>

Init ==
    /\ address = NoAddr
    /\ launched = {} /\ alive = {} /\ doomed = {}

(* The plugins the Client owns and has not ordered to die.                 *)
Owned == alive \ doomed

(* Start launches a new plugin: not once an address is known, and not     *)
(* while an earlier plugin is still owned.                                 *)
Launch(p) ==
    /\ p \notin launched
    /\ address = NoAddr
    /\ Owned = {}
    /\ launched' = launched \cup {p}
    /\ alive' = alive \cup {p}
    /\ UNCHANGED <<address, doomed>>

(* Start succeeds with the handshake of a plugin it has not doomed.        *)
Connect ==
    /\ address = NoAddr
    /\ launched \ doomed # {}
    /\ address' = PluginAddr
    /\ UNCHANGED <<launched, alive, doomed>>

(* runner.Kill is sent to a launched plugin (a failed Start, or Kill).     *)
Doom(p) ==
    /\ p \in launched \ doomed
    /\ doomed' = doomed \cup {p}
    /\ UNCHANGED <<address, launched, alive>>

(* A plugin process exits.                                                 *)
Die(p) ==
    /\ p \in alive
    /\ alive' = alive \ {p}
    /\ UNCHANGED <<address, launched, doomed>>

Next == \E p \in Ids : Launch(p) \/ Connect \/ Doom(p) \/ Die(p)

(* A doomed plugin dies.                                                   *)
Spec == Init /\ [][Next]_vars /\ \A p \in Ids : WF_vars(Die(p) /\ p \in doomed)
=============================================================================
