----------------------------- MODULE MCRegistry -----------------------------
EXTENDS Registry

(* h1 creates and starts c1, waits for h2 and h3, then runs              *)
(* CleanupClients; h2 creates and starts the managed c2; h3 creates and    *)
(* starts the unmanaged c3, then creates the managed c4 and never starts   *)
(* it.                                                                     *)
ScriptJoined ==
    [g \in {"h1", "h2", "h3"} |->
       CASE g = "h1" -> << [op |-> "New", c |-> "c1"], [op |-> "Start", c |-> "c1"],
                            [op |-> "Join", c |-> "c1"], [op |-> "Cleanup", c |-> "c1"] >>
         [] g = "h2" -> << [op |-> "New", c |-> "c2"], [op |-> "Start", c |-> "c2"] >>
         [] g = "h3" -> << [op |-> "New", c |-> "c3"], [op |-> "Start", c |-> "c3"],
                            [op |-> "New", c |-> "c4"] >>]

=============================================================================
