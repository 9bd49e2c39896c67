------------------------------ MODULE Registry ------------------------------
(***************************************************************************)
(* The process-wide registry of managed clients (client.go:31-40, 324-348, *)
(* 386-390): NewClient appends a managed client to managedClients under    *)
(* managedClientsLock; CleanupClients stores Killed = 1, starts one        *)
(* goroutine per registered client that calls Kill, and waits for them.    *)
(*                                                                         *)
(* A client's own lifecycle is taken from ClientAbstract at the grain the  *)
(* registry sees: Start launches its plugin unless it already has an      *)
(* address, and Kill returns once the plugin is dead (ClientLifecycle's    *)
(* KillLeavesNoPlugin). Host goroutines run scripts of NewClient, Start,   *)
(* CleanupClients, and Join (wait for the other host goroutines).          *)
(***************************************************************************)
EXTENDS Naturals, Sequences, SequencesExt, FiniteSets

CONSTANTS Clients,   \* the *Client values the host creates
          Managed,   \* those created with ClientConfig.Managed
          Hosts,     \* host goroutines
          Script     \* [Hosts -> Seq([op : {"New", "Start", "Cleanup", "Join"}, c : Clients])]

ASSUME Managed \subseteq Clients

VARIABLES
    created,         \* clients NewClient has returned
    managedClients,  \* the registry slice
    started,         \* clients whose Start succeeded (c.address is set)
    alive,           \* clients whose plugin process is running
    killedFlag,      \* the Killed uint32
    ip,              \* per host: index of its current call
    cpc,             \* per host inside CleanupClients: "store", "iterate", "wait"
    killers,         \* Kill goroutines started and not yet finished: <<h, c>>
    wg,              \* per host: CleanupClients' WaitGroup counter
    cleaned          \* history: hosts whose CleanupClients returned

vars == <<created, managedClients, started, alive, killedFlag, ip, cpc, killers,
          wg, cleaned>>

Init ==
    /\ created = {} /\ managedClients = <<>>
    /\ started = {} /\ alive = {}
    /\ killedFlag = 0
    /\ ip = [h \in Hosts |-> 1]
    /\ cpc = [h \in Hosts |-> "store"]
    /\ killers = {} /\ wg = [h \in Hosts |-> 0]
    /\ cleaned = {}

Op(h) == Script[h][ip[h]]
Calling(h, op) == ip[h] <= Len(Script[h]) /\ Op(h).op = op
Next_(h) == ip' = [ip EXCEPT ![h] = @ + 1]

(* NewClient: a managed client is appended under managedClientsLock.       *)
NewClient(h) ==
    /\ Calling(h, "New")
    /\ LET c == Op(h).c IN
         /\ created' = created \cup {c}
         /\ managedClients' = IF c \in Managed THEN Append(managedClients, c)
                                               ELSE managedClients
    /\ Next_(h)
    /\ UNCHANGED <<started, alive, killedFlag, cpc, killers, wg, cleaned>>

(* Start: launches the plugin unless the address is cached.                *)
Start(h) ==
    /\ Calling(h, "Start")
    /\ LET c == Op(h).c IN
         /\ c \in created
         /\ started' = started \cup {c}
         /\ alive' = IF c \in started THEN alive ELSE alive \cup {c}
    /\ Next_(h)
    /\ UNCHANGED <<created, managedClients, killedFlag, cpc, killers, wg, cleaned>>

(* The host program waits for its other goroutines (not under src/).      *)
Join(h) ==
    /\ Calling(h, "Join")
    /\ \A g \in Hosts \ {h} : ip[g] > Len(Script[g])
    /\ Next_(h)
    /\ UNCHANGED <<created, managedClients, started, alive, killedFlag, cpc,
                   killers, wg, cleaned>>

(* CleanupClients: atomic.StoreUint32(&Killed, 1).                          *)
CleanupStore(h) ==
    /\ Calling(h, "Cleanup") /\ cpc[h] = "store"
    /\ killedFlag' = 1
    /\ cpc' = [cpc EXCEPT ![h] = "iterate"]
    /\ UNCHANGED <<created, managedClients, started, alive, ip, killers, wg, cleaned>>

(* Mutant of CleanupIterate: wg.Add(1) once, outside the loop.            *)
CleanupIterateAddOnce(h) ==
    /\ Calling(h, "Cleanup") /\ cpc[h] = "iterate"
    /\ killers' = killers \cup {<<h, c>> : c \in ToSet(managedClients)}
    /\ wg' = [wg EXCEPT ![h] = 1]
    /\ cpc' = [cpc EXCEPT ![h] = "wait"]
    /\ UNCHANGED <<created, managedClients, started, alive, killedFlag, ip, cleaned>>

(* Under managedClientsLock: wg.Add(1) and go Kill for every client in the *)
(* slice as it is now.                                                      *)
CleanupIterate(h) ==
    /\ Calling(h, "Cleanup") /\ cpc[h] = "iterate"
    /\ killers' = killers \cup {<<h, c>> : c \in ToSet(managedClients)}
    /\ wg' = [wg EXCEPT ![h] = Cardinality(ToSet(managedClients))]
    /\ cpc' = [cpc EXCEPT ![h] = "wait"]
    /\ UNCHANGED <<created, managedClients, started, alive, killedFlag, ip, cleaned>>

(* Mutant of CleanupWait: wg.Wait() is missing.                           *)
CleanupWaitNoJoin(h) ==
    /\ Calling(h, "Cleanup") /\ cpc[h] = "wait"
    /\ cleaned' = cleaned \cup {h}
    /\ cpc' = [cpc EXCEPT ![h] = "store"]
    /\ Next_(h)
    /\ UNCHANGED <<created, managedClients, started, alive, killedFlag, killers, wg>>

(* wg.Wait() returns.                                                      *)
CleanupWait(h) ==
    /\ Calling(h, "Cleanup") /\ cpc[h] = "wait"
    /\ wg[h] = 0
    /\ cleaned' = cleaned \cup {h}
    /\ cpc' = [cpc EXCEPT ![h] = "store"]
    /\ Next_(h)
    /\ UNCHANGED <<created, managedClients, started, alive, killedFlag, killers, wg>>

(* Mutant of KillGoroutine: wg.Done() is not called.                      *)
KillGoroutineNoDone(h, c) ==
    /\ <<h, c>> \in killers
    /\ alive' = alive \ {c}
    /\ killers' = killers \ {<<h, c>>}
    /\ UNCHANGED <<created, managedClients, started, killedFlag, ip, cpc, cleaned, wg>>

(* A Kill goroutine: client.Kill() returns with the plugin dead, then      *)
(* wg.Done().                                                              *)
KillGoroutine(h, c) ==
    /\ <<h, c>> \in killers
    /\ alive' = alive \ {c}
    /\ killers' = killers \ {<<h, c>>}
    /\ wg' = [wg EXCEPT ![h] = @ - 1]
    /\ UNCHANGED <<created, managedClients, started, killedFlag, ip, cpc, cleaned>>

HostStep(h) ==
    NewClient(h) \/ Start(h) \/ Join(h)
    \/ CleanupStore(h) \/ CleanupIterate(h) \/ CleanupWait(h)

Finished == /\ \A h \in Hosts : ip[h] > Len(Script[h])
            /\ UNCHANGED vars

Next ==
    \/ \E h \in Hosts : HostStep(h)
    \/ \E h \in Hosts, c \in Clients : KillGoroutine(h, c)
    \/ Finished

Fairness ==
    /\ \A h \in Hosts : WF_vars(HostStep(h))
    /\ \A h \in Hosts, c \in Clients : WF_vars(KillGoroutine(h, c))

Spec == Init /\ [][Next]_vars /\ Fairness

-----------------------------------------------------------------------------
TypeOK ==
    /\ created \subseteq Clients /\ started \subseteq created /\ alive \subseteq started
    /\ managedClients \in Seq(Managed)
    /\ killedFlag \in {0, 1}
    /\ cpc \in [Hosts -> {"store", "iterate", "wait"}]
    /\ killers \subseteq Hosts \X Managed
    /\ wg \in [Hosts -> Nat]
    /\ cleaned \subseteq Hosts

(* CleanupClients "makes sure all the managed subprocesses are killed"     *)
(* (client.go:324-327): once it has returned, no managed client's plugin   *)
(* is running.                                                             *)
ManagedDeadAfterCleanup == cleaned # {} => alive \cap Managed = {}

(* CleanupClients returns: every Kill goroutine it waits for finishes and  *)
(* calls wg.Done.                                                          *)
CleanupReturns ==
    \A h \in Hosts : (cpc[h] = "wait") ~> (h \in cleaned)
=============================================================================
