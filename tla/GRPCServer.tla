----------------------------- MODULE GRPCServer -----------------------------
(***************************************************************************)
(* The guest-side GRPCServer (grpc_server.go): Init assembles the gRPC     *)
(* server, starts the broker's Run goroutine and registers every plugin;   *)
(* Serve blocks in the accept loop and closes DoneCh when it returns; Stop *)
(* and GracefulStop stop the server and close the broker, clearing         *)
(* s.broker so that a later call skips it.                                 *)
(*                                                                         *)
(* Who calls these is the plugin's serve loop and the controller service,  *)
(* neither under src/: Init once, then Serve on its own goroutine, while   *)
(* each of Stoppers performs its sequence Calls[c] of Stop / GracefulStop  *)
(* calls, for example from Shutdown RPCs handled on their own goroutines.  *)
(***************************************************************************)
EXTENDS Naturals, Sequences, FiniteSets

CONSTANTS Plugins,     \* keys of s.Plugins
          Stoppers,    \* goroutines that stop the server
          Calls        \* [Stoppers -> Seq({"Stop", "GracefulStop"})]

NoBroker == "nil"
TheBroker == "broker"

VARIABLES
    phase,        \* the serve loop: "init", "failed", "serving"
    server,       \* s.server: "none", "created", "stopped"
    broker,       \* s.broker: TheBroker or NoBroker
    brokerRun,    \* the broker's Run goroutine: "none", "running", "closed"
    closes,       \* how many times broker.Close was called
    registered,   \* plugins registered on s.server
    initErr,      \* the plugin key Init's error names, or "none"
    serve,        \* the Serve goroutine: "idle", "accepting", "returned"
    doneCh,       \* times close(s.DoneCh) ran
    pc,           \* per stopper: "call", "check", "close", "clear"
    ip,           \* per stopper: index of its current call in Calls[c]
    crashed       \* a nil dereference panicked the plugin

vars == <<phase, server, broker, brokerRun, closes, registered, initErr,
          serve, doneCh, pc, ip, crashed>>

stopVars == <<pc, ip>>

-----------------------------------------------------------------------------
Init ==
    /\ phase = "init"
    /\ server = "none"
    /\ broker = NoBroker
    /\ brokerRun = "none"
    /\ closes = 0
    /\ registered = {}
    /\ initErr = "none"
    /\ serve = "idle"
    /\ doneCh = 0
    /\ pc = [c \in Stoppers |-> "call"]
    /\ ip = [c \in Stoppers |-> 1]
    /\ crashed = FALSE

(* GRPCServer.Init: create the server, register the standard services,     *)
(* store a new broker and start its Run goroutine, then register the       *)
(* plugins in map order. The first plugin whose GRPCServer fails aborts    *)
(* the loop: the plugins registered are any set of those that succeed,     *)
(* and the broker keeps running.                                           *)
InitServer ==
    /\ phase = "init"
    /\ server' = "created"
    /\ broker' = TheBroker
    /\ brokerRun' = "running"
    /\ \/ /\ registered' = Plugins
          /\ initErr' = "none"
          /\ phase' = "serving"
       \/ \E bad \in Plugins, ok \in SUBSET Plugins :
             /\ bad \notin ok
             /\ registered' = ok
             /\ initErr' = bad
             /\ phase' = "failed"
    /\ UNCHANGED <<closes, serve, doneCh, stopVars, crashed>>

(* Serve: s.server.Serve(lis) blocks until the server is stopped (or      *)
(* returns ErrServerStopped at once if it already is), or until the       *)
(* listener fails; the deferred close(s.DoneCh) then runs.                *)
ServeAccept ==
    /\ phase = "serving" /\ serve = "idle"
    /\ serve' = "accepting"
    /\ UNCHANGED <<phase, server, broker, brokerRun, closes, registered,
                   initErr, doneCh, stopVars, crashed>>

(* Mutant of ServeReturn: Serve is entered again after it returns.          *)
ServeReturnRestarts ==
    /\ serve = "accepting"
    /\ server = "stopped"
    /\ serve' = "idle"
    /\ doneCh' = doneCh + 1
    /\ UNCHANGED <<phase, server, broker, brokerRun, closes, registered,
                   initErr, stopVars, crashed>>

(* Mutant of ServeReturn: DoneCh is not closed (the defer is missing).      *)
ServeReturnNoClose ==
    /\ serve = "accepting"
    /\ server = "stopped"
    /\ serve' = "returned"
    /\ UNCHANGED <<phase, server, broker, brokerRun, closes, registered,
                   initErr, stopVars, crashed, doneCh>>

ServeReturn ==
    /\ serve = "accepting"
    /\ server = "stopped"
    /\ serve' = "returned"
    /\ doneCh' = doneCh + 1
    /\ UNCHANGED <<phase, server, broker, brokerRun, closes, registered,
                   initErr, stopVars, crashed>>

(* The listener fails while the server is still up: Serve logs the error   *)
(* and returns, closing DoneCh; the broker keeps running.                  *)
ServeFail ==
    /\ serve = "accepting"
    /\ server = "created"
    /\ serve' = "returned"
    /\ doneCh' = doneCh + 1
    /\ UNCHANGED <<phase, server, broker, brokerRun, closes, registered,
                   initErr, stopVars, crashed>>

Calling(c) == phase = "serving" /\ ip[c] <= Len(Calls[c])

CallOf(c) == Calls[c][ip[c]]

(* Stop: s.server.Stop() closes the listeners and connections at once.    *)
StopServer(c) ==
    /\ Calling(c) /\ pc[c] = "call" /\ CallOf(c) = "Stop"
    /\ server' = "stopped"
    /\ pc' = [pc EXCEPT ![c] = "check"]
    /\ UNCHANGED <<phase, broker, brokerRun, closes, registered, initErr,
                   serve, doneCh, ip, crashed>>

(* GracefulStop: s.server.GracefulStop() stops accepting and returns once *)
(* the pending RPCs finished; then the same broker steps as Stop.          *)
GracefulStopServer(c) ==
    /\ Calling(c) /\ pc[c] = "call" /\ CallOf(c) = "GracefulStop"
    /\ server' = "stopped"
    /\ pc' = [pc EXCEPT ![c] = "check"]
    /\ UNCHANGED <<phase, broker, brokerRun, closes, registered, initErr,
                   serve, doneCh, ip, crashed>>

(* The call returns and the stopper moves to its next call.               *)
Return(c) == /\ pc' = [pc EXCEPT ![c] = "call"]
             /\ ip' = [ip EXCEPT ![c] = @ + 1]

(* Mutant of BrokerCheck: the nil test is inverted.                        *)
BrokerCheckInverted(c) ==
    /\ Calling(c) /\ pc[c] = "check"
    /\ IF broker = NoBroker THEN pc' = [pc EXCEPT ![c] = "close"] /\ ip' = ip
                            ELSE Return(c)
    /\ UNCHANGED <<phase, server, broker, brokerRun, closes, registered,
                   initErr, serve, doneCh, crashed>>

(* if s.broker != nil (Stop and GracefulStop alike): a read of s.broker    *)
(* without a lock.                                                          *)
BrokerCheck(c) ==
    /\ Calling(c) /\ pc[c] = "check"
    /\ IF broker # NoBroker THEN pc' = [pc EXCEPT ![c] = "close"] /\ ip' = ip
                            ELSE Return(c)
    /\ UNCHANGED <<phase, server, broker, brokerRun, closes, registered,
                   initErr, serve, doneCh, crashed>>

(* s.broker.Close(): s.broker is read again; if another stopper cleared it *)
(* since the check, the call dereferences nil and the plugin panics.       *)
BrokerClose(c) ==
    /\ Calling(c) /\ pc[c] = "close"
    /\ IF broker = NoBroker
         THEN crashed' = TRUE /\ UNCHANGED <<brokerRun, closes>>
         ELSE /\ brokerRun' = "closed"
              /\ closes' = closes + 1
              /\ crashed' = crashed
    /\ pc' = [pc EXCEPT ![c] = "clear"]
    /\ UNCHANGED <<phase, server, broker, registered, initErr, serve,
                   doneCh, ip>>

(* s.broker = nil, and the call returns.                                   *)
BrokerClear(c) ==
    /\ Calling(c) /\ pc[c] = "clear"
    /\ broker' = NoBroker
    /\ Return(c)
    /\ UNCHANGED <<phase, server, brokerRun, closes, registered, initErr,
                   serve, doneCh, crashed>>

StopperStep(c) ==
    ~crashed /\ (StopServer(c) \/ GracefulStopServer(c) \/ BrokerCheck(c) \/ BrokerClose(c) \/ BrokerClear(c))

(* The plugin process has panicked, or Init failed and the serve loop     *)
(* returned, or every call and Serve have returned: nothing more happens.  *)
Finished ==
    /\ \/ crashed
       \/ phase = "failed"
       \/ serve = "returned" /\ \A c \in Stoppers : ip[c] > Len(Calls[c])
    /\ UNCHANGED vars

Next ==
    \/ InitServer
    \/ ServeAccept
    \/ ServeReturn
    \/ ServeFail
    \/ \E c \in Stoppers : StopperStep(c)
    \/ Finished

(* The serve loop and the Serve goroutine run when they can; a stopper     *)
(* that has begun a call finishes it.                                      *)
Fairness ==
    /\ WF_vars(InitServer) /\ WF_vars(ServeAccept) /\ WF_vars(ServeReturn)
    /\ \A c \in Stoppers : WF_vars(StopperStep(c))

Spec == Init /\ [][Next]_vars /\ Fairness

-----------------------------------------------------------------------------
TypeOK ==
    /\ phase \in {"init", "failed", "serving"}
    /\ server \in {"none", "created", "stopped"}
    /\ broker \in {NoBroker, TheBroker}
    /\ brokerRun \in {"none", "running", "closed"}
    /\ closes \in Nat /\ doneCh \in 0..1
    /\ registered \subseteq Plugins /\ initErr \in Plugins \cup {"none"}
    /\ serve \in {"idle", "accepting", "returned"}
    /\ pc \in [Stoppers -> {"call", "check", "close", "clear"}]
    /\ crashed \in BOOLEAN

(* Stop / GracefulStop: "clearing the broker reference so a second call is *)
(* a safe no-op on that part" (spec 4.3). The broker is closed at most     *)
(* once, and no call dereferences a cleared s.broker.                      *)
BrokerClosedOnce == ~crashed /\ closes <= 1

(* Stop / GracefulStop: once every stopper's calls have returned, the      *)
(* broker's Run goroutine has been closed and s.broker is cleared, however *)
(* the calls interleaved.                                                  *)
StopsCloseBroker ==
    (phase = "serving" /\ ~crashed /\ \A c \in Stoppers : ip[c] > Len(Calls[c]))
      => broker = NoBroker /\ brokerRun = "closed"

(* Serve's deferred close(s.DoneCh): once the server is stopped, DoneCh is *)
(* eventually closed exactly once, unless the plugin has panicked.         *)
DoneAfterStop == (server = "stopped" /\ phase = "serving") ~> (doneCh = 1 \/ crashed)

=============================================================================
