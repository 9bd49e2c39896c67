-------------------------- MODULE ClientLifecycle --------------------------
(***************************************************************************)
(* The host-side plugin Client of src/client.go: Start, Client and Kill    *)
(* called by concurrent host goroutines, the goroutines Start launches     *)
(* (stderr relay, process waiter, stdout scanner, stdout drain), the       *)
(* plugin process behind the Runner, and the mutex c.m that orders them.   *)
(*                                                                         *)
(* Every Start that gets past validation is an "attempt" a \in Attempts;  *)
(* the Runner, goroutines and socket directory it creates are indexed by  *)
(* a.  Strings and addresses are abstracted: a handshake line is a record *)
(* of the fields Start looks at, an address is PluginAddr or NoAddr.      *)
(***************************************************************************)
EXTENDS Naturals, Sequences, FiniteSets

CONSTANTS
    Callers,            \* host goroutines calling methods of one Client
    Script,             \* [Callers -> Seq({"Start","Client","Kill"})]
    MaxAttempts,        \* bound on attempts (runners / socket dirs created)
    Lines,              \* handshake lines the plugin may print on stdout
    ClientVersions,     \* DOMAIN of ClientConfig.VersionedPlugins
    UseRunnerFunc,      \* ClientConfig.RunnerFunc # nil
    HasUnixSocketConfig,\* ClientConfig.UnixSocketConfig # nil
    HasTLSConfig        \* ClientConfig.TLSConfig # nil (AutoMTLS sets it)

Attempts == 1 .. MaxAttempts
NoOne == "none"
NoRunner == 0
NoDir == 0
NoAddr == "noaddr"
PluginAddr == "addr"

\* checkProtoVersion is called with the literal "1" (client.go:787).
ProbeVersion == 1

\* The zero value Start reads from linesCh once the scanner closed it.
ClosedLine == [parts |-> 1, app |-> 0, net |-> "", cert |-> "none"]
NoLine == [parts |-> 0, app |-> 0, net |-> "", cert |-> "none"]

ErrorOutcomes == {"spawn", "timeout", "exited", "version", "addr", "cert", "panic"}

VARIABLES
    pc, ip, snap,        \* per caller: program counter, script index, Kill's snapshot
    lockHolder,          \* c.m (only a Start waiting for the handshake holds it across steps)
    address, negotiatedVersion,
    runner, socketDir, rpcClient, doneCtx, exited, processKilled,
    attempts, liveDirs,  \* attempts made; socket directories on disk
    proc, killSent,      \* per attempt: plugin process state; runner.Kill called
    pending, scanDone,   \* stdout scanner: line blocked on linesCh; linesCh closed
    stderrDone, waiter, drain, cancelled,
    cancelOf,            \* per attempt: the context its waiter's deferred c.ctxCancel cancels
    printed,             \* per attempt: the plugin printed its handshake line
    startErr,            \* per attempt: how its Start returned
    crashed              \* a panic escaped Start

callerVars == <<pc, ip, snap>>
clientVars == <<lockHolder, address, negotiatedVersion, runner,
                socketDir, rpcClient, doneCtx, exited, processKilled>>
attemptVars == <<attempts, liveDirs, proc, killSent, pending, scanDone,
                 stderrDone, waiter, drain, cancelled, cancelOf, printed, startErr>>
vars == <<callerVars, clientVars, attemptVars, crashed>>

CallerPCs == {"ready", "start_launch", "start_select", "client_dial", "kill_grace",
              "kill_force", "kill_join", "kill_clear"}

TypeOK ==
    /\ pc \in [Callers -> CallerPCs]
    /\ ip \in [Callers -> Nat]
    /\ snap \in [Callers -> [r : Attempts \cup {NoRunner}, dir : Attempts \cup {NoDir}]]
    /\ lockHolder \in Callers \cup {NoOne}
    /\ address \in {NoAddr, PluginAddr}
    /\ negotiatedVersion \in Nat
    /\ runner \in Attempts \cup {NoRunner}
    /\ socketDir \in Attempts \cup {NoDir}
    /\ rpcClient \in {"none", "open", "closed"}
    /\ doneCtx \in Attempts \cup {0}
    /\ exited \in BOOLEAN /\ processKilled \in BOOLEAN
    /\ attempts \in 0 .. MaxAttempts
    /\ liveDirs \subseteq Attempts
    /\ proc \in [Attempts -> {"unspawned", "failed", "failedid", "running", "exited"}]
    /\ killSent \in [Attempts -> BOOLEAN]
    /\ pending \in [Attempts -> Lines \cup {NoLine}]
    /\ scanDone \in [Attempts -> BOOLEAN]
    /\ stderrDone \in [Attempts -> BOOLEAN]
    /\ waiter \in [Attempts -> {"idle", "wgwait", "bound", "blocked", "reap", "lock", "cancel", "done"}]
    /\ drain \in [Attempts -> {"none", "added", "running", "done"}]
    /\ cancelled \in [Attempts -> BOOLEAN]
    /\ cancelOf \in [Attempts -> Attempts \cup {0}]
    /\ printed \in [Attempts -> BOOLEAN]
    /\ startErr \in [Attempts -> {"none", "ok"} \cup ErrorOutcomes]
    /\ crashed \in BOOLEAN

Init ==
    /\ pc = [h \in Callers |-> "ready"]
    /\ ip = [h \in Callers |-> 1]
    /\ snap = [h \in Callers |-> [r |-> NoRunner, dir |-> NoDir]]
    /\ lockHolder = NoOne
    /\ address = NoAddr /\ negotiatedVersion = 0
    /\ runner = NoRunner /\ socketDir = NoDir /\ rpcClient = "none"
    /\ doneCtx = 0 /\ exited = FALSE /\ processKilled = FALSE
    /\ attempts = 0 /\ liveDirs = {}
    /\ proc = [a \in Attempts |-> "unspawned"]
    /\ killSent = [a \in Attempts |-> FALSE]
    /\ pending = [a \in Attempts |-> NoLine]
    /\ scanDone = [a \in Attempts |-> FALSE]
    /\ stderrDone = [a \in Attempts |-> FALSE]
    /\ waiter = [a \in Attempts |-> "idle"]
    /\ drain = [a \in Attempts |-> "none"]
    /\ cancelled = [a \in Attempts |-> FALSE]
    /\ cancelOf = [a \in Attempts |-> 0]
    /\ printed = [a \in Attempts |-> FALSE]
    /\ startErr = [a \in Attempts |-> "none"]
    /\ crashed = FALSE

-----------------------------------------------------------------------------
(* Helpers *)

Op(h) == Script[h][ip[h]]
Calling(h, ops) == pc[h] = "ready" /\ ip[h] <= Len(Script[h]) /\ Op(h) \in ops
\* The caller returns from its current method and moves to the next call.
Return(h) == /\ pc' = [pc EXCEPT ![h] = "ready"]
             /\ ip' = [ip EXCEPT ![h] = @ + 1]
LockFree == lockHolder = NoOne
\* Kill's "runner == nil || runner.ID() == \"\"" (436).
RunnerHasID == runner # NoRunner /\ proc[runner] # "failed"

\* Start has launched the goroutines of attempt a (672-740).
Started(a) == waiter[a] # "idle"

\* Goroutines of attempt a still counted by c.clientWaitGroup.
Outstanding(a) ==
    /\ Started(a)
    /\ \/ ~stderrDone[a] \/ waiter[a] \notin {"cancel", "done"}
       \/ ~scanDone[a] \/ drain[a] # "done"
WaitGroupZero == \A a \in Attempts : ~Outstanding(a)

\* c.unixSocketCfg = *c.config.UnixSocketConfig resets socketDir (client.go:610).
ResetSocketDir == IF HasUnixSocketConfig THEN NoDir ELSE socketDir

\* What Start does with the line it received (client.go:746-828).
HandshakeOutcome(L) ==
    CASE ProbeVersion \notin ClientVersions          -> "version"
      [] L.parts < 4                                 -> "panic"
      [] L.net \notin {"tcp", "unix"}                -> "addr"
      [] L.parts = 6 /\ L.cert = "invalid"           -> "cert"
      [] L.parts = 6 /\ L.cert = "valid" /\ ~HasTLSConfig -> "panic"
      [] OTHER                                       -> "ok"

-----------------------------------------------------------------------------
(* Start (client.go:509-832) *)

\* A started client returns its cached address (client.go:515-517).
StartCached(h) ==
    /\ Calling(h, {"Start", "Client"}) /\ LockFree
    /\ address # NoAddr
    /\ IF Op(h) = "Client"
         THEN /\ pc' = [pc EXCEPT ![h] = "client_dial"] /\ UNCHANGED ip
         ELSE Return(h)
    /\ UNCHANGED <<snap, clientVars, attemptVars, crashed>>

\* Start fails before a runner or directory exists: bad option combination,
\* checksum, mTLS certificate, MkdirTemp or NewCmdRunner error (522-645).
StartRejected(h) ==
    /\ Calling(h, {"Start", "Client"}) /\ LockFree
    /\ address = NoAddr
    /\ \E dir \in {socketDir, ResetSocketDir} : socketDir' = dir
    /\ Return(h)
    /\ UNCHANGED <<snap, lockHolder, address, negotiatedVersion,
                   runner, rpcClient, doneCtx, exited, processKilled, attemptVars, crashed>>

\* With RunnerFunc, MkdirTemp succeeded and setGroupWritable or RunnerFunc
\* failed: the directory stays in c.unixSocketCfg.socketDir (621-639).
StartDirFailed(h) ==
    /\ Calling(h, {"Start", "Client"}) /\ LockFree
    /\ address = NoAddr /\ UseRunnerFunc /\ attempts < MaxAttempts
    /\ LET a == attempts + 1 IN
         /\ attempts' = a
         /\ socketDir' = a
         /\ liveDirs' = liveDirs \cup {a}
         /\ startErr' = [startErr EXCEPT ![a] = "spawn"]
    /\ Return(h)
    /\ UNCHANGED <<snap, lockHolder, address, negotiatedVersion,
                   runner, rpcClient, doneCtx, exited, processKilled, proc, killSent,
                   pending, scanDone, stderrDone, waiter, drain, cancelled, cancelOf, printed, crashed>>

\* The runner is stored in c.runner and runner.Start fails (648-654); the
\* kill-on-error defer is not yet installed. Whether the failed runner
\* still reports an ID is up to cmdrunner or the RunnerFunc (outside src/):
\* "failed" has ID() = "", "failedid" has one.
StartRunnerFailed(h) ==
    /\ Calling(h, {"Start", "Client"}) /\ LockFree
    /\ address = NoAddr /\ attempts < MaxAttempts
    /\ LET a == attempts + 1 IN
         /\ attempts' = a
         /\ runner' = a
         /\ socketDir' = IF UseRunnerFunc THEN a ELSE ResetSocketDir
         /\ liveDirs' = IF UseRunnerFunc THEN liveDirs \cup {a} ELSE liveDirs
         /\ \E p \in {"failed", "failedid"} : proc' = [proc EXCEPT ![a] = p]
         /\ startErr' = [startErr EXCEPT ![a] = "spawn"]
    /\ Return(h)
    /\ UNCHANGED <<snap, lockHolder, address, negotiatedVersion,
                   rpcClient, doneCtx, exited, processKilled, killSent, pending,
                   scanDone, stderrDone, waiter, drain, cancelled, cancelOf, printed, crashed>>

\* c.runner = runner and runner.Start succeeds; the kill-on-error defer is
\* installed and c.doneCtx, c.ctxCancel are replaced (648-670). Start keeps
\* c.m from here until it returns.
StartSpawned(h) ==
    /\ Calling(h, {"Start", "Client"}) /\ LockFree
    /\ address = NoAddr /\ attempts < MaxAttempts
    /\ LET a == attempts + 1 IN
         /\ attempts' = a
         /\ runner' = a
         /\ socketDir' = IF UseRunnerFunc THEN a ELSE ResetSocketDir
         /\ liveDirs' = IF UseRunnerFunc THEN liveDirs \cup {a} ELSE liveDirs
         /\ proc' = [proc EXCEPT ![a] = "running"]
         /\ doneCtx' = a
    /\ lockHolder' = h
    /\ pc' = [pc EXCEPT ![h] = "start_launch"]
    /\ UNCHANGED <<ip, snap, address, negotiatedVersion, rpcClient,
                   exited, processKilled, killSent, pending, scanDone, stderrDone,
                   waiter, drain, cancelled, cancelOf, printed, startErr, crashed>>

\* clientWaitGroup.Add and stderrWaitGroup.Add, then the stderr relay, the
\* waiter and the scanner goroutines start, and the drain is added to the
\* WaitGroup (672-740).
StartLaunch(h) ==
    /\ pc[h] = "start_launch" /\ lockHolder = h
    /\ waiter' = [waiter EXCEPT ![runner] = "wgwait"]
    /\ drain' = [drain EXCEPT ![runner] = "added"]
    /\ pc' = [pc EXCEPT ![h] = "start_select"]
    /\ UNCHANGED <<ip, snap, clientVars, attempts, liveDirs, proc, killSent, pending,
                   scanDone, stderrDone, cancelled, cancelOf, printed, startErr, crashed>>

\* The select of client.go:741 and everything Start does until it returns:
\* handle the chosen case, kill the runner on error or panic (657-667),
\* start the drain (728-734), store c.address and release c.m.
SelectCases(a) ==
    {"timeout"}
    \cup (IF cancelled[a] THEN {"done"} ELSE {})
    \cup (IF pending[a] # NoLine \/ scanDone[a] THEN {"line"} ELSE {})

Received(a) == IF pending[a] # NoLine THEN pending[a] ELSE ClosedLine

\* Mutant: no deferred runner.Kill when Start fails or panics (657-667).
StartSelectNoKill(h) ==
    /\ pc[h] = "start_select" /\ lockHolder = h
    /\ LET a == runner IN
       \E case \in SelectCases(a) :
         LET L   == Received(a)
             out == CASE case = "timeout" -> "timeout"
                      [] case = "done"    -> "exited"
                      [] OTHER            -> HandshakeOutcome(L)
         IN
         /\ pending' = IF case = "line" THEN [pending EXCEPT ![a] = NoLine] ELSE pending
         /\ startErr' = [startErr EXCEPT ![a] = out]
         /\ drain' = [drain EXCEPT ![a] = "running"]
         /\ crashed' = (out = "panic")
         /\ IF out = "ok"
              THEN /\ address' = PluginAddr
                   /\ negotiatedVersion' = ProbeVersion
              ELSE UNCHANGED <<address, negotiatedVersion>>
         /\ IF out = "ok" /\ Op(h) = "Client"
              THEN /\ pc' = [pc EXCEPT ![h] = "client_dial"] /\ UNCHANGED ip
              ELSE Return(h)
    /\ lockHolder' = NoOne
    /\ UNCHANGED <<snap, runner, socketDir, rpcClient, doneCtx, exited, processKilled,
                   attempts, liveDirs, proc, killSent, scanDone, stderrDone, waiter,
                   cancelled, cancelOf, printed>>

\* Mutant: the deferred runner.Kill runs without its "err != nil" test.
StartSelectAlwaysKill(h) ==
    /\ pc[h] = "start_select" /\ lockHolder = h
    /\ LET a == runner IN
       \E case \in SelectCases(a) :
         LET L   == Received(a)
             out == CASE case = "timeout" -> "timeout"
                      [] case = "done"    -> "exited"
                      [] OTHER            -> HandshakeOutcome(L)
         IN
         /\ pending' = IF case = "line" THEN [pending EXCEPT ![a] = NoLine] ELSE pending
         /\ startErr' = [startErr EXCEPT ![a] = out]
         /\ killSent' = [killSent EXCEPT ![a] = TRUE]
         /\ drain' = [drain EXCEPT ![a] = "running"]
         /\ crashed' = (out = "panic")
         /\ IF out = "ok"
              THEN /\ address' = PluginAddr
                   /\ negotiatedVersion' = ProbeVersion
              ELSE UNCHANGED <<address, negotiatedVersion>>
         /\ IF out = "ok" /\ Op(h) = "Client"
              THEN /\ pc' = [pc EXCEPT ![h] = "client_dial"] /\ UNCHANGED ip
              ELSE Return(h)
    /\ lockHolder' = NoOne
    /\ UNCHANGED <<snap, runner, socketDir, rpcClient, doneCtx, exited, processKilled,
                   attempts, liveDirs, proc, scanDone, stderrDone, waiter, cancelled, cancelOf, printed>>

StartSelect(h) ==
    /\ pc[h] = "start_select" /\ lockHolder = h
    /\ LET a == runner IN
       \E case \in SelectCases(a) :
         LET L   == Received(a)
             out == CASE case = "timeout" -> "timeout"
                      [] case = "done"    -> "exited"
                      [] OTHER            -> HandshakeOutcome(L)
         IN
         /\ pending' = IF case = "line" THEN [pending EXCEPT ![a] = NoLine] ELSE pending
         /\ startErr' = [startErr EXCEPT ![a] = out]
         /\ killSent' = IF out = "ok" THEN killSent ELSE [killSent EXCEPT ![a] = TRUE]
         /\ drain' = [drain EXCEPT ![a] = "running"]
         /\ crashed' = (out = "panic")
         /\ IF out = "ok"
              THEN /\ address' = PluginAddr
                   /\ negotiatedVersion' = ProbeVersion
              ELSE UNCHANGED <<address, negotiatedVersion>>
         /\ IF out = "ok" /\ Op(h) = "Client"
              THEN /\ pc' = [pc EXCEPT ![h] = "client_dial"] /\ UNCHANGED ip
              ELSE Return(h)
    /\ lockHolder' = NoOne
    /\ UNCHANGED <<snap, runner, socketDir, rpcClient, doneCtx, exited, processKilled,
                   attempts, liveDirs, proc, scanDone, stderrDone, waiter, cancelled, cancelOf, printed>>

\* Mutant: without "c.client = nil" (client.go:414) a failed dial leaves a
\* non-nil interface around a nil *GRPCClient in c.client.
ClientDialNoReset(h) ==
    /\ pc[h] = "client_dial" /\ LockFree
    /\ IF rpcClient = "none"
         THEN rpcClient' \in {"nilptr", "open"}
         ELSE UNCHANGED rpcClient
    /\ Return(h)
    /\ UNCHANGED <<snap, lockHolder, address, negotiatedVersion, runner,
                   socketDir, doneCtx, exited, processKilled, attemptVars, crashed>>

\* Client() after a successful Start: dial once, cache c.client (398-419).
ClientDial(h) ==
    /\ pc[h] = "client_dial" /\ LockFree
    /\ IF rpcClient = "none"
         THEN rpcClient' \in {"none", "open"}
         ELSE UNCHANGED rpcClient
    /\ Return(h)
    /\ UNCHANGED <<snap, lockHolder, address, negotiatedVersion, runner,
                   socketDir, doneCtx, exited, processKilled, attemptVars, crashed>>

-----------------------------------------------------------------------------
(* Kill (client.go:427-501) *)

KillPCs == {"kill_grace", "kill_force", "kill_join", "kill_clear"}

\* No runner, or a runner whose Start failed (ID() = ""): nothing to kill.
KillNothing(h) ==
    /\ Calling(h, {"Kill"}) /\ LockFree
    /\ ~RunnerHasID
    /\ Return(h)
    /\ UNCHANGED <<snap, clientVars, attemptVars, crashed>>

\* Read runner, address and socketDir under c.m; with an address, fetch the
\* RPC client through Client() (dialling it if none) and Close it.  Only a
\* successful Close leads to the graceful wait (429-478).
KillBegin(h) ==
    /\ Calling(h, {"Kill"}) /\ LockFree
    /\ RunnerHasID
    /\ snap' = [snap EXCEPT ![h] = [r |-> runner, dir |-> socketDir]]
    /\ IF address = NoAddr
         THEN /\ pc' = [pc EXCEPT ![h] = "kill_force"]
              /\ UNCHANGED rpcClient
         ELSE \E dialed \in IF rpcClient = "none" THEN {"none", "open"} ELSE {rpcClient} :
              \E closeOk \in BOOLEAN :
                /\ rpcClient' = IF dialed = "open" THEN "closed" ELSE dialed
                /\ pc' = [pc EXCEPT ![h] = IF dialed = "open" /\ closeOk
                                             THEN "kill_grace" ELSE "kill_force"]
    /\ UNCHANGED <<ip, lockHolder, address, negotiatedVersion, runner,
                   socketDir, doneCtx, exited, processKilled, attemptVars, crashed>>

\* The graceful wait ends with doneCtx cancelled: return (485-487).
KillExitedGracefully(h) ==
    /\ pc[h] = "kill_grace" /\ cancelled[doneCtx]
    /\ pc' = [pc EXCEPT ![h] = "kill_join"]
    /\ UNCHANGED <<ip, snap, clientVars, attemptVars, crashed>>

\* Mutant: the grace timer ends Kill as if the plugin had exited.
KillGraceTimeoutReturns(h) ==
    /\ pc[h] = "kill_grace"
    /\ pc' = [pc EXCEPT ![h] = "kill_join"]
    /\ UNCHANGED <<ip, snap, clientVars, attemptVars, crashed>>

\* ... or with the 2 s timer: fall through to the forced kill (488).
KillGraceTimeout(h) ==
    /\ pc[h] = "kill_grace"
    /\ pc' = [pc EXCEPT ![h] = "kill_force"]
    /\ UNCHANGED <<ip, snap, clientVars, attemptVars, crashed>>

\* runner.Kill on the snapshot, then processKilled under c.m (492-500).
KillForce(h) ==
    /\ pc[h] = "kill_force" /\ LockFree
    /\ killSent' = [killSent EXCEPT ![snap[h].r] = TRUE]
    /\ processKilled' = TRUE
    /\ pc' = [pc EXCEPT ![h] = "kill_join"]
    /\ UNCHANGED <<ip, snap, lockHolder, address, negotiatedVersion,
                   runner, socketDir, rpcClient, doneCtx, exited, attempts, liveDirs,
                   proc, pending, scanDone, stderrDone, waiter, drain, cancelled, cancelOf,
                   printed, startErr, crashed>>

\* Mutant: the deferred cleanup without clientWaitGroup.Wait.
KillJoinNoWait(h) ==
    /\ pc[h] = "kill_join"
    /\ liveDirs' = liveDirs \ {snap[h].dir}
    /\ pc' = [pc EXCEPT ![h] = "kill_clear"]
    /\ UNCHANGED <<ip, snap, clientVars, attempts, proc, killSent, pending, scanDone,
                   stderrDone, waiter, drain, cancelled, cancelOf, printed, startErr, crashed>>

\* Deferred: clientWaitGroup.Wait, then RemoveAll of the snapshot dir (440-446).
KillJoin(h) ==
    /\ pc[h] = "kill_join" /\ WaitGroupZero
    /\ liveDirs' = liveDirs \ {snap[h].dir}
    /\ pc' = [pc EXCEPT ![h] = "kill_clear"]
    /\ UNCHANGED <<ip, snap, clientVars, attempts, proc, killSent, pending, scanDone,
                   stderrDone, waiter, drain, cancelled, cancelOf, printed, startErr, crashed>>

\* Deferred: c.runner = nil under c.m (448-452).
KillClear(h) ==
    /\ pc[h] = "kill_clear" /\ LockFree
    /\ runner' = NoRunner
    /\ Return(h)
    /\ UNCHANGED <<snap, lockHolder, address, negotiatedVersion,
                   socketDir, rpcClient, doneCtx, exited, processKilled, attemptVars, crashed>>

-----------------------------------------------------------------------------
(* The goroutines Start launches for attempt a, and the plugin process *)

\* Relays counted by c.stderrWaitGroup, which all attempts share (674).
StderrCount == Cardinality({b \in Attempts : Started(b) /\ ~stderrDone[b]})

\* logStderr returns at EOF of the stderr pipe; its stderrWaitGroup.Done
\* releases every waiter blocked in Wait if the count drops to zero (894-911).
StderrEOF(a) ==
    /\ Started(a) /\ proc[a] = "exited" /\ ~stderrDone[a]
    /\ stderrDone' = [stderrDone EXCEPT ![a] = TRUE]
    /\ waiter' = IF StderrCount = 1
                   THEN [b \in Attempts |-> IF waiter[b] = "blocked" THEN "reap" ELSE waiter[b]]
                   ELSE waiter
    /\ UNCHANGED <<callerVars, clientVars, attempts, liveDirs, proc, killSent, pending,
                   scanDone, drain, cancelled, cancelOf, printed, startErr, crashed>>

\* The waiter goroutine runs "defer c.ctxCancel()": the function value is
\* read now, without c.m, and a retried Start may already have replaced it
\* at 670 (680-681).
WaiterBind(a) ==
    /\ waiter[a] = "wgwait"
    /\ cancelOf' = [cancelOf EXCEPT ![a] = doneCtx]
    /\ waiter' = [waiter EXCEPT ![a] = "bound"]
    /\ UNCHANGED <<callerVars, clientVars, attempts, liveDirs, proc, killSent, pending,
                   scanDone, stderrDone, drain, cancelled, printed, startErr, crashed>>

\* stderrWaitGroup.Wait: it passes if no relay of any attempt is counted,
\* and blocks otherwise (687).
WaiterWait(a) ==
    /\ waiter[a] = "bound"
    /\ waiter' = [waiter EXCEPT ![a] = IF StderrCount = 0 THEN "reap" ELSE "blocked"]
    /\ UNCHANGED <<callerVars, clientVars, attempts, liveDirs, proc, killSent, pending,
                   scanDone, stderrDone, drain, cancelled, cancelOf, printed, startErr, crashed>>

\* runner.Wait returns once the plugin has exited (689-698).
WaiterReap(a) ==
    /\ waiter[a] = "reap" /\ proc[a] = "exited"
    /\ waiter' = [waiter EXCEPT ![a] = "lock"]
    /\ UNCHANGED <<callerVars, clientVars, attempts, liveDirs, proc, killSent, pending,
                   scanDone, stderrDone, drain, cancelled, cancelOf, printed, startErr, crashed>>

\* Mutant: the waiter records the exit without taking c.m.
WaiterExitUnlocked(a) ==
    /\ waiter[a] = "lock"
    /\ exited' = TRUE
    /\ waiter' = [waiter EXCEPT ![a] = "cancel"]
    /\ UNCHANGED <<callerVars, lockHolder, address, negotiatedVersion,
                   runner, socketDir, rpcClient, doneCtx, processKilled, attempts,
                   liveDirs, proc, killSent, pending, scanDone, stderrDone, drain,
                   cancelled, cancelOf, printed, startErr, crashed>>

\* ... sets c.exited under c.m; its defers then run in reverse order:
\* c.m.Unlock and clientWaitGroup.Done here (700-704, 683) ...
WaiterExit(a) ==
    /\ waiter[a] = "lock" /\ LockFree
    /\ exited' = TRUE
    /\ waiter' = [waiter EXCEPT ![a] = "cancel"]
    /\ UNCHANGED <<callerVars, lockHolder, address, negotiatedVersion,
                   runner, socketDir, rpcClient, doneCtx, processKilled, attempts,
                   liveDirs, proc, killSent, pending, scanDone, stderrDone, drain,
                   cancelled, cancelOf, printed, startErr, crashed>>

\* ... and last the c.ctxCancel bound when the goroutine started (681).
WaiterCancel(a) ==
    /\ waiter[a] = "cancel"
    /\ cancelled' = [cancelled EXCEPT ![cancelOf[a]] = TRUE]
    /\ waiter' = [waiter EXCEPT ![a] = "done"]
    /\ UNCHANGED <<callerVars, clientVars, attempts, liveDirs, proc, killSent, pending,
                   scanDone, stderrDone, drain, cancelOf, printed, startErr, crashed>>

\* The scanner closes linesCh at EOF of stdout, once no line is in flight (710-721).
ScannerClose(a) ==
    /\ Started(a) /\ proc[a] = "exited" /\ pending[a] = NoLine /\ ~scanDone[a]
    /\ scanDone' = [scanDone EXCEPT ![a] = TRUE]
    /\ UNCHANGED <<callerVars, clientVars, attempts, liveDirs, proc, killSent, pending,
                   stderrDone, waiter, drain, cancelled, cancelOf, printed, startErr, crashed>>

\* The drain receives lines until linesCh is closed (729-733).
DrainRecv(a) ==
    /\ drain[a] = "running" /\ pending[a] # NoLine
    /\ pending' = [pending EXCEPT ![a] = NoLine]
    /\ UNCHANGED <<callerVars, clientVars, attempts, liveDirs, proc, killSent, scanDone,
                   stderrDone, waiter, drain, cancelled, cancelOf, printed, startErr, crashed>>

DrainEnd(a) ==
    /\ drain[a] = "running" /\ scanDone[a]
    /\ drain' = [drain EXCEPT ![a] = "done"]
    /\ UNCHANGED <<callerVars, clientVars, attempts, liveDirs, proc, killSent, pending,
                   scanDone, stderrDone, waiter, cancelled, cancelOf, printed, startErr, crashed>>

\* The plugin prints its handshake line once; the scanner reads it and
\* blocks on the unbuffered linesCh until someone receives.
PluginPrint(a, L) ==
    /\ proc[a] = "running" /\ ~printed[a]
    /\ printed' = [printed EXCEPT ![a] = TRUE]
    /\ pending' = [pending EXCEPT ![a] = L]
    /\ UNCHANGED <<callerVars, clientVars, attempts, liveDirs, proc, killSent, scanDone,
                   stderrDone, waiter, drain, cancelled, cancelOf, startErr, crashed>>

\* The plugin exits: on its own, after Close, or after runner.Kill.
PluginExit(a) ==
    /\ proc[a] = "running"
    /\ proc' = [proc EXCEPT ![a] = "exited"]
    /\ UNCHANGED <<callerVars, clientVars, attempts, liveDirs, killSent, pending, scanDone,
                   stderrDone, waiter, drain, cancelled, cancelOf, printed, startErr, crashed>>

-----------------------------------------------------------------------------

CallerStep(h) ==
    /\ ~crashed
    /\ \/ StartCached(h) \/ StartRejected(h) \/ StartDirFailed(h)
       \/ StartRunnerFailed(h) \/ StartSpawned(h) \/ StartLaunch(h) \/ StartSelect(h)
       \/ ClientDial(h)
       \/ KillNothing(h) \/ KillBegin(h) \/ KillExitedGracefully(h)
       \/ KillGraceTimeout(h) \/ KillForce(h) \/ KillJoin(h) \/ KillClear(h)

GoroutineStep(a) ==
    /\ ~crashed
    /\ \/ StderrEOF(a) \/ WaiterBind(a) \/ WaiterWait(a) \/ WaiterReap(a)
       \/ WaiterExit(a) \/ WaiterCancel(a)
       \/ ScannerClose(a) \/ DrainRecv(a) \/ DrainEnd(a)

CallerDone(h) == pc[h] = "ready" /\ ip[h] > Len(Script[h])
AllDone == \A h \in Callers : CallerDone(h)

\* The host has returned from every call of its scripts, or a panic
\* escaped Start and ended the host process: nothing more happens.
Halted == (crashed \/ AllDone) /\ UNCHANGED vars

Next ==
    \/ \E h \in Callers : CallerStep(h)
    \/ \E a \in Attempts : GoroutineStep(a)
    \/ \E a \in Attempts, L \in Lines : PluginPrint(a, L)
    \/ \E a \in Attempts : PluginExit(a)
    \/ Halted

\* Callers and goroutines contend for c.m (sync.Mutex hands it over in
\* starvation mode), so they are strongly fair; a killed plugin exits.
\* The plugin is not obliged to print or to exit on its own.
Fairness ==
    /\ \A h \in Callers : SF_vars(CallerStep(h))
    /\ \A a \in Attempts : SF_vars(GoroutineStep(a))
    /\ \A a \in Attempts : WF_vars(PluginExit(a) /\ killSent[a])

Spec == Init /\ [][Next]_vars /\ Fairness

-----------------------------------------------------------------------------
(* Properties *)

\* Kill "blocks until the process successfully exits" (client.go:424): once a
\* Kill has joined the client goroutines, no plugin process this client ever
\* started, in this or an earlier Start attempt, is still running.
KillLeavesNoPlugin ==
    \A h \in Callers : pc[h] = "kill_clear" => \A a \in Attempts : proc[a] # "running"

\* Every Kill returns (client.go:427-501), whether or not the plugin honours
\* the graceful Close: the 2 s timer, runner.Kill and the goroutine joins
\* cannot wait on each other forever.
KillReturns ==
    \A h \in Callers : (pc[h] \in KillPCs) ~> (pc[h] = "ready" \/ crashed)

\* A Start that fails after launching the plugin (timeout, bad handshake,
\* panic) never leaves that plugin running: the deferred runner.Kill of
\* client.go:657-667 reaps it even when the caller never calls Kill.
FailedStartReaped ==
    \A a \in Attempts : (startErr[a] \in ErrorOutcomes) ~> (proc[a] # "running")

NoPluginOutlivesKill ==
    AllDone => \A a \in Attempts : proc[a] = "running" => killSent[a]

\* The "plugin exited before we could connect" case of Start's select
\* (client.go:742-745) can never fire: while Start waits for the handshake
\* holding c.m, the waiter, which takes c.m before its deferred ctxCancel
\* (700-703), cannot cancel that attempt's doneCtx.
ExitedCaseUnreachable ==
    \A h \in Callers : pc[h] = "start_select" => ~cancelled[runner]

\* The process waiter of every attempt (client.go:678-704) reaps its plugin
\* and cancels that attempt's doneCtx once the plugin has exited, whatever
\* later attempts do.
ExitedPluginReaped ==
    \A a \in Attempts : (proc[a] = "exited") ~> (waiter[a] = "done" \/ crashed)

-----------------------------------------------------------------------------
(* Refinement: the plugins this Client launched are the attempts whose     *)
(* runner.Start succeeded, the alive ones are those still running, and the *)
(* doomed ones are those it sent runner.Kill (a Kill of a runner whose    *)
(* Start failed reaches no plugin).                                        *)
Abstract == INSTANCE ClientAbstract
              WITH Ids      <- Attempts,
                   launched <- {a \in Attempts : proc[a] \in {"running", "exited"}},
                   alive    <- {a \in Attempts : proc[a] = "running"},
                   doomed   <- {a \in Attempts : killSent[a] /\ proc[a] \in {"running", "exited"}}

\* Start, Kill and the goroutines together implement ClientAbstract: no
\* plugin is launched after the address is known or while an earlier one is
\* neither dead nor killed, the address comes from an unkilled plugin and is
\* kept, and a killed plugin dies.
ImplementsAbstract == Abstract!Spec

\* A Client's doneCtx is cancelled only once the plugin of that attempt has
\* exited (spec 5: "canceled exactly once, when the underlying process is
\* observed to have exited"), although a waiter binds c.ctxCancel only when
\* it is scheduled, possibly after a retried Start replaced it (client.go:681).
ContextCancelledAfterExit == \A a \in Attempts : cancelled[a] => proc[a] = "exited"

=============================================================================
