----------------------------- MODULE Lifecycle -----------------------------
(***************************************************************************)
(* One process of flowstitch from its start to its exit, and its restart:  *)
(* src/cmd/flowstitch/main.go (run) and reload.go (Reload), with           *)
(*   - the loops of application/expire and application/deliver,            *)
(*   - the requests of adapters/httpapi, as far as they use the store,     *)
(*   - the store's mutex, WithTx and Close (adapters/state/pebble),        *)
(*   - the open-flow gauge of observability/metrics, which ingest and      *)
(*     finalize move INSIDE a transaction that may still fail.             *)
(* A configuration is a model value; a flow is one unit of a counter.      *)
(***************************************************************************)
EXTENDS Integers, FiniteSets

CONSTANTS
    File,        \* contents the configuration file may have
    Valid,       \* the contents config.Load and DomainRules accept
    Request,     \* HTTP requests that may be in flight at once
    SweepBatch,  \* expiryBatch of run
    MaxFlows,    \* bound: open flows in the store
    MaxDrift,    \* bound: what failed transactions leave the gauge off by
    Nobody       \* nobody holds the mutex, nothing is being loaded

ASSUME LifecycleAssumption ==
    /\ Valid \subseteq File
    /\ Nobody \notin File
    /\ Nobody \notin Request \cup {"expire", "deliver", "server"}
    /\ Request \cap {"expire", "deliver", "server"} = {}
    /\ SweepBatch \in Nat \ {0}
    /\ MaxFlows \in Nat
    /\ MaxDrift \in Nat

Loop == {"expire", "deliver"}
Component == Loop \cup {"server"}
Holder == Loop \cup Request
Part == {"registry", "passthrough", "loglevel", "alerts"}

VARIABLES
    main,     \* what the main goroutine does next
    file,     \* the configuration file
    told,     \* a SIGHUP was sent after the file's last edit (history)
    hup,      \* the hup channel (capacity 1) holds a signal
    nextConfig,     \* the configuration being loaded or published
    parts,    \* the configuration each reloadable part runs
    ctxDone,  \* the NotifyContext is cancelled
    comps,    \* what each goroutine does next
    requests, \* what each request does next
    held,     \* holder of the store's mutex
    staged,   \* open flows the holder's transaction adds
    flows,    \* open flows in the store
    flowsOpen, \* the FlowsOpen gauge
    failed,   \* a transaction that had moved the gauge has failed (history)
    isOpen,   \* the database is open
    grace,    \* the shutdown grace is over
    touched   \* who used the database after Close (history)

ctlVars == <<main, hup, nextConfig, parts, ctxDone, grace>>
envVars == <<file, told>>
useVars == <<comps, requests, held, staged>>
dataVars == <<flows, flowsOpen, failed, isOpen, touched>>
processVars == <<ctlVars, envVars, useVars, dataVars>>

Publishing == {"publish", "passthrough", "loglevel", "alerts"}
Serving == {"serve", "load"} \cup Publishing
Stopping == {"shutdown", "stop", "close", "exit"}
\* signal.Notify has been called and the process still runs.
Notified == {"sweep"} \cup Serving \cup Stopping
Main == {"down", "seed"} \cup Notified

ProcessInit ==
    /\ main = "down"
    /\ file \in Valid
    /\ told = FALSE
    /\ hup = FALSE
    /\ nextConfig = Nobody
    /\ parts = [p \in Part |-> Nobody]
    /\ ctxDone = FALSE
    /\ grace = FALSE
    /\ comps = [c \in Component |-> "off"]
    /\ requests = [r \in Request |-> "idle"]
    /\ held = Nobody
    /\ staged = 0
    /\ flows \in 0..MaxFlows
    /\ flowsOpen = 0
    /\ failed = FALSE
    /\ isOpen = FALSE
    /\ touched = {}
----------------------------------------------------------------------------
(* The world outside the process.                                          *)

\* An operator rewrites the configuration file.
Edit ==
    /\ \E f \in File \ {file} : file' = f
    /\ told' = FALSE
    /\ UNCHANGED <<ctlVars, useVars, dataVars>>

\* SIGHUP: a full channel drops the signal.
Hup ==
    /\ main \in Notified
    /\ hup' = TRUE
    /\ told' = TRUE
    /\ UNCHANGED <<main, nextConfig, parts, ctxDone, grace, file, useVars, dataVars>>

\* SIGINT or SIGTERM cancels the context of the loops.
Term ==
    /\ main \in Notified
    /\ ctxDone' = TRUE
    /\ UNCHANGED <<main, hup, nextConfig, parts, grace, envVars, useVars, dataVars>>

\* The process and everything in it is gone; only the committed flows stay.
Vanish ==
    /\ main' = "down"
    /\ told' = FALSE
    /\ hup' = FALSE
    /\ nextConfig' = Nobody
    /\ parts' = [p \in Part |-> Nobody]
    /\ ctxDone' = FALSE
    /\ grace' = FALSE
    /\ comps' = [c \in Component |-> "off"]
    /\ requests' = [r \in Request |-> "idle"]
    /\ held' = Nobody
    /\ staged' = 0
    /\ flowsOpen' = 0
    /\ failed' = FALSE
    /\ isOpen' = FALSE
    /\ touched' = {}
    /\ UNCHANGED <<file, flows>>

\* A crash, or any signal that arrives before Notify.
Kill ==
    /\ main # "down"
    /\ Vanish
----------------------------------------------------------------------------
(* run: start.                                                             *)

\* config.Load and DomainRules: an invalid file ends the process at once.
Start ==
    /\ main = "down"
    /\ file \in Valid
    /\ main' = "seed"
    /\ nextConfig' = file
    /\ UNCHANGED <<hup, parts, ctxDone, grace, envVars, useVars, dataVars>>

\* Faulty variant: the gauge starts at zero instead of the durable count.
SeedForgotten ==
    /\ main = "seed"
    /\ main' = "sweep"
    /\ isOpen' = TRUE
    /\ parts' = [p \in Part |-> nextConfig]
    /\ nextConfig' = Nobody
    /\ UNCHANGED <<hup, ctxDone, grace, envVars, useVars, flows, flowsOpen, failed, touched>>

\* The store is opened, the gauge seeded from it, every part built.
Seed ==
    /\ main = "seed"
    /\ main' = "sweep"
    /\ isOpen' = TRUE
    /\ flowsOpen' = flows
    /\ parts' = [p \in Part |-> nextConfig]
    /\ nextConfig' = Nobody
    /\ UNCHANGED <<hup, ctxDone, grace, envVars, useVars, flows, failed, touched>>

\* One startup sweep finalizes n due flows; a full batch asks for another.
StartupSweep ==
    /\ main = "sweep"
    /\ ~ctxDone
    /\ \E n \in 0..flows :
          /\ n <= SweepBatch
          /\ flows' = flows - n
          /\ flowsOpen' = flowsOpen - n
          /\ IF n < SweepBatch
             THEN main' = "serve" /\ comps' = [c \in Component |-> "idle"]
             ELSE UNCHANGED <<main, comps>>
    /\ UNCHANGED <<hup, nextConfig, parts, ctxDone, grace, envVars, requests, held,
                   staged, failed, isOpen, touched>>

\* The sweep's transaction fails after n flows, or its context is cancelled:
\* run returns and its deferred calls run.
StartupSweepFails ==
    /\ main = "sweep"
    /\ \E n \in 0..flows :
          /\ n <= SweepBatch
          /\ flowsOpen' = flowsOpen - n
          /\ flowsOpen' - flows >= -MaxDrift
          /\ failed' = (failed \/ n # 0)
    /\ main' = "stop"
    /\ UNCHANGED <<hup, nextConfig, parts, ctxDone, grace, envVars, useVars, flows,
                   isOpen, touched>>
----------------------------------------------------------------------------
(* run: the select loop, and Reload inside it.                             *)

\* case <-hup
TakeHup ==
    /\ main = "serve"
    /\ hup
    /\ hup' = FALSE
    /\ main' = "load"
    /\ UNCHANGED <<nextConfig, parts, ctxDone, grace, envVars, useVars, dataVars>>

\* Reload reads and validates the file; a failure leaves everything as it was.
LoadFile ==
    /\ main = "load"
    /\ main' = IF file \in Valid THEN "publish" ELSE "serve"
    /\ nextConfig' = IF file \in Valid THEN file ELSE Nobody
    /\ UNCHANGED <<hup, parts, ctxDone, grace, envVars, useVars, dataVars>>

\* Faulty variant: signals that came during the reload are drained.
ReconfigureDraining(pc, part, then) ==
    /\ main = pc
    /\ parts' = [parts EXCEPT ![part] = nextConfig]
    /\ main' = then
    /\ nextConfig' = IF then = "serve" THEN Nobody ELSE nextConfig
    /\ hup' = IF then = "serve" THEN FALSE ELSE hup
    /\ UNCHANGED <<ctxDone, grace, envVars, useVars, dataVars>>

\* One part takes the new configuration and the next statement follows.
Adopt(pc, part, then) ==
    /\ main = pc
    /\ parts' = [parts EXCEPT ![part] = nextConfig]
    /\ main' = then
    /\ nextConfig' = IF then = "serve" THEN Nobody ELSE nextConfig
    /\ UNCHANGED <<hup, ctxDone, grace, envVars, useVars, dataVars>>

\* Faulty variant: an early return after the rules are published.
PublishRulesOnly == Adopt("publish", "registry", "serve")

PublishRules == Adopt("publish", "registry", "passthrough")
ReconfigurePassthrough == Adopt("passthrough", "passthrough", "loglevel")
SetLogLevel == Adopt("loglevel", "loglevel", "alerts")
ReconfigureAlerts == Adopt("alerts", "alerts", "serve")

\* Faulty variant: the end of a goroutine is not waited for.
StopServingOnSignal ==
    /\ main = "serve"
    /\ ctxDone
    /\ main' = "shutdown"
    /\ UNCHANGED <<hup, nextConfig, parts, ctxDone, grace, envVars, useVars, dataVars>>

\* case <-ctx.Done, or a goroutine's result in errs: Shutdown is called.
StopServing ==
    /\ main = "serve"
    /\ ctxDone \/ \E c \in Component : comps[c] = "ended"
    /\ main' = "shutdown"
    /\ UNCHANGED <<hup, nextConfig, parts, ctxDone, grace, envVars, useVars, dataVars>>
----------------------------------------------------------------------------
(* run: Shutdown and the deferred calls, last first.                       *)

\* The timer of shutdownCtx.
GraceOver ==
    /\ main = "shutdown"
    /\ ~grace
    /\ grace' = TRUE
    /\ UNCHANGED <<main, hup, nextConfig, parts, ctxDone, envVars, useVars, dataVars>>

\* server.Shutdown returns: every request has answered, or the grace is over.
ShutdownReturns ==
    /\ main = "shutdown"
    /\ grace \/ \A r \in Request : requests[r] = "idle"
    /\ main' = "stop"
    /\ UNCHANGED <<hup, nextConfig, parts, ctxDone, grace, envVars, useVars, dataVars>>

\* Faulty variant: the context is cancelled only after the store is closed.
StopLate ==
    /\ main = "stop"
    /\ main' = "close"
    /\ UNCHANGED <<hup, nextConfig, parts, ctxDone, grace, envVars, useVars, dataVars>>

\* defer stop(): the loops' context is cancelled.
Stop ==
    /\ main = "stop"
    /\ ctxDone' = TRUE
    /\ main' = "close"
    /\ UNCHANGED <<hup, nextConfig, parts, grace, envVars, useVars, dataVars>>

\* defer store.Close(): waits for the mutex, flushes and closes.
Close ==
    /\ main = "close"
    /\ held = Nobody
    /\ isOpen' = FALSE
    /\ main' = "exit"
    /\ UNCHANGED <<hup, nextConfig, parts, ctxDone, grace, envVars, useVars, flows,
                   flowsOpen, failed, touched>>

\* run returns and the goroutines that are left die with the process.
Exit ==
    /\ main = "exit"
    /\ Vanish
----------------------------------------------------------------------------
(* The loops.  Every use they make of the store is a WithTx of their ctx.  *)

\* A ticker or a ready signal: Sweep or Drain begins.
Tick(c) ==
    /\ c \in Loop
    /\ comps[c] = "idle"
    /\ comps' = [comps EXCEPT ![c] = "want"]
    /\ UNCHANGED <<ctlVars, envVars, requests, held, staged, dataVars>>

\* case <-ctx.Done
LoopDone(c) ==
    /\ c \in Loop
    /\ comps[c] = "idle"
    /\ ctxDone
    /\ comps' = [comps EXCEPT ![c] = "ended"]
    /\ UNCHANGED <<ctlVars, envVars, requests, held, staged, dataVars>>

\* WithTx: the mutex, then the context, then the database.
LoopTx(c) ==
    /\ c \in Loop
    /\ comps[c] = "want"
    /\ held = Nobody
    /\ IF ctxDone
       THEN /\ comps' = [comps EXCEPT ![c] = "ended"]
            /\ UNCHANGED <<held, touched>>
       ELSE /\ comps' = [comps EXCEPT ![c] = "tx"]
            /\ held' = c
            /\ touched' = IF isOpen THEN touched ELSE touched \cup {c}
    /\ UNCHANGED <<ctlVars, envVars, requests, staged, flows, flowsOpen, failed, isOpen>>

\* The sweep finalizes one more flow in its transaction: FlowFinalized.
SweepOne ==
    /\ held = "expire"
    /\ flows + staged > 0
    /\ staged > -SweepBatch
    /\ staged' = staged - 1
    /\ flowsOpen' = flowsOpen - 1
    /\ UNCHANGED <<ctlVars, envVars, comps, requests, held, flows, failed, isOpen, touched>>

\* The transaction commits; Drain goes on to its next one, is done, or ends
\* the loop with an error of its own (the DLQ capture, the pass-through sink).
LoopCommits(c) ==
    /\ c \in Loop
    /\ held = c
    /\ \E s \in IF c = "deliver" THEN {"idle", "want", "ended"} ELSE {"idle"} :
          comps' = [comps EXCEPT ![c] = s]
    /\ flows' = flows + staged
    /\ held' = Nobody
    /\ staged' = 0
    /\ UNCHANGED <<ctlVars, envVars, requests, flowsOpen, failed, isOpen, touched>>

\* The transaction fails: the loop returns its error, the gauge stays moved.
LoopFails(c) ==
    /\ c \in Loop
    /\ held = c
    /\ flowsOpen - flows >= -MaxDrift
    /\ failed' = (failed \/ staged # 0)
    /\ comps' = [comps EXCEPT ![c] = "ended"]
    /\ held' = Nobody
    /\ staged' = 0
    /\ UNCHANGED <<ctlVars, envVars, requests, flows, flowsOpen, isOpen, touched>>

\* The listener fails: ListenAndServe returns an error.
ServerFails ==
    /\ main \in Serving
    /\ comps["server"] = "idle"
    /\ comps' = [comps EXCEPT !["server"] = "ended"]
    /\ UNCHANGED <<ctlVars, envVars, requests, held, staged, dataVars>>
----------------------------------------------------------------------------
(* Requests.  Their context is their own, so shutdown does not cancel it.  *)

\* A request arrives; once Shutdown was called none does.
Receive(r) ==
    /\ main \in Serving
    /\ requests[r] = "idle"
    /\ requests' = [requests EXCEPT ![r] = "capacity"]
    /\ UNCHANGED <<ctlVars, envVars, comps, held, staged, dataVars>>

\* AcceptingEvents scans the flows under the mutex; on a closed database the
\* handler panics and net/http ends the request.
CheckCapacity(r) ==
    /\ requests[r] = "capacity"
    /\ held = Nobody
    /\ \E s \in IF isOpen THEN {"want", "idle"} ELSE {"idle"} :
          requests' = [requests EXCEPT ![r] = s]
    /\ touched' = IF isOpen THEN touched ELSE touched \cup {r}
    /\ UNCHANGED <<ctlVars, envVars, comps, held, staged, flows, flowsOpen, failed, isOpen>>

\* WithTx of Accept.
RequestTx(r) ==
    /\ requests[r] = "want"
    /\ held = Nobody
    /\ IF isOpen
       THEN /\ held' = r
            /\ requests' = [requests EXCEPT ![r] = "tx"]
            /\ UNCHANGED touched
       ELSE /\ requests' = [requests EXCEPT ![r] = "idle"]
            /\ touched' = touched \cup {r}
            /\ UNCHANGED held
    /\ UNCHANGED <<ctlVars, envVars, comps, staged, flows, flowsOpen, failed, isOpen>>

\* The event has no flow: one is opened and FlowOpened counts it.
OpenFlow(r) ==
    /\ requests[r] = "tx"
    /\ flows < MaxFlows
    /\ requests' = [requests EXCEPT ![r] = "opened"]
    /\ staged' = staged + 1
    /\ flowsOpen' = flowsOpen + 1
    /\ UNCHANGED <<ctlVars, envVars, comps, held, flows, failed, isOpen, touched>>

\* The event completes a flow, old or just opened: FlowFinalized counts it.
FinalizeFlow(r) ==
    /\ requests[r] \in {"tx", "opened"}
    /\ flows + staged > 0
    /\ requests' = [requests EXCEPT ![r] = "closed"]
    /\ staged' = staged - 1
    /\ flowsOpen' = flowsOpen - 1
    /\ UNCHANGED <<ctlVars, envVars, comps, held, flows, failed, isOpen, touched>>

InTx(r) == requests[r] \in {"tx", "opened", "closed"}

\* The batch commits and the request is answered 202.
RequestCommits(r) ==
    /\ InTx(r)
    /\ flows' = flows + staged
    /\ requests' = [requests EXCEPT ![r] = "idle"]
    /\ held' = Nobody
    /\ staged' = 0
    /\ UNCHANGED <<ctlVars, envVars, comps, flowsOpen, failed, isOpen, touched>>

\* Projection, write or commit fails, or the client is gone: 503.
RequestFails(r) ==
    /\ InTx(r)
    /\ flowsOpen - flows \in -MaxDrift..MaxDrift
    /\ failed' = (failed \/ staged # 0)
    /\ requests' = [requests EXCEPT ![r] = "idle"]
    /\ held' = Nobody
    /\ staged' = 0
    /\ UNCHANGED <<ctlVars, envVars, comps, flows, flowsOpen, isOpen, touched>>
----------------------------------------------------------------------------
Reload == LoadFile \/ PublishRules \/ ReconfigurePassthrough \/ SetLogLevel \/ ReconfigureAlerts
LoopStep(c) == Tick(c) \/ LoopDone(c) \/ LoopTx(c) \/ LoopCommits(c) \/ LoopFails(c)
RequestStep(r) ==
    \/ CheckCapacity(r) \/ RequestTx(r) \/ OpenFlow(r) \/ FinalizeFlow(r)
    \/ RequestCommits(r) \/ RequestFails(r)

ProcessNext ==
    \/ Edit \/ Hup \/ Term \/ Kill
    \/ Start \/ Seed \/ StartupSweep \/ StartupSweepFails
    \/ TakeHup \/ Reload \/ StopServing
    \/ GraceOver \/ ShutdownReturns \/ Stop \/ Close \/ Exit
    \/ SweepOne \/ ServerFails
    \/ \E c \in Loop : LoopStep(c)
    \/ \E r \in Request : Receive(r) \/ RequestStep(r)

ProcessSpec == ProcessInit /\ [][ProcessNext]_processVars

\* The statements of the main goroutine that wait for nothing, and the end of
\* whichever transaction holds the mutex.
MainStep == Seed \/ StartupSweep \/ StartupSweepFails \/ Reload \/ ShutdownReturns \/ Stop \/ Exit
TxEnds ==
    \/ \E c \in Loop : LoopCommits(c) \/ LoopFails(c)
    \/ \E r \in Request : RequestCommits(r) \/ RequestFails(r)

\* The main goroutine is always scheduled; select is a random choice among the
\* ready cases, so a case that is ready again and again is taken; the grace
\* timer fires; a transaction that runs commits or fails, and Go's mutex lets
\* nobody starve.
ProcessFairness ==
    /\ WF_processVars(MainStep) /\ SF_processVars(StopServing)
    /\ WF_processVars(GraceOver) /\ SF_processVars(Close)
    /\ WF_processVars(TxEnds)

FairProcessSpec == ProcessSpec /\ ProcessFairness
----------------------------------------------------------------------------
\* Types, and the mutex: a holder is inside its transaction.
ProcessTypes ==
    /\ main \in Main
    /\ file \in File
    /\ told \in BOOLEAN /\ hup \in BOOLEAN /\ ctxDone \in BOOLEAN
    /\ grace \in BOOLEAN /\ isOpen \in BOOLEAN
    /\ nextConfig \in Valid \cup {Nobody}
    /\ parts \in [Part -> Valid \cup {Nobody}]
    /\ comps \in [Component -> {"off", "idle", "want", "tx", "ended"}]
    /\ requests \in [Request -> {"idle", "capacity", "want", "tx", "opened", "closed"}]
    /\ held \in Holder \cup {Nobody}
    /\ staged \in Int /\ flows \in Nat /\ flowsOpen \in Int /\ failed \in BOOLEAN
    /\ touched \subseteq Holder

\* From the start on, and as long as no transaction fails after it has counted a
\* flow, the open-flow gauge is the number of open flows in the store, plus what
\* the running transaction has counted: seeding, sweeps, requests and loops count
\* every flow once.  FlowOpened and FlowFinalized are called before the commit
\* (ingest/service.go:161, finalize.go:39), so from the first such failure to
\* the restart the gauge is off, although its help text says "Flows currently
\* waiting for more events" (metrics.go:63).
GaugeExact ==
    main \in Notified /\ ~failed => flowsOpen = flows + staged

\* main.go:175 and 104: the deferred stop() runs before store.Close(), and
\* WithTx looks at the context under the mutex, so no loop ever uses the
\* closed database although nobody waits for the loops; only a request that
\* outlived the shutdown grace can, and it is never in a transaction when the
\* database closes.
OnlyLateRequestsTouchClosed ==
    /\ touched \subseteq Request
    /\ touched # {} => grace
    /\ held # Nobody => isOpen

\* reload.go:28: a SIGHUP sent after the last edit is never lost, although the
\* channel holds one signal and reloads take several steps: the file's content
\* is in force, or on its way, or was refused.
SignalNotLost ==
    told /\ main \in Serving /\ file \in Valid =>
        \/ hup
        \/ main = "load"
        \/ main \in Publishing /\ nextConfig = file
        \/ \A p \in Part : parts[p] = file

\* reload.go:49-61: outside the four reload statements, all parts run one and
\* the same valid configuration, whatever failed before; inside them each part
\* runs the old one or the one being published.
NoMixedConfiguration ==
    main \in Notified =>
        \E c \in Valid :
            \A p \in Part : parts[p] = c \/ (main \in Publishing /\ parts[p] = nextConfig)

\* main.go:202-221: a termination signal, or the end of any of the three
\* goroutines, ends the process, past running reloads, requests and loops.
Stops ==
    (ctxDone \/ \E c \in Component : comps[c] = "ended") ~> (main = "down")
=============================================================================
