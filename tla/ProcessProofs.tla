---------------------------- MODULE ProcessProofs ----------------------------
(***************************************************************************)
(* Proofs about the process: from its start through reloads to its exit,   *)
(* for any configurations, any number of requests and any bounds, and what *)
(* it keeps in memory only, the pass-through buffer, for every set of      *)
(* settings and any number of records.                                     *)
(*   - The process (Lifecycle).  The inductive invariant ProcessInv adds   *)
(*     to the checked properties what makes them hold: who holds the mutex *)
(*     is in its transaction (Mutex), what each phase of run has already   *)
(*     done (Phases) and how far a reload has come (ReloadProgress).       *)
(*   - The buffer (Passthrough).  The batch the loop works on is the head  *)
(*     of the buffer until it is resolved, because an Accept appends and a *)
(*     reload leaves the records alone; a record that OpenSearch has       *)
(*     indexed and that is still in the buffer was either indexed by an    *)
(*     attempt nobody acknowledged or is about to be removed (BufferInv).  *)
(***************************************************************************)
EXTENDS Passthrough, Lifecycle, TLAPS

\* The holder of the mutex is the one actor inside a transaction, nothing is
\* staged without a holder, and a transaction never closes more flows than
\* there are (store.go:55-74).
Mutex ==
    /\ \A c \in Loop : comps[c] = "tx" <=> held = c
    /\ \A r \in Request : requests[r] \in {"tx", "opened", "closed"} <=> held = r
    /\ held = Nobody => staged = 0
    /\ flows + staged >= 0

\* What run has done by the time it reaches each phase (main.go:66-221).
Phases ==
    /\ main \in {"down", "seed", "sweep"} =>
          /\ \A c \in Component : comps[c] = "off"
          /\ \A r \in Request : requests[r] = "idle"
          /\ held = Nobody
    /\ main \in {"down", "seed"} => ~failed /\ ~told /\ touched = {}
    /\ main = "seed" => nextConfig \in Valid
    /\ main = "sweep" /\ told => hup
    /\ main \in Notified \ {"exit"} => isOpen
    /\ main \in {"close", "exit"} => ctxDone
    /\ main \in {"stop", "close", "exit"} =>
          grace \/ \A r \in Request : requests[r] = "idle"

\* The statements of Reload already executed, and that a signal sent since the
\* file was read is still in the channel (reload.go:29-61).
ReloadProgress ==
    /\ main \in Publishing => nextConfig \in Valid
    /\ main \in Publishing /\ told => hup \/ nextConfig = file
    /\ main \in {"passthrough", "loglevel", "alerts"} => parts["registry"] = nextConfig
    /\ main \in {"loglevel", "alerts"} => parts["passthrough"] = nextConfig
    /\ main = "alerts" => parts["loglevel"] = nextConfig

\* ProcessTypes, in the parts the steps below prove one by one.
Flags ==
    /\ told \in BOOLEAN /\ hup \in BOOLEAN /\ ctxDone \in BOOLEAN
    /\ grace \in BOOLEAN /\ isOpen \in BOOLEAN /\ failed \in BOOLEAN
Control ==
    /\ main \in Main
    /\ file \in File
    /\ nextConfig \in Valid \cup {Nobody}
    /\ parts \in [Part -> Valid \cup {Nobody}]
Actors ==
    /\ comps \in [Component -> {"off", "idle", "want", "tx", "ended"}]
    /\ requests \in [Request -> {"idle", "capacity", "want", "tx", "opened", "closed"}]
    /\ held \in Holder \cup {Nobody}
    /\ touched \subseteq Holder
Counters == staged \in Int /\ flows \in Nat /\ flowsOpen \in Int

ProcessInv ==
    /\ ProcessTypes
    /\ Mutex
    /\ Phases
    /\ ReloadProgress
    /\ GaugeExact
    /\ OnlyLateRequestsTouchClosed
    /\ NoMixedConfiguration
    /\ SignalNotLost

\* Every step keeps the flags Boolean.
LEMMA FlagsStep ==
    ASSUME Flags, [ProcessNext]_processVars
    PROVE  Flags'
<1> USE LifecycleAssumption DEF ctlVars, envVars, useVars, dataVars, Flags
<1>1. CASE Edit \/ Hup \/ Term \/ Kill
  BY <1>1, Zenon DEF Edit, Hup, Term, Kill, Vanish
<1>2. CASE Start \/ Seed
  BY <1>2, Zenon DEF Start, Seed
<1>3. CASE StartupSweep \/ StartupSweepFails
  BY Zenon, <1>3 DEF StartupSweep, StartupSweepFails
<1>4. CASE TakeHup \/ StopServing
  BY <1>4, Zenon DEF TakeHup, StopServing
<1>5. CASE Reload
  BY Zenon, <1>5 DEF Reload, LoadFile, PublishRules, ReconfigurePassthrough, SetLogLevel,
        ReconfigureAlerts, Adopt
<1>6. CASE GraceOver \/ ShutdownReturns \/ Stop
  BY <1>6, Zenon DEF GraceOver, ShutdownReturns, Stop
<1>7. CASE Close \/ Exit
  BY <1>7, Zenon DEF Close, Exit, Vanish
<1>8. CASE SweepOne \/ ServerFails
  BY Zenon, <1>8 DEF SweepOne, ServerFails
<1>9. ASSUME NEW c \in Loop, Tick(c) \/ LoopDone(c) \/ LoopTx(c) PROVE Flags'
  BY Zenon, <1>9 DEF Tick, LoopDone, LoopTx
<1>10. ASSUME NEW c \in Loop, LoopCommits(c) \/ LoopFails(c) PROVE Flags'
  BY Zenon, <1>10 DEF LoopCommits, LoopFails
<1>11. ASSUME NEW r \in Request, Receive(r) \/ CheckCapacity(r) \/ RequestTx(r) PROVE Flags'
  BY Zenon, <1>11 DEF Receive, CheckCapacity, RequestTx
<1>12. ASSUME NEW r \in Request, OpenFlow(r) \/ FinalizeFlow(r) PROVE Flags'
  BY Zenon, <1>12 DEF OpenFlow, FinalizeFlow, InTx
<1>13. ASSUME NEW r \in Request, RequestCommits(r) \/ RequestFails(r) PROVE Flags'
  BY Zenon, <1>13 DEF RequestCommits, RequestFails, InTx
<1>14. CASE UNCHANGED processVars
  BY Zenon, <1>14 DEF processVars, envVars
<1> QED
  BY Zenon, <1>1, <1>2, <1>3, <1>4, <1>5, <1>6, <1>7, <1>8, <1>9, <1>10,
     <1>11, <1>12, <1>13, <1>14 DEF ProcessNext, LoopStep, RequestStep

\* Every step keeps the types of the main goroutine's variables.
LEMMA ControlStep ==
    ASSUME Control, [ProcessNext]_processVars
    PROVE  Control'
<1> USE LifecycleAssumption DEF ctlVars, envVars, useVars, dataVars, Control, Main, Notified,
        Serving, Stopping, Publishing, Part
<1>1. CASE Edit \/ Hup \/ Term \/ Kill
  BY Zenon, <1>1 DEF Edit, Hup, Term, Kill, Vanish
<1>2. CASE Start \/ Seed
  BY Zenon, <1>2 DEF Start, Seed
<1>3. CASE StartupSweep \/ StartupSweepFails
  BY Zenon, <1>3 DEF StartupSweep, StartupSweepFails
<1>4. CASE TakeHup \/ StopServing
  BY Zenon, <1>4 DEF TakeHup, StopServing
<1>5. CASE Reload
  BY <1>5 DEF Reload, LoadFile, PublishRules, ReconfigurePassthrough, SetLogLevel,
        ReconfigureAlerts, Adopt
<1>6. CASE GraceOver \/ ShutdownReturns \/ Stop
  BY Zenon, <1>6 DEF GraceOver, ShutdownReturns, Stop
<1>7. CASE Close \/ Exit
  BY Zenon, <1>7 DEF Close, Exit, Vanish
<1>8. CASE SweepOne \/ ServerFails
  BY Zenon, <1>8 DEF SweepOne, ServerFails
<1>9. ASSUME NEW c \in Loop, Tick(c) \/ LoopDone(c) \/ LoopTx(c) PROVE Control'
  BY Zenon, <1>9 DEF Tick, LoopDone, LoopTx
<1>10. ASSUME NEW c \in Loop, LoopCommits(c) \/ LoopFails(c) PROVE Control'
  BY Zenon, <1>10 DEF LoopCommits, LoopFails
<1>11. ASSUME NEW r \in Request, Receive(r) \/ CheckCapacity(r) \/ RequestTx(r) PROVE Control'
  BY Zenon, <1>11 DEF Receive, CheckCapacity, RequestTx
<1>12. ASSUME NEW r \in Request, OpenFlow(r) \/ FinalizeFlow(r) PROVE Control'
  BY Zenon, <1>12 DEF OpenFlow, FinalizeFlow, InTx
<1>13. ASSUME NEW r \in Request, RequestCommits(r) \/ RequestFails(r) PROVE Control'
  BY Zenon, <1>13 DEF RequestCommits, RequestFails, InTx
<1>14. CASE UNCHANGED processVars
  BY Zenon, <1>14 DEF processVars, envVars
<1> QED
  BY Zenon, <1>1, <1>2, <1>3, <1>4, <1>5, <1>6, <1>7, <1>8, <1>9, <1>10,
     <1>11, <1>12, <1>13, <1>14 DEF ProcessNext, LoopStep, RequestStep

\* Every step keeps the types of the actors' variables.
LEMMA ActorsStep ==
    ASSUME Actors, [ProcessNext]_processVars
    PROVE  Actors'
<1> USE LifecycleAssumption DEF ctlVars, envVars, useVars, dataVars, Actors, Component, Loop, Holder
<1>1. CASE Edit \/ Hup \/ Term \/ Kill
  BY <1>1, ZenonT(60) DEF Edit, Hup, Term, Kill, Vanish
<1>2. CASE Start \/ Seed
  BY <1>2, Zenon DEF Start, Seed
<1>3. CASE StartupSweep \/ StartupSweepFails
  BY <1>3, Zenon DEF StartupSweep, StartupSweepFails
<1>4. CASE TakeHup \/ StopServing
  BY <1>4, Zenon DEF TakeHup, StopServing
<1>5. CASE Reload
  BY <1>5, Zenon DEF Reload, LoadFile, PublishRules, ReconfigurePassthrough, SetLogLevel,
        ReconfigureAlerts, Adopt
<1>6. CASE GraceOver \/ ShutdownReturns \/ Stop
  BY <1>6, Zenon DEF GraceOver, ShutdownReturns, Stop
<1>7. CASE Close \/ Exit
  BY <1>7, ZenonT(60) DEF Close, Exit, Vanish
<1>8. CASE SweepOne \/ ServerFails
  BY <1>8, Zenon DEF SweepOne, ServerFails
<1>9. ASSUME NEW c \in Loop, Tick(c) \/ LoopDone(c) \/ LoopTx(c) PROVE Actors'
  BY <1>9, Zenon DEF Tick, LoopDone, LoopTx
<1>10. ASSUME NEW c \in Loop, LoopCommits(c) \/ LoopFails(c) PROVE Actors'
  BY <1>10, Zenon DEF LoopCommits, LoopFails
<1>11. ASSUME NEW r \in Request, Receive(r) \/ CheckCapacity(r) \/ RequestTx(r) PROVE Actors'
  BY <1>11, Zenon DEF Receive, CheckCapacity, RequestTx
<1>12. ASSUME NEW r \in Request, OpenFlow(r) \/ FinalizeFlow(r) PROVE Actors'
  BY <1>12, Zenon DEF OpenFlow, FinalizeFlow, InTx
<1>13. ASSUME NEW r \in Request, RequestCommits(r) \/ RequestFails(r) PROVE Actors'
  BY <1>13, Zenon DEF RequestCommits, RequestFails, InTx
<1>14. CASE UNCHANGED processVars
  BY Zenon, <1>14 DEF processVars, envVars
<1> QED
  BY Zenon, <1>1, <1>2, <1>3, <1>4, <1>5, <1>6, <1>7, <1>8, <1>9, <1>10,
     <1>11, <1>12, <1>13, <1>14 DEF ProcessNext, LoopStep, RequestStep

\* Every step keeps the counters integers and the open flows natural.
LEMMA CountsStep ==
    ASSUME Counters, Mutex, [ProcessNext]_processVars
    PROVE  Counters'
<1> USE LifecycleAssumption DEF ctlVars, envVars, useVars, dataVars, Counters, Mutex
<1>1. CASE Edit \/ Hup \/ Term \/ Kill
  BY <1>1 DEF Edit, Hup, Term, Kill, Vanish
<1>2. CASE Start \/ Seed
  BY <1>2 DEF Start, Seed
<1>3. CASE StartupSweep \/ StartupSweepFails
  BY <1>3 DEF StartupSweep, StartupSweepFails
<1>4. CASE TakeHup \/ StopServing
  BY Zenon, <1>4 DEF TakeHup, StopServing
<1>5. CASE Reload
  BY Zenon, <1>5 DEF Reload, LoadFile, PublishRules, ReconfigurePassthrough, SetLogLevel,
        ReconfigureAlerts, Adopt
<1>6. CASE GraceOver \/ ShutdownReturns \/ Stop
  BY Zenon, <1>6 DEF GraceOver, ShutdownReturns, Stop
<1>7. CASE Close \/ Exit
  BY <1>7 DEF Close, Exit, Vanish
<1>8. CASE SweepOne \/ ServerFails
  BY <1>8 DEF SweepOne, ServerFails
<1>9. ASSUME NEW c \in Loop, Tick(c) \/ LoopDone(c) \/ LoopTx(c) PROVE Counters'
  BY Zenon, <1>9 DEF Tick, LoopDone, LoopTx
<1>10. ASSUME NEW c \in Loop, LoopCommits(c) \/ LoopFails(c) PROVE Counters'
  BY <1>10 DEF LoopCommits, LoopFails
<1>11. ASSUME NEW r \in Request, Receive(r) \/ CheckCapacity(r) \/ RequestTx(r) PROVE Counters'
  BY Zenon, <1>11 DEF Receive, CheckCapacity, RequestTx
<1>12. ASSUME NEW r \in Request, OpenFlow(r) \/ FinalizeFlow(r) PROVE Counters'
  BY <1>12 DEF OpenFlow, FinalizeFlow, InTx
<1>13. ASSUME NEW r \in Request, RequestCommits(r) \/ RequestFails(r) PROVE Counters'
  BY <1>13 DEF RequestCommits, RequestFails, InTx
<1>14. CASE UNCHANGED processVars
  BY Zenon, <1>14 DEF processVars, envVars
<1> QED
  BY Zenon, <1>1, <1>2, <1>3, <1>4, <1>5, <1>6, <1>7, <1>8, <1>9, <1>10,
     <1>11, <1>12, <1>13, <1>14 DEF ProcessNext, LoopStep, RequestStep

\* Every step keeps the types.
LEMMA ProcessTypeStep ==
    ASSUME ProcessTypes, Mutex, [ProcessNext]_processVars
    PROVE  ProcessTypes'
<1>1. Flags /\ Control /\ Actors /\ Counters
  BY Zenon DEF ProcessTypes, Flags, Control, Actors, Counters
<1>2. Flags' /\ Control' /\ Actors' /\ Counters'
  BY <1>1, FlagsStep, ControlStep, ActorsStep, CountsStep, Zenon
<1> QED
  BY Zenon, <1>2 DEF ProcessTypes, Flags, Control, Actors, Counters

\* Every step keeps the mutex discipline.
LEMMA MutexStep ==
    ASSUME ProcessTypes, Mutex, Phases, [ProcessNext]_processVars
    PROVE  Mutex'
<1> USE LifecycleAssumption DEF ctlVars, envVars, useVars, dataVars, ProcessTypes, Mutex,
        Phases, Loop, Component, Main, Notified, Serving, Stopping, Publishing
<1>1. CASE Edit \/ Hup \/ Term \/ Kill
  BY <1>1 DEF Edit, Hup, Term, Kill, Vanish
<1>2. CASE Start \/ Seed
  BY Zenon, <1>2 DEF Start, Seed
<1>3. CASE StartupSweep \/ StartupSweepFails
  BY <1>3 DEF StartupSweep, StartupSweepFails
<1>4. CASE TakeHup \/ StopServing
  BY Zenon, <1>4 DEF TakeHup, StopServing
<1>5. CASE Reload
  BY Zenon, <1>5 DEF Reload, LoadFile, PublishRules, ReconfigurePassthrough, SetLogLevel,
        ReconfigureAlerts, Adopt
<1>6. CASE GraceOver \/ ShutdownReturns \/ Stop
  BY Zenon, <1>6 DEF GraceOver, ShutdownReturns, Stop
<1>7. CASE Close \/ Exit
  BY <1>7 DEF Close, Exit, Vanish
<1>8. CASE SweepOne \/ ServerFails
  BY <1>8 DEF SweepOne, ServerFails
<1>9. ASSUME NEW c \in Loop, Tick(c) \/ LoopDone(c) \/ LoopTx(c) PROVE Mutex'
  BY <1>9 DEF Tick, LoopDone, LoopTx
<1>10. ASSUME NEW c \in Loop, LoopCommits(c) \/ LoopFails(c) PROVE Mutex'
  BY <1>10 DEF LoopCommits, LoopFails
<1>11. ASSUME NEW r \in Request, Receive(r) \/ CheckCapacity(r) \/ RequestTx(r) PROVE Mutex'
  BY <1>11 DEF Receive, CheckCapacity, RequestTx
<1>12. ASSUME NEW r \in Request, OpenFlow(r) \/ FinalizeFlow(r) PROVE Mutex'
  BY <1>12 DEF OpenFlow, FinalizeFlow, InTx
<1>13. ASSUME NEW r \in Request, RequestCommits(r) \/ RequestFails(r) PROVE Mutex'
  BY <1>13 DEF RequestCommits, RequestFails, InTx
<1>14. CASE UNCHANGED processVars
  BY Zenon, <1>14 DEF processVars, envVars
<1> QED
  BY Zenon, <1>1, <1>2, <1>3, <1>4, <1>5, <1>6, <1>7, <1>8, <1>9, <1>10,
     <1>11, <1>12, <1>13, <1>14 DEF ProcessNext, LoopStep, RequestStep

\* Every step keeps what the phases promise.
LEMMA PhasesStep ==
    ASSUME ProcessTypes, Mutex, Phases, [ProcessNext]_processVars
    PROVE  Phases'
<1> USE LifecycleAssumption DEF ctlVars, envVars, useVars, dataVars, ProcessTypes, Mutex,
        Phases, Loop, Component, Main, Notified, Serving, Stopping, Publishing
<1>1. CASE Edit \/ Hup \/ Term \/ Kill
  BY <1>1 DEF Edit, Hup, Term, Kill, Vanish
<1>2. CASE Start \/ Seed
  BY <1>2 DEF Start, Seed
<1>3. CASE StartupSweep \/ StartupSweepFails
  BY <1>3 DEF StartupSweep, StartupSweepFails
<1>4. CASE TakeHup \/ StopServing
  BY Zenon, <1>4 DEF TakeHup, StopServing
<1>5. CASE Reload
  BY Zenon, <1>5 DEF Reload, LoadFile, PublishRules, ReconfigurePassthrough, SetLogLevel,
        ReconfigureAlerts, Adopt
<1>6. CASE GraceOver \/ ShutdownReturns \/ Stop
  BY Zenon, <1>6 DEF GraceOver, ShutdownReturns, Stop
<1>7. CASE Close \/ Exit
  BY Zenon, <1>7 DEF Close, Exit, Vanish
<1>8. CASE SweepOne \/ ServerFails
  BY Zenon, <1>8 DEF SweepOne, ServerFails
<1>9. ASSUME NEW c \in Loop, Tick(c) \/ LoopDone(c) \/ LoopTx(c) PROVE Phases'
  BY Zenon, <1>9 DEF Tick, LoopDone, LoopTx
<1>10. ASSUME NEW c \in Loop, LoopCommits(c) \/ LoopFails(c) PROVE Phases'
  BY Zenon, <1>10 DEF LoopCommits, LoopFails
<1>11. ASSUME NEW r \in Request, Receive(r) \/ CheckCapacity(r) \/ RequestTx(r) PROVE Phases'
  BY Zenon, <1>11 DEF Receive, CheckCapacity, RequestTx
<1>12. ASSUME NEW r \in Request, OpenFlow(r) \/ FinalizeFlow(r) PROVE Phases'
  BY Zenon, <1>12 DEF OpenFlow, FinalizeFlow, InTx
<1>13. ASSUME NEW r \in Request, RequestCommits(r) \/ RequestFails(r) PROVE Phases'
  BY Zenon, <1>13 DEF RequestCommits, RequestFails, InTx
<1>14. CASE UNCHANGED processVars
  BY Zenon, <1>14 DEF processVars, envVars
<1> QED
  BY Zenon, <1>1, <1>2, <1>3, <1>4, <1>5, <1>6, <1>7, <1>8, <1>9, <1>10,
     <1>11, <1>12, <1>13, <1>14 DEF ProcessNext, LoopStep, RequestStep

\* Every step keeps the progress of a reload.
LEMMA ReloadStep ==
    ASSUME ProcessTypes, Phases, ReloadProgress, [ProcessNext]_processVars
    PROVE  ReloadProgress'
<1> USE LifecycleAssumption DEF ctlVars, envVars, useVars, dataVars, ProcessTypes, Phases,
        ReloadProgress, Part, Loop, Component, Main, Notified, Serving, Stopping, Publishing
<1>1. CASE Edit \/ Hup \/ Term \/ Kill
  BY <1>1 DEF Edit, Hup, Term, Kill, Vanish
<1>2. CASE Start \/ Seed
  BY Zenon, <1>2 DEF Start, Seed
<1>3. CASE StartupSweep \/ StartupSweepFails
  BY Zenon, <1>3 DEF StartupSweep, StartupSweepFails
<1>4. CASE TakeHup \/ StopServing
  BY Zenon, <1>4 DEF TakeHup, StopServing
<1>5. CASE Reload
  BY <1>5 DEF Reload, LoadFile, PublishRules, ReconfigurePassthrough, SetLogLevel,
        ReconfigureAlerts, Adopt
<1>6. CASE GraceOver \/ ShutdownReturns \/ Stop
  BY Zenon, <1>6 DEF GraceOver, ShutdownReturns, Stop
<1>7. CASE Close \/ Exit
  BY Zenon, <1>7 DEF Close, Exit, Vanish
<1>8. CASE SweepOne \/ ServerFails
  BY <1>8 DEF SweepOne, ServerFails
<1>9. ASSUME NEW c \in Loop, Tick(c) \/ LoopDone(c) \/ LoopTx(c) PROVE ReloadProgress'
  BY <1>9 DEF Tick, LoopDone, LoopTx
<1>10. ASSUME NEW c \in Loop, LoopCommits(c) \/ LoopFails(c) PROVE ReloadProgress'
  BY <1>10 DEF LoopCommits, LoopFails
<1>11. ASSUME NEW r \in Request, Receive(r) \/ CheckCapacity(r) \/ RequestTx(r)
       PROVE  ReloadProgress'
  BY <1>11 DEF Receive, CheckCapacity, RequestTx
<1>12. ASSUME NEW r \in Request, OpenFlow(r) \/ FinalizeFlow(r) PROVE ReloadProgress'
  BY <1>12 DEF OpenFlow, FinalizeFlow, InTx
<1>13. ASSUME NEW r \in Request, RequestCommits(r) \/ RequestFails(r) PROVE ReloadProgress'
  BY <1>13 DEF RequestCommits, RequestFails, InTx
<1>14. CASE UNCHANGED processVars
  BY <1>14, Zenon DEF processVars, envVars
<1> QED
  BY Zenon, <1>1, <1>2, <1>3, <1>4, <1>5, <1>6, <1>7, <1>8, <1>9, <1>10,
     <1>11, <1>12, <1>13, <1>14 DEF ProcessNext, LoopStep, RequestStep

\* Every step moves the gauge and what it counts alike, or is recorded as failed.
LEMMA GaugeStep ==
    ASSUME ProcessTypes, Mutex, Phases, GaugeExact, [ProcessNext]_processVars
    PROVE  GaugeExact'
<1> USE LifecycleAssumption DEF ctlVars, envVars, useVars, dataVars, ProcessTypes, Mutex,
        Phases, GaugeExact, Loop, Component, Main, Notified, Serving, Stopping, Publishing
<1>1. CASE Edit \/ Hup \/ Term \/ Kill
  BY Zenon, <1>1 DEF Edit, Hup, Term, Kill, Vanish
<1>2. CASE Start \/ Seed
  BY <1>2 DEF Start, Seed
<1>3. CASE StartupSweep \/ StartupSweepFails
  BY <1>3 DEF StartupSweep, StartupSweepFails
<1>4. CASE TakeHup \/ StopServing
  BY Zenon, <1>4 DEF TakeHup, StopServing
<1>5. CASE Reload
  BY Zenon, <1>5 DEF Reload, LoadFile, PublishRules, ReconfigurePassthrough, SetLogLevel,
        ReconfigureAlerts, Adopt
<1>6. CASE GraceOver \/ ShutdownReturns \/ Stop
  BY Zenon, <1>6 DEF GraceOver, ShutdownReturns, Stop
<1>7. CASE Close \/ Exit
  BY Zenon, <1>7 DEF Close, Exit, Vanish
<1>8. CASE SweepOne \/ ServerFails
  BY <1>8 DEF SweepOne, ServerFails
<1>9. ASSUME NEW c \in Loop, Tick(c) \/ LoopDone(c) \/ LoopTx(c) PROVE GaugeExact'
  BY Zenon, <1>9 DEF Tick, LoopDone, LoopTx
<1>10. ASSUME NEW c \in Loop, LoopCommits(c) \/ LoopFails(c) PROVE GaugeExact'
  BY <1>10 DEF LoopCommits, LoopFails
<1>11. ASSUME NEW r \in Request, Receive(r) \/ CheckCapacity(r) \/ RequestTx(r)
       PROVE  GaugeExact'
  BY Zenon, <1>11 DEF Receive, CheckCapacity, RequestTx
<1>12. ASSUME NEW r \in Request, OpenFlow(r) \/ FinalizeFlow(r) PROVE GaugeExact'
  BY <1>12 DEF OpenFlow, FinalizeFlow, InTx
<1>13. ASSUME NEW r \in Request, RequestCommits(r) \/ RequestFails(r) PROVE GaugeExact'
  BY <1>13 DEF RequestCommits, RequestFails, InTx
<1>14. CASE UNCHANGED processVars
  BY Zenon, <1>14 DEF processVars, envVars
<1> QED
  BY Zenon, <1>1, <1>2, <1>3, <1>4, <1>5, <1>6, <1>7, <1>8, <1>9, <1>10,
     <1>11, <1>12, <1>13, <1>14 DEF ProcessNext, LoopStep, RequestStep

\* No step lets a loop use the closed database.
LEMMA ClosedStep ==
    ASSUME ProcessTypes, Mutex, Phases, OnlyLateRequestsTouchClosed, [ProcessNext]_processVars
    PROVE  OnlyLateRequestsTouchClosed'
<1> USE LifecycleAssumption DEF ctlVars, envVars, useVars, dataVars, ProcessTypes, Mutex,
        Phases, OnlyLateRequestsTouchClosed, Loop, Component, Main, Notified, Serving, Stopping,
        Publishing
<1>1. CASE Edit \/ Hup \/ Term \/ Kill
  BY Zenon, <1>1 DEF Edit, Hup, Term, Kill, Vanish
<1>2. CASE Start \/ Seed
  BY Zenon, <1>2 DEF Start, Seed
<1>3. CASE StartupSweep \/ StartupSweepFails
  BY Zenon, <1>3 DEF StartupSweep, StartupSweepFails
<1>4. CASE TakeHup \/ StopServing
  BY Zenon, <1>4 DEF TakeHup, StopServing
<1>5. CASE Reload
  BY Zenon, <1>5 DEF Reload, LoadFile, PublishRules, ReconfigurePassthrough, SetLogLevel,
        ReconfigureAlerts, Adopt
<1>6. CASE GraceOver \/ ShutdownReturns \/ Stop
  BY <1>6, Zenon DEF GraceOver, ShutdownReturns, Stop
<1>7. CASE Close \/ Exit
  BY Zenon, <1>7 DEF Close, Exit, Vanish
<1>8. CASE SweepOne \/ ServerFails
  BY <1>8, Zenon DEF SweepOne, ServerFails
<1>9. ASSUME NEW c \in Loop, Tick(c) \/ LoopDone(c) \/ LoopTx(c) PROVE OnlyLateRequestsTouchClosed'
  BY <1>9, Zenon DEF Tick, LoopDone, LoopTx
<1>10. ASSUME NEW c \in Loop, LoopCommits(c) \/ LoopFails(c) PROVE OnlyLateRequestsTouchClosed'
  BY <1>10, Zenon DEF LoopCommits, LoopFails
<1>11. ASSUME NEW r \in Request, Receive(r) \/ CheckCapacity(r) \/ RequestTx(r)
       PROVE  OnlyLateRequestsTouchClosed'
  BY <1>11 DEF Receive, CheckCapacity, RequestTx
<1>12. ASSUME NEW r \in Request, OpenFlow(r) \/ FinalizeFlow(r) PROVE OnlyLateRequestsTouchClosed'
  BY Zenon, <1>12 DEF OpenFlow, FinalizeFlow, InTx
<1>13. ASSUME NEW r \in Request, RequestCommits(r) \/ RequestFails(r)
       PROVE  OnlyLateRequestsTouchClosed'
  BY <1>13, Zenon DEF RequestCommits, RequestFails, InTx
<1>14. CASE UNCHANGED processVars
  BY Zenon, <1>14 DEF processVars, envVars
<1> QED
  BY ZenonT(60), <1>1, <1>2, <1>3, <1>4, <1>5, <1>6, <1>7, <1>8, <1>9, <1>10,
     <1>11, <1>12, <1>13, <1>14 DEF ProcessNext, LoopStep, RequestStep

\* No step leaves the parts with different configurations.
LEMMA MixedStep ==
    ASSUME ProcessTypes, Phases, ReloadProgress, NoMixedConfiguration, [ProcessNext]_processVars
    PROVE  NoMixedConfiguration'
<1> USE LifecycleAssumption DEF ctlVars, envVars, useVars, dataVars, ProcessTypes, Phases,
        ReloadProgress, NoMixedConfiguration, Part, Loop, Component, Main, Notified, Serving,
        Stopping, Publishing
<1>1. CASE Edit \/ Hup \/ Term \/ Kill
  BY Zenon, <1>1 DEF Edit, Hup, Term, Kill, Vanish
<1>2. CASE Start \/ Seed
  BY <1>2 DEF Start, Seed
<1>3. CASE StartupSweep \/ StartupSweepFails
  BY <1>3, Zenon DEF StartupSweep, StartupSweepFails
<1>4. CASE TakeHup \/ StopServing
  BY <1>4, Zenon DEF TakeHup, StopServing
<1>5. CASE Reload
  BY <1>5 DEF Reload, LoadFile, PublishRules, ReconfigurePassthrough, SetLogLevel,
        ReconfigureAlerts, Adopt
<1>6. CASE GraceOver \/ ShutdownReturns \/ Stop
  BY <1>6, Zenon DEF GraceOver, ShutdownReturns, Stop
<1>7. CASE Close \/ Exit
  BY Zenon, <1>7 DEF Close, Exit, Vanish
<1>8. CASE SweepOne \/ ServerFails
  BY <1>8, Zenon DEF SweepOne, ServerFails
<1>9. ASSUME NEW c \in Loop, Tick(c) \/ LoopDone(c) \/ LoopTx(c) PROVE NoMixedConfiguration'
  BY Zenon, <1>9 DEF Tick, LoopDone, LoopTx
<1>10. ASSUME NEW c \in Loop, LoopCommits(c) \/ LoopFails(c) PROVE NoMixedConfiguration'
  BY <1>10, Zenon DEF LoopCommits, LoopFails
<1>11. ASSUME NEW r \in Request, Receive(r) \/ CheckCapacity(r) \/ RequestTx(r)
       PROVE  NoMixedConfiguration'
  BY <1>11 DEF Receive, CheckCapacity, RequestTx
<1>12. ASSUME NEW r \in Request, OpenFlow(r) \/ FinalizeFlow(r) PROVE NoMixedConfiguration'
  BY <1>12, Zenon DEF OpenFlow, FinalizeFlow, InTx
<1>13. ASSUME NEW r \in Request, RequestCommits(r) \/ RequestFails(r) PROVE NoMixedConfiguration'
  BY Zenon, <1>13 DEF RequestCommits, RequestFails, InTx
<1>14. CASE UNCHANGED processVars
  BY Zenon, <1>14 DEF processVars, envVars
<1> QED
  BY ZenonT(60), <1>1, <1>2, <1>3, <1>4, <1>5, <1>6, <1>7, <1>8, <1>9, <1>10,
     <1>11, <1>12, <1>13, <1>14 DEF ProcessNext, LoopStep, RequestStep

\* No step loses a signal.
LEMMA SignalStep ==
    ASSUME ProcessTypes, Phases, ReloadProgress, SignalNotLost, [ProcessNext]_processVars
    PROVE  SignalNotLost'
<1> USE LifecycleAssumption DEF ctlVars, envVars, useVars, dataVars, ProcessTypes, Phases,
        ReloadProgress, SignalNotLost, Part, Loop, Component, Main, Notified, Serving, Stopping,
        Publishing
<1>1. CASE Edit \/ Hup \/ Term \/ Kill
  BY <1>1, Zenon DEF Edit, Hup, Term, Kill, Vanish
<1>2. CASE Start \/ Seed
  BY <1>2, Zenon DEF Start, Seed
<1>3. CASE StartupSweep \/ StartupSweepFails
  BY <1>3, Zenon DEF StartupSweep, StartupSweepFails
<1>4. CASE TakeHup \/ StopServing
  BY <1>4, Zenon DEF TakeHup, StopServing
<1>5. CASE Reload
  <2>1. CASE LoadFile
    BY Zenon, <2>1 DEF LoadFile
  <2>2. CASE PublishRules
    BY Zenon, <2>2 DEF PublishRules, Adopt
  <2>3. CASE ReconfigurePassthrough
    BY Zenon, <2>3 DEF ReconfigurePassthrough, Adopt
  <2>4. CASE SetLogLevel
    BY Zenon, <2>4 DEF SetLogLevel, Adopt
  <2>5. CASE ReconfigureAlerts
    BY Zenon, <2>5 DEF ReconfigureAlerts, Adopt
  <2> QED
    BY Zenon, <1>5, <2>1, <2>2, <2>3, <2>4, <2>5 DEF Reload
<1>6. CASE GraceOver \/ ShutdownReturns \/ Stop
  BY <1>6, Zenon DEF GraceOver, ShutdownReturns, Stop
<1>7. CASE Close \/ Exit
  BY Zenon, <1>7 DEF Close, Exit, Vanish
<1>8. CASE SweepOne \/ ServerFails
  BY <1>8, Zenon DEF SweepOne, ServerFails
<1>9. ASSUME NEW c \in Loop, Tick(c) \/ LoopDone(c) \/ LoopTx(c) PROVE SignalNotLost'
  BY <1>9, Zenon DEF Tick, LoopDone, LoopTx
<1>10. ASSUME NEW c \in Loop, LoopCommits(c) \/ LoopFails(c) PROVE SignalNotLost'
  BY <1>10, Zenon DEF LoopCommits, LoopFails
<1>11. ASSUME NEW r \in Request, Receive(r) \/ CheckCapacity(r) \/ RequestTx(r) PROVE SignalNotLost'
  BY <1>11, Zenon DEF Receive, CheckCapacity, RequestTx
<1>12. ASSUME NEW r \in Request, OpenFlow(r) \/ FinalizeFlow(r) PROVE SignalNotLost'
  BY <1>12, Zenon DEF OpenFlow, FinalizeFlow, InTx
<1>13. ASSUME NEW r \in Request, RequestCommits(r) \/ RequestFails(r) PROVE SignalNotLost'
  BY <1>13, Zenon DEF RequestCommits, RequestFails, InTx
<1>14. CASE UNCHANGED processVars
  BY Zenon, <1>14 DEF processVars, envVars
<1> QED
  BY Zenon, <1>1, <1>2, <1>3, <1>4, <1>5, <1>6, <1>7, <1>8, <1>9, <1>10,
     <1>11, <1>12, <1>13, <1>14 DEF ProcessNext, LoopStep, RequestStep

\* The initial states satisfy the inductive invariant.
LEMMA ProcessStarts == ProcessInit => ProcessInv
<1> SUFFICES ASSUME ProcessInit PROVE ProcessInv
  BY Zenon
<1>1. Flags
  BY Zenon DEF ProcessInit, Flags
<1>2. Control /\ Actors /\ Counters
    BY LifecycleAssumption DEF ProcessInit, Control, Actors, Counters, Loop, Component, Holder,
     Main, Part
<1>3. ProcessTypes
  BY Zenon, <1>1, <1>2 DEF ProcessTypes, Flags, Control, Actors, Counters
<1>4. Mutex /\ Phases /\ ReloadProgress
  BY LifecycleAssumption DEF ProcessInit, Mutex, Phases, ReloadProgress, Loop, Component, Notified,
     Serving, Stopping, Publishing
<1>5. GaugeExact /\ OnlyLateRequestsTouchClosed /\ NoMixedConfiguration /\ SignalNotLost
  BY Zenon DEF ProcessInit, GaugeExact, OnlyLateRequestsTouchClosed, NoMixedConfiguration,
     SignalNotLost, Notified, Serving, Stopping, Publishing
<1> QED
  BY Zenon, <1>3, <1>4, <1>5 DEF ProcessInv

\* Every step keeps the inductive invariant.
LEMMA StepHolds == ProcessInv /\ [ProcessNext]_processVars => ProcessInv'
BY Zenon, ProcessTypeStep, MutexStep, PhasesStep, ReloadStep, GaugeStep, ClosedStep, MixedStep, SignalStep
   DEF ProcessInv

\* The inductive invariant holds in every reachable state.
THEOREM ProcessInvariance == ProcessSpec => []ProcessInv
BY ProcessStarts, StepHolds, PTL DEF ProcessSpec

\* The variables keep their types, and the counters stay counters: the number of
\* open flows is never negative although transactions close flows one by one.
THEOREM ProcessTypesHold == ProcessSpec => []ProcessTypes
BY ProcessInvariance, PTL DEF ProcessInv

\* While the process runs the open-flow gauge is the number of open flows, those
\* of the running transaction included, as long as no transaction failed after it
\* had moved the gauge (ingest/service.go:161).
THEOREM GaugeIsExact == ProcessSpec => []GaugeExact
BY ProcessInvariance, PTL DEF ProcessInv

\* No loop uses the closed database, and no transaction is open when it closes
\* (main.go:104, 175, 220).
THEOREM ClosedIsLeftAlone == ProcessSpec => []OnlyLateRequestsTouchClosed
BY ProcessInvariance, PTL DEF ProcessInv

\* Outside a reload all parts run one valid configuration (reload.go:49-61).
THEOREM NeverMixed == ProcessSpec => []NoMixedConfiguration
BY ProcessInvariance, PTL DEF ProcessInv

\* A SIGHUP sent after the last edit is never lost (reload.go:28).
THEOREM SignalsAreKept == ProcessSpec => []SignalNotLost
BY ProcessInvariance, PTL DEF ProcessInv
-----------------------------------------------------------------------------
(***************************************************************************)
(* The pass-through buffer.                                                *)
(***************************************************************************)
\* Types; the loop works on nothing while it waits, and an answer covers the
\* batch.
BufferTypes ==
    /\ opts \in Settings
    /\ records \in Seq(Record)
    /\ next \in 0..MaxAccept
    /\ ready \in BOOLEAN
    /\ stage \in {"select", "sink", "resolve"}
    /\ pending \in Seq(Record)
    /\ stage = "select" => pending = << >>
    /\ stage = "resolve" => results \in [Sent -> {"delivered", "retryable", "permanent"}]
    /\ copies \in [Record -> 0..2]
    /\ mark \in 0..next

\* What OpenSearch holds of the records still in the buffer: none of those
\* not yet accepted; a "delivered" result is about a record it indexed; and a
\* record it indexed was so by an attempt that was not acknowledged, or its
\* result is about to remove it.
Indexed ==
    /\ \A r \in Record : r > next => copies[r] = 0
    /\ stage = "resolve" => \A r \in Sent : results[r] = "delivered" => copies[r] > 0
    /\ \A r \in Range(records) :
         copies[r] > 0 =>
           \/ r \in unacked
           \/ stage = "resolve" /\ r \in Sent /\ results[r] # "retryable"

BufferInv ==
    /\ BufferTypes /\ BatchIsHead /\ Indexed
    /\ Accounted /\ DuplicateOnlyUnacked /\ NoLostWakeup

\* Sets of naturals have least elements.  The library proves it (LeastNatural).
LeastOf ==
    \A T : T \subseteq Nat /\ T # {} => \E x \in T : \A y \in T : x <= y

\* A non-empty set of naturals has a least element.
LEMMA NatLeast ==
    ASSUME LeastOf, NEW T, T \subseteq Nat, T # {}
    PROVE  \E x \in T : \A y \in T : x <= y
BY Zenon DEF LeastOf

\* One turn of the loop of Resolve: f[i] is what the first i records leave.
Turn(f, s, T, i) ==
    IF i = 0 THEN << >>
    ELSE IF s[i] \in T THEN f[i - 1] ELSE Append(f[i - 1], s[i])

Turns(f, s, T, n) == f = [i \in 0..n |-> Turn(f, s, T, i)]

\* The loop of Resolve is well defined.
LEMMA LoopExists ==
    ASSUME LeastOf, NEW s, NEW T, NEW n \in Nat
    PROVE  \E f : Turns(f, s, T, n)
<1> DEFINE Has(m) == \E f : f = [i \in 0..m |-> Turn(f, s, T, i)]
           Bad == {m \in Nat : ~Has(m)}
<1>1. Has(0)
  <2> DEFINE f == [i \in 0..0 |-> << >>]
  <2>1. f = [i \in 0..0 |-> Turn(f, s, T, i)]
    BY DEF Turn
  <2> QED
    BY Zenon, <2>1
<1>2. ASSUME NEW m \in Nat, Has(m)
      PROVE  Has(m + 1)
  <2>1. PICK f : f = [i \in 0..m |-> Turn(f, s, T, i)]
    BY Zenon, <1>2
  <2> DEFINE g == [i \in 0 .. m + 1 |-> IF i = m + 1 THEN Turn(f, s, T, i) ELSE f[i]]
  <2>2. ASSUME NEW i \in 0 .. m + 1
        PROVE  g[i] = Turn(g, s, T, i)
    <3>1. CASE i = 0
      BY <2>1, <3>1 DEF Turn
    <3>2. CASE i # 0
      <4>1. i - 1 \in 0..m /\ i - 1 # m + 1 /\ i - 1 \in 0 .. m + 1
        BY <3>2
      <4>2. g[i - 1] = f[i - 1]
        BY Zenon, <4>1
      <4>3. Turn(g, s, T, i) = Turn(f, s, T, i)
        BY <4>2 DEF Turn
      <4>4. g[i] = Turn(f, s, T, i)
        BY <2>1
      <4> QED
        BY Zenon, <4>3, <4>4
    <3> QED
      BY Zenon, <3>1, <3>2
  <2>3. g = [i \in 0 .. m + 1 |-> Turn(g, s, T, i)]
    <3> HIDE DEF g
    <3>1. DOMAIN g = 0 .. m + 1 /\ g = [i \in DOMAIN g |-> g[i]]
      BY Zenon DEF g
    <3> QED
      BY Zenon, <2>2, <3>1
  <2> QED
    BY Zenon, <2>3
<1>3. Bad = {}
  <2> SUFFICES ASSUME Bad # {} PROVE FALSE
    BY Zenon
  <2>1. PICK x \in Bad : \A y \in Bad : x <= y
    BY NatLeast, Zenon
  <2> HIDE DEF Has
  <2>2. x # 0
    BY Zenon, <1>1, <2>1
  <2>3. x - 1 \in Nat /\ Has(x - 1)
    BY <2>1, <2>2
  <2> QED
    BY <1>2, <2>1, <2>3
<1> QED
  <2> HIDE DEF Has
  <2>1. Has(n)
    BY Zenon, <1>3
  <2> QED
    BY Zenon, <2>1 DEF Has, Turns

\* What Resolve leaves of an increasing buffer s: exactly the records that are
\* not in T, increasing, and no more of them.
LEMMA KeptIs ==
    ASSUME LeastOf, NEW S, S \subseteq Nat, NEW s \in Seq(S), NEW T,
           \A i, j \in DOMAIN s : i < j => s[i] < s[j]
    PROVE  LET k == Kept(s, T)
           IN  /\ k \in Seq(S)
               /\ Range(k) = Range(s) \ T
               /\ \A i, j \in DOMAIN k : i < j => k[i] < k[j]
               /\ Len(k) <= Len(s)
<1> DEFINE n == Len(s)
           kept == CHOOSE f : f = [i \in 0..n |-> Turn(f, s, T, i)]
<1>1. /\ n \in Nat /\ DOMAIN s = 1..n
      /\ \A i \in 1..n : s[i] \in S /\ s[i] \in Nat
      /\ \A i, j \in 1..n : i < j => s[i] < s[j]
  <2>1. n \in Nat /\ DOMAIN s = 1..n /\ \A i \in 1..n : s[i] \in S
    OBVIOUS
  <2> HIDE DEF n
  <2> QED
    BY Zenon, <2>1
<1>2. Kept(s, T) = kept[n]
  BY Zenon DEF Kept, Turn
<1>3. kept = [i \in 0..n |-> Turn(kept, s, T, i)]
  <2>1. \E f : Turns(f, s, T, n)
    BY <1>1, LoopExists, Zenon
  <2>2. Turns(CHOOSE f : Turns(f, s, T, n), s, T, n)
    BY <2>1, Zenon
  <2> QED
    BY <2>2, Zenon DEF Turns
<1> HIDE DEF kept, n
<1> DEFINE Good(i) ==
             /\ kept[i] \in Seq(S)
             /\ \A x : x \in Range(kept[i]) <=> \E j \in 1..i : x = s[j] /\ x \notin T
             /\ \A a, b \in DOMAIN kept[i] : a < b => kept[i][a] < kept[i][b]
             /\ Len(kept[i]) <= i
           Bad == {i \in 0..n : ~Good(i)}
<1>4. Good(0)
  BY <1>1, <1>3 DEF Turn, Range
<1>5. ASSUME NEW i \in 1..n, Good(i - 1)
      PROVE  Good(i)
  <2> DEFINE k == kept[i - 1]
  <2>1. kept[i] = IF s[i] \in T THEN k ELSE Append(k, s[i])
    <3>1. i \in 0..n /\ i # 0
      BY <1>1
    <3> QED
      BY Zenon, <1>3, <3>1 DEF Turn
  <2>2. k \in Seq(S) /\ Len(k) \in Nat /\ Len(k) <= i - 1 /\ DOMAIN k = 1 .. Len(k)
    BY <1>5
  <2>3. CASE s[i] \in T
    <3>1. kept[i] = k
      BY Zenon, <2>1, <2>3
    <3>2. \A j : j \in 1..i <=> j \in 1 .. i - 1 \/ j = i
      BY <1>1
    <3>3. ASSUME NEW x
          PROVE  x \in Range(k) <=> \E j \in 1..i : x = s[j] /\ x \notin T
      BY <1>5, <2>3, <3>2, Zenon
    <3>4. Len(k) <= i
      BY <1>1, <2>2
    <3> QED
      BY <1>5, <3>1, <3>3, <3>4, Zenon
  <2>4. CASE s[i] \notin T
    <3> DEFINE l == Append(k, s[i])
    <3>1. kept[i] = l
      BY Zenon, <2>1, <2>4
    <3> HIDE DEF k
    <3>2. l \in Seq(S) /\ Len(l) = Len(k) + 1 /\ DOMAIN l = 1 .. Len(k) + 1
      BY <1>1, <2>2
    <3>3. /\ l[Len(k) + 1] = s[i]
          /\ \A a \in 1 .. Len(k) : l[a] = k[a] /\ k[a] \in S
      BY <1>1, <2>2
    <3>4. ASSUME NEW a \in 1 .. Len(k)
          PROVE  k[a] < s[i]
      <4>1. k[a] \in Range(k)
        BY Zenon, <2>2 DEF Range
      <4>2. PICK j \in 1 .. i - 1 : k[a] = s[j]
        BY Zenon, <1>5, <4>1 DEF k
      <4>3. j \in 1..n /\ j < i
        BY <1>1
      <4> QED
        BY Zenon, <1>1, <4>2, <4>3
    <3> HIDE DEF l
    <3>5. \A a, b \in DOMAIN l : a < b => l[a] < l[b]
      <4> SUFFICES ASSUME NEW a \in 1 .. Len(k) + 1, NEW b \in 1 .. Len(k) + 1, a < b
                   PROVE  l[a] < l[b]
        BY Zenon, <3>2
      <4>1. a \in 1 .. Len(k)
        BY <2>2
      <4>2. CASE b = Len(k) + 1
        BY Zenon, <3>3, <3>4, <4>1, <4>2
      <4>3. CASE b # Len(k) + 1
        <5>1. b \in 1 .. Len(k)
          BY <2>2, <4>3
        <5>2. k[a] < k[b]
          BY Zenon, <1>5, <2>2, <4>1, <5>1 DEF k
        <5>3. l[a] = k[a] /\ l[b] = k[b]
          BY <3>3, <4>1, <5>1, Zenon
        <5> QED
          BY <5>2, <5>3, Zenon
      <4> QED
        BY Zenon, <4>2, <4>3
    <3>6. ASSUME NEW x
          PROVE  x \in Range(l) <=> \E j \in 1..i : x = s[j] /\ x \notin T
      <4>1. x \in Range(l) <=> x \in Range(k) \/ x = s[i]
        <5>1. \A a : a \in DOMAIN l <=> a \in DOMAIN k \/ a = Len(k) + 1
          BY <2>2, <3>2
        <5>2. l[Len(k) + 1] = s[i] /\ \A a \in DOMAIN k : l[a] = k[a]
          BY <2>2, <3>3, Zenon
        <5>3. Range(l) = {l[a] : a \in DOMAIN l} /\ Range(k) = {k[a] : a \in DOMAIN k}
          BY Zenon DEF Range
        <5> QED
          BY <5>1, <5>2, <5>3, Zenon
      <4>2. x \in Range(k) <=> \E j \in 1 .. i - 1 : x = s[j] /\ x \notin T
        BY Zenon, <1>5 DEF k
      <4>3. \A j : j \in 1..i <=> j \in 1 .. i - 1 \/ j = i
        BY <1>1
      <4> QED
        BY <2>4, <4>1, <4>2, <4>3, Zenon
    <3>7. Len(l) <= i
      BY <2>2, <3>2
    <3> QED
      BY Zenon, <3>1, <3>2, <3>5, <3>6, <3>7
  <2> QED
    BY Zenon, <2>3, <2>4
<1>6. Bad = {}
  <2> SUFFICES ASSUME Bad # {} PROVE FALSE
    BY Zenon
  <2>0. Bad \subseteq Nat
    BY <1>1
  <2>1. PICK x \in Bad : \A y \in Bad : x <= y
    BY <2>0, NatLeast, Zenon
  <2> HIDE DEF Good
  <2>2. x \in 1..n
    BY <1>1, <1>4, <2>1
  <2>3. Good(x - 1)
    BY <1>1, <2>1, <2>2
  <2> QED
    BY Zenon, <1>5, <2>1, <2>2, <2>3
<1>7. Good(n)
  <2> HIDE DEF Good
  <2> QED
    BY <1>1, <1>6
<1>8. Range(kept[n]) = Range(s) \ T
  BY Zenon, <1>1, <1>7 DEF Range
<1> QED
  BY Zenon, <1>2, <1>7, <1>8 DEF n
-----------------------------------------------------------------------------
LEMMA MinOfTwo ==
    ASSUME NEW a \in Nat, NEW b \in Nat
    PROVE  Min({a, b}) = IF a <= b THEN a ELSE b
<1> DEFINE m == IF a <= b THEN a ELSE b
<1>1. \A x : (x \in {a, b} /\ \A y \in {a, b} : x <= y) <=> x = m
  OBVIOUS
<1>2. Min({a, b}) = CHOOSE x : x = m
  BY Zenon, <1>1 DEF Min
<1> QED
  BY Zenon, <1>2

\* A prefix agrees with the sequence as far as it reaches.
LEMMA PrefixIs ==
    ASSUME NEW S, NEW s \in Seq(S), NEW t \in Seq(S), Len(s) <= Len(t)
    PROVE  s = SubSeq(t, 1, Len(s)) <=> \A i \in 1 .. Len(s) : s[i] = t[i]
OBVIOUS

\* The records of the batch are in the buffer.
LEMMA SentInBuffer ==
    ASSUME BufferTypes, BatchIsHead
    PROVE  /\ Sent \subseteq Range(records)
           /\ Sent \subseteq Record
           /\ Range(records) \subseteq Record
           /\ Range(records) \subseteq 1..next
           /\ Len(records) \in Nat
<1>1. Len(pending) <= Len(records) /\ \A i \in 1 .. Len(pending) : pending[i] = records[i]
  BY PrefixIs DEF BufferTypes, BatchIsHead
<1>2. records \in Seq(Record) /\ pending \in Seq(Record)
  BY Zenon DEF BufferTypes
<1>3. Sent \subseteq Range(records)
  BY <1>1, <1>2 DEF Sent, Range
<1>4. Range(records) \subseteq Record
  BY <1>2 DEF Range
<1> QED
  BY <1>2, <1>3, <1>4 DEF BatchIsHead

\* A bulk request that indexed S and was answered with res: what res calls
\* delivered was indexed, and what was indexed is kept to be retried only if
\* the attempt counts as unacknowledged.
LEMMA SinkStep ==
    ASSUME BufferInv, stage = "sink", NEW S, S \subseteq Sent, Index(S),
           NEW res \in [Sent -> {"delivered", "retryable", "permanent"}], Answer(res),
           \A r \in Sent : res[r] = "delivered" => r \in S,
           \A r \in S : r \in unacked' \/ res[r] # "retryable",
           unacked \subseteq unacked',
           UNCHANGED <<opts, records, next, ready, pending, dropped, lost, mark>>
    PROVE  BufferInv'
<1>1. BufferTypes /\ BatchIsHead /\ Indexed /\ Accounted /\ DuplicateOnlyUnacked /\ NoLostWakeup
  BY Zenon DEF BufferInv
<1>2. /\ Sent \subseteq Range(records) /\ Sent \subseteq Record
      /\ Range(records) \subseteq Record /\ Range(records) \subseteq 1..next
  BY <1>1, SentInBuffer, Zenon
<1>3. Sent' = Sent /\ stage' = "resolve" /\ results' = res
  BY Zenon DEF Sent, Answer
<1>4. \A r \in Record : copies[r] \in 0..2
  BY Zenon, <1>1 DEF BufferTypes
<1>5. \A r \in Record : Min({copies[r] + 1, 2}) = IF copies[r] = 2 THEN 2 ELSE copies[r] + 1
  <2> SUFFICES ASSUME NEW r \in Record
               PROVE  Min({copies[r] + 1, 2}) = IF copies[r] = 2 THEN 2 ELSE copies[r] + 1
    BY Zenon
  <2>1. copies[r] + 1 \in Nat /\ copies[r] \in 0..2
    BY <1>4
  <2> QED
    BY <2>1, MinOfTwo
<1>6. /\ copies' \in [Record -> 0..2]
      /\ \A r \in S : copies'[r] > 0 /\ (copies'[r] > 1 => copies[r] > 0)
      /\ \A r \in Record \ S : copies'[r] = copies[r]
      /\ \A r \in Record : copies[r] > 0 => copies'[r] > 0
  <2>1. copies' = [r \in Record |-> IF r \in S THEN Min({copies[r] + 1, 2}) ELSE copies[r]]
    BY Zenon DEF Index
  <2>2. ASSUME NEW r \in Record
        PROVE  copies'[r] = IF r \in S /\ copies[r] # 2 THEN copies[r] + 1 ELSE copies[r]
    BY Zenon, <1>4, <1>5, <2>1
  <2>3. S \subseteq Record
    BY Zenon, <1>2
  <2>4. copies' \in [Record -> 0..2]
    <3>1. \A r \in Record : copies'[r] \in 0..2
      BY <1>4, <2>2
    <3> QED
      BY Zenon, <2>1, <3>1
  <2> QED
    BY <1>4, <2>2, <2>3, <2>4
<1>7. BufferTypes'
  <2>1. stage' = "resolve" => results' \in [Sent' -> {"delivered", "retryable", "permanent"}]
    BY Zenon, <1>3
  <2>2. stage' # "select" /\ stage' \in {"select", "sink", "resolve"}
    BY Zenon, <1>3
  <2> QED
    BY Zenon, <1>1, <1>6, <2>1, <2>2 DEF BufferTypes
<1>8. BatchIsHead'
  BY Zenon, <1>1 DEF BatchIsHead
<1>9. Indexed'
  <2>1. ASSUME NEW r \in Record, r > next
        PROVE  copies'[r] = 0
    <3>1. r \notin S
      BY <1>1, <1>2, <2>1 DEF BufferTypes
    <3> QED
      BY Zenon, <1>1, <1>6, <2>1, <3>1 DEF Indexed
  <2>2. ASSUME NEW r \in Sent, res[r] = "delivered"
        PROVE  copies'[r] > 0
    BY Zenon, <1>2, <1>6, <2>2
  <2>3. ASSUME NEW r \in Range(records), copies'[r] > 0
        PROVE  r \in unacked' \/ (r \in Sent /\ res[r] # "retryable")
    <3>1. CASE r \in S
      BY Zenon, <3>1
    <3>2. CASE r \notin S
      <4>1. copies[r] > 0
        BY Zenon, <1>2, <1>6, <2>3, <3>2
      <4> QED
        BY Zenon, <1>1, <4>1 DEF Indexed
    <3> QED
      BY Zenon, <3>1, <3>2
  <2> QED
    BY Zenon, <1>3, <2>1, <2>2, <2>3 DEF Indexed
<1>10. Accounted'
  <2> SUFFICES ASSUME NEW r \in 1..next
               PROVE  r \in Range(records) \cup dropped \cup lost \/ copies'[r] > 0
    BY Zenon DEF Accounted
  <2>1. r \in Record
    BY <1>1, PassthroughAssumption DEF BufferTypes, Record
  <2> QED
    BY Zenon, <1>1, <1>6, <2>1 DEF Accounted
<1>11. DuplicateOnlyUnacked'
  <2> SUFFICES ASSUME NEW r \in Record, copies'[r] > 1 PROVE r \in unacked'
    BY Zenon DEF DuplicateOnlyUnacked
  <2>1. CASE r \in S
    <3>1. copies[r] > 0 /\ r \in Range(records)
      BY Zenon, <1>2, <1>6, <2>1
    <3> QED
      BY Zenon, <1>1, <3>1 DEF Indexed
  <2>2. CASE r \notin S
    BY Zenon, <1>1, <1>6, <2>2 DEF DuplicateOnlyUnacked
  <2> QED
    BY Zenon, <2>1, <2>2
<1>12. NoLostWakeup'
  BY Zenon, <1>1 DEF NoLostWakeup
<1> QED
  BY Zenon, <1>7, <1>8, <1>9, <1>10, <1>11, <1>12 DEF BufferInv

LEMMA InitHolds == BufferInit => BufferInv
<1> SUFFICES ASSUME BufferInit PROVE BufferInv
  BY Zenon
<1>1. BufferTypes
  <2>1. /\ records = << >> /\ pending = << >> /\ stage = "select"
        /\ << >> \in Seq(Record) /\ opts \in Settings
    BY DEF BufferInit
  <2>2. copies \in [Record -> 0..2]
    BY DEF BufferInit
  <2>3. next \in 0..MaxAccept /\ mark \in 0..next
    BY PassthroughAssumption DEF BufferInit
  <2>4. ready \in BOOLEAN
    BY Zenon DEF BufferInit
  <2> QED
    BY Zenon, <2>1, <2>2, <2>3, <2>4 DEF BufferTypes
<1>2. BatchIsHead
  <2>1. records = << >> /\ pending = << >> /\ << >> \in Seq(Record) /\ Len(<< >>) = 0
    BY DEF BufferInit
  <2>2. Len(pending) <= Len(records) /\ pending = SubSeq(records, 1, Len(pending))
    BY <2>1
  <2>3. DOMAIN records = {} /\ Range(records) = {}
    BY <2>1 DEF Range
  <2> QED
    BY Zenon, <2>2, <2>3 DEF BatchIsHead
<1>3. Indexed
  BY DEF BufferInit, Indexed, Range
<1>4. Accounted /\ DuplicateOnlyUnacked
  BY DEF BufferInit, Accounted, DuplicateOnlyUnacked
<1>5. NoLostWakeup
  BY DEF BufferInit, NoLostWakeup
<1> QED
  BY Zenon, <1>1, <1>2, <1>3, <1>4, <1>5 DEF BufferInv

\* An Accept appends: the batch stays the head, and the new record is one
\* OpenSearch has never seen.
LEMMA AcceptStep == BufferInv /\ AcceptRecord => BufferInv'
<1> SUFFICES ASSUME BufferInv, AcceptRecord PROVE BufferInv'
  BY Zenon
<1>1. BufferTypes /\ BatchIsHead /\ Indexed /\ Accounted /\ DuplicateOnlyUnacked /\ NoLostWakeup
  BY Zenon DEF BufferInv
<1>2. /\ Sent \subseteq Range(records) /\ Sent \subseteq Record
      /\ Range(records) \subseteq Record /\ Range(records) \subseteq 1..next
      /\ Len(records) \in Nat
  BY <1>1, SentInBuffer, Zenon
<1>3. /\ next < MaxAccept /\ next' = next + 1 /\ records' = Append(records, next + 1)
      /\ ready' = (ready \/ Len(records) + 1 >= opts.batch)
      /\ UNCHANGED <<opts, stage, pending, results, copies, unacked, dropped, lost, mark>>
  BY Zenon DEF AcceptRecord, loopVars, sinkVars
<1>4. /\ records \in Seq(Record) /\ pending \in Seq(Record)
      /\ next \in Nat /\ MaxAccept \in Nat /\ next + 1 \in Record
      /\ opts \in Settings /\ opts.batch \in Nat
  BY <1>1, <1>3, PassthroughAssumption DEF BufferTypes, Record
<1> DEFINE n == Len(records)
<1>5. /\ records' \in Seq(Record) /\ Len(records') = n + 1 /\ DOMAIN records' = 1 .. n + 1
      /\ DOMAIN records = 1..n /\ records'[n + 1] = next + 1
      /\ \A i \in 1..n : records'[i] = records[i] /\ records[i] \in 1..next
  <2>1. \A i \in 1..n : records[i] \in Range(records)
    BY <1>4 DEF Range
  <2> QED
    BY <1>2, <1>3, <1>4, <2>1
<1>6. Range(records') = Range(records) \cup {next + 1}
  BY <1>2, <1>5 DEF Range
<1> HIDE DEF n
<1>7. n \in Nat
  BY Zenon, <1>2 DEF n
<1>8. Sent' = Sent
  BY Zenon, <1>3 DEF Sent
<1>9. BufferTypes'
  <2>1. next' \in 0..MaxAccept /\ mark' \in 0..next' /\ ready' \in BOOLEAN
    BY <1>1, <1>3, <1>4 DEF BufferTypes
  <2> QED
    BY Zenon, <1>1, <1>3, <1>5, <1>8, <2>1 DEF BufferTypes
<1>10. BatchIsHead'
  <2>1. Len(pending) <= n /\ \A i \in 1 .. Len(pending) : pending[i] = records[i]
    BY Zenon, <1>1, <1>4, PrefixIs DEF BatchIsHead, n
  <2>2. Len(pending) <= Len(records') /\ \A i \in 1 .. Len(pending) : pending[i] = records'[i]
    BY <1>4, <1>5, <1>7, <2>1
  <2>3. pending = SubSeq(records', 1, Len(pending))
    BY Zenon, <1>4, <1>5, <2>2, PrefixIs
  <2>4. ASSUME NEW i \in 1 .. n + 1, NEW j \in 1 .. n + 1, i < j
        PROVE  records'[i] < records'[j]
    <3>1. i \in 1..n
      BY <1>7, <2>4
    <3>2. CASE j = n + 1
      BY <1>4, <1>5, <3>1, <3>2
    <3>3. CASE j # n + 1
      <4>1. j \in 1..n
        BY <1>7, <3>3
      <4>2. records[i] < records[j]
        BY Zenon, <1>1, <1>5, <2>4, <3>1, <4>1 DEF BatchIsHead
      <4> QED
        BY Zenon, <1>5, <3>1, <4>1, <4>2
    <3> QED
      BY Zenon, <3>2, <3>3
  <2>5. Range(records') \subseteq 1..next'
    BY <1>2, <1>3, <1>4, <1>6
  <2> QED
    BY Zenon, <1>3, <1>5, <2>2, <2>3, <2>4, <2>5 DEF BatchIsHead
<1>11. Indexed'
  <2>1. \A r \in Record : r > next' => copies'[r] = 0
    BY <1>1, <1>3, <1>4 DEF Indexed, Record
  <2>2. copies'[next + 1] = 0
    BY <1>1, <1>3, <1>4 DEF Indexed
  <2>3. \A r \in Range(records') : copies'[r] > 0 => r \in Range(records)
    BY <1>6, <2>2
  <2> QED
    BY Zenon, <1>1, <1>3, <1>8, <2>1, <2>3 DEF Indexed
<1>12. Accounted'
  BY <1>1, <1>3, <1>4, <1>6 DEF Accounted
<1>13. DuplicateOnlyUnacked'
  BY Zenon, <1>1, <1>3 DEF DuplicateOnlyUnacked
<1>14. NoLostWakeup'
  BY Zenon, <1>3, <1>4, <1>5 DEF NoLostWakeup, n
<1> QED
  BY Zenon, <1>9, <1>10, <1>11, <1>12, <1>13, <1>14 DEF BufferInv

\* A drain begins with a copy of the buffer's head.
LEMMA DrainStep ==
    ASSUME BufferInv, stage = "select", DrainBegins,
           \/ UNCHANGED <<ready, mark>>
           \/ ready' = FALSE /\ mark' = next
    PROVE  BufferInv'
<1>1. BufferTypes /\ BatchIsHead /\ Indexed /\ Accounted /\ DuplicateOnlyUnacked /\ NoLostWakeup
  BY Zenon DEF BufferInv
<1>2. /\ pending' = Pending /\ stage' = (IF Pending = << >> THEN "select" ELSE "sink")
      /\ UNCHANGED <<opts, records, next, copies, unacked, dropped, lost>>
  BY Zenon DEF DrainBegins, sinkVars
<1>3. /\ records \in Seq(Record) /\ Len(records) \in Nat
      /\ opts.batch \in Nat /\ next \in Nat
  BY <1>1, PassthroughAssumption DEF BufferTypes
<1> DEFINE m == Min({Len(records), opts.batch})
<1>4. m \in Nat /\ m <= Len(records)
  BY <1>3, MinOfTwo
<1>5. Pending = SubSeq(records, 1, m)
  BY Zenon DEF Pending
<1> HIDE DEF m
<1>6. /\ Pending \in Seq(Record) /\ Len(Pending) = m
      /\ \A i \in 1..m : Pending[i] = records[i]
  BY <1>3, <1>4, <1>5
<1>7. Len(Pending) <= Len(records) /\ Pending = SubSeq(records, 1, Len(Pending))
  BY Zenon, <1>4, <1>5, <1>6
<1>8. stage' # "resolve" /\ (stage' = "select" => pending' = << >>) /\ stage' \in {"select", "sink"}
  BY Zenon, <1>2
<1>9. BufferTypes'
  <2>1. mark' \in 0..next'
    BY <1>1, <1>2, <1>3 DEF BufferTypes
  <2>2. ready' \in BOOLEAN
    BY Zenon, <1>1 DEF BufferTypes
  <2> QED
    <3>1. pending' \in Seq(Record) /\ stage' \in {"select", "sink", "resolve"}
      BY Zenon, <1>2, <1>6, <1>8
    <3> QED
      BY Zenon, <1>1, <1>2, <1>8, <2>1, <2>2, <3>1 DEF BufferTypes
<1>10. BatchIsHead'
  BY Zenon, <1>1, <1>2, <1>7 DEF BatchIsHead
<1>11. Indexed'
  BY Zenon, <1>1, <1>2, <1>8 DEF Indexed
<1>12. Accounted' /\ DuplicateOnlyUnacked'
  BY Zenon, <1>1, <1>2 DEF Accounted, DuplicateOnlyUnacked
<1>13. NoLostWakeup'
  BY <1>1, <1>2, <1>3 DEF NoLostWakeup
<1> QED
  BY Zenon, <1>9, <1>10, <1>11, <1>12, <1>13 DEF BufferInv

\* Resolve removes what the answer settled, and only that.
LEMMA ResolveStep ==
    ASSUME LeastOf
    PROVE  BufferInv /\ Resolve => BufferInv'
<1> SUFFICES ASSUME BufferInv, Resolve PROVE BufferInv'
  BY Zenon
<1> DEFINE gone == {r \in Sent : results[r] # "retryable"}
<1>1. BufferTypes /\ BatchIsHead /\ Indexed /\ Accounted /\ DuplicateOnlyUnacked /\ NoLostWakeup
  BY Zenon DEF BufferInv
<1>2. /\ stage = "resolve" /\ records' = Kept(records, gone)
      /\ dropped' = dropped \cup {r \in Sent : results[r] = "permanent"}
      /\ stage' = "select" /\ pending' = << >>
      /\ UNCHANGED <<opts, next, ready, copies, unacked, lost, mark>>
  BY Zenon DEF Resolve, Idle, sinkVars
<1>3. /\ records \in Seq(Record) /\ Record \subseteq Nat /\ Len(records) \in Nat
      /\ opts.batch \in Nat /\ next \in Nat /\ next <= MaxAccept
      /\ \A i, j \in DOMAIN records : i < j => records[i] < records[j]
  BY <1>1, PassthroughAssumption DEF BufferTypes, BatchIsHead, Record
<1> HIDE DEF gone
<1>4. /\ records' \in Seq(Record)
      /\ Range(records') = Range(records) \ gone
      /\ \A i, j \in DOMAIN records' : i < j => records'[i] < records'[j]
      /\ Len(records') <= Len(records)
  BY Zenon, <1>2, <1>3, KeptIs
<1>5. << >> \in Seq(Record) /\ Len(<< >>) = 0 /\ Len(records') \in Nat
  BY <1>4
<1>6. BufferTypes'
  BY Zenon, <1>1, <1>2, <1>4, <1>5 DEF BufferTypes
<1>7. BatchIsHead'
  <2>1. Len(<< >>) <= Len(records') /\ << >> = SubSeq(records', 1, Len(<< >>))
    BY <1>4, <1>5
  <2>2. Range(records') \subseteq 1..next'
    BY Zenon, <1>1, <1>2, <1>4 DEF BatchIsHead
  <2> QED
    BY Zenon, <1>2, <1>4, <2>1, <2>2 DEF BatchIsHead
<1>8. Indexed'
  <2>1. \A r \in Range(records') : r \in Range(records) /\ (r \in Sent => results[r] = "retryable")
    BY Zenon, <1>4 DEF gone
  <2> QED
    BY Zenon, <1>1, <1>2, <2>1 DEF Indexed
<1>9. Accounted'
  <2> SUFFICES ASSUME NEW r \in 1..next
               PROVE  r \in Range(records') \cup dropped' \cup lost \/ copies[r] > 0
    BY Zenon, <1>2 DEF Accounted
  <2>1. CASE r \in gone
    <3>1. r \in Sent /\ results[r] \in {"delivered", "permanent"}
      BY Zenon, <1>1, <1>2, <2>1 DEF gone, BufferTypes
    <3>2. CASE results[r] = "delivered"
      BY Zenon, <1>1, <1>2, <3>1, <3>2 DEF Indexed
    <3>3. CASE results[r] = "permanent"
      BY Zenon, <1>2, <3>1, <3>3
    <3> QED
      BY Zenon, <3>1, <3>2, <3>3
  <2>2. CASE r \notin gone
    BY Zenon, <1>1, <1>2, <1>4, <2>2 DEF Accounted
  <2> QED
    BY Zenon, <2>1, <2>2
<1>10. DuplicateOnlyUnacked'
  BY Zenon, <1>1, <1>2 DEF DuplicateOnlyUnacked
<1>11. NoLostWakeup'
  BY <1>1, <1>2, <1>3, <1>4, <1>5 DEF NoLostWakeup
<1> QED
  BY Zenon, <1>6, <1>7, <1>8, <1>9, <1>10, <1>11 DEF BufferInv

\* The four ways a bulk request ends.
LEMMA SinkKeeps == BufferInv /\ Sink => BufferInv'
<1> SUFFICES ASSUME BufferInv, Sink PROVE BufferInv'
  BY Zenon
<1> DEFINE Result == {"delivered", "retryable", "permanent"}
<1>1. BufferTypes /\ BatchIsHead /\ copies \in [Record -> 0..2]
  BY Zenon DEF BufferInv, BufferTypes
<1>2. CASE SinkUnanswered
  <2>1. PICK S \in SUBSET Sent : Index(S) /\ unacked' = unacked \cup S
    BY Zenon, <1>2 DEF SinkUnanswered
  <2>2. All("retryable") \in [Sent -> Result] /\ \A r \in Sent : All("retryable")[r] # "delivered"
    BY Zenon DEF All
  <2>3. /\ stage = "sink" /\ Answer(All("retryable"))
        /\ UNCHANGED <<opts, records, next, ready, pending, dropped, lost, mark>>
    BY Zenon, <1>2 DEF SinkUnanswered
  <2> QED
    BY Zenon, <2>1, <2>2, <2>3, SinkStep
<1>3. CASE SinkRefused
  <2>1. PICK d \in {"retryable", "permanent"} : Answer(All(d))
    BY Zenon, <1>3 DEF SinkRefused
  <2>2. All(d) \in [Sent -> Result] /\ \A r \in Sent : All(d)[r] # "delivered"
    BY Zenon DEF All
  <2>3. /\ stage = "sink" /\ copies' = copies /\ unacked' = unacked
        /\ UNCHANGED <<opts, records, next, ready, pending, dropped, lost, mark>>
    BY Zenon, <1>3 DEF SinkRefused, sinkVars
  <2>4. Index({})
    BY Zenon, <1>1, <2>3 DEF Index
  <2> QED
    BY <2>1, <2>2, <2>3, <2>4, SinkStep
<1>4. CASE SinkAnswered
  <2>1. PICK items \in [Sent -> Item] : SinkAnswers(items)
    BY Zenon, <1>4 DEF SinkAnswered
  <2> DEFINE S == {r \in Sent : items[r] = "created"}
             res == [r \in Sent |-> Classify(items[r])]
  <2>2. /\ res \in [Sent -> Result]
        /\ \A r \in Sent : res[r] = "delivered" <=> items[r] = "created"
    BY Zenon DEF Classify
  <2>3. /\ stage = "sink" /\ Index(S) /\ Answer(res) /\ unacked' = unacked
        /\ UNCHANGED <<opts, records, next, ready, pending, dropped, lost, mark>>
    BY Zenon, <2>1 DEF SinkAnswers
  <2>4. /\ S \subseteq Sent
        /\ \A r \in Sent : res[r] = "delivered" => r \in S
        /\ \A r \in S : res[r] # "retryable"
    BY Zenon, <2>2
  <2> HIDE DEF S, res
  <2> QED
    BY Zenon, <2>2, <2>3, <2>4, SinkStep
<1>5. CASE SinkAnsweredShort
  <2>1. PICK n \in 0 .. Len(pending) - 1, S \in SUBSET Sent :
          LET named == Range(SubSeq(pending, 1, n))
          IN  /\ Index(S)
              /\ unacked' = unacked \cup (S \ named)
              /\ Answer([r \in Sent |->
                           IF r \in named
                           THEN Classify(IF r \in S THEN "created" ELSE "invalid")
                           ELSE "retryable"])
    BY Zenon, <1>5 DEF SinkAnsweredShort
  <2> DEFINE named == Range(SubSeq(pending, 1, n))
             res == [r \in Sent |->
                       IF r \in named THEN Classify(IF r \in S THEN "created" ELSE "invalid")
                       ELSE "retryable"]
  <2>2. /\ stage = "sink"
        /\ UNCHANGED <<opts, records, next, ready, pending, dropped, lost, mark>>
    BY Zenon, <1>5 DEF SinkAnsweredShort
  <2>3. Index(S) /\ unacked' = unacked \cup (S \ named) /\ Answer(res)
    BY Zenon, <2>1
  <2> HIDE DEF named
  <2>4. /\ res \in [Sent -> Result]
        /\ \A r \in Sent : res[r] = "delivered" => r \in S
        /\ \A r \in S : r \in named => res[r] # "retryable"
    BY Zenon DEF Classify
  <2> HIDE DEF res
  <2> QED
    BY Zenon, <2>2, <2>3, <2>4, SinkStep
<1> QED
  BY Zenon, <1>2, <1>3, <1>4, <1>5 DEF Sink

\* A reload leaves the records alone; a restart leaves none.
LEMMA ReconfigureStep == BufferInv /\ Reconfigure => BufferInv'
<1> SUFFICES ASSUME BufferInv, Reconfigure PROVE BufferInv'
  BY Zenon
<1>1. /\ opts' \in Settings /\ mark' = next
      /\ UNCHANGED <<records, next, ready, stage, pending, results, copies, unacked, dropped, lost>>
  BY Zenon DEF Reconfigure, loopVars, sinkVars
<1>2. BufferTypes'
  <2>1. mark' \in 0..next'
    BY <1>1 DEF BufferInv, BufferTypes
  <2>2. Sent' = Sent
    BY Zenon, <1>1 DEF Sent
  <2> QED
    BY Zenon, <1>1, <2>1, <2>2 DEF BufferInv, BufferTypes
<1>3. BatchIsHead' /\ Accounted' /\ DuplicateOnlyUnacked'
  BY Zenon, <1>1 DEF BufferInv, BatchIsHead, Accounted, DuplicateOnlyUnacked
<1>4. Indexed'
  BY Zenon, <1>1 DEF BufferInv, Indexed, Sent
<1>5. NoLostWakeup'
  <2>1. ~(next' > mark')
    BY <1>1 DEF BufferInv, BufferTypes
  <2> QED
    BY Zenon, <2>1 DEF NoLostWakeup
<1> QED
  BY Zenon, <1>2, <1>3, <1>4, <1>5 DEF BufferInv

LEMMA RestartStep == BufferInv /\ RestartEmpty => BufferInv'
<1> SUFFICES ASSUME BufferInv, RestartEmpty PROVE BufferInv'
  BY Zenon
<1>1. /\ opts' \in Settings /\ records' = << >> /\ ready' = FALSE
      /\ stage' = "select" /\ pending' = << >> /\ lost' = lost \cup Range(records)
      /\ mark' = next /\ UNCHANGED <<next, copies, unacked, dropped>>
  BY Zenon DEF RestartEmpty, Idle, sinkVars
<1>2. << >> \in Seq(Record) /\ DOMAIN << >> = {} /\ Range(<< >>) = {}
  BY DEF Range
<1>3. BufferTypes'
  <2>1. mark' \in 0..next'
    BY <1>1 DEF BufferInv, BufferTypes
  <2> QED
    BY Zenon, <1>1, <1>2, <2>1 DEF BufferInv, BufferTypes
<1>4. BatchIsHead'
  BY <1>1, <1>2 DEF BatchIsHead
<1>5. Indexed'
  BY Zenon, <1>1, <1>2 DEF BufferInv, Indexed
<1>6. Accounted' /\ DuplicateOnlyUnacked'
  BY Zenon, <1>1 DEF BufferInv, Accounted, DuplicateOnlyUnacked
<1>7. NoLostWakeup'
  <2>1. ~(next' > mark')
    BY <1>1 DEF BufferInv, BufferTypes
  <2> QED
    BY Zenon, <2>1 DEF NoLostWakeup
<1> QED
  BY Zenon, <1>3, <1>4, <1>5, <1>6, <1>7 DEF BufferInv

\* Every step keeps the buffer's invariant.
LEMMA BufferStep ==
    ASSUME LeastOf
    PROVE  BufferInv /\ [BufferNext]_bufferVars => BufferInv'
<1> SUFFICES ASSUME BufferInv, [BufferNext]_bufferVars PROVE BufferInv'
  BY Zenon
<1>1. CASE AcceptRecord
  BY Zenon, <1>1, AcceptStep
<1>2. CASE Reconfigure
  BY Zenon, <1>2, ReconfigureStep
<1>3. CASE TimerFires \/ ReadyFires
  <2>1. /\ stage = "select" /\ DrainBegins
        /\ UNCHANGED <<ready, mark>> \/ (ready' = FALSE /\ mark' = next)
    BY Zenon, <1>3 DEF TimerFires, ReadyFires
  <2> QED
    BY Zenon, <2>1, DrainStep
<1>4. CASE Sink
  BY Zenon, <1>4, SinkKeeps
<1>5. CASE Resolve
  BY Zenon, <1>5, ResolveStep
<1>6. CASE RestartEmpty
  BY Zenon, <1>6, RestartStep
<1>7. CASE UNCHANGED bufferVars
  <2>1. UNCHANGED <<opts, records, next, ready, stage, pending, results, copies, unacked,
                    dropped, lost, mark>>
    BY Zenon, <1>7 DEF bufferVars, loopVars, sinkVars
  <2> QED
    BY Zenon, <2>1 DEF BufferInv, BufferTypes, BatchIsHead, Indexed, Accounted,
                DuplicateOnlyUnacked, NoLostWakeup, Sent
<1> QED
  BY Zenon, <1>1, <1>2, <1>3, <1>4, <1>5, <1>6, <1>7 DEF BufferNext, Run
-----------------------------------------------------------------------------
INSTANCE WellFoundedInduction

\* A non-empty set of naturals has a least element.
LEMMA LeastNatural ==
    ASSUME NEW T, T \subseteq Nat, T # {}
    PROVE  \E x \in T : \A y \in T : x <= y
<1>1. PICK x \in T : \A y \in T : ~(<<y, x>> \in OpToRel(<, Nat))
  BY NatLessThanWellFounded, WFMin, Zenon
<1>2. ASSUME NEW y \in T, y < x
      PROVE  <<y, x>> \in OpToRel(<, Nat)
  BY Zenon, <1>2 DEF OpToRel
<1> QED
  <2> SUFFICES ASSUME NEW y \in T PROVE x <= y
    BY Zenon
  <2>1. ~(y < x)
    BY <1>1, <1>2, Zenon
  <2> QED
    BY <2>1

\* The invariant holds, whatever requests, reloads, the delivery loop,
\* OpenSearch and restarts do, and in whatever order.
THEOREM Invariance == BufferSpec => []BufferInv
<1>1. BufferInit => BufferInv
  BY Zenon, InitHolds
<1>2. LeastOf
  BY LeastNatural, Zenon DEF LeastOf
<1>3. BufferInv /\ [BufferNext]_bufferVars => BufferInv'
  BY <1>2, BufferStep, Zenon
<1> QED
  BY <1>1, <1>3, PTL DEF BufferSpec

\* Every accepted record is in the buffer, in OpenSearch, counted as dropped,
\* or was in memory when the process stopped (passthrough/buffer.go:51-124).
THEOREM NothingVanishes == BufferSpec => []Accounted
<1>1. BufferInv => Accounted
  BY Zenon DEF BufferInv
<1> QED
  BY <1>1, Invariance, PTL

\* The buffer is in the order of acceptance and the batch in flight is its
\* head (passthrough/buffer.go:82-97).
THEOREM BatchStaysHead == BufferSpec => []BatchIsHead
<1>1. BufferInv => BatchIsHead
  BY Zenon DEF BufferInv
<1> QED
  BY <1>1, Invariance, PTL

\* OpenSearch gets a record twice only after an attempt that was not
\* acknowledged (passthrough/buffer.go:100-124, deliver/service.go:148-180).
THEOREM DuplicatesAreUnacked == BufferSpec => []DuplicateOnlyUnacked
<1>1. BufferInv => DuplicateOnlyUnacked
  BY Zenon DEF BufferInv
<1> QED
  BY <1>1, Invariance, PTL

\* A full batch accepted since the last token was taken has left a token
\* (passthrough/buffer.go:73-78).
THEOREM WakeupIsKept == BufferSpec => []NoLostWakeup
<1>1. BufferInv => NoLostWakeup
  BY Zenon DEF BufferInv
<1> QED
  BY <1>1, Invariance, PTL
=============================================================================
