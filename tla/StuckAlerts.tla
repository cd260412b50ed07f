---------------------------- MODULE StuckAlerts -----------------------------
(***************************************************************************)
(* Stuck-document alerts (internal/application/alerts/service.go): the     *)
(* summary of the dead-letter store kept in memory, and the diagnostics    *)
(* emitted from it.                                                        *)
(*                                                                         *)
(* The summary is seeded from the store when the process starts and then   *)
(* follows the changes that store transactions report.  The drain          *)
(* (internal/application/deliver/service.go) reports rejections and the    *)
(* drops of the cap, admin requests (internal/application/admin) report    *)
(* replays, each after its transaction has committed and the store mutex   *)
(* is free again: two changes may be applied in either order.              *)
(***************************************************************************)
EXTENDS Integers, FiniteSets

CONSTANTS
    Letter,     \* documents, numbered in the order the cap drops them
    Reason,     \* rejection types
    Admin,      \* concurrent replay requests
    MaxLetters, \* limits.max_dlq_records
    MaxReject,  \* bound: rejections
    None

ASSUME AlertsAssumption ==
    /\ Letter \subseteq Nat /\ IsFiniteSet(Letter)
    /\ None \notin Reason
    /\ "drain" \notin Admin
    /\ MaxLetters \in Nat \ {0}
    /\ MaxReject \in Nat

\* application.DeadLetterChange: Added and Removed as counts by type.
Change ==
    [records : Nat, dropped : Nat, added : [Reason -> Nat], removed : [Reason -> Nat]]

ASSUME NoneAssumption == None \notin Change

Actor == Admin \cup {"drain"}
Kind  == {"dlq", "outbox_backlog"}

VARIABLES
    letters,    \* durable: the rejection type of every dead letter
    discarded,  \* durable: documents the cap dropped
    rejections, \* number of rejections so far
    pc,         \* what every actor does next
    change,     \* the DeadLetterChange it must still apply
    gauge,      \* metric flowstitch_dlq_records
    records, droppedSeen, reasons, \* the summary
    enabled,    \* alerts.enabled
    active,     \* the conditions an alert was emitted for
    due,        \* the conditions whose min_interval has passed
    phase,      \* history: state of the last alert of every kind
    recent      \* history: the depths that the last change, and those it overlapped, left

summaryVars == <<gauge, records, droppedSeen, reasons>>
alertVars   == <<enabled, active, due, phase>>
alertsVars  == <<letters, discarded, rejections, pc, change, gauge, records, droppedSeen,
                 reasons, enabled, active, due, phase, recent>>

Dead == {d \in Letter : letters[d] # None}

Of(S, r) == Cardinality({d \in S : letters[d] = r})

InFlight == {a \in Actor : change[a] # None}

AlertsTypes ==
    /\ letters \in [Letter -> Reason \cup {None}]
    /\ discarded \subseteq Letter
    /\ rejections \in 0..MaxReject
    /\ pc \in [Actor -> {"idle", "gauge", "apply", "observe"}]
    /\ change \in [Actor -> Change \cup {None}]
    /\ \A a \in Actor : change[a] # None <=> pc[a] \in {"gauge", "apply"}
    /\ gauge \in Nat
    /\ records \in Nat
    /\ droppedSeen \in Nat
    /\ reasons \in [Reason -> Nat]
    /\ enabled \in BOOLEAN
    /\ active \subseteq Kind /\ due \subseteq Kind
    /\ phase \in [Kind -> {"none", "starting", "ongoing", "clearing"}]
    /\ recent \subseteq Nat
-----------------------------------------------------------------------------
\* Seeded from the store: main's SeedDeadLetters and alerts.New.
AlertsInit ==
    /\ letters = [d \in Letter |-> None]
    /\ discarded = {}
    /\ rejections = 0
    /\ pc = [a \in Actor |-> "idle"]
    /\ change = [a \in Actor |-> None]
    /\ gauge = 0 /\ records = 0 /\ droppedSeen = 0
    /\ reasons = [r \in Reason |-> 0]
    /\ enabled \in BOOLEAN
    /\ active = {}
    /\ due = Kind
    /\ phase = [k \in Kind |-> "none"]
    /\ recent = {0}

\* trimDeadLetters keeps the newest.
Retained(S) == {d \in S : Cardinality({e \in S : e > d}) < MaxLetters}

\* An actor's transaction has committed and it has a change to apply.
Reports(a, c) ==
    /\ change' = [change EXCEPT ![a] = c]
    /\ pc' = [pc EXCEPT ![a] = "gauge"]
    /\ recent' = {Cardinality(Dead')} \cup (IF InFlight = {} THEN {} ELSE recent)

\* ResolveOutbox with permanent results: the documents of P, not dead yet, are
\* dead-lettered with a type each, and the cap drops the oldest.
Reject(P, why) ==
    LET all  == Dead \cup P
        kept == Retained(all)
        type == [d \in Letter |-> IF d \in P THEN why[d] ELSE letters[d]]
    IN  /\ letters' = [d \in Letter |-> IF d \in kept THEN type[d] ELSE None]
        /\ discarded' = discarded \cup (all \ kept)
        /\ rejections' = rejections + Cardinality(P)
        /\ Reports("drain",
             [records |-> Cardinality(kept),
              dropped |-> Cardinality(all \ kept),
              added   |-> [r \in Reason |-> Cardinality({d \in P : why[d] = r})],
              removed |-> [r \in Reason |-> Cardinality({d \in all \ kept : type[d] = r})]])

\* A drain that rejects something, or nothing.
DrainTx ==
    /\ pc["drain"] = "idle"
    /\ \/ \E P \in SUBSET (Letter \ (Dead \cup discarded)) :
            /\ P # {}
            /\ rejections + Cardinality(P) <= MaxReject
            /\ \E why \in [P -> Reason] : Reject(P, why)
       \/ /\ pc' = [pc EXCEPT !["drain"] = "observe"]
          /\ UNCHANGED <<letters, discarded, rejections, change, recent>>
    /\ UNCHANGED <<summaryVars, alertVars>>

\* Faulty variant: the depth is counted before the removals.
ReplayTxEarly(a) ==
    /\ pc[a] = "idle"
    /\ \E R \in SUBSET Dead :
         /\ R # {}
         /\ letters' = [d \in Letter |-> IF d \in R THEN None ELSE letters[d]]
         /\ Reports(a, [records |-> Cardinality(Dead),
                        dropped |-> 0,
                        added   |-> [r \in Reason |-> 0],
                        removed |-> [r \in Reason |-> Of(R, r)]])
    /\ UNCHANGED <<discarded, rejections, summaryVars, alertVars>>

\* ReplayDeadLetters: the dead letters of R go back to the outbox.
ReplayTx(a) ==
    /\ pc[a] = "idle"
    /\ \E R \in SUBSET Dead :
         /\ R # {}
         /\ letters' = [d \in Letter |-> IF d \in R THEN None ELSE letters[d]]
         /\ Reports(a, [records |-> Cardinality(Dead \ R),
                        dropped |-> 0,
                        added   |-> [r \in Reason |-> 0],
                        removed |-> [r \in Reason |-> Of(R, r)]])
    /\ UNCHANGED <<discarded, rejections, summaryVars, alertVars>>

\* recorder.DeadLetterDepth.
SetGauge(a) ==
    /\ pc[a] = "gauge"
    /\ gauge' = change[a].records
    /\ pc' = [pc EXCEPT ![a] = "apply"]
    /\ UNCHANGED <<letters, discarded, rejections, change, records, droppedSeen, reasons,
                   alertVars, recent>>

\* decrement, n times: a count that is not there stays at zero.
Less(count, n) == IF count > n THEN count - n ELSE 0

\* Faulty variant: additions are not counted.
ApplyRemovalsOnly(a) ==
    /\ pc[a] = "apply"
    /\ reasons' = [r \in Reason |-> Less(reasons[r], change[a].removed[r])]
    /\ records' = change[a].records
    /\ droppedSeen' = droppedSeen + change[a].dropped
    /\ change' = [change EXCEPT ![a] = None]
    /\ pc' = [pc EXCEPT ![a] = IF a = "drain" THEN "observe" ELSE "idle"]
    /\ UNCHANGED <<letters, discarded, rejections, gauge, alertVars, recent>>

\* ApplyDeadLetterChange: removals first, then additions; the depth is set, the
\* drops are added.
ApplyDeadLetterChange(a) ==
    /\ pc[a] = "apply"
    /\ reasons' = [r \in Reason |-> Less(reasons[r], change[a].removed[r]) + change[a].added[r]]
    /\ records' = change[a].records
    /\ droppedSeen' = droppedSeen + change[a].dropped
    /\ change' = [change EXCEPT ![a] = None]
    /\ pc' = [pc EXCEPT ![a] = IF a = "drain" THEN "observe" ELSE "idle"]
    /\ UNCHANGED <<letters, discarded, rejections, gauge, alertVars, recent>>
-----------------------------------------------------------------------------
\* Faulty variant: a condition that ended is forgotten without a word.
TransitionSilent(k, holds) ==
    IF holds /\ k \notin active THEN "starting"
    ELSE IF holds /\ k \in due THEN "ongoing"
    ELSE "none"

\* transition: what to emit for a condition that holds or does not.
Transition(k, holds) ==
    IF holds /\ k \notin active THEN "starting"
    ELSE IF holds /\ k \in due THEN "ongoing"
    ELSE IF ~holds /\ k \in active THEN "clearing"
    ELSE "none"

\* refreshDepth and Observe: the dead-letter condition comes from the summary,
\* the backlog condition from the ages in the outbox.  An alert that is not
\* delivered counts as emitted.
Observe ==
    /\ pc["drain"] = "observe"
    /\ pc' = [pc EXCEPT !["drain"] = "idle"]
    /\ IF enabled
       THEN \E backlog \in BOOLEAN :
              LET holds == [k \in Kind |-> IF k = "dlq" THEN records > 0 ELSE backlog]
                  emitted == {k \in Kind : Transition(k, holds[k]) # "none"}
              IN  /\ phase' = [k \in Kind |-> IF k \in emitted THEN Transition(k, holds[k])
                                              ELSE phase[k]]
                  /\ active' = {k \in Kind : IF k \in emitted THEN holds[k] ELSE k \in active}
                  /\ due' = due \ emitted
       ELSE UNCHANGED <<phase, active, due>>
    /\ UNCHANGED <<letters, discarded, rejections, change, summaryVars, enabled, recent>>

\* min_interval passes.
IntervalPasses ==
    /\ due # Kind
    /\ due' = Kind
    /\ UNCHANGED <<letters, discarded, rejections, pc, change, summaryVars, enabled, active,
                   phase, recent>>

\* A reload that enables or disables alerts, or names another index, starts
\* over with no condition known.
Reconfigure ==
    /\ enabled' \in BOOLEAN
    /\ active' = {}
    /\ due' = Kind
    /\ phase' = [k \in Kind |-> "none"]
    /\ UNCHANGED <<letters, discarded, rejections, pc, change, summaryVars, recent>>

\* The process stops and starts again: the summary is seeded from the store.
Restart ==
    /\ pc' = [a \in Actor |-> "idle"]
    /\ change' = [a \in Actor |-> None]
    /\ gauge' = Cardinality(Dead)
    /\ records' = Cardinality(Dead)
    /\ droppedSeen' = Cardinality(discarded)
    /\ reasons' = [r \in Reason |-> Of(Letter, r)]
    /\ active' = {}
    /\ due' = Kind
    /\ phase' = [k \in Kind |-> "none"]
    /\ recent' = {Cardinality(Dead)}
    /\ UNCHANGED <<letters, discarded, rejections, enabled>>

Apply(a) == SetGauge(a) \/ ApplyDeadLetterChange(a)

DrainWorks == DrainTx \/ Apply("drain") \/ Observe

AlertsNext ==
    \/ DrainWorks
    \/ \E a \in Admin : ReplayTx(a) \/ Apply(a)
    \/ IntervalPasses
    \/ Reconfigure
    \/ Restart

AlertsSpec == AlertsInit /\ [][AlertsNext]_alertsVars

\* The drain loop keeps draining, and a replay request that has committed
\* finishes.
AlertsFairness == WF_alertsVars(DrainWorks) /\ \A a \in Admin : WF_alertsVars(Apply(a))

FairAlertsSpec == AlertsSpec /\ AlertsFairness
-----------------------------------------------------------------------------
(***************************************************************************)
(* Properties.                                                             *)
(***************************************************************************)

\* Once every change has been applied, no rejection type is under-reported and
\* the drops are counted exactly, in whatever order the changes were applied
\* (alerts/service.go:73-89, 215-221).
NeverUnderReported ==
    InFlight = {} => /\ \A r \in Reason : reasons[r] >= Of(Letter, r)
                     /\ droppedSeen = Cardinality(discarded)

\* Once every change has been applied, the depth that the gauge and the alerts
\* show is one that the last change or a change it overlapped has left: a late
\* report may win over the newest, never one from before.  The store's own depth
\* is among them, so a change that overlaps no other is shown exactly
\* (alerts/service.go:87, deliver/service.go:132-137, admin/service.go:57-62).
DepthRecent ==
    /\ InFlight = {} => gauge \in recent /\ records \in recent
    /\ Cardinality(Dead) \in recent

\* "once when it clears" (specification.md:349): when the dead-letter store
\* stays empty, the alert that announced dead letters does not stay the last
\* word, unless the process restarts or alerts are reconfigured.
Clears ==
    (/\ <>[](letters = [d \in Letter |-> None])
     /\ <>[]enabled
     /\ <>[][~Reconfigure /\ ~Restart]_alertsVars)
    => <>[](phase["dlq"] \notin {"starting", "ongoing"})

\* That holds when the last change overlaps none that left another depth; when it
\* does, a stale depth may stay for as long as the store stays empty.
ClearsSerial == <>[](recent = {Cardinality(Dead)}) => Clears
=============================================================================
