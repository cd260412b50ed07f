---------------------------- MODULE RuleRegistry ----------------------------
(***************************************************************************)
(* The versioned rule registry (internal/adapters/rules/registry.go) and   *)
(* everybody who takes or drops a reference on a rule version:             *)
(*                                                                         *)
(*   - every HTTP request runs ingest.Service.Accept in its own goroutine; *)
(*   - one goroutine runs expire.Service.Sweep;                            *)
(*   - SIGHUP publishes a reloaded configuration;                          *)
(*   - a restart rebuilds the registry from the configuration and the open *)
(*     flows found on disk.                                                *)
(*                                                                         *)
(* A registry call takes the registry mutex and is one step; a store       *)
(* transaction takes the store mutex.  The two are not nested the same way *)
(* everywhere, so a reference is taken before the transaction that needs   *)
(* it and dropped some steps after the transaction that ended its use.     *)
(* What a flow contains does not matter here: a flow is its key and the    *)
(* rule reference it is pinned to.                                         *)
(***************************************************************************)
EXTENDS Integers, FiniteSets

CONSTANTS
    Ref,        \* rule references: an ID together with a content version
    RuleId,     \* rule IDs
    RuleOf,     \* the rule ID of a reference
    Enabled,    \* the references whose rule is enabled
    Config,     \* the configurations an operator may load: sets of references
    CorrKey,    \* correlation keys
    Worker,     \* concurrent Accept calls
    Batch,      \* flows one sweep may finalize
    None        \* "no reference"

\* A flow is identified by the rule that claimed it and the correlation key.
FlowKey == RuleId \X CorrKey

ASSUME RegistryAssumption ==
    /\ RuleOf \in [Ref -> RuleId]
    /\ Enabled \subseteq Ref
    /\ Config \subseteq SUBSET Ref
    /\ None \notin Ref
    /\ Batch \in Nat \ {0}
    /\ IsFiniteSet(Worker)
    /\ IsFiniteSet(FlowKey)

VARIABLES
    ordered,    \* the references of the current configuration
    versions,   \* the references Get resolves
    open,       \* reference count of every version
    flows,      \* durable: the reference every open flow is pinned to
    pc,         \* progress of every Accept call
    cand,       \* the reference an Accept call retained
    fkey,       \* the flow key it computed
    fin,        \* the reference of the flow it finalized
    sweepPc,    \* progress of the sweep
    swept,      \* the flows the sweep staged or must still release
    noRule,     \* staged flows that end with reason rule_unavailable
    recovered   \* history: open flows found on disk by the last restart

registryVars == <<ordered, versions, open>>
workerVars   == <<pc, cand, fkey, fin>>
sweepVars    == <<sweepPc, swept, noRule>>
vars == <<ordered, versions, open, flows, pc, cand, fkey, fin,
          sweepPc, swept, noRule, recovered>>

NoFlows == [k \in FlowKey |-> None]

OpenKeys == {k \in FlowKey : flows[k] # None}

TypeOK ==
    /\ ordered \in Config
    /\ versions \subseteq Ref
    /\ open \in [Ref -> Nat]
    /\ flows \in [FlowKey -> Ref \cup {None}]
    /\ pc \in [Worker -> {"idle", "retained", "releaseFin", "releaseCand"}]
    /\ cand \in [Worker -> Ref \cup {None}]
    /\ fkey \in [Worker -> FlowKey \cup {None}]
    /\ fin \in [Worker -> Ref \cup {None}]
    /\ sweepPc \in {"idle", "tx", "release"}
    /\ swept \in [FlowKey -> Ref \cup {None}]
    /\ noRule \subseteq FlowKey
    /\ recovered \subseteq FlowKey
    /\ \A w \in Worker : pc[w] # "idle" => cand[w] \in Ref /\ fkey[w] \in FlowKey
    /\ \A w \in Worker : pc[w] = "releaseFin" => fin[w] \in Ref
-----------------------------------------------------------------------------
(***************************************************************************)
(* Registry operations.                                                    *)
(***************************************************************************)

\* NewRegistry followed by SeedOpenFlows with the counts of the open flows.
Seed(c) ==
    /\ ordered' = c
    /\ versions' = c
    /\ open' = [v \in Ref |-> Cardinality({k \in FlowKey : flows[k] = v})]

\* Faulty variant: a reload keeps only the versions it loads.
PublishDroppingPinned(c) ==
    /\ ordered' = c
    /\ versions' = c
    /\ UNCHANGED open

Publish(c) ==
    /\ ordered' = c
    /\ versions' = {v \in versions : open[v] > 0} \cup c
    /\ UNCHANGED open

Retain(v) ==
    /\ open' = [open EXCEPT ![v] = @ + 1]
    /\ UNCHANGED <<ordered, versions>>

Release(v) ==
    /\ open' = [open EXCEPT ![v] = IF @ > 1 THEN @ - 1 ELSE 0]
    /\ versions' = IF open[v] > 1 \/ v \in ordered THEN versions
                                                   ELSE versions \ {v}
    /\ UNCHANGED ordered

Get(v) == v \in versions
-----------------------------------------------------------------------------
Init ==
    /\ ordered \in Config
    /\ versions = ordered
    /\ open = [v \in Ref |-> 0]
    /\ flows = NoFlows
    /\ pc = [w \in Worker |-> "idle"]
    /\ cand = [w \in Worker |-> None]
    /\ fkey = [w \in Worker |-> None]
    /\ fin = [w \in Worker |-> None]
    /\ sweepPc = "idle"
    /\ swept = NoFlows
    /\ noRule = {}
    /\ recovered = {}

(***************************************************************************)
(* ingest.Service.Accept.                                                  *)
(***************************************************************************)

\* The first enabled rule whose key resolves claims the event: over all the
\* events a producer may send, any enabled rule of the configuration.
MatchAndRetain(w) ==
    /\ pc[w] = "idle"
    /\ \E v \in ordered \cap Enabled, c \in CorrKey :
          /\ Retain(v)
          /\ cand' = [cand EXCEPT ![w] = v]
          /\ fkey' = [fkey EXCEPT ![w] = <<RuleOf[v], c>>]
    /\ pc' = [pc EXCEPT ![w] = "retained"]
    /\ UNCHANGED <<flows, fin, sweepVars, recovered>>

\* No capacity, or the transaction failed: the deferred Release still runs.
Refuse(w) ==
    /\ pc[w] = "retained"
    /\ pc' = [pc EXCEPT ![w] = "releaseCand"]
    /\ UNCHANGED <<registryVars, flows, cand, fkey, fin, sweepVars, recovered>>

\* The call returns; its locals are gone.
Return(w) ==
    /\ pc' = [pc EXCEPT ![w] = "idle"]
    /\ cand' = [cand EXCEPT ![w] = None]
    /\ fkey' = [fkey EXCEPT ![w] = None]

\* A transaction holds the store mutex, so none runs while the sweep's does.
StoreFree == sweepPc # "tx"

\* Faulty variant: the deferred Release also runs for a flow that stays open.
OpenFlowReleasing(w) ==
    /\ pc[w] = "retained"
    /\ StoreFree
    /\ flows[fkey[w]] = None
    /\ flows' = [flows EXCEPT ![fkey[w]] = cand[w]]
    /\ pc' = [pc EXCEPT ![w] = "releaseCand"]
    /\ UNCHANGED <<registryVars, cand, fkey, fin, sweepVars, recovered>>

\* The transaction opens a flow that stays open: its reference is the one the
\* call retained, which is now the flow's.
OpenFlow(w) ==
    /\ pc[w] = "retained"
    /\ StoreFree
    /\ flows[fkey[w]] = None
    /\ flows' = [flows EXCEPT ![fkey[w]] = cand[w]]
    /\ Return(w)
    /\ UNCHANGED <<registryVars, fin, sweepVars, recovered>>

\* The transaction opens a flow its first event also closes.
OpenAndFinalize(w) ==
    /\ pc[w] = "retained"
    /\ StoreFree
    /\ flows[fkey[w]] = None
    /\ pc' = [pc EXCEPT ![w] = "releaseCand"]
    /\ UNCHANGED <<registryVars, flows, cand, fkey, fin, sweepVars, recovered>>

\* The event joins an open flow that stays open under its pinned rule.
JoinFlow(w) ==
    /\ pc[w] = "retained"
    /\ StoreFree
    /\ flows[fkey[w]] # None
    /\ pc' = [pc EXCEPT ![w] = "releaseCand"]
    /\ UNCHANGED <<registryVars, flows, cand, fkey, fin, sweepVars, recovered>>

\* Faulty variant: the reference of the finalized flow is forgotten.
FinalizeFlowLeaking(w) ==
    /\ pc[w] = "retained"
    /\ StoreFree
    /\ flows[fkey[w]] # None
    /\ flows' = [flows EXCEPT ![fkey[w]] = None]
    /\ recovered' = recovered \ {fkey[w]}
    /\ pc' = [pc EXCEPT ![w] = "releaseCand"]
    /\ UNCHANGED <<registryVars, cand, fkey, fin, sweepVars>>

\* The event closes an open flow: the call drops the flow's reference first,
\* then, deferred, the one it retained.
FinalizeFlow(w) ==
    /\ pc[w] = "retained"
    /\ StoreFree
    /\ flows[fkey[w]] # None
    /\ fin' = [fin EXCEPT ![w] = flows[fkey[w]]]
    /\ flows' = [flows EXCEPT ![fkey[w]] = None]
    /\ recovered' = recovered \ {fkey[w]}
    /\ pc' = [pc EXCEPT ![w] = "releaseFin"]
    /\ UNCHANGED <<registryVars, cand, fkey, sweepVars>>

ReleaseFinalized(w) ==
    /\ pc[w] = "releaseFin"
    /\ Release(fin[w])
    /\ fin' = [fin EXCEPT ![w] = None]
    /\ pc' = [pc EXCEPT ![w] = "releaseCand"]
    /\ UNCHANGED <<flows, cand, fkey, sweepVars, recovered>>

ReleaseCandidate(w) ==
    /\ pc[w] = "releaseCand"
    /\ Release(cand[w])
    /\ Return(w)
    /\ UNCHANGED <<flows, fin, sweepVars, recovered>>

AcceptTx(w) == OpenFlow(w) \/ OpenAndFinalize(w) \/ JoinFlow(w) \/ FinalizeFlow(w)

Accept(w) == Refuse(w) \/ AcceptTx(w) \/ ReleaseFinalized(w) \/ ReleaseCandidate(w)
-----------------------------------------------------------------------------
(***************************************************************************)
(* expire.Service.Sweep.  One transaction looks up the rule of every due   *)
(* flow, one after the other, while reloads and releases go on; nothing is *)
(* visible before the commit, and the references are dropped after it.     *)
(***************************************************************************)
SweepBegin ==
    /\ sweepPc = "idle"
    /\ sweepPc' = "tx"
    /\ UNCHANGED <<registryVars, flows, workerVars, swept, noRule, recovered>>

StagedKeys == {k \in FlowKey : swept[k] # None}

SweepFlow(k) ==
    /\ sweepPc = "tx"
    /\ flows[k] # None
    /\ swept[k] = None
    /\ Cardinality(StagedKeys) < Batch
    /\ swept' = [swept EXCEPT ![k] = flows[k]]
    /\ noRule' = IF Get(flows[k]) THEN noRule ELSE noRule \cup {k}
    /\ UNCHANGED <<registryVars, flows, workerVars, sweepPc, recovered>>

\* Faulty variant: the sweep drops no reference after its commit.
SweepCommitLeaking ==
    /\ sweepPc = "tx"
    /\ flows' = [k \in FlowKey |-> IF swept[k] # None THEN None ELSE flows[k]]
    /\ recovered' = recovered \ StagedKeys
    /\ noRule' = {}
    /\ swept' = NoFlows
    /\ sweepPc' = "release"
    /\ UNCHANGED <<registryVars, workerVars>>

SweepCommit ==
    /\ sweepPc = "tx"
    /\ flows' = [k \in FlowKey |-> IF swept[k] # None THEN None ELSE flows[k]]
    /\ recovered' = recovered \ StagedKeys
    /\ noRule' = {}
    /\ sweepPc' = "release"
    /\ UNCHANGED <<registryVars, workerVars, swept>>

SweepRelease(k) ==
    /\ sweepPc = "release"
    /\ swept[k] # None
    /\ Release(swept[k])
    /\ swept' = [swept EXCEPT ![k] = None]
    /\ UNCHANGED <<flows, workerVars, sweepPc, noRule, recovered>>

SweepDone ==
    /\ sweepPc = "release"
    /\ StagedKeys = {}
    /\ sweepPc' = "idle"
    /\ UNCHANGED <<registryVars, flows, workerVars, swept, noRule, recovered>>

Sweep == SweepBegin \/ SweepCommit \/ SweepDone
-----------------------------------------------------------------------------
\* SIGHUP with a valid configuration.
Reload ==
    /\ \E c \in Config : Publish(c)
    /\ UNCHANGED <<flows, workerVars, sweepVars, recovered>>

\* The process stops at any point (a crash, a failed sweep, SIGTERM) and starts
\* again, perhaps with another configuration.  Only committed flows survive.
Restart ==
    /\ \E c \in Config : Seed(c)
    /\ recovered' = OpenKeys
    /\ pc' = [w \in Worker |-> "idle"]
    /\ cand' = [w \in Worker |-> None]
    /\ fkey' = [w \in Worker |-> None]
    /\ fin' = [w \in Worker |-> None]
    /\ sweepPc' = "idle"
    /\ swept' = NoFlows
    /\ noRule' = {}
    /\ UNCHANGED flows

Next ==
    \/ \E w \in Worker : MatchAndRetain(w) \/ Accept(w)
    \/ \E k \in FlowKey : SweepFlow(k) \/ SweepRelease(k)
    \/ Sweep
    \/ Reload
    \/ Restart

Spec == Init /\ [][Next]_vars

(***************************************************************************)
(* Fairness.  A request that was let in runs to its end, and the sweep     *)
(* goroutine keeps sweeping.  A flow's deadline is persisted and DueFlows  *)
(* returns the earliest deadlines first, so a flow is not passed over      *)
(* forever: strong fairness of SweepFlow(k).                               *)
(***************************************************************************)
Fairness ==
    /\ \A w \in Worker : WF_vars(Accept(w))
    /\ WF_vars(Sweep)
    /\ \A k \in FlowKey : SF_vars(SweepFlow(k)) /\ WF_vars(SweepRelease(k))

FairSpec == Spec /\ Fairness
-----------------------------------------------------------------------------
(***************************************************************************)
(* Properties.                                                             *)
(***************************************************************************)

\* Who holds a reference on version v: open flows, Accept calls between
\* MatchAndRetain and their deferred Release, Accept calls that finalized a
\* flow and have not dropped its reference, and the flows of a committed sweep
\* whose reference is still to be dropped.
FlowHolders(v)  == {k \in FlowKey : flows[k] = v}
CandHolders(v)  == {w \in Worker : pc[w] # "idle" /\ cand[w] = v}
FinHolders(v)   == {w \in Worker : pc[w] = "releaseFin" /\ fin[w] = v}
SweepHolders(v) == {k \in FlowKey : sweepPc = "release" /\ swept[k] = v}

\* Registry.open counts exactly the references held, whatever the interleaving
\* of requests, sweeps, reloads and restarts: no double release, no leak
\* (registry.go:54-105, ingest/service.go:130-199, expire/service.go:103-107).
RefCountExact ==
    \A v \in Ref :
        open[v] = Cardinality(FlowHolders(v)) + Cardinality(CandHolders(v))
                  + Cardinality(FinHolders(v)) + Cardinality(SweepHolders(v))

\* An open flow that was not recovered by a restart finds its pinned version
\* in the registry, however many reloads it lives through (registry.go:39-45).
PinnedResolvable ==
    \A k \in OpenKeys \ recovered : Get(flows[k])

\* A sweep ends a flow with reason rule_unavailable only when a restart
\* recovered that flow ("recovery could not resolve the flow's pinned rule",
\* flow/finalize.go:22), never because of a reload (expire/service.go:72-81).
RuleUnavailableOnlyRecovered == noRule \subseteq recovered

\* Old versions are reclaimed: what Get resolves is configured now or held by
\* somebody (registry.go:91-104).
OldVersionsHeld == versions \subseteq ordered \cup {v \in Ref : open[v] > 0}

\* Once a version stays out of the configuration it is eventually reclaimed
\* for good: its flows end and the last reference is dropped.
SupersededReclaimed ==
    \A v \in Ref : <>[](v \notin ordered) => <>[](v \notin versions)
=============================================================================
