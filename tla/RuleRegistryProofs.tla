------------------------- MODULE RuleRegistryProofs -------------------------
(***************************************************************************)
(* Proofs about the rule registry, for every set of rules, configurations, *)
(* correlation keys and concurrent requests.                               *)
(*                                                                         *)
(* The properties are not inductive one by one: a version stays resolvable *)
(* because the count that guards its removal is exact, and the count stays *)
(* exact because the sweep's staged flows are the flows on disk.           *)
(***************************************************************************)
EXTENDS RuleRegistry, FiniteSetTheorems, TLAPS

\* What the sweep staged is what is on disk, and it stages nothing outside
\* its transaction.
SweepConsistent ==
    /\ sweepPc = "tx" => \A k \in FlowKey : swept[k] # None => swept[k] = flows[k]
    /\ sweepPc = "idle" => \A k \in FlowKey : swept[k] = None
    /\ noRule # {} => sweepPc = "tx"

\* The version an Accept call retained stays resolvable until it releases it.
CandResolvable == \A w \in Worker : pc[w] # "idle" => Get(cand[w])

IInv ==
    /\ TypeOK
    /\ SweepConsistent
    /\ RefCountExact
    /\ ordered \subseteq versions
    /\ CandResolvable
    /\ PinnedResolvable
    /\ RuleUnavailableOnlyRecovered
    /\ OldVersionsHeld
-----------------------------------------------------------------------------
\* A new member adds one to the cardinality.
LEMMA AddOne ==
    ASSUME NEW S, IsFiniteSet(S), NEW x, x \notin S
    PROVE  Cardinality(S \cup {x}) = Cardinality(S) + 1
BY FS_AddElement

\* Removing a member takes one from the cardinality.
LEMMA DropOne ==
    ASSUME NEW S, IsFiniteSet(S), NEW x \in S
    PROVE  Cardinality(S \ {x}) = Cardinality(S) - 1
BY FS_RemoveElement

\* A set with a member is not counted zero.
LEMMA HasOne ==
    ASSUME NEW S, IsFiniteSet(S), NEW x \in S
    PROVE  Cardinality(S) \in Nat /\ Cardinality(S) >= 1
BY FS_EmptySet, FS_CardinalityType

\* The sets of holders are finite, so their cardinalities are naturals.
LEMMA HoldersFinite ==
    ASSUME NEW v
    PROVE  /\ IsFiniteSet(FlowHolders(v)) /\ Cardinality(FlowHolders(v)) \in Nat
           /\ IsFiniteSet(CandHolders(v)) /\ Cardinality(CandHolders(v)) \in Nat
           /\ IsFiniteSet(FinHolders(v)) /\ Cardinality(FinHolders(v)) \in Nat
           /\ IsFiniteSet(SweepHolders(v)) /\ Cardinality(SweepHolders(v)) \in Nat
<1>1. FlowHolders(v) \in SUBSET FlowKey /\ SweepHolders(v) \in SUBSET FlowKey
  BY DEF FlowHolders, SweepHolders
<1>2. CandHolders(v) \in SUBSET Worker /\ FinHolders(v) \in SUBSET Worker
  BY DEF CandHolders, FinHolders
<1>3. IsFiniteSet(FlowKey) /\ IsFiniteSet(Worker)
  BY RegistryAssumption
<1>4. /\ IsFiniteSet(FlowHolders(v)) /\ IsFiniteSet(SweepHolders(v))
      /\ IsFiniteSet(CandHolders(v)) /\ IsFiniteSet(FinHolders(v))
  BY <1>1, <1>2, <1>3, FS_Subset
<1> QED
  BY <1>4, FS_CardinalityType

\* A held version has a positive count.
LEMMA HeldCounted ==
    ASSUME TypeOK, RefCountExact, NEW v \in Ref,
           FlowHolders(v) \cup CandHolders(v) \cup FinHolders(v) \cup SweepHolders(v) # {}
    PROVE  open[v] \in Nat /\ open[v] >= 1
<1> DEFINE F == Cardinality(FlowHolders(v))
           C == Cardinality(CandHolders(v))
           N == Cardinality(FinHolders(v))
           S == Cardinality(SweepHolders(v))
<1>1. F \in Nat /\ C \in Nat /\ N \in Nat /\ S \in Nat
  BY HoldersFinite
<1>2. F # 0 \/ C # 0 \/ N # 0 \/ S # 0
  BY HoldersFinite, FS_EmptySet
<1>3. open[v] = F + C + N + S
  BY DEF RefCountExact
<1> HIDE DEF F, C, N, S
<1> QED
  BY <1>1, <1>2, <1>3

\* A version with two kinds of holders, or retained by two requests, has a
\* count above one, so dropping one reference does not reclaim it.
LEMMA TwoHolders ==
    ASSUME TypeOK, RefCountExact, NEW v \in Ref,
           \/ FlowHolders(v) # {} /\ CandHolders(v) \cup FinHolders(v) \cup SweepHolders(v) # {}
           \/ CandHolders(v) # {} /\ FinHolders(v) \cup SweepHolders(v) # {}
           \/ \E w1, w2 \in CandHolders(v) : w1 # w2
    PROVE  open[v] > 1
<1> DEFINE F == Cardinality(FlowHolders(v))
           C == Cardinality(CandHolders(v))
           N == Cardinality(FinHolders(v))
           S == Cardinality(SweepHolders(v))
<1>1. F \in Nat /\ C \in Nat /\ N \in Nat /\ S \in Nat
  BY HoldersFinite
<1>2. ASSUME NEW w1 \in CandHolders(v), NEW w2 \in CandHolders(v), w1 # w2
      PROVE  C > 1
  <2>1. C - 1 = Cardinality(CandHolders(v) \ {w1})
    BY DropOne, HoldersFinite
  <2>2. w2 \in CandHolders(v) \ {w1}
    BY <1>2
  <2>3. IsFiniteSet(CandHolders(v) \ {w1})
    BY HoldersFinite, FS_RemoveElement
  <2>4. Cardinality(CandHolders(v) \ {w1}) >= 1
    BY <2>2, <2>3, HasOne
  <2> QED
    BY <1>1, <2>1, <2>4
<1>3. \/ F # 0 /\ (C # 0 \/ N # 0 \/ S # 0)
      \/ C # 0 /\ (N # 0 \/ S # 0)
      \/ C > 1
  BY <1>2, HoldersFinite, FS_EmptySet
<1>4. open[v] = F + C + N + S
  BY DEF RefCountExact
<1> HIDE DEF F, C, N, S
<1> QED
  BY <1>1, <1>3, <1>4
-----------------------------------------------------------------------------
(***************************************************************************)
(* Types.                                                                  *)
(***************************************************************************)
LEMMA TypeInit == Init => TypeOK
BY RegistryAssumption DEF Init, TypeOK, NoFlows

\* Every step of the registry and its callers keeps the types.
LEMMA TypeNext == TypeOK /\ [Next]_vars => TypeOK'
<1> SUFFICES ASSUME TypeOK, [Next]_vars PROVE TypeOK'
  OBVIOUS
<1> USE RegistryAssumption DEF TypeOK
<1>1. ASSUME NEW v \in Ref, Release(v)
      PROVE  open' \in [Ref -> Nat] /\ versions' \subseteq Ref /\ ordered' \in Config
  BY <1>1 DEF Release
<1>2. ASSUME NEW w \in Worker, MatchAndRetain(w) PROVE TypeOK'
  <2>1. PICK v \in ordered \cap Enabled, c \in CorrKey :
          /\ Retain(v)
          /\ cand' = [cand EXCEPT ![w] = v]
          /\ fkey' = [fkey EXCEPT ![w] = <<RuleOf[v], c>>]
    BY <1>2, Zenon DEF MatchAndRetain
  <2>2. v \in Ref /\ <<RuleOf[v], c>> \in FlowKey
    BY <2>1 DEF FlowKey
  <2>3. open' \in [Ref -> Nat]
    BY <2>1, <2>2 DEF Retain
  <2> QED
    BY <1>2, <2>1, <2>2, <2>3 DEF MatchAndRetain, Retain, sweepVars
<1>3. ASSUME NEW w \in Worker, Accept(w) PROVE TypeOK'
  <2>1. CASE Refuse(w) \/ OpenAndFinalize(w) \/ JoinFlow(w)
    BY <2>1 DEF Refuse, OpenAndFinalize, JoinFlow, registryVars, sweepVars
  <2>2. CASE OpenFlow(w)
    BY <2>2 DEF OpenFlow, Return, registryVars, sweepVars
  <2>3. CASE FinalizeFlow(w)
    BY <2>3 DEF FinalizeFlow, registryVars, sweepVars
  <2>4. CASE ReleaseFinalized(w)
    BY <2>4, <1>1 DEF ReleaseFinalized, sweepVars
  <2>5. CASE ReleaseCandidate(w)
    BY <2>5, <1>1 DEF ReleaseCandidate, Return, sweepVars
  <2> QED
    BY <1>3, <2>1, <2>2, <2>3, <2>4, <2>5 DEF Accept, AcceptTx
<1>4. ASSUME NEW k \in FlowKey, SweepFlow(k) PROVE TypeOK'
  BY <1>4 DEF SweepFlow, registryVars, workerVars
<1>5. ASSUME NEW k \in FlowKey, SweepRelease(k) PROVE TypeOK'
  BY <1>5, <1>1 DEF SweepRelease, workerVars
<1>6. CASE Sweep
  BY <1>6 DEF Sweep, SweepBegin, SweepCommit, SweepDone, registryVars, workerVars
<1>7. CASE Reload
  BY <1>7 DEF Reload, Publish, workerVars, sweepVars
<1>8. CASE Restart
  <2>1. \A v \in Ref : Cardinality({k \in FlowKey : flows[k] = v}) \in Nat
    BY HoldersFinite, Zenon DEF FlowHolders
  <2>2. open' \in [Ref -> Nat] /\ versions' \subseteq Ref /\ ordered' \in Config
    BY <1>8, <2>1 DEF Restart, Seed
  <2> QED
    BY <1>8, <2>2 DEF Restart, NoFlows, OpenKeys
<1>9. CASE UNCHANGED vars
  BY <1>9 DEF vars
<1> QED
  BY <1>2, <1>3, <1>4, <1>5, <1>6, <1>7, <1>8, <1>9 DEF Next
-----------------------------------------------------------------------------
(***************************************************************************)
(* The reference count.  Every action moves at most one holder of each     *)
(* version, except the sweep's commit, which turns flows into references   *)
(* still to be dropped.                                                    *)
(***************************************************************************)

\* Dropping a held reference subtracts one; the clamp of Release never bites.
LEMMA ReleaseHeld ==
    ASSUME TypeOK, NEW u \in Ref, Release(u), open[u] >= 1
    PROVE  open' = [open EXCEPT ![u] = @ - 1]
<1>1. open[u] \in Nat
  BY DEF TypeOK
<1>2. (IF open[u] > 1 THEN open[u] - 1 ELSE 0) = open[u] - 1
  BY <1>1
<1> QED
  BY <1>2, Zenon DEF Release

\* MatchAndRetain adds one holder and one to the count of its reference.
LEMMA CountMatch ==
    ASSUME TypeOK, RefCountExact, NEW w \in Worker, MatchAndRetain(w)
    PROVE  RefCountExact'
<1>1. PICK u \in ordered \cap Enabled, c \in CorrKey :
        /\ Retain(u)
        /\ cand' = [cand EXCEPT ![w] = u]
  BY Zenon DEF MatchAndRetain
<1>2. u \in Ref
  BY RegistryAssumption
<1> SUFFICES ASSUME NEW v \in Ref
             PROVE  open'[v] = Cardinality(FlowHolders(v)') + Cardinality(CandHolders(v)')
                               + Cardinality(FinHolders(v)') + Cardinality(SweepHolders(v)')
  BY DEF RefCountExact
<1>3. /\ FlowHolders(v)' = FlowHolders(v)
      /\ SweepHolders(v)' = SweepHolders(v)
      /\ FinHolders(v)' = FinHolders(v)
  BY DEF MatchAndRetain, FlowHolders, SweepHolders, FinHolders, sweepVars, TypeOK
<1>4. w \notin CandHolders(v)
  BY DEF MatchAndRetain, CandHolders
<1>5. CandHolders(v)' = IF v = u THEN CandHolders(v) \cup {w} ELSE CandHolders(v)
  BY <1>1 DEF MatchAndRetain, CandHolders, TypeOK
<1>6. open'[v] = IF v = u THEN open[v] + 1 ELSE open[v]
  BY <1>1, <1>2 DEF Retain, TypeOK
<1>7. Cardinality(CandHolders(v)') =
        IF v = u THEN Cardinality(CandHolders(v)) + 1 ELSE Cardinality(CandHolders(v))
  BY <1>4, <1>5, AddOne, HoldersFinite
<1> QED
  BY <1>3, <1>6, <1>7, HoldersFinite DEF RefCountExact

\* Opening a flow hands the candidate reference to the flow.
LEMMA CountOpenFlow ==
    ASSUME TypeOK, RefCountExact, NEW w \in Worker, OpenFlow(w)
    PROVE  RefCountExact'
<1> DEFINE u == cand[w]
           x == fkey[w]
<1>1. u \in Ref /\ x \in FlowKey /\ flows[x] = None /\ None \notin Ref
  BY RegistryAssumption DEF OpenFlow, TypeOK
<1> SUFFICES ASSUME NEW v \in Ref
             PROVE  open'[v] = Cardinality(FlowHolders(v)') + Cardinality(CandHolders(v)')
                               + Cardinality(FinHolders(v)') + Cardinality(SweepHolders(v)')
  BY DEF RefCountExact
<1>2. FinHolders(v)' = FinHolders(v) /\ SweepHolders(v)' = SweepHolders(v) /\ open' = open
  BY DEF OpenFlow, Return, FinHolders, SweepHolders, registryVars, sweepVars, TypeOK
<1>3. CASE v = u
  <2>1. FlowHolders(v)' = FlowHolders(v) \cup {x} /\ x \notin FlowHolders(v)
    BY <1>1, <1>3 DEF OpenFlow, FlowHolders, TypeOK
  <2>2. CandHolders(v)' = CandHolders(v) \ {w} /\ w \in CandHolders(v)
    BY <1>1, <1>3 DEF OpenFlow, Return, CandHolders, TypeOK
  <2>3. Cardinality(FlowHolders(v)') = Cardinality(FlowHolders(v)) + 1
    BY <2>1, AddOne, HoldersFinite
  <2>4. Cardinality(CandHolders(v)') = Cardinality(CandHolders(v)) - 1
    BY <2>2, DropOne, HoldersFinite
  <2> QED
    BY <1>2, <2>3, <2>4, HoldersFinite DEF RefCountExact
<1>4. CASE v # u
  <2>1. FlowHolders(v)' = FlowHolders(v)
    BY <1>1, <1>4 DEF OpenFlow, FlowHolders, TypeOK
  <2>2. CandHolders(v)' = CandHolders(v)
    BY <1>1, <1>4 DEF OpenFlow, Return, CandHolders, TypeOK
  <2> QED
    BY <1>2, <2>1, <2>2 DEF RefCountExact
<1> QED
  BY <1>3, <1>4

\* Finalizing a flow hands its reference to the request that must release it.
LEMMA CountFinalizeFlow ==
    ASSUME TypeOK, RefCountExact, NEW w \in Worker, FinalizeFlow(w)
    PROVE  RefCountExact'
<1> DEFINE x == fkey[w]
           u == flows[x]
<1>1. x \in FlowKey /\ u \in Ref /\ None \notin Ref
  BY RegistryAssumption DEF FinalizeFlow, TypeOK
<1> SUFFICES ASSUME NEW v \in Ref
             PROVE  open'[v] = Cardinality(FlowHolders(v)') + Cardinality(CandHolders(v)')
                               + Cardinality(FinHolders(v)') + Cardinality(SweepHolders(v)')
  BY DEF RefCountExact
<1>2. CandHolders(v)' = CandHolders(v) /\ SweepHolders(v)' = SweepHolders(v) /\ open' = open
  BY DEF FinalizeFlow, CandHolders, SweepHolders, registryVars, sweepVars, TypeOK
<1>3. CASE v = u
  <2>1. FlowHolders(v)' = FlowHolders(v) \ {x} /\ x \in FlowHolders(v)
    BY <1>1, <1>3 DEF FinalizeFlow, FlowHolders, TypeOK
  <2>2. FinHolders(v)' = FinHolders(v) \cup {w} /\ w \notin FinHolders(v)
    BY <1>1, <1>3 DEF FinalizeFlow, FinHolders, TypeOK
  <2>3. Cardinality(FlowHolders(v)') = Cardinality(FlowHolders(v)) - 1
    BY <2>1, DropOne, HoldersFinite
  <2>4. Cardinality(FinHolders(v)') = Cardinality(FinHolders(v)) + 1
    BY <2>2, AddOne, HoldersFinite
  <2> QED
    BY <1>2, <2>3, <2>4, HoldersFinite DEF RefCountExact
<1>4. CASE v # u
  <2>1. FlowHolders(v)' = FlowHolders(v)
    BY <1>1, <1>4 DEF FinalizeFlow, FlowHolders, TypeOK
  <2>2. FinHolders(v)' = FinHolders(v)
    BY <1>1, <1>4 DEF FinalizeFlow, FinHolders, TypeOK
  <2> QED
    BY <1>2, <2>1, <2>2 DEF RefCountExact
<1> QED
  BY <1>3, <1>4

\* The request drops the reference of the flow it finalized.
LEMMA CountReleaseFinalized ==
    ASSUME TypeOK, RefCountExact, NEW w \in Worker, ReleaseFinalized(w)
    PROVE  RefCountExact'
<1> DEFINE u == fin[w]
<1>1. u \in Ref /\ w \in FinHolders(u) /\ None \notin Ref
  BY RegistryAssumption DEF ReleaseFinalized, FinHolders, TypeOK
<1>2. open' = [open EXCEPT ![u] = @ - 1]
  BY <1>1, HeldCounted, ReleaseHeld DEF ReleaseFinalized
<1> SUFFICES ASSUME NEW v \in Ref
             PROVE  open'[v] = Cardinality(FlowHolders(v)') + Cardinality(CandHolders(v)')
                               + Cardinality(FinHolders(v)') + Cardinality(SweepHolders(v)')
  BY DEF RefCountExact
<1>3. /\ FlowHolders(v)' = FlowHolders(v)
      /\ CandHolders(v)' = CandHolders(v)
      /\ SweepHolders(v)' = SweepHolders(v)
  BY DEF ReleaseFinalized, FlowHolders, CandHolders, SweepHolders, sweepVars, TypeOK
<1>4. FinHolders(v)' = IF v = u THEN FinHolders(v) \ {w} ELSE FinHolders(v)
  BY <1>1 DEF ReleaseFinalized, FinHolders, TypeOK
<1>5. open'[v] = IF v = u THEN open[v] - 1 ELSE open[v]
  BY <1>1, <1>2 DEF TypeOK
<1>6. Cardinality(FinHolders(v)') =
        IF v = u THEN Cardinality(FinHolders(v)) - 1 ELSE Cardinality(FinHolders(v))
  BY <1>1, <1>4, DropOne, HoldersFinite
<1> QED
  BY <1>3, <1>5, <1>6, HoldersFinite DEF RefCountExact

\* The request drops the reference it retained itself.
LEMMA CountReleaseCandidate ==
    ASSUME TypeOK, RefCountExact, NEW w \in Worker, ReleaseCandidate(w)
    PROVE  RefCountExact'
<1> DEFINE u == cand[w]
<1>1. u \in Ref /\ w \in CandHolders(u) /\ None \notin Ref
  BY RegistryAssumption DEF ReleaseCandidate, CandHolders, TypeOK
<1>2. open' = [open EXCEPT ![u] = @ - 1]
  BY <1>1, HeldCounted, ReleaseHeld DEF ReleaseCandidate
<1> SUFFICES ASSUME NEW v \in Ref
             PROVE  open'[v] = Cardinality(FlowHolders(v)') + Cardinality(CandHolders(v)')
                               + Cardinality(FinHolders(v)') + Cardinality(SweepHolders(v)')
  BY DEF RefCountExact
<1>3. /\ FlowHolders(v)' = FlowHolders(v)
      /\ FinHolders(v)' = FinHolders(v)
      /\ SweepHolders(v)' = SweepHolders(v)
  BY DEF ReleaseCandidate, Return, FlowHolders, FinHolders, SweepHolders, sweepVars, TypeOK
<1>4. CandHolders(v)' = IF v = u THEN CandHolders(v) \ {w} ELSE CandHolders(v)
  BY <1>1 DEF ReleaseCandidate, Return, CandHolders, TypeOK
<1>5. open'[v] = IF v = u THEN open[v] - 1 ELSE open[v]
  BY <1>1, <1>2 DEF TypeOK
<1>6. Cardinality(CandHolders(v)') =
        IF v = u THEN Cardinality(CandHolders(v)) - 1 ELSE Cardinality(CandHolders(v))
  BY <1>1, <1>4, DropOne, HoldersFinite
<1> QED
  BY <1>3, <1>5, <1>6, HoldersFinite DEF RefCountExact

\* The sweep drops the reference of one flow it finalized.
LEMMA CountSweepRelease ==
    ASSUME TypeOK, RefCountExact, NEW x \in FlowKey, SweepRelease(x)
    PROVE  RefCountExact'
<1> DEFINE u == swept[x]
<1>1. u \in Ref /\ x \in SweepHolders(u) /\ None \notin Ref
  BY RegistryAssumption DEF SweepRelease, SweepHolders, TypeOK
<1>2. open' = [open EXCEPT ![u] = @ - 1]
  BY <1>1, HeldCounted, ReleaseHeld DEF SweepRelease
<1> SUFFICES ASSUME NEW v \in Ref
             PROVE  open'[v] = Cardinality(FlowHolders(v)') + Cardinality(CandHolders(v)')
                               + Cardinality(FinHolders(v)') + Cardinality(SweepHolders(v)')
  BY DEF RefCountExact
<1>3. /\ FlowHolders(v)' = FlowHolders(v)
      /\ FinHolders(v)' = FinHolders(v)
      /\ CandHolders(v)' = CandHolders(v)
  BY DEF SweepRelease, FlowHolders, FinHolders, CandHolders, workerVars
<1>4. SweepHolders(v)' = IF v = u THEN SweepHolders(v) \ {x} ELSE SweepHolders(v)
  BY <1>1 DEF SweepRelease, SweepHolders, TypeOK
<1>5. open'[v] = IF v = u THEN open[v] - 1 ELSE open[v]
  BY <1>1, <1>2 DEF TypeOK
<1>6. Cardinality(SweepHolders(v)') =
        IF v = u THEN Cardinality(SweepHolders(v)) - 1 ELSE Cardinality(SweepHolders(v))
  BY <1>1, <1>4, DropOne, HoldersFinite
<1> QED
  BY <1>3, <1>5, <1>6, HoldersFinite DEF RefCountExact

\* The commit splits the flows pinned to v into those that stay open and those
\* whose reference is now to be dropped.
LEMMA CountSweepCommit ==
    ASSUME TypeOK, SweepConsistent, RefCountExact, SweepCommit
    PROVE  RefCountExact'
<1> SUFFICES ASSUME NEW v \in Ref
             PROVE  open'[v] = Cardinality(FlowHolders(v)') + Cardinality(CandHolders(v)')
                               + Cardinality(FinHolders(v)') + Cardinality(SweepHolders(v)')
  BY DEF RefCountExact
<1>0. None \notin Ref
  BY RegistryAssumption
<1>1. /\ CandHolders(v)' = CandHolders(v)
      /\ FinHolders(v)' = FinHolders(v)
      /\ open' = open
  BY DEF SweepCommit, CandHolders, FinHolders, workerVars, registryVars
<1>2. SweepHolders(v) = {}
  BY DEF SweepCommit, SweepHolders
<1>3. /\ FlowHolders(v) = (FlowHolders(v)') \cup (SweepHolders(v)')
      /\ (FlowHolders(v)') \cap (SweepHolders(v)') = {}
  BY <1>0 DEF SweepCommit, SweepConsistent, FlowHolders, SweepHolders, TypeOK
<1>4. /\ FlowHolders(v)' \in SUBSET FlowHolders(v)
      /\ SweepHolders(v)' \in SUBSET FlowHolders(v)
  BY <1>3
<1>5. IsFiniteSet(FlowHolders(v)') /\ IsFiniteSet(SweepHolders(v)')
  BY <1>4, HoldersFinite, FS_Subset
<1>6. Cardinality(FlowHolders(v)) = Cardinality(FlowHolders(v)') + Cardinality(SweepHolders(v)')
  <2> DEFINE F == FlowHolders(v)'
             S == SweepHolders(v)'
  <2>1. Cardinality(F \cup S) = Cardinality(F) + Cardinality(S) - Cardinality(F \cap S)
    <3> HIDE DEF F, S
    <3>1. IsFiniteSet(F) /\ IsFiniteSet(S)
      BY <1>5 DEF F, S
    <3> QED
      BY <3>1, FS_Union
  <2>2. Cardinality(F \cap S) = 0
    BY <1>3, FS_EmptySet
  <2>3. Cardinality(F) \in Nat /\ Cardinality(S) \in Nat
    BY <1>5, FS_CardinalityType
  <2> QED
    BY <1>3, <2>1, <2>2, <2>3
<1>7. Cardinality(SweepHolders(v)) = 0
  BY <1>2, FS_EmptySet
<1>8. /\ Cardinality(FlowHolders(v)') \in Nat
      /\ Cardinality(SweepHolders(v)') \in Nat
  BY <1>5, FS_CardinalityType
<1> QED
  BY <1>1, <1>6, <1>7, <1>8, HoldersFinite DEF RefCountExact

\* Seeding counts exactly the open flows on disk.
LEMMA CountRestart ==
    ASSUME TypeOK, Restart
    PROVE  RefCountExact'
<1> SUFFICES ASSUME NEW v \in Ref
             PROVE  open'[v] = Cardinality(FlowHolders(v)') + Cardinality(CandHolders(v)')
                               + Cardinality(FinHolders(v)') + Cardinality(SweepHolders(v)')
  BY DEF RefCountExact
<1>1. FlowHolders(v)' = {k \in FlowKey : flows[k] = v}
  BY DEF Restart, FlowHolders
<1>2. CandHolders(v)' = {} /\ FinHolders(v)' = {} /\ SweepHolders(v)' = {}
  BY DEF Restart, CandHolders, FinHolders, SweepHolders
<1>3. open'[v] = Cardinality({k \in FlowKey : flows[k] = v})
  BY DEF Restart, Seed
<1>4. Cardinality({k \in FlowKey : flows[k] = v}) \in Nat
  BY HoldersFinite, Zenon DEF FlowHolders
<1> QED
  BY <1>1, <1>2, <1>3, <1>4, FS_EmptySet

\* Every step keeps the counts exact.
LEMMA CountNext == TypeOK /\ SweepConsistent /\ RefCountExact /\ [Next]_vars => RefCountExact'
<1> SUFFICES ASSUME TypeOK, SweepConsistent, RefCountExact, [Next]_vars
             PROVE  RefCountExact'
  OBVIOUS
<1>1. ASSUME NEW w \in Worker, Refuse(w) \/ OpenAndFinalize(w) \/ JoinFlow(w)
      PROVE  RefCountExact'
  <2>1. open' = open
    BY <1>1 DEF Refuse, OpenAndFinalize, JoinFlow, registryVars
  <2>2. ASSUME NEW v \in Ref
        PROVE  /\ FlowHolders(v)' = FlowHolders(v)
               /\ CandHolders(v)' = CandHolders(v)
               /\ FinHolders(v)' = FinHolders(v)
               /\ SweepHolders(v)' = SweepHolders(v)
    BY <1>1 DEF Refuse, OpenAndFinalize, JoinFlow, sweepVars, TypeOK,
                FlowHolders, CandHolders, FinHolders, SweepHolders
  <2> QED
    BY <2>1, <2>2 DEF RefCountExact
<1>2. ASSUME NEW k \in FlowKey, SweepFlow(k) PROVE RefCountExact'
  <2>1. open' = open
    BY <1>2 DEF SweepFlow, registryVars
  <2>2. ASSUME NEW v \in Ref
        PROVE  /\ FlowHolders(v)' = FlowHolders(v)
               /\ CandHolders(v)' = CandHolders(v)
               /\ FinHolders(v)' = FinHolders(v)
               /\ SweepHolders(v)' = SweepHolders(v)
    BY <1>2 DEF SweepFlow, workerVars, FlowHolders, CandHolders, FinHolders, SweepHolders
  <2> QED
    BY <2>1, <2>2 DEF RefCountExact
<1>3. CASE SweepBegin \/ SweepDone \/ Reload \/ UNCHANGED vars
  <2>1. open' = open
    BY <1>3 DEF SweepBegin, SweepDone, Reload, Publish, registryVars, vars
  <2>2. ASSUME NEW v \in Ref
        PROVE  /\ FlowHolders(v)' = FlowHolders(v)
               /\ CandHolders(v)' = CandHolders(v)
               /\ FinHolders(v)' = FinHolders(v)
    BY <1>3 DEF SweepBegin, SweepDone, Reload, workerVars, vars,
                FlowHolders, CandHolders, FinHolders
  <2>3. ASSUME NEW v \in Ref
        PROVE  SweepHolders(v)' = SweepHolders(v)
    BY <1>3, RegistryAssumption, SMTT(30)
       DEF SweepBegin, SweepDone, StagedKeys, Reload, sweepVars, vars, SweepHolders
  <2> QED
    BY <2>1, <2>2, <2>3 DEF RefCountExact
<1> QED
  BY <1>1, <1>2, <1>3, CountMatch, CountOpenFlow, CountFinalizeFlow, CountReleaseFinalized,
     CountReleaseCandidate, CountSweepRelease, CountSweepCommit, CountRestart
     DEF Next, Accept, AcceptTx, Sweep
-----------------------------------------------------------------------------
(***************************************************************************)
(* What the sweep staged, and which versions stay resolvable.              *)
(***************************************************************************)
LEMMA SweepConsistentNext == TypeOK /\ SweepConsistent /\ [Next]_vars => SweepConsistent'
<1> SUFFICES ASSUME TypeOK, SweepConsistent, [Next]_vars
             PROVE  SweepConsistent'
  OBVIOUS
<1> USE DEF SweepConsistent, TypeOK
<1>1. ASSUME NEW w \in Worker, MatchAndRetain(w) \/ Accept(w) PROVE SweepConsistent'
  BY <1>1 DEF MatchAndRetain, Accept, AcceptTx, Refuse, OpenFlow, OpenAndFinalize, JoinFlow,
              FinalizeFlow, ReleaseFinalized, ReleaseCandidate, StoreFree, sweepVars
<1>2. ASSUME NEW k \in FlowKey, SweepFlow(k) \/ SweepRelease(k) PROVE SweepConsistent'
  BY <1>2 DEF SweepFlow, SweepRelease
<1>3. CASE Sweep
  BY <1>3 DEF Sweep, SweepBegin, SweepCommit, SweepDone, StagedKeys
<1>4. CASE Reload \/ Restart \/ UNCHANGED vars
  BY <1>4 DEF Reload, Restart, NoFlows, sweepVars, vars
<1> QED
  BY <1>1, <1>2, <1>3, <1>4 DEF Next

\* A version survives a release unless the last reference went.
LEMMA ReleaseKeeps ==
    ASSUME NEW u, Release(u), NEW v \in versions, v # u \/ open[u] > 1
    PROVE  v \in versions'
BY DEF Release

\* Publish drops no version with a reference.
LEMMA PublishKeepsHeld ==
    ASSUME TypeOK, RefCountExact, Reload, NEW v \in Ref, Get(v),
           FlowHolders(v) \cup CandHolders(v) # {}
    PROVE  Get(v)'
<1>1. open[v] > 0
  BY HeldCounted
<1> QED
  BY <1>1 DEF Reload, Publish, Get

\* Whoever drops a reference on u while w still holds its candidate, or while
\* a flow is still pinned, finds a count above one.
LEMMA ReleaseKeepsHeld ==
    ASSUME TypeOK, RefCountExact, NEW v \in Ref, Get(v), NEW u \in Ref, Release(u),
           \/ FlowHolders(v) # {} /\ CandHolders(u) \cup FinHolders(u) \cup SweepHolders(u) # {}
           \/ CandHolders(v) # {} /\ FinHolders(u) \cup SweepHolders(u) # {}
           \/ \E w1 \in CandHolders(v), w2 \in CandHolders(u) : w1 # w2
    PROVE  Get(v)'
<1>1. v # u \/ open[u] > 1
  BY TwoHolders
<1> QED
  BY <1>1, ReleaseKeeps DEF Get

\* Every step keeps the candidates of requests resolvable.
LEMMA CandResolvableNext ==
    TypeOK /\ RefCountExact /\ ordered \subseteq versions /\ CandResolvable /\ [Next]_vars
        => CandResolvable'
<1> SUFFICES ASSUME TypeOK, RefCountExact, ordered \subseteq versions, CandResolvable,
                    [Next]_vars, NEW x \in Worker, pc'[x] # "idle"
             PROVE  Get(cand[x])'
  BY DEF CandResolvable
<1>1. ASSUME pc[x] # "idle", cand'[x] = cand[x]
      PROVE  cand[x] \in Ref /\ Get(cand[x]) /\ x \in CandHolders(cand[x])
  BY <1>1 DEF CandResolvable, CandHolders, TypeOK
<1>2. ASSUME NEW w \in Worker, MatchAndRetain(w) PROVE Get(cand[x])'
  <2>1. versions' = versions
    BY <1>2 DEF MatchAndRetain, Retain
  <2>2. CASE x = w
    BY <1>2, <2>1, <2>2 DEF MatchAndRetain, Get, TypeOK
  <2>3. CASE x # w
    BY <1>2, <2>1, <2>3, SMTT(30) DEF MatchAndRetain, Get, CandResolvable, TypeOK
  <2> QED
    BY <2>2, <2>3
<1>3. ASSUME NEW w \in Worker, Refuse(w) \/ AcceptTx(w) PROVE Get(cand[x])'
  BY <1>3 DEF Refuse, AcceptTx, OpenFlow, OpenAndFinalize, JoinFlow, FinalizeFlow, Return,
              registryVars, Get, CandResolvable, TypeOK
<1>4. ASSUME NEW w \in Worker, ReleaseFinalized(w) PROVE Get(cand[x])'
  <2>1. pc[x] # "idle" /\ cand' = cand
    BY <1>4 DEF ReleaseFinalized, TypeOK
  <2>2. fin[w] \in Ref /\ w \in FinHolders(fin[w]) /\ Release(fin[w])
    BY <1>4 DEF ReleaseFinalized, FinHolders, TypeOK
  <2> QED
    BY <1>1, <2>1, <2>2, ReleaseKeepsHeld DEF Get
<1>5. ASSUME NEW w \in Worker, ReleaseCandidate(w) PROVE Get(cand[x])'
  <2>1. x # w /\ pc[x] # "idle" /\ cand'[x] = cand[x]
    BY <1>5 DEF ReleaseCandidate, Return, TypeOK
  <2>2. cand[w] \in Ref /\ w \in CandHolders(cand[w]) /\ Release(cand[w])
    BY <1>5 DEF ReleaseCandidate, CandHolders, TypeOK
  <2>3. Get(cand[x]) /\ cand[x] \in Ref /\ x \in CandHolders(cand[x])
    BY <1>1, <2>1
  <2>4. cand[x] \in versions'
    BY <2>1, <2>2, <2>3, ReleaseKeepsHeld DEF Get
  <2> QED
    BY <2>1, <2>4 DEF Get
<1>6. ASSUME NEW k \in FlowKey, SweepFlow(k) PROVE Get(cand[x])'
  BY <1>6 DEF SweepFlow, registryVars, workerVars, Get, CandResolvable
<1>7. ASSUME NEW k \in FlowKey, SweepRelease(k) PROVE Get(cand[x])'
  <2>1. pc[x] # "idle" /\ cand' = cand
    BY <1>7 DEF SweepRelease, workerVars
  <2>2. swept[k] \in Ref /\ k \in SweepHolders(swept[k]) /\ Release(swept[k])
    BY <1>7 DEF SweepRelease, SweepHolders, TypeOK
  <2> QED
    BY <1>1, <2>1, <2>2, ReleaseKeepsHeld DEF Get
<1>8. CASE Sweep \/ UNCHANGED vars
  BY <1>8 DEF Sweep, SweepBegin, SweepCommit, SweepDone, registryVars, workerVars, vars,
              Get, CandResolvable
<1>9. CASE Reload
  <2>1. pc[x] # "idle" /\ cand' = cand
    BY <1>9 DEF Reload, workerVars
  <2> QED
    BY <1>1, <1>9, <2>1, PublishKeepsHeld DEF Get
<1>10. CASE Restart
  BY <1>10 DEF Restart
<1> QED
  BY <1>2, <1>3, <1>4, <1>5, <1>6, <1>7, <1>8, <1>9, <1>10 DEF Next, Accept

\* Every step keeps pinned versions resolvable.
LEMMA PinnedResolvableNext ==
    TypeOK /\ RefCountExact /\ CandResolvable /\ PinnedResolvable /\ [Next]_vars
        => PinnedResolvable'
<1> SUFFICES ASSUME TypeOK, RefCountExact, CandResolvable, PinnedResolvable, [Next]_vars,
                    NEW x \in FlowKey, flows'[x] # None, x \notin recovered'
             PROVE  Get(flows[x])'
  BY DEF PinnedResolvable, OpenKeys
<1>0. None \notin Ref
  BY RegistryAssumption
<1>1. ASSUME flows'[x] = flows[x], recovered' = recovered
      PROVE  flows[x] \in Ref /\ Get(flows[x]) /\ x \in FlowHolders(flows[x])
  BY <1>1 DEF PinnedResolvable, OpenKeys, FlowHolders, TypeOK
<1>2. ASSUME flows' = flows, recovered' = recovered, versions' = versions
      PROVE  Get(flows[x])'
  BY <1>1, <1>2 DEF Get
<1>3. ASSUME NEW u \in Ref, Release(u), flows' = flows, recovered' = recovered,
             CandHolders(u) \cup FinHolders(u) \cup SweepHolders(u) # {}
      PROVE  Get(flows[x])'
  BY <1>1, <1>3, ReleaseKeepsHeld DEF Get
<1>4. ASSUME NEW w \in Worker, MatchAndRetain(w) PROVE Get(flows[x])'
  BY <1>2, <1>4 DEF MatchAndRetain, Retain
<1>5. ASSUME NEW w \in Worker, Refuse(w) \/ OpenAndFinalize(w) \/ JoinFlow(w)
      PROVE  Get(flows[x])'
  BY <1>2, <1>5 DEF Refuse, OpenAndFinalize, JoinFlow, registryVars
<1>6. ASSUME NEW w \in Worker, OpenFlow(w) PROVE Get(flows[x])'
  BY <1>6 DEF OpenFlow, registryVars, PinnedResolvable, CandResolvable, OpenKeys, Get, TypeOK
<1>7. ASSUME NEW w \in Worker, FinalizeFlow(w) PROVE Get(flows[x])'
  BY <1>7 DEF FinalizeFlow, registryVars, PinnedResolvable, OpenKeys, Get, TypeOK
<1>8. ASSUME NEW w \in Worker, ReleaseFinalized(w) PROVE Get(flows[x])'
  BY <1>3, <1>8 DEF ReleaseFinalized, FinHolders, TypeOK
<1>9. ASSUME NEW w \in Worker, ReleaseCandidate(w) PROVE Get(flows[x])'
  BY <1>3, <1>9 DEF ReleaseCandidate, CandHolders, TypeOK
<1>10. ASSUME NEW k \in FlowKey, SweepFlow(k) PROVE Get(flows[x])'
  BY <1>2, <1>10 DEF SweepFlow, registryVars
<1>11. ASSUME NEW k \in FlowKey, SweepRelease(k) PROVE Get(flows[x])'
  BY <1>3, <1>11 DEF SweepRelease, SweepHolders, TypeOK
<1>12. CASE SweepBegin \/ SweepDone \/ UNCHANGED vars
  BY <1>2, <1>12 DEF SweepBegin, SweepDone, registryVars, vars
<1>13. CASE SweepCommit
  BY <1>13 DEF SweepCommit, StagedKeys, registryVars, PinnedResolvable, OpenKeys, Get, TypeOK
<1>14. CASE Reload
  BY <1>1, <1>14, PublishKeepsHeld DEF Reload, Get
<1>15. CASE Restart
  BY <1>15 DEF Restart, OpenKeys
<1> QED
  BY <1>4, <1>5, <1>6, <1>7, <1>8, <1>9, <1>10, <1>11, <1>12, <1>13, <1>14, <1>15
     DEF Next, Accept, AcceptTx, Sweep

\* A sweep stages rule_unavailable only for recovered flows.
LEMMA RuleUnavailableNext ==
    TypeOK /\ SweepConsistent /\ PinnedResolvable /\ RuleUnavailableOnlyRecovered /\ [Next]_vars
        => RuleUnavailableOnlyRecovered'
<1> SUFFICES ASSUME TypeOK, SweepConsistent, PinnedResolvable, RuleUnavailableOnlyRecovered,
                    [Next]_vars
             PROVE  RuleUnavailableOnlyRecovered'
  OBVIOUS
<1> USE DEF RuleUnavailableOnlyRecovered
<1>1. ASSUME NEW w \in Worker, MatchAndRetain(w) \/ Accept(w)
      PROVE  RuleUnavailableOnlyRecovered'
  BY <1>1, Zenon DEF MatchAndRetain, Accept, AcceptTx, Refuse, OpenFlow, OpenAndFinalize, JoinFlow,
              FinalizeFlow, ReleaseFinalized, ReleaseCandidate, StoreFree, sweepVars,
              SweepConsistent
<1>2. ASSUME NEW k \in FlowKey, SweepFlow(k) PROVE RuleUnavailableOnlyRecovered'
  BY <1>2 DEF SweepFlow, PinnedResolvable, OpenKeys
<1>3. ASSUME NEW k \in FlowKey, SweepRelease(k) PROVE RuleUnavailableOnlyRecovered'
  BY <1>3 DEF SweepRelease
<1>4. CASE Sweep
  BY <1>4 DEF Sweep, SweepBegin, SweepCommit, SweepDone
<1>5. CASE Reload \/ Restart \/ UNCHANGED vars
  BY <1>5, SMTT(30) DEF Reload, Restart, sweepVars, vars
<1> QED
  BY <1>1, <1>2, <1>3, <1>4, <1>5 DEF Next

\* The versions Get resolves: never fewer than configured, never more than
\* configured or held.
LEMMA VersionsNext ==
    TypeOK /\ ordered \subseteq versions /\ OldVersionsHeld /\ [Next]_vars
        => (ordered \subseteq versions)' /\ OldVersionsHeld'
<1> SUFFICES ASSUME TypeOK, ordered \subseteq versions, OldVersionsHeld, [Next]_vars
             PROVE  (ordered \subseteq versions)' /\ OldVersionsHeld'
  OBVIOUS
<1> USE DEF OldVersionsHeld
<1>1. ASSUME NEW u \in Ref, Release(u)
      PROVE  (ordered \subseteq versions)' /\ OldVersionsHeld'
  BY <1>1 DEF Release, TypeOK
<1>2. ASSUME NEW w \in Worker, MatchAndRetain(w)
      PROVE  (ordered \subseteq versions)' /\ OldVersionsHeld'
  <2>1. PICK u \in ordered \cap Enabled : Retain(u)
    BY <1>2 DEF MatchAndRetain
  <2> QED
    BY <2>1, RegistryAssumption DEF Retain, TypeOK
<1>3. ASSUME NEW w \in Worker, Refuse(w) \/ AcceptTx(w)
      PROVE  (ordered \subseteq versions)' /\ OldVersionsHeld'
  BY <1>3, ZenonT(60) DEF Refuse, AcceptTx, OpenFlow, OpenAndFinalize, JoinFlow, FinalizeFlow, registryVars
<1>4. ASSUME NEW w \in Worker, ReleaseFinalized(w) \/ ReleaseCandidate(w)
      PROVE  (ordered \subseteq versions)' /\ OldVersionsHeld'
  BY <1>1, <1>4 DEF ReleaseFinalized, ReleaseCandidate, TypeOK
<1>5. ASSUME NEW k \in FlowKey, SweepFlow(k)
      PROVE  (ordered \subseteq versions)' /\ OldVersionsHeld'
  BY <1>5, SMTT(30) DEF SweepFlow, registryVars
<1>6. ASSUME NEW k \in FlowKey, SweepRelease(k)
      PROVE  (ordered \subseteq versions)' /\ OldVersionsHeld'
  BY <1>1, <1>6 DEF SweepRelease, TypeOK
<1>7. CASE Sweep \/ UNCHANGED vars
  BY <1>7 DEF Sweep, SweepBegin, SweepCommit, SweepDone, registryVars, vars
<1>8. CASE Reload
  BY <1>8 DEF Reload, Publish, TypeOK
<1>9. CASE Restart
  BY <1>9 DEF Restart, Seed
<1> QED
  BY <1>2, <1>3, <1>4, <1>5, <1>6, <1>7, <1>8, <1>9 DEF Next, Accept
-----------------------------------------------------------------------------
(***************************************************************************)
(* The theorems.                                                           *)
(***************************************************************************)
LEMMA InitIInv == Init => IInv
<1> SUFFICES ASSUME Init PROVE IInv
  OBVIOUS
<1>1. TypeOK
  BY TypeInit
<1>2. RefCountExact
  <2> SUFFICES ASSUME NEW v \in Ref
               PROVE  open[v] = Cardinality(FlowHolders(v)) + Cardinality(CandHolders(v))
                                + Cardinality(FinHolders(v)) + Cardinality(SweepHolders(v))
    BY DEF RefCountExact
  <2>1. FlowHolders(v) = {}
    BY RegistryAssumption DEF Init, NoFlows, FlowHolders
  <2>2. CandHolders(v) = {} /\ FinHolders(v) = {} /\ SweepHolders(v) = {}
    BY DEF Init, CandHolders, FinHolders, SweepHolders
  <2>3. open[v] = 0
    BY DEF Init
  <2> QED
    BY <2>1, <2>2, <2>3, FS_EmptySet
<1>3. SweepConsistent /\ ordered \subseteq versions /\ CandResolvable
  BY DEF Init, SweepConsistent, CandResolvable, NoFlows
<1>4. PinnedResolvable /\ RuleUnavailableOnlyRecovered /\ OldVersionsHeld
  BY DEF Init, PinnedResolvable, OpenKeys, NoFlows, RuleUnavailableOnlyRecovered, OldVersionsHeld
<1> QED
  BY <1>1, <1>2, <1>3, <1>4 DEF IInv

\* The inductive invariant holds in every reachable state.
THEOREM Inductive == Spec => []IInv
<1>1. IInv /\ [Next]_vars => IInv'
  BY TypeNext, SweepConsistentNext, CountNext, CandResolvableNext, PinnedResolvableNext,
     RuleUnavailableNext, VersionsNext DEF IInv
<1> QED
  BY InitIInv, <1>1, PTL DEF Spec

\* Every variable keeps its type, and a request between MatchAndRetain and its
\* deferred Release always knows the reference it has to drop.
THEOREM TypeCorrect == Spec => []TypeOK
BY Inductive, PTL DEF IInv

\* Registry.open is the number of references held: no leak, no double release.
THEOREM RefCounts == Spec => []RefCountExact
BY Inductive, PTL DEF IInv

\* No reload takes an open flow's rule away, unless a restart already did.
THEOREM PinnedRules == Spec => []PinnedResolvable
BY Inductive, PTL DEF IInv

\* The sweep gives up on a rule only for flows a restart recovered.
THEOREM RuleUnavailable == Spec => []RuleUnavailableOnlyRecovered
BY Inductive, PTL DEF IInv

\* The registry keeps no version that is neither configured nor held.
THEOREM OldVersions == Spec => []OldVersionsHeld
BY Inductive, PTL DEF IInv
=============================================================================
