--------------------------- MODULE DeliveryProofs ---------------------------
(***************************************************************************)
(* Proofs about delivery and about the dead letters it reports, for every  *)
(* set of documents, bulk size, retry limit, dead-letter cap, rejection    *)
(* types and number of concurrent replays.                                 *)
(*   - The alerts (StuckAlerts).  A change carries the depth its own       *)
(*     transaction left behind.  Every change in flight carries a recent   *)
(*     depth, and whoever shows an older one has still to be told by all   *)
(*     of them (Messengers).  The counts by type are sums over the changes *)
(*     in flight, applied in any order; a sum of naturals is the number of *)
(*     numbered tokens, so that a change adds or takes away a set (Owing). *)
(*   - Delivery (DeliveryLedger).  While a drain is in flight the records  *)
(*     it loaded stay in the outbox as it read them, and a "delivered"     *)
(*     verdict is about a document OpenSearch holds; so what resolves at   *)
(*     the end is what was sent, and nothing leaves the store unaccounted  *)
(*     for (IInv).                                                         *)
(***************************************************************************)
EXTENDS DeliveryLedger, StuckAlerts, TLAPS

Depth == Cardinality(Dead)

\* The changes in flight carry recent depths; a gauge that shows an older one is
\* still to be set by all of them, a summary that does by one of them.
Messengers ==
    /\ Depth \in recent
    /\ \A a \in InFlight : change[a].records \in recent
    /\ gauge \notin recent => InFlight # {} /\ \A a \in InFlight : pc[a] = "gauge"
    /\ records \notin recent => InFlight # {}

\* As many tokens of every a in A as f says; and those of a, by g, beside
\* those of A, by f.
Tokens(A, f) == UNION {{a} \X (1..f[a]) : a \in A}
Beside(A, a, f, g) ==
    /\ a \notin A /\ g[a] \in Nat /\ IsFiniteSet(Tokens(A, f))
    /\ \A b \in A : f[b] = g[b]
Joined(A, a, f, g) ==
    /\ IsFiniteSet(Tokens(A \cup {a}, g))
    /\ Cardinality(Tokens(A \cup {a}, g)) = Cardinality(Tokens(A, f)) + g[a]

\* The removals of type r that changes in flight have still to apply, and the
\* additions and drops: only the drain has any.
Owed(r) == Tokens(InFlight, [a \in InFlight |-> change[a].removed[r]])
Coming(r) == IF change["drain"] = None THEN 0 ELSE change["drain"].added[r]
ComingDrops == IF change["drain"] = None THEN 0 ELSE change["drain"].dropped

\* What the summary says, plus what is still to be added, covers the dead
\* letters plus what is still to be removed; drops are counted exactly.
Owing ==
    /\ Dead \cap discarded = {}
    /\ \A a \in Admin : change[a] # None =>
         change[a].dropped = 0 /\ \A r \in Reason : change[a].added[r] = 0
    /\ \A r \in Reason :
         /\ IsFiniteSet(Owed(r))
         /\ Of(Letter, r) + Cardinality(Owed(r)) <= reasons[r] + Coming(r)
    /\ droppedSeen + ComingDrops = Cardinality(discarded)

AlertsInv == AlertsTypes /\ Messengers

\* What the lemmas use of finite sets.  The library proves it (Countable).
Tallying ==
    /\ IsFiniteSet({}) /\ Cardinality({}) = 0
    /\ \A S : IsFiniteSet(S) => Cardinality(S) \in Nat
    /\ \A S, T : IsFiniteSet(T) /\ S \subseteq T => IsFiniteSet(S)
    /\ \A S, T : IsFiniteSet(S) /\ IsFiniteSet(T) /\ S \cap T = {} =>
         IsFiniteSet(S \cup T) /\ Cardinality(S \cup T) = Cardinality(S) + Cardinality(T)
    /\ \A a : \A n \in Nat : IsFiniteSet({a} \X (1..n)) /\ Cardinality({a} \X (1..n)) = n

\* A removal that stops at zero removes no more than asked.
LEMMA LessBound ==
    ASSUME NEW m \in Nat, NEW n \in Nat, NEW k \in Nat
    PROVE  Less(m, n) + k >= m - n + k /\ Less(m, n) + k \in Nat
BY DEF Less

\* Any part of the documents can be counted.
LEMMA Counts ==
    ASSUME Tallying, NEW S, S \subseteq Letter
    PROVE  IsFiniteSet(S) /\ Cardinality(S) \in Nat
BY AlertsAssumption, Zenon DEF Tallying

\* The changes that the two transactions report are changes.
LEMMA ReplayReport ==
    ASSUME Tallying, AlertsTypes, NEW R \in SUBSET Dead
    PROVE  [records |-> Cardinality(Dead \ R), dropped |-> 0,
            added   |-> [r \in Reason |-> 0],
            removed |-> [r \in Reason |-> Of(R, r)]] \in Change
<1>1. Cardinality(Dead \ R) \in Nat
  BY Zenon, Counts DEF Dead
<1>2. \A r \in Reason : Of(R, r) \in Nat
  BY Zenon, Counts DEF Of, Dead
<1>3. [r \in Reason |-> Of(R, r)] \in [Reason -> Nat]
  BY Zenon, <1>2
<1>4. [r \in Reason |-> 0] \in [Reason -> Nat]
  BY Zenon
<1> QED BY Zenon, <1>1, <1>3, <1>4 DEF Change

\* A transaction that reports a true depth makes its actor a messenger.
LEMMA Reported ==
    ASSUME AlertsInv, NEW a \in Actor, NEW c \in Change, pc[a] = "idle", Reports(a, c),
           c.records = Depth', UNCHANGED <<gauge, records>>
    PROVE  Messengers'
<1>1. change'[a] = c /\ pc'[a] = "gauge" /\ c # None
  BY Zenon, NoneAssumption DEF AlertsInv, AlertsTypes, Reports
<1>2. \A b \in Actor \ {a} : change'[b] = change[b] /\ pc'[b] = pc[b]
  BY Zenon DEF AlertsInv, AlertsTypes, Reports
<1>3. recent' = {Depth'} \cup (IF InFlight = {} THEN {} ELSE recent)
  BY Zenon DEF Reports, Depth
<1>4. a \in InFlight' /\ \A b \in InFlight' : b = a \/ b \in InFlight
  BY <1>1, <1>2, Zenon DEF InFlight
<1>5. \A b \in InFlight' : b = a \/ (change'[b] = change[b] /\ pc'[b] = pc[b])
  BY <1>2, Zenon DEF InFlight
<1>6. CASE InFlight = {}
  <2>1. recent' = {Depth'} /\ \A b \in InFlight' : b = a
    BY <1>3, <1>4, <1>6, Zenon
  <2> QED BY <1>1, <1>4, <2>1, Zenon DEF Messengers
<1>7. CASE InFlight # {}
  <2>1. recent' = {Depth'} \cup recent
    BY <1>3, <1>7, Zenon
  <2>2. \A b \in InFlight' : change'[b].records \in recent'
    BY <1>1, <1>4, <1>5, <2>1, Zenon DEF AlertsInv, Messengers
  <2>3. gauge \notin recent' => \A b \in InFlight' : pc'[b] = "gauge"
    BY <1>1, <1>4, <1>5, <2>1, Zenon DEF AlertsInv, Messengers
  <2> QED BY <1>4, <2>1, <2>2, <2>3, Zenon DEF Messengers
<1> QED BY Zenon, <1>6, <1>7

\* Other steps leave the messages alone.
LEMMA Silent ==
    ASSUME AlertsInv, UNCHANGED <<letters, change, gauge, records, recent>>,
           \A a \in InFlight : pc'[a] = pc[a]
    PROVE  Messengers'
<1>1. InFlight' = InFlight /\ Depth' = Depth
  BY Zenon DEF InFlight, Depth, Dead
<1> QED BY <1>1, Zenon DEF AlertsInv, Messengers

\* The rejection of P reports what it leaves.
LEMMA RejectReports ==
    ASSUME Tallying, AlertsTypes, NEW P \in SUBSET Letter, NEW why \in [P -> Reason], Reject(P, why)
    PROVE  /\ letters' \in [Letter -> Reason \cup {None}]
           /\ discarded' \subseteq Letter \cup discarded
           /\ \E c \in Change : Reports("drain", c) /\ c.records = Depth'
<1> DEFINE all  == Dead \cup P
           kept == Retained(all)
           type == [d \in Letter |-> IF d \in P THEN why[d] ELSE letters[d]]
           add  == [r \in Reason |-> Cardinality({d \in P : why[d] = r})]
           rem  == [r \in Reason |-> Cardinality({d \in all \ kept : type[d] = r})]
           c == [records |-> Cardinality(kept), dropped |-> Cardinality(all \ kept),
                 added |-> add, removed |-> rem]
<1>1. kept \subseteq all /\ all \subseteq Letter
  BY Zenon DEF Retained, Dead
<1>2. \A d \in all : type[d] \in Reason
  BY Zenon DEF Dead, AlertsTypes
<1>3. letters' = [d \in Letter |-> IF d \in kept THEN type[d] ELSE None]
  BY Zenon DEF Reject
<1>4. Dead' = kept
  BY <1>1, <1>2, <1>3, AlertsAssumption, Zenon DEF Dead
<1>5. add \in [Reason -> Nat] /\ rem \in [Reason -> Nat]
  <2>1. \A r \in Reason : Cardinality({d \in P : why[d] = r}) \in Nat
    BY Zenon, Counts
  <2>2. \A r \in Reason : Cardinality({d \in all \ kept : type[d] = r}) \in Nat
    BY <1>1, Counts, Zenon
  <2> QED BY <2>1, <2>2, Zenon
<1>6. Cardinality(kept) \in Nat /\ Cardinality(all \ kept) \in Nat
  BY Zenon, <1>1, Counts
<1>7. c \in Change /\ c.records = Depth'
  <2> HIDE DEF add, rem, kept, all
  <2> QED BY Zenon, <1>4, <1>5, <1>6 DEF Change, Depth
<1>8. Reports("drain", c)
  BY Zenon DEF Reject
<1>9. discarded' \subseteq Letter \cup discarded
  BY Zenon, <1>1 DEF Reject
<1> QED BY <1>1, <1>2, <1>3, <1>7, <1>8, <1>9, Zenon

\* Every step keeps the types.
LEMMA TypeStep ==
    ASSUME Tallying, AlertsTypes, [AlertsNext]_alertsVars
    PROVE  AlertsTypes'
<1>0. "drain" \in Actor /\ Admin \subseteq Actor
  BY Zenon DEF Actor
<1>1. ASSUME NEW a \in Actor, NEW c \in Change, pc[a] = "idle", Reports(a, c)
      PROVE  /\ pc' \in [Actor -> {"idle", "gauge", "apply", "observe"}]
             /\ change' \in [Actor -> Change \cup {None}]
             /\ \A b \in Actor : change'[b] # None <=> pc'[b] \in {"gauge", "apply"}
  BY Zenon, <1>1, NoneAssumption DEF AlertsTypes, Reports
<1>2. recent' \subseteq Nat /\ enabled' \in BOOLEAN
  <2>0. \/ recent' = recent \/ recent' = {Cardinality(Dead)}
        \/ recent' = {Cardinality(Dead')} \cup (IF InFlight = {} THEN {} ELSE recent)
    BY Zenon DEF AlertsNext, alertsVars, DrainWorks, DrainTx, Reject, Reports,
       ReplayTx, Apply, SetGauge, ApplyDeadLetterChange, Observe, IntervalPasses, Reconfigure,
       Restart
  <2>1. recent' \subseteq Nat
    <3>1. Dead \subseteq Letter /\ Dead' \subseteq Letter
      BY Zenon DEF Dead
    <3>2. Cardinality(Dead) \in Nat /\ Cardinality(Dead') \in Nat
      BY <3>1, Counts, Zenon
    <3>3. recent \subseteq Nat
      BY Zenon DEF AlertsTypes
    <3> QED BY <2>0, <3>2, <3>3, Zenon
  <2>2. enabled' \in BOOLEAN
    BY Zenon DEF AlertsTypes, AlertsNext, alertsVars, DrainWorks, DrainTx, ReplayTx, Apply, SetGauge, alertVars,
       ApplyDeadLetterChange, Observe, IntervalPasses, Reconfigure, Restart
  <2> QED BY Zenon, <2>1, <2>2
<1>3. CASE DrainTx
  <2>1. UNCHANGED <<summaryVars, alertVars>>
    BY Zenon, <1>3 DEF DrainTx
  <2>2. CASE /\ pc' = [pc EXCEPT !["drain"] = "observe"]
             /\ UNCHANGED <<letters, discarded, rejections, change>>
    BY Zenon, <1>0, <1>2, <1>3, <2>1, <2>2 DEF DrainTx, AlertsTypes, summaryVars, alertVars
  <2>3. CASE \E P \in SUBSET (Letter \ (Dead \cup discarded)) :
               /\ rejections + Cardinality(P) <= MaxReject
               /\ \E why \in [P -> Reason] : Reject(P, why)
    <3>0. PICK P \in SUBSET Letter : /\ rejections + Cardinality(P) <= MaxReject
                                  /\ \E why \in [P -> Reason] : Reject(P, why)
      BY Zenon, <2>3
    <3>1. PICK why \in [P -> Reason] :
            rejections + Cardinality(P) <= MaxReject /\ Reject(P, why)
      BY Zenon, <3>0
    <3>2. PICK c \in Change : Reports("drain", c)
      BY Zenon, <3>1, RejectReports
    <3>3. letters' \in [Letter -> Reason \cup {None}] /\ discarded' \subseteq Letter
      BY Zenon, <3>1, RejectReports DEF AlertsTypes
    <3>4. rejections' \in 0..MaxReject
      <4>1. Cardinality(P) \in Nat /\ rejections \in Nat
        BY Counts DEF AlertsTypes
      <4>2. rejections' = rejections + Cardinality(P) /\ rejections + Cardinality(P) <= MaxReject
        BY Zenon, <3>1 DEF Reject
      <4> QED BY <4>1, <4>2, AlertsAssumption
    <3>5. pc["drain"] = "idle"
      BY Zenon, <1>3 DEF DrainTx
    <3> QED BY Zenon, <1>0, <1>1, <1>2, <2>1, <3>2, <3>3, <3>4, <3>5 DEF AlertsTypes, summaryVars, alertVars
  <2> QED BY Zenon, <1>3, <2>2, <2>3 DEF DrainTx
<1>4. ASSUME NEW a \in Admin, ReplayTx(a) PROVE AlertsTypes'
  <2>1. PICK R \in SUBSET Dead :
          /\ letters' = [d \in Letter |-> IF d \in R THEN None ELSE letters[d]]
          /\ Reports(a, [records |-> Cardinality(Dead \ R), dropped |-> 0,
                         added   |-> [r \in Reason |-> 0],
                         removed |-> [r \in Reason |-> Of(R, r)]])
    BY <1>4, Zenon DEF ReplayTx
  <2>2. PICK c \in Change : Reports(a, c)
    BY <2>1, ReplayReport, Zenon
  <2>3. letters' \in [Letter -> Reason \cup {None}]
    BY Zenon, <2>1 DEF AlertsTypes
  <2>4. /\ pc[a] = "idle" /\ a \in Actor
        /\ UNCHANGED <<discarded, rejections, summaryVars, alertVars>>
    BY Zenon, <1>4, <1>0 DEF ReplayTx
  <2> QED BY Zenon, <1>1, <1>2, <2>2, <2>3, <2>4 DEF AlertsTypes, summaryVars, alertVars
<1>5. ASSUME NEW a \in Actor, SetGauge(a) PROVE AlertsTypes'
  <2>1. change[a] \in Change
    BY Zenon, <1>5 DEF SetGauge, AlertsTypes
  <2>2. change[a].records \in Nat
    BY Zenon, <2>1 DEF Change
  <2> QED BY Zenon, <1>2, <1>5, <2>2 DEF SetGauge, AlertsTypes, alertVars
<1>6. ASSUME NEW a \in Actor, ApplyDeadLetterChange(a) PROVE AlertsTypes'
  <2>1. change[a] \in Change
    BY Zenon, <1>6 DEF ApplyDeadLetterChange, AlertsTypes
  <2>2. /\ change[a].records \in Nat /\ change[a].dropped \in Nat
        /\ \A r \in Reason : change[a].removed[r] \in Nat /\ change[a].added[r] \in Nat
    BY Zenon, <2>1 DEF Change
  <2>3. reasons' \in [Reason -> Nat]
    BY <1>6, <2>2 DEF ApplyDeadLetterChange, AlertsTypes, Less
  <2>4. droppedSeen' \in Nat /\ records' \in Nat
    BY <1>6, <2>2 DEF ApplyDeadLetterChange, AlertsTypes
  <2>5. /\ pc' \in [Actor -> {"idle", "gauge", "apply", "observe"}]
        /\ change' \in [Actor -> Change \cup {None}]
        /\ \A b \in Actor : change'[b] # None <=> pc'[b] \in {"gauge", "apply"}
    BY Zenon, <1>6 DEF ApplyDeadLetterChange, AlertsTypes
  <2> QED BY Zenon, <1>2, <1>6, <2>3, <2>4, <2>5 DEF ApplyDeadLetterChange, AlertsTypes, alertVars
<1>7. CASE Observe
  <2>1. /\ active' \subseteq Kind /\ due' \subseteq Kind
        /\ phase' \in [Kind -> {"none", "starting", "ongoing", "clearing"}]
    <3>1. CASE enabled
      <4>1. PICK holds :
            LET emitted == {k \in Kind : Transition(k, holds[k]) # "none"}
            IN  /\ phase' = [k \in Kind |-> IF k \in emitted THEN Transition(k, holds[k])
                                            ELSE phase[k]]
                /\ active' = {k \in Kind : IF k \in emitted THEN holds[k] ELSE k \in active}
                /\ due' = due \ emitted
        BY <1>7, <3>1, Zenon DEF Observe
      <4>2. \A k \in Kind : Transition(k, holds[k]) \in {"none", "starting", "ongoing", "clearing"}
        BY Zenon DEF Transition
      <4>3. phase' \in [Kind -> {"none", "starting", "ongoing", "clearing"}]
        BY Zenon, <4>1, <4>2 DEF AlertsTypes
      <4>4. active' \subseteq Kind /\ due' \subseteq Kind
        BY <4>1, Zenon DEF AlertsTypes
      <4> QED BY Zenon, <4>3, <4>4
    <3>2. CASE ~enabled
      BY Zenon, <1>7, <3>2 DEF Observe, AlertsTypes
    <3> QED BY Zenon, <3>1, <3>2
  <2> QED BY Zenon, <1>0, <1>2, <1>7, <2>1 DEF Observe, AlertsTypes, summaryVars
<1>8. CASE IntervalPasses \/ Reconfigure
  BY Zenon, <1>2, <1>8 DEF IntervalPasses, Reconfigure, AlertsTypes, summaryVars
<1>9. CASE Restart
  <2>1. Cardinality(Dead) \in Nat /\ Cardinality(discarded) \in Nat
    BY Zenon, Counts DEF Dead, AlertsTypes
  <2>2. \A r \in Reason : Of(Letter, r) \in Nat
    BY Zenon, Counts DEF Of
  <2>3. gauge' \in Nat /\ records' \in Nat /\ droppedSeen' \in Nat /\ reasons' \in [Reason -> Nat]
    BY Zenon, <1>9, <2>1, <2>2 DEF Restart
  <2> QED BY Zenon, <1>2, <1>9, <2>3 DEF Restart, AlertsTypes
<1>10. CASE UNCHANGED alertsVars
  BY Zenon, <1>10 DEF alertsVars, AlertsTypes
<1> QED BY Zenon, <1>0, <1>3, <1>4, <1>5, <1>6, <1>7, <1>8, <1>9, <1>10 DEF AlertsNext, DrainWorks, Apply

\* Every step keeps the messengers true.
LEMMA MessengerStep ==
    ASSUME Tallying, AlertsInv, [AlertsNext]_alertsVars
    PROVE  Messengers'
<1>0. "drain" \in Actor /\ Admin \subseteq Actor
  BY Zenon DEF Actor
<1>1. CASE DrainTx
  <2>0. pc["drain"] = "idle" /\ UNCHANGED <<gauge, records>>
    BY Zenon, <1>1 DEF DrainTx, summaryVars
  <2>1. CASE /\ pc' = [pc EXCEPT !["drain"] = "observe"]
             /\ UNCHANGED <<letters, discarded, rejections, change, recent>>
    <3>1. "drain" \notin InFlight
      BY Zenon, <2>0 DEF AlertsInv, AlertsTypes, InFlight
    <3>2. \A a \in InFlight : pc'[a] = pc[a]
      BY Zenon, <2>1, <3>1 DEF AlertsInv, AlertsTypes, InFlight
    <3> QED BY Zenon, <2>0, <2>1, <3>2, Silent
  <2>2. CASE \E P \in SUBSET Letter : \E why \in [P -> Reason] : Reject(P, why)
    <3>0. PICK P \in SUBSET Letter : \E why \in [P -> Reason] : Reject(P, why)
      BY Zenon, <2>2
    <3>1. PICK why \in [P -> Reason] : Reject(P, why)
      BY Zenon, <3>0
    <3>2. PICK c \in Change : Reports("drain", c) /\ c.records = Depth'
      BY Zenon, <3>1, RejectReports DEF AlertsInv
    <3> QED BY Zenon, <1>0, <2>0, <3>2, Reported
  <2> QED BY Zenon, <1>1, <2>1, <2>2 DEF DrainTx
<1>2. ASSUME NEW a \in Admin, ReplayTx(a) PROVE Messengers'
  <2>1. PICK R \in SUBSET Dead :
          /\ letters' = [d \in Letter |-> IF d \in R THEN None ELSE letters[d]]
          /\ Reports(a, [records |-> Cardinality(Dead \ R), dropped |-> 0,
                         added   |-> [r \in Reason |-> 0],
                         removed |-> [r \in Reason |-> Of(R, r)]])
    BY <1>2, Zenon DEF ReplayTx
  <2>2. Dead' = Dead \ R
    BY Zenon, <2>1 DEF Dead
  <2>3. PICK c \in Change : Reports(a, c) /\ c.records = Depth'
    BY <2>1, <2>2, ReplayReport, Zenon DEF Depth, AlertsInv
  <2>4. pc[a] = "idle" /\ UNCHANGED <<gauge, records>>
    BY Zenon, <1>2 DEF ReplayTx, summaryVars
  <2> QED BY Zenon, <1>0, <2>3, <2>4, Reported
<1>3. ASSUME NEW a \in Actor, SetGauge(a) PROVE Messengers'
  <2>1. InFlight' = InFlight /\ Depth' = Depth /\ a \in InFlight
    BY Zenon, <1>3 DEF SetGauge, InFlight, Depth, Dead, AlertsInv, AlertsTypes
  <2>2. gauge' = change[a].records /\ UNCHANGED <<change, records, recent>>
    BY <1>3, Zenon DEF SetGauge
  <2> QED BY <2>1, <2>2, Zenon DEF AlertsInv, Messengers
<1>4. ASSUME NEW a \in Actor, ApplyDeadLetterChange(a) PROVE Messengers'
  <2>1. /\ Depth' = Depth /\ a \in InFlight /\ InFlight' = InFlight \ {a}
        /\ \A b \in InFlight' : change'[b] = change[b]
    BY Zenon, <1>4 DEF ApplyDeadLetterChange, InFlight, Depth, Dead, AlertsInv, AlertsTypes
  <2>2. records' = change[a].records /\ pc[a] = "apply" /\ UNCHANGED <<gauge, recent>>
    BY <1>4, Zenon DEF ApplyDeadLetterChange
  <2>3. pc[a] # "gauge"
    BY Zenon, <2>2
  <2>4. gauge \in recent
    BY <2>1, <2>3, Zenon DEF AlertsInv, Messengers
  <2> QED BY <2>1, <2>2, <2>4, Zenon DEF AlertsInv, Messengers
<1>5. CASE Observe
  <2>1. "drain" \notin InFlight
    BY Zenon, <1>5, <1>0 DEF Observe, AlertsInv, AlertsTypes, InFlight
  <2>2. \A a \in InFlight : pc'[a] = pc[a]
    BY Zenon, <1>5, <2>1 DEF Observe, AlertsInv, AlertsTypes, InFlight
  <2> QED BY Zenon, <1>5, <2>2, Silent DEF Observe, summaryVars
<1>6. CASE IntervalPasses \/ Reconfigure
  BY Zenon, <1>6, Silent DEF IntervalPasses, Reconfigure, summaryVars
<1>7. CASE Restart
  <2>1. InFlight' = {} /\ Depth' = Depth /\ gauge' = Depth /\ records' = Depth
    BY Zenon, <1>7 DEF Restart, InFlight, Depth, Dead
  <2>2. Depth \in recent'
    BY <1>7, Zenon DEF Restart, Depth
  <2> QED BY <2>1, <2>2, Zenon DEF Messengers
<1>8. CASE UNCHANGED alertsVars
  BY Zenon, <1>8, Silent DEF alertsVars
<1> QED BY Zenon, <1>0, <1>1, <1>2, <1>3, <1>4, <1>5, <1>6, <1>7, <1>8 DEF AlertsNext, DrainWorks, Apply

(***************************************************************************)
(* The counts by type.                                                     *)
(***************************************************************************)

\* One more actor adds its tokens.
LEMMA TokensJoin ==
    ASSUME Tallying, NEW A, NEW a, NEW f, NEW g, Beside(A, a, f, g)
    PROVE  Joined(A, a, f, g)
<1> DEFINE mine == {a} \X (1..g[a])
           old == Tokens(A, f)
<1>1. Tokens(A \cup {a}, g) = old \cup mine
  <2>1. \A t : t \in Tokens(A \cup {a}, g) <=> \E b \in A \cup {a} : t \in {b} \X (1..g[b])
    BY Zenon DEF Tokens
  <2>2. \A t : t \in old <=> \E b \in A : t \in {b} \X (1..f[b])
    BY Zenon DEF Tokens
  <2>3. \A b \in A : {b} \X (1..f[b]) = {b} \X (1..g[b])
    BY Zenon DEF Beside
  <2> QED BY <2>1, <2>2, <2>3, Zenon
<1>2. old \cap mine = {}
  BY DEF Beside, Tokens
<1>3. IsFiniteSet(mine) /\ Cardinality(mine) = g[a]
  BY Zenon DEF Tallying, Beside
<1> HIDE DEF old, mine
<1>4. IsFiniteSet(old) /\ Cardinality(old) \in Nat
  BY Zenon DEF Tallying, Beside, old
<1>5. /\ IsFiniteSet(old \cup mine)
      /\ Cardinality(old \cup mine) = Cardinality(old) + g[a]
  <2>1. \A S, T : IsFiniteSet(S) /\ IsFiniteSet(T) /\ S \cap T = {} =>
          IsFiniteSet(S \cup T) /\ Cardinality(S \cup T) = Cardinality(S) + Cardinality(T)
    BY Zenon DEF Tallying
  <2> QED BY <1>2, <1>3, <1>4, <2>1, Zenon
<1> QED BY <1>1, <1>5, Zenon DEF Joined, old

\* One actor less takes them away.
LEMMA TokensLeave ==
    ASSUME Tallying, NEW A, NEW a \in A, NEW f, NEW g, \A b \in A \ {a} : f[b] = g[b],
           f[a] \in Nat, IsFiniteSet(Tokens(A, f))
    PROVE  /\ IsFiniteSet(Tokens(A \ {a}, g))
           /\ Cardinality(Tokens(A, f)) = Cardinality(Tokens(A \ {a}, g)) + f[a]
<1>1. Tokens(A \ {a}, g) \subseteq Tokens(A, f)
  BY Zenon DEF Tokens
<1>2. IsFiniteSet(Tokens(A \ {a}, g))
  BY <1>1, Zenon DEF Tallying
<1> DEFINE B == A \ {a}
<1>3. a \notin B /\ B \cup {a} = A /\ \A b \in B : g[b] = f[b]
  BY Zenon
<1> HIDE DEF B
<1>4. /\ IsFiniteSet(Tokens(B \cup {a}, f))
      /\ Cardinality(Tokens(B \cup {a}, f)) = Cardinality(Tokens(B, g)) + f[a]
  <2>1. IsFiniteSet(Tokens(B, g))
    BY <1>2, Zenon DEF B
  <2>2. Beside(B, a, g, f)
    BY <1>3, <2>1, Zenon DEF Beside
  <2>3. Joined(B, a, g, f)
    BY <2>2, TokensJoin, Zenon
  <2> QED BY <2>3, Zenon DEF Joined
<1> QED BY Zenon, <1>2, <1>3, <1>4 DEF B

\* A transaction owes what it reports as removed, until it is applied.
LEMMA OwedReported ==
    ASSUME Tallying, AlertsTypes, NEW a \in Actor, NEW c \in Change, pc[a] = "idle", Reports(a, c),
           NEW r \in Reason, IsFiniteSet(Owed(r))
    PROVE  /\ IsFiniteSet(Owed(r)')
           /\ Cardinality(Owed(r)') = Cardinality(Owed(r)) + c.removed[r]
<1> DEFINE f == [x \in InFlight |-> change[x].removed[r]]
           g == [x \in InFlight' |-> change'[x].removed[r]]
<1>1. change'[a] = c /\ c # None /\ \A b \in Actor \ {a} : change'[b] = change[b]
  BY Zenon, NoneAssumption DEF AlertsTypes, Reports
<1>2. a \notin InFlight /\ InFlight' = InFlight \cup {a}
  BY Zenon, <1>1 DEF AlertsTypes, InFlight
<1>3. g[a] = c.removed[r] /\ \A b \in InFlight : f[b] = g[b]
  BY Zenon, <1>1, <1>2 DEF InFlight
<1>4. g[a] \in Nat
  BY Zenon, <1>3 DEF Change
<1>5. Owed(r) = Tokens(InFlight, f) /\ Owed(r)' = Tokens(InFlight \cup {a}, g)
  BY Zenon, <1>2 DEF Owed
<1> HIDE DEF f, g
<1>6. Beside(InFlight, a, f, g)
  BY <1>2, <1>3, <1>4, <1>5, Zenon DEF Beside
<1>7. Joined(InFlight, a, f, g)
  BY <1>6, TokensJoin, Zenon
<1> QED BY <1>3, <1>5, <1>7, Zenon DEF Joined

LEMMA OwedApplied ==
    ASSUME Tallying, AlertsTypes, NEW a \in InFlight, change' = [change EXCEPT ![a] = None],
           NEW r \in Reason, IsFiniteSet(Owed(r))
    PROVE  /\ IsFiniteSet(Owed(r)')
           /\ Cardinality(Owed(r)) = Cardinality(Owed(r)') + change[a].removed[r]
<1> DEFINE f == [x \in InFlight |-> change[x].removed[r]]
           g == [x \in InFlight' |-> change'[x].removed[r]]
<1>1. change'[a] = None /\ \A b \in Actor \ {a} : change'[b] = change[b]
  BY Zenon DEF AlertsTypes, InFlight
<1>2. InFlight' = InFlight \ {a}
  BY Zenon, <1>1 DEF InFlight
<1>3. f[a] = change[a].removed[r] /\ \A b \in InFlight \ {a} : f[b] = g[b]
  BY Zenon, <1>1, <1>2 DEF InFlight
<1>4. f[a] \in Nat
  BY <1>3 DEF Change, AlertsTypes, InFlight
<1>5. Owed(r) = Tokens(InFlight, f) /\ Owed(r)' = Tokens(InFlight \ {a}, g)
  BY Zenon, <1>2 DEF Owed
<1> HIDE DEF f, g
<1>6. IsFiniteSet(Tokens(InFlight, f)) /\ \A b \in InFlight \ {a} : f[b] = g[b]
  BY <1>3, <1>5, Zenon
<1>7. /\ IsFiniteSet(Tokens(InFlight \ {a}, g))
      /\ Cardinality(Tokens(InFlight, f)) = Cardinality(Tokens(InFlight \ {a}, g)) + f[a]
  BY <1>4, <1>6, TokensLeave
<1> QED BY <1>3, <1>5, <1>7, Zenon

\* The documents of S of type r are those of two disjoint parts.
LEMMA SplitCount ==
    ASSUME Tallying, NEW S, NEW T, S \subseteq Letter, T \subseteq Letter, S \cap T = {}
    PROVE  Cardinality(S \cup T) = Cardinality(S) + Cardinality(T)
<1>1. /\ IsFiniteSet(S) /\ Cardinality(S) \in Nat
      /\ IsFiniteSet(T) /\ Cardinality(T) \in Nat
  BY Zenon, Counts
<1> QED BY <1>1, Zenon DEF Tallying

\* The rejection of P adds what it says, and what the cap drops was there.
LEMMA RejectCounts ==
    ASSUME Tallying, AlertsTypes, Dead \cap discarded = {},
           NEW P \in SUBSET (Letter \ (Dead \cup discarded)),
           NEW why \in [P -> Reason], Reject(P, why)
    PROVE  LET c == change'["drain"]
           IN  /\ Dead' \cap discarded' = {}
               /\ Cardinality(discarded') = Cardinality(discarded) + c.dropped
               /\ \A r \in Reason : Of(Letter, r)' + c.removed[r] = Of(Letter, r) + c.added[r]
<1> DEFINE all  == Dead \cup P
           kept == Retained(all)
           type == [d \in Letter |-> IF d \in P THEN why[d] ELSE letters[d]]
           Typed(S, r) == {d \in S : type[d] = r}
<1>1. kept \subseteq all /\ all \subseteq Letter /\ all \cap discarded = {} /\ discarded \subseteq Letter
  BY Zenon DEF Retained, Dead, AlertsTypes
<1>2. \A d \in all : type[d] \in Reason
  BY Zenon DEF Dead, AlertsTypes
<1>3. /\ letters' = [d \in Letter |-> IF d \in kept THEN type[d] ELSE None]
      /\ discarded' = discarded \cup (all \ kept)
  BY Zenon DEF Reject
<1>4. Dead' = kept
  BY <1>1, <1>2, <1>3, AlertsAssumption, Zenon DEF Dead
<1>5. /\ change'["drain"].dropped = Cardinality(all \ kept)
      /\ \A r \in Reason :
           /\ change'["drain"].added[r] = Cardinality({d \in P : why[d] = r})
           /\ change'["drain"].removed[r] = Cardinality(Typed(all \ kept, r))
  BY Zenon DEF Reject, Reports, AlertsTypes, Actor
<1>6. Dead' \cap discarded' = {}
  BY <1>1, <1>3, <1>4, Zenon
<1>7. Cardinality(discarded') = Cardinality(discarded) + Cardinality(all \ kept)
  <2>1. all \ kept \subseteq Letter /\ discarded \cap (all \ kept) = {}
    BY Zenon, <1>1
  <2> QED BY <1>1, <1>3, <2>1, SplitCount, Zenon
<1>8. ASSUME NEW r \in Reason
      PROVE  Of(Letter, r)' + Cardinality(Typed(all \ kept, r))
             = Of(Letter, r) + Cardinality({d \in P : why[d] = r})
  <2>1. {d \in Letter : letters'[d] = r} = Typed(kept, r)
    BY Zenon, <1>1, <1>3, AlertsAssumption
  <2>2. {d \in Letter : letters[d] = r} = Typed(Dead, r)
    BY AlertsAssumption, Zenon DEF Dead
  <2>3. {d \in P : why[d] = r} = Typed(P, r)
    BY Zenon
  <2>4. Cardinality(Typed(all, r)) = Cardinality(Typed(kept, r)) + Cardinality(Typed(all \ kept, r))
    <3>1. /\ Typed(all, r) = Typed(kept, r) \cup Typed(all \ kept, r)
          /\ Typed(kept, r) \cap Typed(all \ kept, r) = {}
          /\ Typed(kept, r) \subseteq Letter /\ Typed(all \ kept, r) \subseteq Letter
      BY <1>1, Zenon
    <3> HIDE DEF Typed
    <3> QED BY <3>1, SplitCount, Zenon
  <2>5. Cardinality(Typed(all, r)) = Cardinality(Typed(Dead, r)) + Cardinality(Typed(P, r))
    <3>1. /\ Typed(all, r) = Typed(Dead, r) \cup Typed(P, r)
          /\ Typed(Dead, r) \cap Typed(P, r) = {}
          /\ Typed(Dead, r) \subseteq Letter /\ Typed(P, r) \subseteq Letter
      BY <1>1, Zenon
    <3> HIDE DEF Typed
    <3> QED BY Zenon, <3>1, SplitCount
  <2>6. Of(Letter, r)' = Cardinality(Typed(kept, r)) /\ Of(Letter, r) = Cardinality(Typed(Dead, r))
    BY <2>1, <2>2, Zenon DEF Of
  <2> HIDE DEF Typed, kept, all
  <2> QED BY Zenon, <2>3, <2>4, <2>5, <2>6
<1> QED
  <2> HIDE DEF Typed, kept, all
  <2> QED BY <1>5, <1>6, <1>7, <1>8, Zenon

\* Every step keeps the ledger balanced.
LEMMA LedgerStep ==
    ASSUME Tallying, AlertsTypes, AlertsTypes', Owing, [AlertsNext]_alertsVars
    PROVE  Owing'
<1>0. "drain" \in Actor /\ Admin \subseteq Actor /\ "drain" \notin Admin
  BY Zenon, AlertsAssumption DEF Actor
<1>1. /\ \A r \in Reason :
           /\ reasons[r] \in Nat /\ Of(Letter, r) \in Nat /\ Of(Letter, r)' \in Nat
           /\ Coming(r) \in Nat
           /\ IsFiniteSet(Owed(r)) /\ Cardinality(Owed(r)) \in Nat
      /\ droppedSeen \in Nat /\ Cardinality(discarded) \in Nat /\ ComingDrops \in Nat
  <2>1. \A r \in Reason : Of(Letter, r) \in Nat /\ Of(Letter, r)' \in Nat
    BY Zenon, Counts DEF Of
  <2>2. \A r \in Reason : IsFiniteSet(Owed(r)) /\ Cardinality(Owed(r)) \in Nat
    BY Zenon DEF Tallying, Owing
  <2>3. change["drain"] = None \/ change["drain"] \in Change
    BY Zenon, <1>0 DEF AlertsTypes
  <2>4. ComingDrops \in Nat /\ \A r \in Reason : Coming(r) \in Nat
    BY Zenon, <2>3 DEF ComingDrops, Coming, Change
  <2>5. /\ \A r \in Reason : reasons[r] \in Nat
        /\ droppedSeen \in Nat /\ Cardinality(discarded) \in Nat
    BY Zenon, Counts DEF AlertsTypes
  <2> QED BY Zenon, <2>1, <2>2, <2>4, <2>5
<1>2. CASE DrainTx
  <2>0. pc["drain"] = "idle" /\ UNCHANGED <<reasons, droppedSeen>>
    BY <1>2, SMTT(30) DEF DrainTx, summaryVars
  <2>1. CASE UNCHANGED <<letters, discarded, change>>
    BY <2>0, <2>1, Zenon DEF Owing, Dead, Owed, InFlight, Of, Coming, ComingDrops
  <2>2. CASE \E P \in SUBSET (Letter \ (Dead \cup discarded)) : \E why \in [P -> Reason] : Reject(P, why)
    <3>0. PICK P \in SUBSET (Letter \ (Dead \cup discarded)) : \E why \in [P -> Reason] : Reject(P, why)
      BY Zenon, <2>2
    <3>1. PICK why \in [P -> Reason] : Reject(P, why)
      BY <3>0, Zenon
    <3> DEFINE c == change'["drain"]
    <3>2. /\ Dead' \cap discarded' = {}
          /\ Cardinality(discarded') = Cardinality(discarded) + c.dropped
          /\ \A r \in Reason : Of(Letter, r)' + c.removed[r] = Of(Letter, r) + c.added[r]
      BY Zenon, <3>1, RejectCounts DEF Owing
    <3>3. PICK x \in Change : Reports("drain", x)
      <4>1. P \in SUBSET Letter
        BY Zenon
      <4> QED BY Zenon, <3>1, <4>1, RejectReports
    <3>4. x = c /\ c # None /\ c \in Change /\ \A b \in Admin : change'[b] = change[b]
      BY Zenon, <1>0, <3>3, NoneAssumption DEF Reports, AlertsTypes
    <3>5. \A r \in Reason :
            /\ IsFiniteSet(Owed(r)')
            /\ Cardinality(Owed(r)') = Cardinality(Owed(r)) + c.removed[r]
      BY <1>0, <1>1, <2>0, <3>3, <3>4, OwedReported, Zenon
    <3>6. change["drain"] = None
      BY Zenon, <1>0, <2>0 DEF AlertsTypes
    <3>7. /\ ComingDrops = 0 /\ ComingDrops' = c.dropped
          /\ \A r \in Reason : Coming(r) = 0 /\ Coming(r)' = c.added[r]
      BY Zenon, <3>4, <3>6 DEF ComingDrops, Coming
    <3>8. c.dropped \in Nat /\ \A r \in Reason : c.added[r] \in Nat /\ c.removed[r] \in Nat
      BY <3>4, Zenon DEF Change
    <3> HIDE DEF c
    <3>9. ASSUME NEW r \in Reason
          PROVE  Of(Letter, r)' + Cardinality(Owed(r)') <= reasons'[r] + Coming(r)'
      <4>1. Of(Letter, r) + Cardinality(Owed(r)) <= reasons[r] + Coming(r)
        BY Zenon DEF Owing
      <4>2. reasons'[r] = reasons[r]
        BY <2>0, Zenon
      <4>3. /\ Of(Letter, r) \in Nat /\ Of(Letter, r)' \in Nat /\ reasons[r] \in Nat
            /\ Cardinality(Owed(r)) \in Nat /\ c.added[r] \in Nat /\ c.removed[r] \in Nat
        BY <1>1, <3>8, Zenon
      <4>4. Of(Letter, r)' + c.removed[r] = Of(Letter, r) + c.added[r]
        BY <3>2, Zenon
      <4>5. Cardinality(Owed(r)') = Cardinality(Owed(r)) + c.removed[r]
        BY <3>5, Zenon
      <4>6. Coming(r) = 0 /\ Coming(r)' = c.added[r]
        BY <3>7, Zenon
      <4> QED BY <4>1, <4>2, <4>3, <4>4, <4>5, <4>6
    <3>10. droppedSeen' + ComingDrops' = Cardinality(discarded')
      <4>1. droppedSeen + ComingDrops = Cardinality(discarded) /\ droppedSeen' = droppedSeen
        BY <2>0, Zenon DEF Owing
      <4>2. droppedSeen \in Nat /\ Cardinality(discarded) \in Nat
        BY <1>1, Zenon
      <4>3. Cardinality(discarded') = Cardinality(discarded) + c.dropped
        BY <3>2, Zenon
      <4>4. ComingDrops = 0 /\ ComingDrops' = c.dropped /\ c.dropped \in Nat
        BY <3>7, <3>8, Zenon
      <4> QED BY <4>1, <4>2, <4>3, <4>4
    <3>11. \A a \in Admin : change'[a] # None =>
             change'[a].dropped = 0 /\ \A r \in Reason : change'[a].added[r] = 0
      BY <3>4, Zenon DEF Owing
    <3> QED BY <3>2, <3>5, <3>9, <3>10, <3>11, Zenon DEF Owing
  <2> QED BY Zenon, <1>2, <2>1, <2>2 DEF DrainTx

<1>3. ASSUME NEW a \in Admin, ReplayTx(a) PROVE Owing'
  <2>1. PICK R \in SUBSET Dead :
          /\ letters' = [d \in Letter |-> IF d \in R THEN None ELSE letters[d]]
          /\ Reports(a, [records |-> Cardinality(Dead \ R), dropped |-> 0,
                         added   |-> [r \in Reason |-> 0],
                         removed |-> [r \in Reason |-> Of(R, r)]])
    BY <1>3, Zenon DEF ReplayTx
  <2> DEFINE c == [records |-> Cardinality(Dead \ R), dropped |-> 0,
                   added   |-> [r \in Reason |-> 0],
                   removed |-> [r \in Reason |-> Of(R, r)]]
  <2>2. c \in Change /\ Reports(a, c)
    BY <2>1, ReplayReport, Zenon
  <2>3. c.dropped = 0 /\ \A r \in Reason : c.added[r] = 0 /\ c.removed[r] = Of(R, r)
    BY Zenon
  <2> HIDE DEF c
  <2>4. pc[a] = "idle" /\ a \in Actor /\ UNCHANGED <<discarded, reasons, droppedSeen>>
    BY Zenon, <1>0, <1>3 DEF ReplayTx, summaryVars
  <2>5. /\ change'[a] = c /\ change'["drain"] = change["drain"]
        /\ \A b \in Admin \ {a} : change'[b] = change[b]
    BY <1>0, <2>2, <2>4, Zenon DEF Reports, AlertsTypes
  <2>6. \A r \in Reason :
          /\ IsFiniteSet(Owed(r)')
          /\ Cardinality(Owed(r)') = Cardinality(Owed(r)) + Of(R, r)
    BY <1>1, <2>2, <2>3, <2>4, OwedReported, Zenon
  <2>7. ASSUME NEW r \in Reason
        PROVE  Of(Letter, r)' + Of(R, r) = Of(Letter, r) /\ Of(R, r) \in Nat
    <3> DEFINE S == {d \in Letter : letters'[d] = r}
               T == {d \in R : letters[d] = r}
    <3>1. S \cap T = {} /\ S \subseteq Letter /\ T \subseteq Letter
      BY <2>1, AlertsAssumption, Zenon DEF Dead
    <3>2. {d \in Letter : letters[d] = r} = S \cup T
      BY <2>1, AlertsAssumption, Zenon DEF Dead
    <3> HIDE DEF S, T
    <3>3. Cardinality(S \cup T) = Cardinality(S) + Cardinality(T) /\ Cardinality(T) \in Nat
      BY Zenon, <3>1, SplitCount, Counts
    <3> QED BY <3>2, <3>3, Zenon DEF Of, S, T
  <2>8. Dead' \cap discarded' = {}
    BY Zenon, <2>1, <2>4 DEF Owing, Dead
  <2>9. ComingDrops' = ComingDrops /\ \A r \in Reason : Coming(r)' = Coming(r)
    BY <2>5, Zenon DEF ComingDrops, Coming
  <2>10. ASSUME NEW r \in Reason
         PROVE  Of(Letter, r)' + Cardinality(Owed(r)') <= reasons'[r] + Coming(r)'
    <3>1. Of(Letter, r) + Cardinality(Owed(r)) <= reasons[r] + Coming(r) /\ reasons'[r] = reasons[r]
      BY <2>4, Zenon DEF Owing
    <3> QED BY <1>1, <2>6, <2>7, <2>9, <3>1, SMTT(30)
  <2>11. droppedSeen' + ComingDrops' = Cardinality(discarded')
    BY <2>4, <2>9, Zenon DEF Owing
  <2>12. \A b \in Admin : change'[b] # None =>
           change'[b].dropped = 0 /\ \A r \in Reason : change'[b].added[r] = 0
    BY <2>3, <2>5 DEF Owing
  <2> QED BY <2>6, <2>8, <2>10, <2>11, <2>12, Zenon DEF Owing
<1>4. ASSUME NEW a \in Actor, ApplyDeadLetterChange(a) PROVE Owing'
  <2> DEFINE c == change[a]
  <2>1. /\ pc[a] = "apply" /\ change' = [change EXCEPT ![a] = None]
        /\ reasons' = [r \in Reason |-> Less(reasons[r], c.removed[r]) + c.added[r]]
        /\ droppedSeen' = droppedSeen + c.dropped /\ UNCHANGED <<letters, discarded>>
    BY Zenon, <1>4 DEF ApplyDeadLetterChange
  <2>2. c \in Change /\ a \in InFlight
    BY Zenon, <2>1 DEF AlertsTypes, InFlight
  <2>3. c.dropped \in Nat /\ \A r \in Reason : c.added[r] \in Nat /\ c.removed[r] \in Nat
    BY <2>2, SMTT(30) DEF Change
  <2>4. \A r \in Reason :
          /\ IsFiniteSet(Owed(r)')
          /\ Cardinality(Owed(r)) = Cardinality(Owed(r)') + c.removed[r]
    BY <1>1, <2>1, <2>2, OwedApplied, Zenon
  <2>5. change'[a] = None /\ \A b \in Actor \ {a} : change'[b] = change[b]
    BY Zenon, <2>1 DEF AlertsTypes
  <2>6. /\ ComingDrops' + c.dropped = ComingDrops
        /\ \A r \in Reason : Coming(r)' + c.added[r] = Coming(r)
    <3>1. CASE a = "drain"
      BY <2>2, <2>3, <2>5, <3>1, NoneAssumption DEF ComingDrops, Coming
    <3>2. CASE a # "drain"
      <4>1. a \in Admin /\ change[a] # None
        BY Zenon, <2>2, <3>2 DEF Actor, InFlight
      <4>2. c.dropped = 0 /\ \A r \in Reason : c.added[r] = 0
        BY Zenon, <4>1 DEF Owing
      <4>3. ComingDrops' = ComingDrops /\ \A r \in Reason : Coming(r)' = Coming(r)
        BY <1>0, <2>5, <3>2, Zenon DEF ComingDrops, Coming
      <4> QED BY <1>1, <4>2, <4>3
    <3> QED BY Zenon, <3>1, <3>2
  <2>7. Dead' = Dead /\ \A r \in Reason : Of(Letter, r)' = Of(Letter, r)
    BY <2>1, Zenon DEF Dead, Of
  <2> HIDE DEF c
  <2>8. ASSUME NEW r \in Reason
        PROVE  Of(Letter, r)' + Cardinality(Owed(r)') <= reasons'[r] + Coming(r)'
    <3>1. Of(Letter, r) + Cardinality(Owed(r)) <= reasons[r] + Coming(r)
      BY Zenon DEF Owing
    <3>2. reasons'[r] >= reasons[r] - c.removed[r] + c.added[r] /\ reasons'[r] \in Nat
      <4>1. reasons'[r] = Less(reasons[r], c.removed[r]) + c.added[r]
        BY <2>1, Zenon DEF c
      <4>2. reasons[r] \in Nat /\ c.removed[r] \in Nat /\ c.added[r] \in Nat
        BY <1>1, <2>3, Zenon
      <4>3. /\ Less(reasons[r], c.removed[r]) + c.added[r]
               >= reasons[r] - c.removed[r] + c.added[r]
            /\ Less(reasons[r], c.removed[r]) + c.added[r] \in Nat
        BY <4>2, LessBound, Zenon
      <4> QED BY <4>1, <4>3, Zenon
    <3>3. Cardinality(Owed(r)') \in Nat
      BY <2>4, Zenon DEF Tallying
    <3>4. Coming(r)' + c.added[r] = Coming(r) /\ Coming(r)' \in Int
      <4>1. Coming(r)' \in Nat
        <5>1. change'["drain"] = None \/ change'["drain"] \in Change
          BY <1>0, Zenon DEF AlertsTypes
        <5> QED BY Zenon, <5>1 DEF Coming, Change
      <4> QED BY <2>6, <4>1
    <3> QED BY <1>1, <2>3, <2>4, <2>7, <3>1, <3>2, <3>3, <3>4, SMTT(30)
  <2>9. droppedSeen' + ComingDrops' = Cardinality(discarded')
    <3>1. ComingDrops' \in Nat
      <4>1. change'["drain"] = None \/ change'["drain"] \in Change
        BY <1>0, Zenon DEF AlertsTypes
      <4> QED BY Zenon, <4>1 DEF ComingDrops, Change
    <3>2. droppedSeen + ComingDrops = Cardinality(discarded)
      BY Zenon DEF Owing
    <3> QED BY <1>1, <2>1, <2>3, <2>6, <3>1, <3>2
  <2>10. \A b \in Admin : change'[b] # None =>
           change'[b].dropped = 0 /\ \A r \in Reason : change'[b].added[r] = 0
    BY Zenon, <1>0, <2>5 DEF Owing
  <2>11. Dead' \cap discarded' = {}
    BY <2>1, <2>7, Zenon DEF Owing
  <2> QED BY <2>4, <2>8, <2>9, <2>10, <2>11, Zenon DEF Owing
<1>5. ASSUME UNCHANGED <<letters, discarded, change, reasons, droppedSeen>> PROVE Owing'
  BY <1>5, Zenon DEF Owing, Dead, Owed, InFlight, Of, Coming, ComingDrops
<1>6. CASE Restart
  <2>1. /\ change' = [a \in Actor |-> None] /\ droppedSeen' = Cardinality(discarded)
        /\ reasons' = [r \in Reason |-> Of(Letter, r)] /\ UNCHANGED <<letters, discarded>>
    BY Zenon, <1>6 DEF Restart
  <2>2. InFlight' = {}
    BY Zenon, <2>1 DEF InFlight
  <2>3. \A r \in Reason : Owed(r)' = {}
    BY Zenon, <2>2 DEF Owed, Tokens
  <2>4. ComingDrops' = 0 /\ \A r \in Reason : Coming(r)' = 0 /\ Of(Letter, r)' = Of(Letter, r)
    BY Zenon, <1>0, <2>1 DEF ComingDrops, Coming, Of
  <2>5. \A a \in Admin : change'[a] = None
    BY <1>0, <2>1, Zenon
  <2>6. Dead' \cap discarded' = {}
    BY Zenon, <2>1 DEF Owing, Dead
  <2>7. IsFiniteSet({}) /\ Cardinality({}) = 0
    BY Zenon DEF Tallying
  <2>8. \A r \in Reason : Of(Letter, r)' + 0 <= reasons'[r] + 0
    BY <1>1, <2>1, <2>4
  <2>9. droppedSeen' + 0 = Cardinality(discarded')
    BY <1>1, <2>1
  <2> QED BY <2>3, <2>4, <2>5, <2>6, <2>7, <2>8, <2>9, Zenon DEF Owing
<1> QED
  <2>1. ASSUME NEW a \in Actor, SetGauge(a)
        PROVE  UNCHANGED <<letters, discarded, change, reasons, droppedSeen>>
    BY Zenon, <2>1 DEF SetGauge
  <2>2. CASE Observe \/ IntervalPasses \/ Reconfigure \/ UNCHANGED alertsVars
    <3>1. UNCHANGED <<letters, discarded, change, reasons, droppedSeen>>
      BY Zenon, <2>2 DEF Observe, IntervalPasses, Reconfigure, alertsVars, summaryVars
    <3> QED BY Zenon, <1>5, <3>1
  <2> QED
    BY Zenon, <1>0, <1>2, <1>3, <1>4, <1>5, <1>6, <2>1, <2>2 DEF AlertsNext, DrainWorks, Apply

\* Nothing is owed at the start.
LEMMA OwingStarts ==
    ASSUME Tallying, AlertsInit
    PROVE  Owing
<1>0. "drain" \in Actor /\ Admin \subseteq Actor
  BY Zenon DEF Actor
<1>1. InFlight = {} /\ Dead = {} /\ \A a \in Actor : change[a] = None
  BY Zenon DEF AlertsInit, InFlight, Dead
<1>2. IsFiniteSet({}) /\ Cardinality({}) = 0
  BY Zenon DEF Tallying
<1>3. ASSUME NEW r \in Reason
      PROVE  Owed(r) = {} /\ Of(Letter, r) = 0 /\ Coming(r) = 0 /\ reasons[r] = 0
  <2>1. {d \in Letter : letters[d] = r} = {}
    BY Zenon, AlertsAssumption DEF AlertsInit
  <2>2. Owed(r) = {}
    BY Zenon, <1>1 DEF Owed, Tokens
  <2>3. Of(Letter, r) = 0
    BY <1>2, <2>1, Zenon DEF Of
  <2>4. Coming(r) = 0
    BY Zenon, <1>0, <1>1 DEF Coming
  <2>5. reasons[r] = 0
    BY Zenon DEF AlertsInit
  <2> QED BY Zenon, <2>2, <2>3, <2>4, <2>5
<1>4. ComingDrops = 0 /\ droppedSeen = 0 /\ discarded = {}
  BY Zenon, <1>0, <1>1 DEF AlertsInit, ComingDrops
<1>5. 0 + 0 <= 0 + 0 /\ 0 + 0 = 0
  OBVIOUS
<1>6. \A r \in Reason : /\ IsFiniteSet(Owed(r))
                        /\ Of(Letter, r) + Cardinality(Owed(r)) <= reasons[r] + Coming(r)
  BY <1>2, <1>3, <1>5, Zenon
<1>7. droppedSeen + ComingDrops = Cardinality(discarded)
  BY <1>2, <1>4, <1>5, Zenon
<1> QED BY <1>0, <1>1, <1>6, <1>7, Zenon DEF Owing
-----------------------------------------------------------------------------
\* What the argument needs of the library's facts about numbers and finite
\* sets; they are brought in at the end (lemma Counted).
Counting ==
    /\ \A T : T \subseteq Nat /\ T # {} => \E x \in T : \A y \in T : x <= y
    /\ \A S, T : IsFiniteSet(S) /\ T \subseteq S =>
         IsFiniteSet(T) /\ Cardinality(T) <= Cardinality(S)
    /\ \A S : IsFiniteSet(S) => Cardinality(S) \in Nat
    /\ Cardinality({}) = 0
    /\ \A S, x : IsFiniteSet(S) /\ x \in S =>
         IsFiniteSet(S \ {x}) /\ Cardinality(S \ {x}) = Cardinality(S) - 1
    /\ \A S, T : IsFiniteSet(S) /\ IsFiniteSet(T) =>
         Cardinality(S \cup T) = Cardinality(S) + Cardinality(T) - Cardinality(S \cap T)

LEMMA NatMin ==
    ASSUME Counting, NEW T, T \subseteq Nat, T # {}
    PROVE  \E x \in T : \A y \in T : x <= y
BY Zenon DEF Counting

LEMMA SubsetSize ==
    ASSUME Counting, NEW S, IsFiniteSet(S), NEW T, T \subseteq S
    PROVE  IsFiniteSet(T) /\ Cardinality(T) <= Cardinality(S)
BY Zenon DEF Counting

LEMMA SizeIsNat ==
    ASSUME Counting, NEW S, IsFiniteSet(S)
    PROVE  Cardinality(S) \in Nat
BY Zenon DEF Counting

LEMMA EmptySize ==
    ASSUME Counting
    PROVE  Cardinality({}) = 0
BY Zenon DEF Counting

LEMMA RemovedSize ==
    ASSUME Counting, NEW S, IsFiniteSet(S), NEW x \in S
    PROVE  IsFiniteSet(S \ {x}) /\ Cardinality(S \ {x}) = Cardinality(S) - 1
BY Zenon DEF Counting

LEMMA UnionSize ==
    ASSUME Counting, NEW S, IsFiniteSet(S), NEW T, IsFiniteSet(T)
    PROVE  Cardinality(S \cup T) = Cardinality(S) + Cardinality(T) - Cardinality(S \cap T)
BY Zenon DEF Counting

(***************************************************************************)
(* The dead-letter cap: Newest(S, n) has at most n members, and exactly n  *)
(* when it leaves somebody out.                                            *)
(***************************************************************************)
LEMMA NewestBounded ==
    ASSUME Counting, NEW S, S \subseteq Nat, IsFiniteSet(S), NEW n \in Nat \ {0}
    PROVE  /\ Newest(S, n) \subseteq S
           /\ IsFiniteSet(Newest(S, n))
           /\ Cardinality(Newest(S, n)) \in Nat
           /\ Cardinality(Newest(S, n)) <= n
<1> DEFINE K == Newest(S, n)
<1>1. K \subseteq S
  BY Zenon DEF Newest
<1>2. IsFiniteSet(K)
  BY Zenon, <1>1, SubsetSize
<1>3. Cardinality(K) \in Nat
  BY Zenon, <1>2, SizeIsNat
<1>4. ASSUME K = {} PROVE Cardinality(K) <= n
  <2>1. Cardinality(K) = 0
    BY <1>4, EmptySize, Zenon
  <2> HIDE DEF K
  <2> QED
    BY <2>1
<1>5. ASSUME K # {} PROVE Cardinality(K) <= n
  <2>1. PICK x \in K : \A y \in K : x <= y
    BY <1>1, <1>5, NatMin, Zenon
  <2> DEFINE U == {e \in S : e > x}
  <2>2. U \subseteq S /\ IsFiniteSet(U) /\ Cardinality(U) \in Nat
    BY Zenon, SubsetSize, SizeIsNat
  <2>3. Cardinality(U) < n
    BY Zenon DEF Newest
  <2>4. K \ {x} \subseteq U
    <3> SUFFICES ASSUME NEW y \in K \ {x} PROVE y > x
      BY Zenon, <1>1
    <3>1. x <= y /\ x # y /\ x \in Nat /\ y \in Nat
      BY <1>1, <2>1, Zenon
    <3> QED
      BY <3>1
  <2>5. Cardinality(K \ {x}) <= Cardinality(U)
    BY Zenon, <2>2, <2>4, SubsetSize
  <2>6. Cardinality(K \ {x}) = Cardinality(K) - 1
    BY Zenon, <1>2, RemovedSize
  <2>7. Cardinality(K) <= n
    <3> HIDE DEF K, U
    <3> QED
      BY <1>3, <2>2, <2>3, <2>5, <2>6
  <2> QED
    BY Zenon, <2>7
<1> QED
  BY <1>1, <1>2, <1>3, <1>4, <1>5, Zenon

\* When trimming drops something, it keeps exactly n.
LEMMA NewestFull ==
    ASSUME Counting, NEW S, S \subseteq Nat, IsFiniteSet(S), NEW n \in Nat \ {0},
           S \ Newest(S, n) # {}
    PROVE  Cardinality(Newest(S, n)) = n
<1> DEFINE K == Newest(S, n)
           U(x) == {e \in S : e > x}
           C == {Cardinality(U(x)) : x \in S \ K}
<1>1. ASSUME NEW x PROVE IsFiniteSet(U(x)) /\ Cardinality(U(x)) \in Nat
  <2>1. U(x) \subseteq S
    BY Zenon
  <2> QED
    BY Zenon, <2>1, SubsetSize, SizeIsNat
<1>2. C \subseteq Nat /\ C # {}
  BY <1>1, Zenon
<1>3. PICK c \in C : \A b \in C : c <= b
  BY <1>2, NatMin, Zenon
<1>4. PICK x \in S \ K : c = Cardinality(U(x))
  BY <1>3, Zenon
<1>5. c >= n
  <2>1. ~(Cardinality(U(x)) < n)
    BY Zenon DEF Newest
  <2> QED
    BY <1>1, <1>4, <2>1
<1>6. ASSUME NEW y \in U(x) PROVE y \in K
  <2>1. SUFFICES ASSUME y \notin K PROVE FALSE
    BY Zenon
  <2>2. c <= Cardinality(U(y))
    BY Zenon, <1>3, <2>1
  <2>3. U(y) \subseteq U(x) \ {y}
    <3> SUFFICES ASSUME NEW e \in U(y) PROVE e > x /\ e # y
      BY Zenon
    <3>1. e > y /\ y > x /\ e \in Nat /\ y \in Nat /\ x \in Nat
      BY Zenon
    <3> QED
      BY <3>1
  <2>4. Cardinality(U(x) \ {y}) = Cardinality(U(x)) - 1 /\ IsFiniteSet(U(x) \ {y})
    <3>1. y \in U(x) /\ IsFiniteSet(U(x))
      BY Zenon, <1>1, <1>6
    <3> HIDE DEF U
    <3> QED
      BY Zenon, <3>1, RemovedSize
  <2>5. Cardinality(U(y)) <= Cardinality(U(x) \ {y})
    <3> HIDE DEF U
    <3> QED
      BY <2>3, <2>4, SubsetSize, Zenon
  <2>6. Cardinality(U(x)) \in Nat /\ Cardinality(U(y)) \in Nat
    BY <1>1, Zenon
  <2> HIDE DEF U, K
  <2> QED
    BY <1>4, <2>2, <2>4, <2>5, <2>6
<1>7. Cardinality(U(x)) <= Cardinality(K)
  <2>1. U(x) \subseteq K /\ IsFiniteSet(K)
    BY <1>6, NewestBounded, Zenon
  <2> HIDE DEF K, U
  <2> QED
    BY <2>1, SubsetSize, Zenon
<1>8. Cardinality(K) \in Nat /\ Cardinality(K) <= n
  BY NewestBounded, Zenon
<1>9. Cardinality(U(x)) \in Nat
  BY <1>1, Zenon
<1>10. Cardinality(K) = n
  <2> HIDE DEF U, K
  <2> QED
    BY <1>4, <1>5, <1>7, <1>8, <1>9
<1> QED
  BY Zenon, <1>10
-----------------------------------------------------------------------------
(***************************************************************************)
(* The inductive invariant.                                                *)
(***************************************************************************)

\* Outside a drain nothing is loaded; a verdict "delivered" is about a document
\* OpenSearch holds; a document that was never enqueued has no attempts.
DrainConsistent ==
    /\ dpc = "idle" => taken = {}
    /\ dpc = "resolve" => \A d \in taken : verdict[d] = "delivered" => d \in index
    /\ \A d \in Doc \ created : attempts[d] = 0

\* A document is in one place; the cap is respected and what it cost is counted.
Placed ==
    /\ outbox \cap dead = {}
    /\ outbox \cap evicted = {}
    /\ dead \cap evicted = {}
    /\ created \ (outbox \cup dead \cup evicted) \subseteq index
CapCounted ==
    /\ Cardinality(dead) <= MaxDLQ
    /\ dropped = Cardinality(evicted)

\* A record in the outbox has a retry left.
RetriesLeft == \A d \in outbox : attempts[d] <= MaxRetries

IInv ==
    /\ TypeOK
    /\ Placed
    /\ CapCounted
    /\ InFlightStable
    /\ RetriesLeft
    /\ DrainConsistent

\* The empty store satisfies the invariant.
LEMMA InitIInv ==
    ASSUME Counting
    PROVE  Init => IInv
<1> SUFFICES ASSUME Init PROVE IInv
  BY Zenon
<1>1. TypeOK /\ Placed /\ InFlightStable /\ RetriesLeft /\ DrainConsistent
  BY DeliveryAssumption DEF Init, TypeOK, Placed, InFlightStable, RetriesLeft,
                            DrainConsistent, Disposition
<1>2. CapCounted
  BY DeliveryAssumption, EmptySize DEF Init, CapCounted
<1> QED
  BY Zenon, <1>1, <1>2 DEF IInv

\* Enqueueing a record keeps the invariant.
LEMMA EnqueueIInv ==
    ASSUME IInv, NEW d \in Doc, Enqueue(d)
    PROVE  IInv'
<1> USE DEF IInv, Enqueue, drainVars, requestVars
<1>1. TypeOK'
  BY Zenon DEF TypeOK
<1>2. Placed' /\ RetriesLeft' /\ DrainConsistent'
  BY DeliveryAssumption DEF TypeOK, Placed, RetriesLeft, DrainConsistent
<1>3. CapCounted'
  BY Zenon DEF CapCounted
<1>4. InFlightStable'
  BY Zenon DEF InFlightStable
<1> QED
  BY Zenon, <1>1, <1>2, <1>3, <1>4

\* The end of a backoff keeps the invariant.
LEMMA ElapseIInv ==
    ASSUME IInv, NEW d \in Doc, Elapse(d)
    PROVE  IInv'
BY Zenon DEF IInv, Elapse, drainVars, requestVars, TypeOK, Placed, RetriesLeft, DrainConsistent,
       CapCounted, InFlightStable

\* Loading a batch keeps the invariant.
LEMMA LoadIInv ==
    ASSUME IInv, LoadPending
    PROVE  IInv'
<1>1. taken' \subseteq outbox \ waiting /\ outbox \subseteq Doc
  BY Zenon DEF LoadPending, Oldest, IInv, TypeOK
<1>2. \A d \in Doc : seen'[d] = IF d \in taken' THEN attempts[d] ELSE 0
  BY Zenon DEF LoadPending
<1>3. seen' \in [Doc -> 0..MaxRetries]
  <2>1. \A d \in taken' : attempts[d] \in 0..MaxRetries
    BY <1>1, DeliveryAssumption DEF IInv, TypeOK, RetriesLeft
  <2>2. 0 \in 0..MaxRetries
    BY DeliveryAssumption
  <2> QED
    BY Zenon, <2>1, <2>2 DEF LoadPending
<1>4. TypeOK'
  BY <1>1, <1>3, Zenon DEF LoadPending, IInv, TypeOK, DrainConsistent, storeVars, requestVars
<1>5. InFlightStable'
  BY Zenon, <1>1, <1>2 DEF LoadPending, InFlightStable, storeVars
<1>6. Placed' /\ CapCounted' /\ RetriesLeft' /\ DrainConsistent'
  BY Zenon DEF LoadPending, storeVars, IInv, Placed, CapCounted, RetriesLeft, DrainConsistent
<1> QED
  BY Zenon, <1>4, <1>5, <1>6 DEF IInv

\* Whatever the sink answers keeps the invariant.
LEMMA SinkIInv ==
    ASSUME IInv, SinkUnanswered \/ SinkRefused \/ SinkAnswered
    PROVE  IInv'
<1>1. /\ index \subseteq index' /\ index' \subseteq index \cup taken
      /\ verdict' \in [Doc -> Disposition]
      /\ \A d \in taken : verdict'[d] = "delivered" => d \in index'
  <2>1. CASE SinkUnanswered
    BY Zenon, <2>1 DEF SinkUnanswered, Disposition, IInv, TypeOK
  <2>2. CASE SinkRefused
    BY Zenon, <2>2 DEF SinkRefused, Disposition, IInv, TypeOK
  <2>3. CASE SinkAnswered
    BY Zenon, <2>3 DEF SinkAnswered, Disposition, IInv, TypeOK
  <2> QED
    BY Zenon, <2>1, <2>2, <2>3
<1>2. /\ UNCHANGED <<storeVars, crashes, taken, seen, logged>> /\ Send
      /\ dpc' = "resolve"
  BY Zenon DEF SinkUnanswered, SinkRefused, SinkAnswered
<1>3. taken \subseteq created
  BY Zenon DEF IInv, InFlightStable, TypeOK
<1>6. sent' \in Nat
  BY <1>2 DEF Send, IInv, TypeOK
<1>4. TypeOK'
  BY <1>1, <1>2, <1>3, <1>6, Zenon DEF IInv, TypeOK, storeVars
<1>5. Placed' /\ CapCounted' /\ InFlightStable' /\ RetriesLeft' /\ DrainConsistent'
  BY Zenon, <1>1, <1>2 DEF IInv, Placed, CapCounted, InFlightStable, RetriesLeft,
                    DrainConsistent, storeVars
<1> QED
  BY Zenon, <1>4, <1>5 DEF IInv

\* Capturing a rejection keeps the invariant.
LEMMA CaptureIInv ==
    ASSUME IInv, NEW d \in Doc, Capture(d)
    PROVE  IInv'
BY Zenon DEF IInv, Capture, Permanents, storeVars, requestVars, TypeOK, Placed, RetriesLeft,
       DrainConsistent, CapCounted, InFlightStable

\* A drain that ended has the types of an idle one.
LEMMA IdleType ==
    ASSUME Idle
    PROVE  /\ dpc' = "idle" /\ taken' = {} /\ logged' = {}
           /\ seen' \in [Doc -> 0..MaxRetries]
           /\ verdict' \in [Doc -> Disposition]
<1>1. 0 \in 0..MaxRetries
  BY DeliveryAssumption
<1> QED
  BY Zenon, <1>1 DEF Idle, Disposition

\* A stop at any step keeps the invariant.
LEMMA CrashIInv ==
    ASSUME IInv, Crash
    PROVE  IInv'
<1>1. crashes' \in 0..MaxCrash
  BY DeliveryAssumption DEF Crash, IInv, TypeOK
<1>2. TypeOK'
  BY <1>1, IdleType, Zenon DEF Crash, IInv, TypeOK, storeVars
<1>3. Placed' /\ CapCounted' /\ InFlightStable' /\ RetriesLeft' /\ DrainConsistent'
  BY Zenon, IdleType DEF Crash, IInv, Placed, CapCounted, InFlightStable, RetriesLeft,
                  DrainConsistent, storeVars
<1> QED
  BY <1>2, <1>3, Zenon DEF IInv

\* Replaying dead letters keeps the invariant.
LEMMA ReplayIInv ==
    ASSUME Counting, IInv, NEW R \in SUBSET dead, Replay(R)
    PROVE  IInv'
<1>1. R \subseteq Doc /\ 0 \in 0..(MaxRetries + 1) /\ 0 <= MaxRetries
  BY DeliveryAssumption DEF IInv, TypeOK
<1>2. replays' \in [Doc -> 0..MaxReplay]
  BY DeliveryAssumption DEF IInv, TypeOK, Replay
<1>3. TypeOK'
  BY Zenon, <1>1, <1>2 DEF IInv, TypeOK, Replay, drainVars, requestVars
<1>4. Placed'
  BY Zenon DEF IInv, Placed, Replay
<1>5. CapCounted'
  <2>1. dead \subseteq Doc /\ IsFiniteSet(Doc)
    BY Zenon, DeliveryAssumption DEF IInv, TypeOK
  <2>2. IsFiniteSet(dead) /\ dead' \subseteq dead
    BY Zenon, <2>1, SubsetSize DEF Replay
  <2>3. /\ Cardinality(dead') <= Cardinality(dead)
        /\ Cardinality(dead') \in Nat /\ Cardinality(dead) \in Nat
    BY <2>2, SubsetSize, SizeIsNat, Zenon
  <2>4. UNCHANGED <<evicted, dropped>>
    BY Zenon DEF Replay
  <2>5. Cardinality(dead) <= MaxDLQ /\ dropped = Cardinality(evicted)
    BY Zenon DEF IInv, CapCounted
  <2>6. Cardinality(dead') <= MaxDLQ
    BY <2>3, <2>5, DeliveryAssumption
  <2> QED
    BY <2>4, <2>5, <2>6, Zenon DEF CapCounted
<1>6. InFlightStable'
  BY Zenon DEF IInv, InFlightStable, Placed, TypeOK, Replay, drainVars
<1>7. RetriesLeft' /\ DrainConsistent'
  BY Zenon, <1>1 DEF IInv, RetriesLeft, DrainConsistent, TypeOK, Replay, drainVars
<1> QED
  BY Zenon, <1>3, <1>4, <1>5, <1>6, <1>7 DEF IInv
-----------------------------------------------------------------------------
(***************************************************************************)
(* The resolving transaction.                                              *)
(***************************************************************************)
Retried == {d \in taken : Classified(d) = "retryable"}

\* What ResolveOutbox does, seen from a state in which the drain's records are
\* still in the outbox.
LEMMA ResolveEffect ==
    ASSUME Counting, IInv, Resolve
    PROVE  /\ outbox' = outbox \ (taken \ Retried)
           /\ waiting' = (waiting \ taken) \cup Retried
           /\ dead' \cup (evicted' \ evicted) = dead \cup Permanents
           /\ dead' \subseteq dead \cup Permanents
           /\ evicted' = evicted \cup ((dead \cup Permanents) \ dead')
           /\ dropped' = dropped + Cardinality((dead \cup Permanents) \ dead')
           /\ Cardinality(dead') \in Nat /\ Cardinality(dead') <= MaxDLQ
           /\ evicted' # evicted => Cardinality(dead') = MaxDLQ
           /\ \A d \in Doc : attempts'[d] = IF d \in Retried \cup Permanents
                                            THEN seen[d] + 1 ELSE attempts[d]
<1> DEFINE all == dead \cup Permanents
           kept == IF Permanents = {} THEN dead ELSE Newest(all, MaxDLQ)
<1>1. taken \cap outbox = taken
  BY Zenon DEF IInv, InFlightStable
<1>2. taken \cap Permanents = Permanents
  BY Zenon DEF Permanents
<1>3. /\ outbox' = outbox \ (taken \ Retried)
      /\ waiting' = (waiting \ taken) \cup Retried
      /\ dead' = kept
      /\ evicted' = evicted \cup (all \ kept)
      /\ dropped' = dropped + Cardinality(all \ kept)
      /\ attempts' = [d \in Doc |-> IF d \in Retried \cup Permanents
                                    THEN seen[d] + 1 ELSE attempts[d]]
  BY <1>1, <1>2, Zenon DEF Resolve, ResolveOutbox, Retried
<1>4. all \subseteq Doc /\ all \subseteq Nat /\ IsFiniteSet(all) /\ IsFiniteSet(dead)
  BY DeliveryAssumption, SubsetSize, Zenon DEF IInv, TypeOK, Permanents
<1>5. /\ kept \subseteq all
      /\ Cardinality(kept) \in Nat /\ Cardinality(kept) <= MaxDLQ
      /\ all \ kept # {} => Cardinality(kept) = MaxDLQ
  <2>1. CASE Permanents = {}
    <3>1. kept = dead /\ all = dead
      BY Zenon, <2>1
    <3> QED
      BY <1>4, <3>1, SizeIsNat, Zenon DEF IInv, CapCounted
  <2>2. CASE Permanents # {}
    <3>1. kept = Newest(all, MaxDLQ) /\ MaxDLQ \in Nat \ {0}
      BY Zenon, <2>2, DeliveryAssumption
    <3> HIDE DEF all, kept
    <3> QED
      BY <1>4, <3>1, NewestBounded, NewestFull, Zenon
  <2> QED
    BY Zenon, <2>1, <2>2
<1>6. evicted \cap all = {}
  BY Zenon, <1>1 DEF IInv, Placed, Permanents
<1> HIDE DEF kept
<1> QED
  BY Zenon, <1>3, <1>5, <1>6

\* Resolving a batch, with its retries, rejections and drops, keeps the invariant.
LEMMA ResolveIInv ==
    ASSUME Counting, IInv, Resolve
    PROVE  IInv'
<1> DEFINE all == dead \cup Permanents
<1>0. /\ taken \subseteq outbox /\ taken \cap waiting = {} /\ Permanents \subseteq taken
      /\ Retried \subseteq taken /\ Retried \cap Permanents = {}
      /\ all \subseteq created /\ created \subseteq Doc
  BY Zenon DEF IInv, InFlightStable, TypeOK, Permanents, Retried
<1>1. \A d \in taken \ (Retried \cup Permanents) : verdict[d] = "delivered"
  BY Zenon DEF Retried, Permanents, Classified, IInv, TypeOK, Disposition
<1>2. \A d \in taken \ (Retried \cup Permanents) : d \in index
  BY Zenon, <1>1 DEF Resolve, IInv, DrainConsistent
<1>3. /\ index' = index /\ created' = created /\ replays' = replays
      /\ Idle
  BY Zenon DEF Resolve, ResolveOutbox
<1>4. attempts' \in [Doc -> 0..(MaxRetries + 1)]
  <2>1. \A d \in Doc : seen[d] \in 0..MaxRetries /\ attempts[d] \in 0..(MaxRetries + 1)
    BY Zenon DEF IInv, TypeOK
  <2>2. \A d \in Doc : seen[d] + 1 \in 0..(MaxRetries + 1)
    BY <2>1, DeliveryAssumption
  <2> QED
    BY Zenon, <2>1, <2>2 DEF Resolve, ResolveOutbox
<1>5. dropped' \in Nat /\ dropped' = Cardinality(evicted')
  <2> DEFINE X == all \ dead'
  <2>1. IsFiniteSet(evicted) /\ IsFiniteSet(X)
    BY <1>0, DeliveryAssumption, SubsetSize, Zenon DEF IInv, TypeOK
  <2>2. evicted \cap X = {}
    BY Zenon, <1>0 DEF IInv, Placed
  <2>3. /\ Cardinality(evicted) \in Nat /\ Cardinality(X) \in Nat
        /\ Cardinality(evicted \cup X) = Cardinality(evicted) + Cardinality(X)
    <3> HIDE DEF X
    <3>1. Cardinality(evicted) \in Nat /\ Cardinality(X) \in Nat
      BY Zenon, <2>1, SizeIsNat
    <3>2. Cardinality(evicted \cap X) = 0
      BY Zenon, <2>2, EmptySize
    <3>3. Cardinality(evicted \cup X) =
            Cardinality(evicted) + Cardinality(X) - Cardinality(evicted \cap X)
      BY Zenon, <2>1, UnionSize
    <3> QED
      BY <3>1, <3>2, <3>3
  <2>4. evicted' = evicted \cup X /\ dropped' = dropped + Cardinality(X)
    BY Zenon, ResolveEffect
  <2> QED
    BY <2>3, <2>4 DEF IInv, CapCounted
<1>12. sent' \in Nat /\ crashes' \in 0..MaxCrash
  BY DeliveryAssumption DEF Resolve, Forget, requestVars, IInv, TypeOK
<1>6. TypeOK'
  BY Zenon, <1>0, <1>3, <1>4, <1>5, <1>12, IdleType, ResolveEffect DEF IInv, TypeOK
<1>7. Placed'
  BY Zenon, <1>0, <1>2, <1>3, ResolveEffect DEF IInv, TypeOK, Placed
<1>8. CapCounted'
  BY Zenon, <1>5, ResolveEffect DEF CapCounted
<1>9. InFlightStable'
  BY Zenon, <1>3, IdleType DEF InFlightStable
<1>10. RetriesLeft'
  <2> SUFFICES ASSUME NEW d \in outbox' PROVE attempts'[d] <= MaxRetries
    BY Zenon DEF RetriesLeft
  <2>1. d \in outbox /\ d \in Doc /\ (d \in taken => d \in Retried)
    BY Zenon, ResolveEffect DEF IInv, TypeOK
  <2>2. CASE d \in Retried
    <3>1. attempts'[d] = seen[d] + 1 /\ seen[d] \in 0..MaxRetries
      BY Zenon, <2>1, <2>2, ResolveEffect DEF IInv, TypeOK
    <3>2. ~(seen[d] + 1 > MaxRetries)
      BY Zenon, <2>2 DEF Retried, Classified
    <3> QED
      BY <3>1, <3>2, DeliveryAssumption
  <2>3. CASE d \notin Retried
    BY Zenon, <1>0, <2>1, <2>3, ResolveEffect DEF IInv, RetriesLeft
  <2> QED
    BY Zenon, <2>2, <2>3
<1>11. DrainConsistent'
  <2>1. \A d \in Doc \ created : attempts'[d] = 0
    <3>1. \A d \in Doc \ created : d \notin Retried \cup Permanents /\ attempts[d] = 0
      <4>1. Retried \cup Permanents \subseteq created
        BY Zenon, <1>0 DEF IInv, TypeOK
      <4> QED
        BY Zenon, <4>1 DEF IInv, DrainConsistent
    <3> QED
      <4>1. \A d \in Doc : attempts'[d] = IF d \in Retried \cup Permanents
                                          THEN seen[d] + 1 ELSE attempts[d]
        BY Zenon, ResolveEffect
      <4> QED
        BY Zenon, <3>1, <4>1
  <2> QED
    BY Zenon, <1>3, <2>1, IdleType DEF DrainConsistent
<1> QED
  BY Zenon, <1>6, <1>7, <1>8, <1>9, <1>10, <1>11 DEF IInv
-----------------------------------------------------------------------------
\* Every step keeps the invariant.
LEMMA NextIInv ==
    ASSUME Counting
    PROVE  IInv /\ [Next]_vars => IInv'
<1> SUFFICES ASSUME IInv, [Next]_vars PROVE IInv'
  BY Zenon
<1>1. CASE UNCHANGED vars
  BY Zenon, <1>1 DEF vars, IInv, TypeOK, Placed, CapCounted, InFlightStable, RetriesLeft,
              DrainConsistent
<1>2. CASE Drain
  <2>1. CASE DrainEmpty
    BY Zenon, <1>1, <2>1 DEF DrainEmpty
  <2> QED
    BY Zenon, <1>2, <2>1, LoadIInv, SinkIInv, CaptureIInv, ResolveIInv DEF Drain
<1> QED
  BY Zenon, <1>1, <1>2, EnqueueIInv, ElapseIInv, ReplayIInv, CrashIInv DEF Next

\* The request of the drain in flight that carries Watched and is not yet recorded.
Underway == IF dpc = "resolve" /\ Watched \in taken THEN 1 ELSE 0

\* Every request that carried Watched is counted in its attempts, was cut off by
\* a crash, or is the one in flight.
RequestsCounted ==
    /\ Watched \in outbox => sent <= attempts[Watched] + crashes + Underway
    /\ Watched \notin outbox => sent = 0 /\ crashes = 0

\* The types of the counts.
LEMMA RequestTypes ==
    ASSUME IInv
    PROVE  /\ Watched \in Doc /\ sent \in Nat /\ crashes \in Nat
           /\ attempts[Watched] \in Nat /\ MaxRetries \in Nat
BY DeliveryAssumption DEF IInv, TypeOK

\* A bulk request adds one to both sides.
LEMMA SinkCounts ==
    ASSUME IInv, RequestsCounted, SinkUnanswered \/ SinkRefused \/ SinkAnswered
    PROVE  RequestsCounted'
<1>1. /\ UNCHANGED <<outbox, attempts, crashes, taken>> /\ Send
      /\ dpc = "deliver" /\ dpc' = "resolve"
  BY Zenon DEF SinkUnanswered, SinkRefused, SinkAnswered, storeVars
<1>2. Watched \in taken => Watched \in outbox
  BY Zenon DEF IInv, InFlightStable
<1> QED
  BY <1>1, <1>2, RequestTypes DEF Send, RequestsCounted, Underway

\* The transaction turns the request in flight into an attempt.
LEMMA ResolveCounts ==
    ASSUME Counting, IInv, RequestsCounted, Resolve
    PROVE  RequestsCounted'
<1>1. CASE Watched \notin outbox'
  BY Zenon, <1>1 DEF Resolve, Forget, RequestsCounted
<1>2. CASE Watched \in outbox'
  <2>1. Watched \in outbox /\ (Watched \in taken => Watched \in Retried)
    BY <1>2, ResolveEffect, Zenon
  <2>2. /\ sent' = sent /\ crashes' = crashes /\ taken' = {}
    BY <1>2, IdleType, Zenon DEF Resolve, Forget, requestVars
  <2>3. attempts'[Watched] = IF Watched \in Retried \cup Permanents
                             THEN seen[Watched] + 1 ELSE attempts[Watched]
    BY ResolveEffect, RequestTypes, Zenon
  <2>4. Watched \in taken => seen[Watched] = attempts[Watched]
    BY Zenon DEF IInv, InFlightStable
  <2>5. Watched \notin taken => Watched \notin Retried \cup Permanents
    BY Zenon DEF Retried, Permanents
  <2> QED
    BY <1>2, <2>1, <2>2, <2>3, <2>4, <2>5, RequestTypes DEF RequestsCounted, Underway
<1> QED
  BY Zenon, <1>1, <1>2

\* Every step keeps the count of the requests.
LEMMA RequestsStep ==
    ASSUME Counting, IInv, RequestsCounted, [Next]_vars
    PROVE  RequestsCounted'
<1>1. CASE UNCHANGED <<outbox, attempts, sent, crashes, dpc, taken>>
  BY <1>1, Zenon DEF RequestsCounted, Underway
<1>2. ASSUME NEW d \in Doc, Enqueue(d) PROVE RequestsCounted'
  <2>1. d \notin outbox /\ outbox' = outbox \cup {d}
    BY <1>2, Zenon DEF Enqueue, IInv, TypeOK
  <2>2. UNCHANGED <<attempts, sent, crashes, dpc, taken>>
    BY <1>2, Zenon DEF Enqueue, requestVars, drainVars
  <2> QED
    BY <2>1, <2>2, RequestTypes DEF RequestsCounted, Underway
<1>3. CASE LoadPending
  BY Zenon, <1>3 DEF LoadPending, storeVars, requestVars, RequestsCounted, Underway
<1>4. ASSUME NEW R \in SUBSET dead, Replay(R) PROVE RequestsCounted'
  <2>1. /\ outbox' = outbox \cup R
        /\ attempts'[Watched] = IF Watched \in R THEN 0 ELSE attempts[Watched]
        /\ UNCHANGED <<sent, crashes, dpc, taken>>
    BY <1>4, RequestTypes, Zenon DEF Replay, requestVars, drainVars
  <2>2. Watched \in R => Watched \notin outbox
    BY Zenon DEF IInv, Placed
  <2> QED
    BY <2>1, <2>2, RequestTypes DEF RequestsCounted, Underway
<1>5. CASE Crash
  <2>1. /\ UNCHANGED <<outbox, attempts, sent>> /\ dpc' = "idle"
        /\ crashes' = IF dpc = "resolve" /\ Watched \in taken THEN crashes + 1 ELSE crashes
    BY <1>5, IdleType, Zenon DEF Crash, storeVars
  <2>2. Watched \in taken => Watched \in outbox
    BY Zenon DEF IInv, InFlightStable
  <2> QED
    BY <2>1, <2>2, RequestTypes DEF RequestsCounted, Underway
<1>6. ASSUME NEW d \in Doc, Elapse(d) \/ Capture(d) PROVE RequestsCounted'
  BY <1>1, <1>6, Zenon DEF Elapse, Capture, storeVars, requestVars, drainVars
<1>7. CASE DrainEmpty \/ UNCHANGED vars
  BY <1>1, <1>7, Zenon DEF DrainEmpty, vars
<1> QED
  BY <1>2, <1>3, <1>4, <1>5, <1>6, <1>7, SinkCounts, ResolveCounts, Zenon DEF Next, Drain

\* Only the resolving transaction takes documents out of the outbox.
LEMMA LeavesOnlyByResolve ==
    ASSUME IInv, [Next]_vars, NEW d \in outbox, d \notin outbox'
    PROVE  Resolve
BY Zenon DEF Next, Enqueue, Elapse, Drain, LoadPending, DrainEmpty, SinkUnanswered, SinkRefused,
       SinkAnswered, Capture, Replay, Crash, storeVars, vars

\* A document leaves the outbox only indexed or logged.
LEMMA CaptureStep ==
    ASSUME Counting, IInv, [Next]_vars
    PROVE  [\A d \in outbox \ outbox' : d \in index \/ d \in logged]_vars
<1> SUFFICES ASSUME NEW d \in outbox \ outbox' PROVE d \in index \/ d \in logged
  BY Zenon
<1>1. Resolve
  BY Zenon, LeavesOnlyByResolve
<1>2. d \in taken /\ d \notin Retried /\ Permanents \subseteq logged /\ dpc = "resolve"
  BY Zenon, <1>1, ResolveEffect DEF Resolve
<1>3. CASE d \in Permanents
  BY Zenon, <1>2, <1>3
<1>4. CASE d \notin Permanents
  <2>1. verdict[d] = "delivered"
    BY Zenon, <1>2, <1>4 DEF Retried, Permanents, Classified, IInv, TypeOK, Disposition
  <2> QED
    BY Zenon, <1>2, <2>1 DEF IInv, DrainConsistent
<1> QED
  BY Zenon, <1>3, <1>4
-----------------------------------------------------------------------------
(***************************************************************************)
(* The refinement: delivery implements the document ledger.                *)
(***************************************************************************)
LEMMA StatusMeans ==
    ASSUME IInv, NEW d \in Doc
    PROVE  /\ StatusOf(d) = "none" <=> d \notin created
           /\ StatusOf(d) = "pending" <=> d \in outbox
           /\ StatusOf(d) = "dead" <=> d \in dead
           /\ StatusOf(d) = "dropped" <=> d \in evicted
BY Zenon DEF StatusOf, IInv, TypeOK, Placed

\* A step that leaves the four sets alone leaves the status alone.
LEMMA StatusSame ==
    ASSUME UNCHANGED <<created, outbox, dead, evicted>>
    PROVE  [d \in Doc |-> StatusOf(d)]' = [d \in Doc |-> StatusOf(d)]
BY Zenon DEF StatusOf

\* Enqueueing is a promise of the ledger.
LEMMA EnqueueRefines ==
    ASSUME IInv, NEW d \in Doc, Enqueue(d)
    PROVE  Ledger!Promise(d)
<1>1. StatusOf(d) = "none"
  BY Zenon DEF Enqueue, StatusOf
<1>2. \A e \in Doc : StatusOf(e)' = IF e = d THEN "pending" ELSE StatusOf(e)
  BY Zenon DEF Enqueue, StatusOf
<1>3. index' = index
  BY Zenon DEF Enqueue
<1> QED
  BY <1>1, <1>2, <1>3, Zenon DEF Ledger!Promise

\* A bulk request writes pending documents.
LEMMA SinkRefines ==
    ASSUME IInv, SinkUnanswered \/ SinkRefused \/ SinkAnswered
    PROVE  \E S \in SUBSET Doc : Ledger!Write(S)
<1>1. index \subseteq index' /\ index' \ index \subseteq taken
  BY Zenon DEF SinkUnanswered, SinkRefused, SinkAnswered
<1>2. [d \in Doc |-> StatusOf(d)]' = [d \in Doc |-> StatusOf(d)]
  BY Zenon, StatusSame DEF SinkUnanswered, SinkRefused, SinkAnswered, storeVars
<1>3. taken \subseteq Doc /\ \A d \in taken : StatusOf(d) = "pending"
  BY Zenon, StatusMeans DEF IInv, InFlightStable, TypeOK
<1>4. Ledger!Write(index' \ index)
  BY Zenon, <1>1, <1>2, <1>3 DEF Ledger!Write, Ledger!With
<1> QED
  BY Zenon, <1>1, <1>3, <1>4

\* A replay reopens dead letters.
LEMMA ReplayRefines ==
    ASSUME IInv, NEW R \in SUBSET dead, Replay(R)
    PROVE  R \in SUBSET Doc /\ Ledger!Reopen(R)
<1>1. R \in SUBSET Doc /\ \A d \in R : StatusOf(d) = "dead"
  BY Zenon, StatusMeans DEF IInv, TypeOK
<1>2. \A d \in Doc : StatusOf(d)' = IF d \in R THEN "pending" ELSE StatusOf(d)
  BY Zenon DEF Replay, StatusOf, IInv, TypeOK
<1>3. index' = index
  BY Zenon DEF Replay
<1> QED
  BY Zenon, <1>1, <1>2, <1>3 DEF Ledger!Reopen, Ledger!With

\* ResolveOutbox settles documents the way the ledger allows.
LEMMA ResolveRefines ==
    ASSUME Counting, IInv, Resolve
    PROVE  \E done, refused, fallen \in SUBSET Doc : Ledger!Settle(done, refused, fallen)
<1> DEFINE done == taken \ (Retried \cup Permanents)
           fallen == (dead \cup Permanents) \ dead'
<1>1. IInv'
  BY Zenon, ResolveIInv
<1>2. /\ taken \subseteq outbox /\ outbox \subseteq Doc /\ dead \subseteq Doc
      /\ Permanents \subseteq taken /\ Retried \cap Permanents = {} /\ Retried \subseteq taken
  BY Zenon DEF IInv, TypeOK, InFlightStable, Permanents, Retried
<1>3. done \subseteq index
  BY Zenon DEF Retried, Permanents, Classified, Resolve, IInv, TypeOK, Disposition, DrainConsistent
<1>4. \A d \in taken : StatusOf(d) = "pending"
  BY Zenon, <1>2, StatusMeans
<1>5. \A d \in dead : StatusOf(d) = "dead"
  BY Zenon, <1>2, StatusMeans
<1>6. /\ outbox' = outbox \ (taken \ Retried)
      /\ dead' \subseteq dead \cup Permanents
      /\ evicted' = evicted \cup fallen
      /\ created' = created /\ index' = index
  BY ResolveEffect, Zenon DEF Resolve, ResolveOutbox
<1>7. \A d \in Doc : StatusOf(d)' = IF d \in done THEN "indexed"
                                    ELSE IF d \in fallen THEN "dropped"
                                    ELSE IF d \in Permanents THEN "dead" ELSE StatusOf(d)
  BY Zenon, <1>2, <1>6 DEF StatusOf, IInv, TypeOK, Placed
<1>8. {d \in Doc : StatusOf(d)' = "dead"} = dead'
  BY Zenon, <1>1 DEF StatusOf, IInv, TypeOK, Placed
<1>9. Cardinality(dead') <= MaxDLQ /\ (fallen # {} => Cardinality(dead') = MaxDLQ)
  <2>1. fallen # {} => evicted' # evicted
    BY Zenon, <1>2, <1>6 DEF IInv, Placed
  <2> QED
    BY Zenon, <2>1, ResolveEffect
<1>10. Ledger!Settle(done, Permanents, fallen)
  <2> DEFINE status == [d \in Doc |-> StatusOf(d)]
  <2>1. /\ done \subseteq {d \in Doc : status[d] = "pending"} \cap index
        /\ Permanents \subseteq {d \in Doc : status[d] = "pending"} \ done
        /\ fallen \subseteq {d \in Doc : status[d] = "dead"} \cup Permanents
    BY Zenon, <1>2, <1>3, <1>4, <1>5
  <2>2. status' = [d \in Doc |-> IF d \in done THEN "indexed"
                                 ELSE IF d \in fallen THEN "dropped"
                                 ELSE IF d \in Permanents THEN "dead" ELSE status[d]]
    BY Zenon, <1>7
  <2>3. {d \in Doc : status'[d] = "dead"} = dead'
    BY Zenon, <1>8
  <2>4. dead' \in SUBSET Doc
    BY Zenon, <1>2, <1>6
  <2> HIDE DEF done, fallen
  <2> QED
    BY <1>6, <1>9, <2>1, <2>2, <2>3, <2>4, Zenon DEF Ledger!Settle, Ledger!With
<1> QED
  BY Zenon, <1>2, <1>10

LEMMA LedgerStarts == Init => Ledger!LedgerInit
BY Zenon DEF Init, Ledger!LedgerInit, StatusOf

\* Every step is one of the ledger's, or changes nothing it sees.
LEMMA LedgerSteps ==
    ASSUME Counting, IInv, [Next]_vars
    PROVE  [Ledger!LedgerNext]_(Ledger!ledgerVars)
<1>1. ASSUME NEW d \in Doc, Enqueue(d) PROVE Ledger!LedgerNext
  BY Zenon, <1>1, EnqueueRefines DEF Ledger!LedgerNext
<1>2. CASE SinkUnanswered \/ SinkRefused \/ SinkAnswered
  BY Zenon, <1>2, SinkRefines DEF Ledger!LedgerNext
<1>3. ASSUME NEW R \in SUBSET dead, Replay(R) PROVE Ledger!LedgerNext
  BY Zenon, <1>3, ReplayRefines DEF Ledger!LedgerNext
<1>4. CASE Resolve
  BY Zenon, <1>4, ResolveRefines DEF Ledger!LedgerNext
<1>5. ASSUME UNCHANGED <<created, outbox, dead, evicted, index>>
      PROVE  UNCHANGED Ledger!ledgerVars
  BY Zenon, <1>5, StatusSame DEF Ledger!ledgerVars
<1>6. ASSUME NEW d \in Doc, Elapse(d) \/ Capture(d) PROVE UNCHANGED Ledger!ledgerVars
  BY Zenon, <1>5, <1>6 DEF Elapse, Capture, storeVars
<1>7. CASE LoadPending \/ DrainEmpty \/ Crash \/ UNCHANGED vars
  BY Zenon, <1>5, <1>7 DEF LoadPending, DrainEmpty, Crash, storeVars, vars
<1> QED
  BY Zenon, <1>1, <1>2, <1>3, <1>4, <1>6, <1>7 DEF Next, Drain
-----------------------------------------------------------------------------
INSTANCE FiniteSetTheorems
INSTANCE WellFoundedInduction

\* A non-empty set of naturals has a least element.
LEMMA LeastNatural ==
    ASSUME NEW T, T \subseteq Nat, T # {}
    PROVE  \E x \in T : \A y \in T : x <= y
<1>1. PICK x \in T : \A y \in T : ~(<<y, x>> \in OpToRel(<, Nat))
  BY NatLessThanWellFounded, WFMin, Zenon
<1>2. ASSUME NEW y \in T, y < x
      PROVE  <<y, x>> \in OpToRel(<, Nat)
  BY Zenon, <1>2 DEF OpToRel
<1> QED
  <2> SUFFICES ASSUME NEW y \in T PROVE x <= y
    BY Zenon
  <2>1. ~(y < x)
    BY <1>1, <1>2, Zenon
  <2> QED
    BY <2>1

LEMMA Counted == Counting
<1>1. \A T : T \subseteq Nat /\ T # {} => \E x \in T : \A y \in T : x <= y
  BY LeastNatural, Zenon
<1>2. \A S, T : IsFiniteSet(S) /\ T \subseteq S =>
        IsFiniteSet(T) /\ Cardinality(T) <= Cardinality(S)
  BY FS_Subset, Zenon
<1>3. \A S : IsFiniteSet(S) => Cardinality(S) \in Nat
  BY FS_CardinalityType, Zenon
<1>4. Cardinality({}) = 0
  BY FS_EmptySet, Zenon
<1>5. \A S, x : IsFiniteSet(S) /\ x \in S =>
        IsFiniteSet(S \ {x}) /\ Cardinality(S \ {x}) = Cardinality(S) - 1
  BY FS_RemoveElement, Zenon
<1>6. \A S, T : IsFiniteSet(S) /\ IsFiniteSet(T) =>
        Cardinality(S \cup T) = Cardinality(S) + Cardinality(T) - Cardinality(S \cap T)
  BY FS_Union, Zenon
<1> QED BY <1>1, <1>2, <1>3, <1>4, <1>5, <1>6, Zenon DEF Counting
-----------------------------------------------------------------------------
(***************************************************************************)
(* The theorems about delivery.                                            *)
(***************************************************************************)

\* The inductive invariant holds in every reachable state.
THEOREM Inductive == Spec => []IInv
<1>1. Init => IInv
  BY Zenon, Counted, InitIInv
<1>2. IInv /\ [Next]_vars => IInv'
  BY Zenon, Counted, NextIInv
<1> QED
  BY <1>1, <1>2, PTL DEF Spec

\* Every variable keeps its type: in particular the waiting records are in the
\* outbox and only documents that were enqueued are anywhere.
THEOREM TypeCorrect == Spec => []TypeOK
BY Inductive, PTL DEF IInv

\* No document is silently dropped, for every number of documents, requests
\* and crashes.
THEOREM NoSilentDrop == Spec => []Conserved
<1>1. IInv => Conserved
  BY Zenon DEF IInv, Placed, CapCounted, Conserved
<1> QED
  BY <1>1, Inductive, PTL

\* The dead-letter store respects its cap (store.go:606-659), and the drop counter
\* is exact, whatever is rejected and replayed together.
THEOREM CapRespected == Spec => []CapCounted
BY Inductive, PTL DEF IInv

\* What a drain resolves is what it loaded.
THEOREM DrainNotDisturbed == Spec => []InFlightStable
BY Inductive, PTL DEF IInv

\* However requests fail, drains are cut short and dead letters are replayed, a
\* record in the outbox was in at most MaxRetries + 1 requests, and one more for
\* every drain that stopped before it recorded the outcome.
THEOREM RetriesBounded == Spec => []AttemptsBounded
<1>1. Init => RequestsCounted
  BY Zenon DEF Init, RequestsCounted
<1>2. IInv /\ RequestsCounted /\ [Next]_vars => RequestsCounted'
  BY Zenon, Counted, RequestsStep
<1>3. IInv /\ RequestsCounted => AttemptsBounded
  <2> SUFFICES ASSUME IInv, RequestsCounted, Watched \in outbox
               PROVE  sent <= MaxRetries + 1 + crashes
    BY Zenon DEF AttemptsBounded
  <2>1. attempts[Watched] <= MaxRetries
    BY Zenon DEF IInv, RetriesLeft
  <2> QED
    BY <2>1, RequestTypes DEF RequestsCounted, Underway
<1> QED
  BY <1>1, <1>2, <1>3, Inductive, PTL DEF Spec

\* A document leaves the outbox only indexed or logged.
THEOREM CapturedFirst == Spec => CaptureFirst
<1>1. IInv /\ [Next]_vars => [\A d \in outbox \ outbox' : d \in index \/ d \in logged]_vars
  BY Zenon, Counted, CaptureStep
<1> QED
  BY <1>1, Inductive, PTL DEF Spec, CaptureFirst

\* Delivery implements the document ledger.
THEOREM Refinement == Spec => RefinesLedger
<1>1. Init => Ledger!LedgerInit
  BY Zenon, LedgerStarts
<1>2. IInv /\ [Next]_vars => [Ledger!LedgerNext]_(Ledger!ledgerVars)
  BY Zenon, Counted, LedgerSteps
<1> QED
  BY <1>1, <1>2, Inductive, PTL DEF Spec, RefinesLedger, Ledger!LedgerSpec
-----------------------------------------------------------------------------
\* The library's facts.
LEMMA Countable == Tallying
<1>1. IsFiniteSet({}) /\ Cardinality({}) = 0
  BY Zenon, FS_EmptySet
<1>2. \A S : IsFiniteSet(S) => Cardinality(S) \in Nat
  BY FS_CardinalityType, Zenon
<1>3. \A S, T : IsFiniteSet(T) /\ S \subseteq T => IsFiniteSet(S)
  BY FS_Subset, Zenon
<1>4. ASSUME NEW S, NEW T, IsFiniteSet(S), IsFiniteSet(T), S \cap T = {}
      PROVE  IsFiniteSet(S \cup T) /\ Cardinality(S \cup T) = Cardinality(S) + Cardinality(T)
  <2>1. Cardinality(S) \in Nat /\ Cardinality(T) \in Nat
    BY <1>2, <1>4, Zenon
  <2>2. /\ IsFiniteSet(S \cup T)
        /\ Cardinality(S \cup T) = Cardinality(S) + Cardinality(T) - Cardinality({})
    BY <1>4, FS_Union
  <2> QED BY <1>1, <2>1, <2>2
<1>5. ASSUME NEW a, NEW n \in Nat
      PROVE  IsFiniteSet({a} \X (1..n)) /\ Cardinality({a} \X (1..n)) = n
  <2>1. IsFiniteSet({a}) /\ Cardinality({a}) = 1
    BY FS_Singleton, Zenon
  <2>2. IsFiniteSet(1..n) /\ Cardinality(1..n) = n
    <3>1. 1 \in Int /\ n \in Int
      OBVIOUS
    <3>2. IsFiniteSet(1..n) /\ Cardinality(1..n) = IF 1 > n THEN 0 ELSE n - 1 + 1
      BY <3>1, FS_Interval, Zenon
    <3> QED BY <3>2
  <2>3. IsFiniteSet({a} \X (1..n)) /\ Cardinality({a} \X (1..n)) = Cardinality({a}) * Cardinality(1..n)
    BY <2>1, <2>2, FS_Product, Zenon
  <2> QED BY <2>1, <2>2, <2>3
<1> QED BY <1>1, <1>2, <1>3, <1>4, <1>5, Zenon DEF Tallying

\* The invariant holds throughout.
THEOREM AlertsInvariance == AlertsSpec => []AlertsInv
<1>1. AlertsInit => AlertsInv
  <2> SUFFICES ASSUME AlertsInit PROVE AlertsInv
    BY Zenon
  <2>1. Dead = {} /\ InFlight = {} /\ gauge = 0 /\ records = 0
    BY Zenon DEF AlertsInit, Dead, InFlight
  <2>2. Depth = 0
    BY Zenon, <2>1, FS_EmptySet DEF Depth
  <2>3. Messengers
    <3>1. 0 \in recent
      BY Zenon DEF AlertsInit
    <3> QED BY <2>1, <2>2, <3>1, Zenon DEF Messengers
  <2>4. AlertsTypes
    <3>1. enabled \in BOOLEAN /\ recent \subseteq Nat
      BY DEF AlertsInit
    <3>2. /\ letters \in [Letter -> Reason \cup {None}] /\ discarded \subseteq Letter
          /\ rejections \in 0..MaxReject
          /\ gauge \in Nat /\ records \in Nat /\ droppedSeen \in Nat
          /\ reasons \in [Reason -> Nat]
      BY AlertsAssumption DEF AlertsInit
    <3>3. /\ pc \in [Actor -> {"idle", "gauge", "apply", "observe"}]
          /\ change \in [Actor -> Change \cup {None}]
          /\ \A a \in Actor : change[a] # None <=> pc[a] \in {"gauge", "apply"}
      BY Zenon DEF AlertsInit
    <3>4. /\ active \subseteq Kind /\ due \subseteq Kind
          /\ phase \in [Kind -> {"none", "starting", "ongoing", "clearing"}]
      BY Zenon DEF AlertsInit
    <3> QED BY Zenon, <3>1, <3>2, <3>3, <3>4 DEF AlertsTypes
  <2> QED BY Zenon, <2>3, <2>4 DEF AlertsInv
<1>2. AlertsInv /\ [AlertsNext]_alertsVars => AlertsInv'
  BY Zenon, Countable, TypeStep, MessengerStep DEF AlertsInv
<1> QED BY <1>1, <1>2, PTL DEF AlertsSpec

\* The types of the summary, of the changes in flight and of the alerts.
THEOREM AlertTypesHold == AlertsSpec => []AlertsTypes
<1>1. AlertsInv => AlertsTypes
  BY Zenon DEF AlertsInv
<1> QED BY <1>1, AlertsInvariance, PTL

\* Once every change has been applied, gauge and alerts show a depth that the last
\* change or one it overlapped has left (alerts/service.go:87), for any number of
\* documents, types and replay requests and whatever order they report in.
THEOREM DepthIsRecent == AlertsSpec => []DepthRecent
<1>1. AlertsInv => DepthRecent
  BY Zenon DEF AlertsInv, Messengers, DepthRecent, Depth
<1> QED BY <1>1, AlertsInvariance, PTL

\* Once every change has been applied, in whatever order, no rejection type is
\* under-reported and the drops are counted exactly (alerts/service.go:73-89,
\* 215-221), for any number of documents, types and replay requests.
THEOREM NothingUnderReported == AlertsSpec => []NeverUnderReported
<1>1. AlertsInit => Owing
  BY Countable, OwingStarts, Zenon
<1>2. AlertsInv /\ AlertsInv' /\ Owing /\ [AlertsNext]_alertsVars => Owing'
  BY Zenon, Countable, LedgerStep DEF AlertsInv
<1>3. AlertsInv /\ Owing => NeverUnderReported
  <2> SUFFICES ASSUME AlertsInv, Owing, InFlight = {}
               PROVE  /\ \A r \in Reason : reasons[r] >= Of(Letter, r)
                      /\ droppedSeen = Cardinality(discarded)
    BY Zenon DEF NeverUnderReported
  <2>1. change["drain"] = None
    BY Zenon DEF InFlight, Actor
  <2>2. \A r \in Reason : Cardinality(Owed(r)) = 0 /\ Coming(r) = 0
    BY Zenon, <2>1, FS_EmptySet DEF Owed, Tokens, Coming
  <2>3. \A r \in Reason : Of(Letter, r) \in Nat /\ reasons[r] \in Nat
    BY Countable, Counts, Zenon DEF Of, AlertsInv, AlertsTypes
  <2>4. \A r \in Reason : Of(Letter, r) + 0 <= reasons[r] + 0
    BY Zenon, <2>2 DEF Owing
  <2>5. droppedSeen + 0 = Cardinality(discarded) /\ droppedSeen \in Nat
    BY Zenon, <2>1 DEF Owing, ComingDrops, AlertsInv, AlertsTypes
  <2> QED BY <2>3, <2>4, <2>5
<1> QED BY <1>1, <1>2, <1>3, AlertsInvariance, PTL DEF AlertsSpec
=============================================================================
