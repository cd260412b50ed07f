------------------------- MODULE CorrelationProofs --------------------------
(***************************************************************************)
(* What holds of ingestion and expiry for every rule and any number of     *)
(* flows, requests, events and restarts.                                   *)
(*                                                                         *)
(* First, one event through the aggregate.  DeadlineExact speaks of the    *)
(* flows in the store only, but the steps that make a stored flow (Apply,  *)
(* then ShouldClose) pass through flows that are not storable: completion  *)
(* flags and budget are exact throughout (FlagsExact, Budgeted), and what  *)
(* ShouldClose leaves open is Stored.                                      *)
(*                                                                         *)
(* Then the two transactions are reduced to their effect on the store.  A  *)
(* sweep finds every due flow only because the index is exact, and the     *)
(* index stays exact only because every flow's deadline is the one it was  *)
(* indexed at.                                                             *)
(*                                                                         *)
(* Last, the reasons of records: a terminal event ends its flow at once,   *)
(* so no stored flow has one (CalmFlows) and the last event of a record is *)
(* the only one that may be terminal.                                      *)
(***************************************************************************)
EXTENDS Correlation, TLAPS

\* A flow whose completion flags are exact.
FlagsExact(f) ==
    \A i \in Observed(f) : f.invocations[i].complete = InvocationComplete(i, f.invocations[i].members)

\* Its budget and deadline (flow.go:187-275).
Budgeted(f) ==
    /\ f.timeoutAt = f.firstObservedAt + Timeout
    /\ f.expiresAt = IF f.settleUntil # 0 /\ f.settleUntil < f.timeoutAt
                     THEN f.settleUntil ELSE f.timeoutAt

\* Counters can be incremented.
LEMMA FlowCounters ==
    ASSUME NEW f \in Flow
    PROVE  f.nextOrder + 1 \in Nat /\ f.anomalies + 1 \in Nat /\ f.duplicates + 1 \in Nat
BY SMTT(30) DEF Flow

\* Open makes a flow with exact flags and budget (flow.go).
LEMMA OpenFlow ==
    ASSUME NEW e \in Event
    PROVE  Open(e) \in Flow /\ FlagsExact(Open(e)) /\ Budgeted(Open(e))
BY FlowAssumption, CorrelationAssumption DEF Open, Flow, Event, FlagsExact, Budgeted, Observed

\* Storing an event changes neither the invocations nor the deadline.
LEMMA StoreEventType ==
    ASSUME NEW f \in Flow, NEW e \in Event
    PROVE  /\ StoreEvent(f, e) \in Flow
           /\ StoreEvent(f, e).invocations = f.invocations
           /\ Budgeted(f) => Budgeted(StoreEvent(f, e))
           /\ FlagsExact(f) => FlagsExact(StoreEvent(f, e))
<1> DEFINE bytes == f.bytes + Size[e.doc]
           over == \/ f.limitExceeded
                   \/ MaxEventBytes > 0 /\ Size[e.doc] > MaxEventBytes
                   \/ MaxFlowBytes > 0 /\ bytes > MaxFlowBytes
           longer == Append(f.events, e)
<1>a. StoreEvent(f, e) = [f EXCEPT !.events = longer, !.bytes = bytes, !.limitExceeded = over]
  BY Zenon DEF StoreEvent
<1>b. over \in BOOLEAN
  BY Zenon
<1>c. bytes \in Nat
  BY FlowAssumption, SMTT(30) DEF Flow, Event
<1>d. longer \in Seq(Event)
  BY DEF Flow
<1> HIDE DEF over, bytes, longer
<1>1. StoreEvent(f, e) \in Flow
  BY <1>a, <1>b, <1>c, <1>d, ZenonT(60) DEF Flow
<1>2. StoreEvent(f, e).invocations = f.invocations
  BY Zenon, <1>a DEF Flow
<1>3. Budgeted(f) => Budgeted(StoreEvent(f, e))
  BY Zenon, <1>a DEF Flow, Budgeted
<1>4. FlagsExact(f) => FlagsExact(StoreEvent(f, e))
  BY Zenon, <1>2 DEF FlagsExact, Observed
<1> QED BY Zenon, <1>1, <1>2, <1>3, <1>4

\* Opening a slot for the event keeps flags and budget exact.
LEMMA WithInvocationType ==
    ASSUME NEW f \in Flow, NEW e \in Event, NEW i \in Invocation, FlagsExact(f), Budgeted(f)
    PROVE  LET g == WithInvocation(f, i, e)
           IN  /\ g \in Flow
               /\ g.invocations[i] \in Stitched
               /\ FlagsExact(g) /\ Budgeted(g)
<1> DEFINE g == WithInvocation(f, i, e)
           fresh == [members  |-> [r \in Role |-> None], complete |-> FALSE,
                     duplicates |-> 0, firstObservedAt |-> e.observedAt, order |-> f.nextOrder]
           more == [f.invocations EXCEPT ![i] = fresh]
<1>1. fresh \in Stitched
  BY DEF Stitched, Event, Flow
<1>2. CASE f.invocations[i] # None
  BY Zenon, <1>2 DEF WithInvocation, Flow
<1>3. CASE f.invocations[i] = None
  <2>1. g = [f EXCEPT !.invocations = more, !.nextOrder = f.nextOrder + 1]
    BY Zenon, <1>3 DEF WithInvocation, Flow
  <2>a. more \in [Invocation -> Stitched \cup {None}]
    BY Zenon, <1>1 DEF Flow
  <2> HIDE DEF g, more
  <2>b. g \in Flow
    <3>1. f.nextOrder + 1 \in Nat
      BY DEF Flow
    <3> QED BY <2>1, <2>a, <3>1, Zenon DEF Flow
  <2>2. g \in Flow /\ g.invocations = more
    BY Zenon, <2>1, <2>b DEF Flow
  <2>3. Budgeted(g)
    BY Zenon, <2>1 DEF Flow, Budgeted
  <2>4. ~InvocationComplete(i, fresh.members)
    BY Zenon, FlowAssumption DEF InvocationComplete
  <2>5. ASSUME NEW j \in Observed(g)
        PROVE  g.invocations[j].complete = InvocationComplete(j, g.invocations[j].members)
    <3>1. CASE j = i
      <4>1. g.invocations[j] = fresh /\ fresh.complete = FALSE
        BY Zenon, <2>2, <3>1 DEF Flow, more
      <4>2. InvocationComplete(j, fresh.members) = FALSE
        BY Zenon, <2>4, <3>1 DEF InvocationComplete
      <4> HIDE DEF fresh
      <4> QED BY <4>1, <4>2, Zenon
    <3>2. CASE j # i
      BY Zenon, <2>2, <3>2 DEF FlagsExact, Observed, Flow, more
    <3> QED BY Zenon, <3>1, <3>2
  <2> QED BY <2>2, <2>3, <2>5, <1>1, Zenon DEF Flow, FlagsExact, g, more
<1> QED BY Zenon, <1>2, <1>3


\* A role of an invocation is taken by an event (flow.go, Apply).
LEMMA OccupyType ==
    ASSUME NEW f \in Flow, NEW e \in Event, NEW slot \in Slot,
           f.invocations[slot.inv] \in Stitched,
           f.invocations[slot.inv].members[slot.role] = None,
           FlagsExact(f), Budgeted(f)
    PROVE  LET g == Occupy(f, slot, e) IN g \in Flow /\ FlagsExact(g) /\ Budgeted(g)
<1> DEFINE i == slot.inv
           s == StoreEvent(f, e)
           old == f.invocations[i]
           members == [old.members EXCEPT ![slot.role] = e]
           full == old.complete \/ InvocationComplete(i, members)
           new == [old EXCEPT !.members = members, !.complete = full]
           more == [f.invocations EXCEPT ![i] = new]
           g == Occupy(f, slot, e)
<1>1. i \in Invocation /\ slot.role \in Role
  BY Zenon DEF Slot
<1>2. s \in Flow /\ s.invocations = f.invocations /\ Budgeted(s) /\ FlagsExact(s)
  BY Zenon, StoreEventType
<1>3. members \in [Role -> Event \cup {None}]
  BY Zenon, <1>1 DEF Stitched
<1>4. full \in BOOLEAN
  BY Zenon DEF InvocationComplete
<1>5. full = InvocationComplete(i, members)
  <2>1. ASSUME old.complete PROVE InvocationComplete(i, members)
    <3>1. InvocationComplete(i, old.members)
      BY Zenon, <1>1, <2>1, NoneAssumption DEF FlagsExact, Observed, Flow
    <3> QED BY Zenon, <3>1, <1>1, NoneAssumption, FlowAssumption DEF InvocationComplete, Stitched
  <2>2. InvocationComplete(i, members) \in BOOLEAN
    BY Zenon DEF InvocationComplete
  <2> HIDE DEF members
  <2> QED BY <2>1, <2>2, Zenon
<1> HIDE DEF full, members
<1>6. new \in Stitched /\ new.members = members /\ new.complete = full
  BY <1>3, <1>4, Zenon DEF Stitched
<1>7. g = [s EXCEPT !.invocations = more]
  BY <1>1, <1>2, ZenonT(60) DEF Occupy, Flow, full, members
<1> HIDE DEF new
<1>8. more \in [Invocation -> Stitched \cup {None}]
  BY Zenon, <1>1, <1>6 DEF Flow
<1> HIDE DEF more, s, g
<1>9. g \in Flow
  BY <1>2, <1>7, <1>8, Zenon DEF Flow
<1>10. g.invocations = more
  BY Zenon, <1>2, <1>7 DEF Flow
<1>11. Budgeted(g)
  BY Zenon, <1>2, <1>7 DEF Flow, Budgeted
<1>12. ASSUME NEW j \in Observed(g)
       PROVE  g.invocations[j].complete = InvocationComplete(j, g.invocations[j].members)
  <2>1. CASE j = i
    BY Zenon, <2>1, <1>1, <1>5, <1>6, <1>10 DEF more, Flow
  <2>2. CASE j # i
    BY Zenon, <2>2, <1>10 DEF FlagsExact, Observed, Flow, more
  <2> QED BY Zenon, <2>1, <2>2
<1> QED BY Zenon, <1>9, <1>11, <1>12 DEF FlagsExact, g

\* An event stored outside of all invocations.
LEMMA AppendPlainType ==
    ASSUME NEW f \in Flow, NEW e \in Event, FlagsExact(f), Budgeted(f)
    PROVE  LET g == AppendPlain(f, e) IN g \in Flow /\ FlagsExact(g) /\ Budgeted(g)
<1> DEFINE s == StoreEvent(f, e)
           longer == Append(s.plain, [event |-> e, order |-> f.nextOrder])
           g == AppendPlain(f, e)
<1>1. s \in Flow /\ Budgeted(s) /\ FlagsExact(s)
  BY Zenon, StoreEventType
<1>2. longer \in Seq([event : Event, order : Nat])
  <2>1. [event |-> e, order |-> f.nextOrder] \in [event : Event, order : Nat]
    BY Zenon DEF Flow
  <2> HIDE DEF s
  <2> QED BY <1>1, <2>1 DEF Flow
<1>3. g = [s EXCEPT !.plain = longer, !.nextOrder = s.nextOrder + 1]
  BY Zenon DEF AppendPlain
<1> HIDE DEF s, longer, g
<1>4. s.nextOrder + 1 \in Nat
  BY Zenon, <1>1, FlowCounters
<1>5. g \in Flow
  BY <1>1, <1>2, <1>3, <1>4, Zenon DEF Flow
<1>6. g.invocations = s.invocations
  BY Zenon, <1>1, <1>3 DEF Flow
<1>7. Budgeted(g)
  BY Zenon, <1>1, <1>3 DEF Flow, Budgeted
<1>8. FlagsExact(g)
  BY Zenon, <1>1, <1>6 DEF FlagsExact, Observed
<1> QED BY Zenon, <1>5, <1>7, <1>8 DEF g

\* A duplicate is only counted.
LEMMA CountDuplicateType ==
    ASSUME NEW f \in Flow, NEW slot \in Slot, f.invocations[slot.inv] \in Stitched,
           FlagsExact(f), Budgeted(f)
    PROVE  LET g == CountDuplicate(f, slot) IN g \in Flow /\ FlagsExact(g) /\ Budgeted(g)
<1> DEFINE i == slot.inv
           old == f.invocations[i]
           new == [old EXCEPT !.duplicates = old.duplicates + 1]
           more == [f.invocations EXCEPT ![i] = new]
           g == CountDuplicate(f, slot)
<1>1. i \in Invocation
  BY Zenon DEF Slot
<1>2. new \in Stitched /\ new.members = old.members /\ new.complete = old.complete
  BY DEF Stitched
<1>3. g = [f EXCEPT !.duplicates = f.duplicates + 1, !.invocations = more]
  BY Zenon, <1>1 DEF CountDuplicate, Flow
<1> HIDE DEF new
<1>4. more \in [Invocation -> Stitched \cup {None}]
  BY Zenon, <1>1, <1>2 DEF Flow
<1> HIDE DEF more, g
<1>5. f.duplicates + 1 \in Nat
  BY DEF Flow
<1>6. g \in Flow
  BY <1>3, <1>4, <1>5, Zenon DEF Flow
<1>7. g.invocations = more
  BY Zenon, <1>3 DEF Flow
<1>8. Budgeted(g)
  BY Zenon, <1>3 DEF Flow, Budgeted
<1>9. ASSUME NEW j \in Observed(g)
      PROVE  g.invocations[j].complete = InvocationComplete(j, g.invocations[j].members)
  <2>1. CASE j = i
    <3>1. g.invocations[j] = new
      BY Zenon, <2>1, <1>1, <1>7 DEF more, Flow
    <3>2. old.complete = InvocationComplete(i, old.members)
      BY Zenon, <1>1, NoneAssumption DEF FlagsExact, Observed
    <3> QED BY Zenon, <2>1, <3>1, <3>2, <1>2
  <2>2. CASE j # i
    BY Zenon, <2>2, <1>7 DEF FlagsExact, Observed, Flow, more
  <2> QED BY Zenon, <2>1, <2>2
<1> QED BY Zenon, <1>6, <1>8, <1>9 DEF FlagsExact, g

\* Apply keeps a flow well formed, its flags exact and its budget untouched.
LEMMA ApplyType ==
    ASSUME NEW f \in Flow, NEW e \in Event, FlagsExact(f), Budgeted(f)
    PROVE  LET g == Apply(f, e) IN g \in Flow /\ FlagsExact(g) /\ Budgeted(g)
<1> DEFINE slot == SlotOf[e.doc]
           seen == f.terminalSeen \/ e.doc \in Terminal
           g == [f EXCEPT !.terminalSeen = seen]
           h == WithInvocation(g, slot.inv, e)
           k == [h EXCEPT !.anomalies = h.anomalies + 1]
<1>1. Apply(f, e) = IF slot = None THEN AppendPlain(g, e)
                    ELSE IF Occupant(h, slot) = None THEN Occupy(h, slot, e)
                    ELSE IF IsDuplicate(h, e) THEN CountDuplicate(h, slot)
                    ELSE AppendPlain(k, e)
  BY Zenon DEF Apply
<1>2. seen \in BOOLEAN
  BY Zenon
<1> HIDE DEF seen
<1>3. g \in Flow /\ g.invocations = f.invocations
  BY <1>2, Zenon DEF Flow
<1>4. Budgeted(g)
  BY Zenon DEF Flow, Budgeted
<1>5. FlagsExact(g)
  BY Zenon, <1>3 DEF FlagsExact, Observed
<1> HIDE DEF g
<1>6. CASE slot = None
  BY Zenon, <1>1, <1>3, <1>4, <1>5, <1>6, AppendPlainType
<1>7. CASE slot # None
  <2>1. slot \in Slot /\ slot.inv \in Invocation
    BY Zenon, <1>7, FlowAssumption DEF Slot, Event
  <2>2. h \in Flow /\ h.invocations[slot.inv] \in Stitched /\ FlagsExact(h) /\ Budgeted(h)
    BY Zenon, <2>1, <1>3, <1>4, <1>5, WithInvocationType
  <2> HIDE DEF h, slot
  <2>3. Occupant(h, slot) = h.invocations[slot.inv].members[slot.role]
    BY Zenon, <2>2, NoneAssumption DEF Occupant
  <2>4. h.anomalies + 1 \in Nat
    BY Zenon, <2>2, FlowCounters
  <2>5. k \in Flow /\ k.invocations = h.invocations
    BY <2>2, <2>4, Zenon DEF Flow
  <2>6. Budgeted(k)
    BY Zenon, <2>2 DEF Flow, Budgeted
  <2>7. FlagsExact(k)
    BY Zenon, <2>2, <2>5 DEF FlagsExact, Observed
  <2> HIDE DEF k
  <2>8. CASE Occupant(h, slot) = None
    BY <1>1, <1>7, <2>1, <2>2, <2>3, <2>8, OccupyType, Zenon
  <2>9. CASE Occupant(h, slot) # None /\ IsDuplicate(h, e)
    BY Zenon, <1>1, <1>7, <2>1, <2>2, <2>9, CountDuplicateType
  <2>10. CASE Occupant(h, slot) # None /\ ~IsDuplicate(h, e)
    BY Zenon, <1>1, <1>7, <2>5, <2>6, <2>7, <2>10, AppendPlainType
  <2> QED BY Zenon, <2>8, <2>9, <2>10
<1> QED BY Zenon, <1>6, <1>7

\* The events that hold a role of an invocation.
Members(f) == {f.invocations[i].members[r] : i \in Observed(f), r \in Role} \ {None}

\* The event is kept as the last one, or counted as a repetition of a member.
Takes(f, g, e) ==
    /\ g.firstObservedAt = f.firstObservedAt
    /\ g.terminalSeen <=> f.terminalSeen \/ e.doc \in Terminal
    /\ Members(g) \subseteq Members(f) \cup {e}
    /\ \/ g.events = Append(f.events, e) /\ g.duplicates = f.duplicates
       \/ /\ g.events = f.events /\ g.duplicates = f.duplicates + 1
          /\ \E m \in Members(f) : m.doc = e.doc

\* What a step before the event is stored leaves alone.
Untouched(f, g) ==
    /\ g.firstObservedAt = f.firstObservedAt
    /\ g.terminalSeen = f.terminalSeen
    /\ g.events = f.events /\ g.duplicates = f.duplicates

\* The event is appended, and nothing else is.
Appended(f, g, e) ==
    /\ g.firstObservedAt = f.firstObservedAt
    /\ g.terminalSeen = f.terminalSeen
    /\ g.events = Append(f.events, e) /\ g.duplicates = f.duplicates

\* StoreEvent appends (flow.go, storeEvent).
LEMMA StoreEventAppends ==
    ASSUME NEW f \in Flow, NEW e \in Event
    PROVE  Appended(f, StoreEvent(f, e), e)
BY Zenon DEF StoreEvent, Flow, Appended

\* So does AppendPlain, which leaves the invocations alone.
LEMMA AppendPlainAppends ==
    ASSUME NEW f \in Flow, NEW e \in Event
    PROVE  /\ Appended(f, AppendPlain(f, e), e)
           /\ Members(AppendPlain(f, e)) = Members(f)
<1> DEFINE s == StoreEvent(f, e)
           g == AppendPlain(f, e)
           longer == Append(s.plain, [event |-> e, order |-> f.nextOrder])
<1>1. s \in Flow /\ Appended(f, s, e) /\ s.invocations = f.invocations
  BY Zenon, StoreEventAppends, StoreEventType
<1>2. g = [s EXCEPT !.plain = longer, !.nextOrder = s.nextOrder + 1]
  BY Zenon DEF AppendPlain
<1> HIDE DEF s, g, longer
<1>3. Appended(f, g, e) /\ g.invocations = f.invocations
  BY Zenon, <1>1, <1>2 DEF Flow, Appended
<1> QED BY <1>3 DEF Members, Observed, g

\* A new invocation has no members.
LEMMA WithInvocationQuiet ==
    ASSUME NEW f \in Flow, NEW e \in Event, NEW i \in Invocation
    PROVE  LET g == WithInvocation(f, i, e) IN Untouched(f, g) /\ Members(g) = Members(f)
<1> DEFINE g == WithInvocation(f, i, e)
           fresh == [members  |-> [r \in Role |-> None], complete |-> FALSE,
                     duplicates |-> 0, firstObservedAt |-> e.observedAt, order |-> f.nextOrder]
<1>1. CASE f.invocations[i] # None
  BY Zenon, <1>1 DEF WithInvocation, Untouched
<1>2. CASE f.invocations[i] = None
  <2>1. g = [f EXCEPT !.invocations = [f.invocations EXCEPT ![i] = fresh],
                      !.nextOrder = f.nextOrder + 1]
    BY Zenon, <1>2 DEF WithInvocation, Flow
  <2>2. Untouched(f, g) /\ g.invocations = [f.invocations EXCEPT ![i] = fresh]
    BY Zenon, <2>1 DEF Flow, Untouched
  <2>3. \A r \in Role : fresh.members[r] = None
    BY Zenon
  <2>4. f.invocations \in [Invocation -> Stitched \cup {None}]
    BY Zenon DEF Flow
  <2> HIDE DEF g, fresh
  <2>5. \A j \in Invocation : g.invocations[j] = IF j = i THEN fresh ELSE f.invocations[j]
    BY Zenon, <2>2, <2>4
  <2>6. Members(g) \subseteq Members(f)
    BY <2>3, <2>5 DEF Members, Observed
  <2>7. Members(f) \subseteq Members(g)
    BY <1>2, <2>5 DEF Members, Observed
  <2> QED BY <2>2, <2>6, <2>7, Zenon DEF g
<1> QED BY Zenon, <1>1, <1>2

\* The event takes its role.
LEMMA OccupyAppends ==
    ASSUME NEW f \in Flow, NEW e \in Event, NEW slot \in Slot,
           f.invocations[slot.inv] \in Stitched
    PROVE  LET g == Occupy(f, slot, e)
           IN  Appended(f, g, e) /\ Members(g) \subseteq Members(f) \cup {e}
<1> DEFINE i == slot.inv
           s == StoreEvent(f, e)
           old == f.invocations[i]
           members == [old.members EXCEPT ![slot.role] = e]
           new == [old EXCEPT !.members = members,
                              !.complete = old.complete \/ InvocationComplete(i, members)]
           g == Occupy(f, slot, e)
<1>1. i \in Invocation /\ slot.role \in Role
  BY Zenon DEF Slot
<1>2. s \in Flow /\ s.invocations = f.invocations /\ Appended(f, s, e)
  BY Zenon, StoreEventType, StoreEventAppends
<1>3. \A r \in Role : members[r] = e \/ members[r] = old.members[r]
  BY Zenon DEF Stitched
<1>4. g = [s EXCEPT !.invocations = [f.invocations EXCEPT ![i] = new]]
  BY <1>1, <1>2, ZenonT(60) DEF Occupy, Flow
<1> HIDE DEF members
<1>5. new.members = members
  BY Zenon DEF Stitched
<1> HIDE DEF new, s, g
<1>6. Appended(f, g, e) /\ g.invocations = [f.invocations EXCEPT ![i] = new]
  BY Zenon, <1>2, <1>4 DEF Flow, Appended
<1>7. f.invocations \in [Invocation -> Stitched \cup {None}] /\ old # None
  BY Zenon, NoneAssumption DEF Flow
<1>8. \A j \in Invocation : g.invocations[j] = IF j = i THEN new ELSE f.invocations[j]
  BY Zenon, <1>6, <1>7
<1>9. Members(g) \subseteq Members(f) \cup {e}
  BY <1>1, <1>3, <1>5, <1>7, <1>8 DEF Members, Observed
<1> QED BY Zenon, <1>6, <1>9 DEF g

\* A duplicate is counted and nothing else.
LEMMA CountDuplicateCounts ==
    ASSUME NEW f \in Flow, NEW slot \in Slot, f.invocations[slot.inv] \in Stitched
    PROVE  LET g == CountDuplicate(f, slot)
           IN  /\ g.firstObservedAt = f.firstObservedAt
               /\ g.terminalSeen = f.terminalSeen
               /\ g.events = f.events /\ g.duplicates = f.duplicates + 1
               /\ Members(g) = Members(f)
<1> DEFINE i == slot.inv
           old == f.invocations[i]
           new == [old EXCEPT !.duplicates = old.duplicates + 1]
           g == CountDuplicate(f, slot)
<1>1. i \in Invocation
  BY Zenon DEF Slot
<1>2. new.members = old.members /\ new \in Stitched
  BY DEF Stitched
<1>3. g = [f EXCEPT !.duplicates = f.duplicates + 1,
                    !.invocations = [f.invocations EXCEPT ![i] = new]]
  BY Zenon, <1>1 DEF CountDuplicate, Flow
<1> HIDE DEF new, g
<1>4. /\ g.firstObservedAt = f.firstObservedAt /\ g.terminalSeen = f.terminalSeen
      /\ g.events = f.events /\ g.duplicates = f.duplicates + 1
      /\ g.invocations = [f.invocations EXCEPT ![i] = new]
  BY Zenon, <1>3 DEF Flow
<1>5. f.invocations \in [Invocation -> Stitched \cup {None}] /\ old # None /\ new # None
  BY Zenon, <1>2, NoneAssumption DEF Flow
<1>6. \A j \in Invocation : g.invocations[j] = IF j = i THEN new ELSE f.invocations[j]
  BY Zenon, <1>4, <1>5
<1>7. Observed(g) = Observed(f) /\ \A j \in Observed(f) : g.invocations[j].members = f.invocations[j].members
  BY Zenon, <1>2, <1>5, <1>6 DEF Observed
<1>8. Members(g) = Members(f)
  BY <1>7 DEF Members
<1> QED BY Zenon, <1>4, <1>8 DEF g

\* Apply keeps the event last or counts it, and forgets none (flow.go, Apply).
LEMMA ApplyTakes ==
    ASSUME NEW f \in Flow, NEW e \in Event, FlagsExact(f), Budgeted(f)
    PROVE  Takes(f, Apply(f, e), e)
<1> DEFINE slot == SlotOf[e.doc]
           seen == f.terminalSeen \/ e.doc \in Terminal
           g == [f EXCEPT !.terminalSeen = seen]
           h == WithInvocation(g, slot.inv, e)
           k == [h EXCEPT !.anomalies = h.anomalies + 1]
<1>1. Apply(f, e) = IF slot = None THEN AppendPlain(g, e)
                    ELSE IF Occupant(h, slot) = None THEN Occupy(h, slot, e)
                    ELSE IF IsDuplicate(h, e) THEN CountDuplicate(h, slot)
                    ELSE AppendPlain(k, e)
  BY Zenon DEF Apply
<1>2. seen \in BOOLEAN
  BY Zenon
<1> HIDE DEF seen
<1>3. g \in Flow /\ g.invocations = f.invocations
  BY <1>2, Zenon DEF Flow
<1>4. /\ g.firstObservedAt = f.firstObservedAt /\ g.terminalSeen = seen
      /\ g.events = f.events /\ g.duplicates = f.duplicates
  BY Zenon DEF Flow
<1>5. Budgeted(g)
  BY Zenon DEF Flow, Budgeted
<1>6. FlagsExact(g) /\ Members(g) = Members(f)
  BY <1>3 DEF FlagsExact, Observed, Members
<1> HIDE DEF g
<1>a. \A a : Appended(g, a, e) /\ Members(a) \subseteq Members(f) \cup {e} => Takes(f, a, e)
  BY <1>4, Zenon DEF Takes, Appended, seen
<1>b. \A a, b : Appended(b, a, e) /\ Untouched(g, b) => Appended(g, a, e)
  BY Zenon DEF Appended, Untouched
<1>7. CASE slot = None
  <2>1. Apply(f, e) = AppendPlain(g, e)
    BY Zenon, <1>1, <1>7
  <2>2. Appended(g, AppendPlain(g, e), e) /\ Members(AppendPlain(g, e)) = Members(f)
    BY <1>3, <1>6, AppendPlainAppends, Zenon
  <2> QED BY <2>1, <2>2, <1>a, Zenon
<1>8. CASE slot # None
  <2>1. slot \in Slot /\ slot.inv \in Invocation /\ slot.role \in Role
    BY Zenon, <1>8, FlowAssumption DEF Slot, Event
  <2>2. h \in Flow /\ h.invocations[slot.inv] \in Stitched
    BY Zenon, <2>1, <1>3, <1>5, <1>6, WithInvocationType
  <2>3. Untouched(g, h) /\ Members(h) = Members(f)
    BY Zenon, <2>1, <1>3, <1>6, WithInvocationQuiet
  <2> HIDE DEF h, slot
  <2>4. Occupant(h, slot) = h.invocations[slot.inv].members[slot.role]
    BY Zenon, <2>2, NoneAssumption DEF Occupant
  <2>5. h.anomalies + 1 \in Nat
    BY Zenon, <2>2, FlowCounters
  <2>6. k \in Flow
    BY <2>2, <2>5, Zenon DEF Flow
  <2>7. Untouched(h, k) /\ k.invocations = h.invocations
    BY Zenon, <2>2 DEF Flow, Untouched
  <2>8. Members(k) = Members(h)
    BY <2>7 DEF Members, Observed
  <2> HIDE DEF k
  <2>9. CASE Occupant(h, slot) = None
    <3>1. Apply(f, e) = Occupy(h, slot, e)
      BY Zenon, <1>1, <1>8, <2>9
    <3>2. Appended(h, Apply(f, e), e) /\ Members(Apply(f, e)) \subseteq Members(h) \cup {e}
      BY <3>1, <2>1, <2>2, OccupyAppends
    <3> QED BY <3>2, <1>a, <1>b, <2>3, Zenon
  <2>10. CASE Occupant(h, slot) # None /\ IsDuplicate(h, e)
    <3>1. Apply(f, e) = CountDuplicate(h, slot)
      BY Zenon, <1>1, <1>8, <2>10
    <3>2. Occupant(h, slot).doc = e.doc
      BY Zenon, <2>10 DEF IsDuplicate, slot
    <3>3. Occupant(h, slot) \in Members(h)
      <4>1. slot.inv \in Observed(h)
        BY Zenon, <2>1, <2>2, NoneAssumption DEF Observed
      <4>2. Occupant(h, slot) \in {h.invocations[i].members[r] : i \in Observed(h), r \in Role}
        BY <2>1, <2>4, <4>1
      <4> QED BY <4>2, <2>10 DEF Members
    <3> DEFINE a == CountDuplicate(h, slot)
    <3>4. /\ a.firstObservedAt = h.firstObservedAt /\ a.terminalSeen = h.terminalSeen
          /\ a.events = h.events /\ a.duplicates = h.duplicates + 1
          /\ Members(a) = Members(h)
      BY <2>1, <2>2, CountDuplicateCounts, Zenon
    <3> HIDE DEF a
    <3>5. /\ a.firstObservedAt = f.firstObservedAt /\ a.terminalSeen = seen
          /\ a.events = f.events /\ a.duplicates = f.duplicates + 1
          /\ Members(a) = Members(f)
      BY <1>4, <2>3, <3>4, Zenon DEF Untouched
    <3>6. \E m \in Members(f) : m.doc = e.doc
      BY <2>3, <3>2, <3>3, Zenon
    <3> QED BY <3>1, <3>5, <3>6, Zenon DEF Takes, seen, a
  <2>11. CASE Occupant(h, slot) # None /\ ~IsDuplicate(h, e)
    <3>1. Apply(f, e) = AppendPlain(k, e)
      BY Zenon, <1>1, <1>8, <2>11
    <3>2. Appended(k, Apply(f, e), e) /\ Members(Apply(f, e)) = Members(k)
      BY <3>1, <2>6, AppendPlainAppends, Zenon
    <3>3. Untouched(g, k)
      BY <2>3, <2>7, Zenon DEF Untouched
    <3> QED BY <3>2, <3>3, <1>a, <1>b, <2>3, <2>8, Zenon
  <2> QED BY Zenon, <2>9, <2>10, <2>11
<1> QED BY Zenon, <1>7, <1>8

\* A flow that no closer ended, as it is stored.
Stored(f) ==
    /\ f \in Flow /\ FlagsExact(f) /\ Budgeted(f)
    /\ ~f.terminalSeen /\ ~LimitReached(f)
    /\ f.settleUntil # 0 <=> AllComplete(f)

\* What ShouldClose leaves open may be stored (flow.go:187-275).
LEMMA ShouldCloseStored ==
    ASSUME NEW f \in Flow, FlagsExact(f), Budgeted(f), NEW now \in Nat,
           ShouldClose(f, now).reason = None
    PROVE  Stored(ShouldClose(f, now).flow)
<1> DEFINE v == ShouldClose(f, now)
           back == [f EXCEPT !.settleUntil = 0, !.expiresAt = f.timeoutAt]
           until == now + Settle
           wait == [f EXCEPT !.settleUntil = until, !.expiresAt = MinTime(f.timeoutAt, until)]
<1>1. None \notin {"terminal_event", "limit_exceeded", "invocations_complete"}
  BY Zenon, NoneAssumption DEF CloseReason
<1>2. ~f.terminalSeen /\ ~LimitReached(f)
  BY Zenon, <1>1 DEF ShouldClose
<1>3. \A g : g.invocations = f.invocations => (AllComplete(g) <=> AllComplete(f))
  BY Zenon DEF AllComplete, CompleteInvocations, IncompleteInvocations, Observed
<1>4. \A g : g.invocations = f.invocations => FlagsExact(g)
  BY Zenon DEF FlagsExact, Observed
<1>5. \A g : g.events = f.events /\ g.limitExceeded = f.limitExceeded => ~LimitReached(g)
  BY Zenon, <1>2 DEF LimitReached
<1>6. CASE ~AllComplete(f) /\ f.settleUntil = 0
  <2>1. v.flow = f
    BY Zenon, <1>1, <1>2, <1>6 DEF ShouldClose
  <2> QED BY Zenon, <2>1, <1>2, <1>6 DEF Stored
<1>7. CASE ~AllComplete(f) /\ f.settleUntil # 0
  <2>1. v.flow = back
    BY Zenon, <1>1, <1>2, <1>7 DEF ShouldClose
  <2>2. back \in Flow
    BY Zenon DEF Flow
  <2>3. /\ back.invocations = f.invocations /\ back.events = f.events
        /\ back.limitExceeded = f.limitExceeded /\ back.terminalSeen = f.terminalSeen
        /\ back.settleUntil = 0
    BY Zenon DEF Flow
  <2>4. Budgeted(back)
    BY Zenon DEF Flow, Budgeted
  <2> HIDE DEF back
  <2> QED BY Zenon, <2>1, <2>2, <2>3, <2>4, <1>2, <1>3, <1>4, <1>5, <1>7 DEF Stored
<1>8. CASE AllComplete(f) /\ f.settleUntil # 0
  <2>1. v.flow = f
    BY Zenon, <1>1, <1>2, <1>8 DEF ShouldClose
  <2> QED BY Zenon, <2>1, <1>2, <1>8 DEF Stored
<1>9. CASE AllComplete(f) /\ f.settleUntil = 0
  <2>1. v.flow = wait /\ Settle # 0
    BY Zenon, <1>1, <1>2, <1>9 DEF ShouldClose
  <2>2. until \in Nat /\ until # 0
    BY <2>1, FlowAssumption
  <2>3. MinTime(f.timeoutAt, until) \in Nat
    BY Zenon, <2>2 DEF MinTime, Flow
  <2> HIDE DEF until
  <2>4. wait \in Flow
    BY <2>2, <2>3, Zenon DEF Flow
  <2>5. /\ wait.invocations = f.invocations /\ wait.events = f.events
        /\ wait.limitExceeded = f.limitExceeded /\ wait.terminalSeen = f.terminalSeen
        /\ wait.settleUntil = until
    BY Zenon DEF Flow
  <2>6. Budgeted(wait)
    BY <2>2 DEF Flow, Budgeted, MinTime
  <2> HIDE DEF wait
  <2> QED BY Zenon, <2>1, <2>2, <2>4, <2>5, <2>6, <1>2, <1>3, <1>4, <1>5, <1>9 DEF Stored
<1> QED BY Zenon, <1>6, <1>7, <1>8, <1>9

\* A stored flow meets DeadlineExact.
LEMMA StoredDeadline ==
    ASSUME NEW f, Stored(f)
    PROVE  /\ ~f.terminalSeen /\ ~LimitReached(f)
           /\ f.settleUntil # 0 <=>
                /\ CloseWhenComplete
                /\ Observed(f) # {}
                /\ \A i \in Observed(f) : \A r \in Requires[i] : f.invocations[i].members[r] # None
           /\ Budgeted(f)
<1>1. AllComplete(f) <=>
        /\ CloseWhenComplete
        /\ Observed(f) # {}
        /\ \A i \in Observed(f) : f.invocations[i].complete
  BY Zenon DEF AllComplete, CompleteInvocations, IncompleteInvocations
<1>2. \A i \in Observed(f) : f.invocations[i].complete <=>
                              \A r \in Requires[i] : f.invocations[i].members[r] # None
  BY Zenon DEF Stored, FlagsExact, InvocationComplete
<1> QED BY <1>1, <1>2, Zenon DEF Stored
-----------------------------------------------------------------------------
\* Every flow in the store may be there.
StoredFlows == \A k \in OpenFlows : Stored(flows[k])

\* The index entry a save or a delete removes.
Prior(k) == IF flows[k] = None THEN {} ELSE {ExpiryKey(flows[k].expiresAt, k)}

\* The two effects of Accept's transaction on the store.
Saves(k, f) ==
    /\ f \in Flow /\ Stored(f)
    /\ flows' = [flows EXCEPT ![k] = f]
    /\ expiry' = (expiry \ Prior(k)) \cup {ExpiryKey(f.expiresAt, k)}
    /\ outbox' = outbox
    /\ unresolved' = unresolved
\* The flow ends: a record is enqueued, the flow and its entry are gone.
Ends(k, f) ==
    /\ f \in Flow
    /\ flows' = [flows EXCEPT ![k] = None]
    /\ expiry' = expiry \ Prior(k)
    /\ DOMAIN outbox' = DOMAIN outbox \cup {OutputID(k, f)}
    /\ unresolved' = unresolved \ {k}

\* A flow that ShouldClose ends is ended as it is.
LEMMA VerdictFlow ==
    ASSUME NEW f \in Flow, NEW now \in Nat
    PROVE  ShouldClose(f, now).reason # None => ShouldClose(f, now).flow = f
BY Zenon DEF ShouldClose

\* The flow an event is applied to (ingest/service.go, Accept).
Current(e) == IF flows[e.key] = None THEN Open(e) ELSE flows[e.key]

\* Two flows that differ in their deadlines only.
SameBody(f, g) ==
    /\ f.events = g.events /\ f.duplicates = g.duplicates
    /\ f.invocations = g.invocations
    /\ f.firstObservedAt = g.firstObservedAt
    /\ f.terminalSeen = g.terminalSeen

\* Flows with the same invocations have the same members.
LEMMA SameMembers ==
    ASSUME NEW f, NEW g, f.invocations = g.invocations
    PROVE  Members(f) = Members(g)
BY DEF Members, Observed

\* ShouldClose moves deadlines only.
LEMMA VerdictBody ==
    ASSUME NEW f \in Flow, NEW now \in Nat
    PROVE  SameBody(ShouldClose(f, now).flow, f)
BY Zenon DEF ShouldClose, SameBody, Flow

\* The record that ends flow g.
Closes(k, g, now) ==
    /\ ShouldClose(g, now).reason # None
    /\ outbox' = [x \in DOMAIN outbox \cup {OutputID(k, g)} |->
                    IF x = OutputID(k, g) THEN Finalize(g, ShouldClose(g, now).reason, now)
                    ELSE outbox[x]]

\* What Accept's transaction does with the event it takes.
LEMMA AcceptDetail ==
    ASSUME TypeOK, StoredFlows, NEW w \in Worker, AcceptTx(w)
    PROVE  LET e == batch[w][1]
               g == Apply(Current(e), e)
           IN  /\ e \in Event /\ e.key \in Key
               /\ Current(e) \in Flow /\ FlagsExact(Current(e)) /\ Budgeted(Current(e))
               /\ g \in Flow
               /\ \/ \E f \in Flow : Saves(e.key, f) /\ SameBody(f, g)
                  \/ Ends(e.key, g) /\ \E now \in Nat : Closes(e.key, g, now)
<1> DEFINE e == batch[w][1]
           k == e.key
           current == Current(e)
           g == Apply(current, e)
<1>1. PICK now \in since[w]..clock :
        LET verdict == ShouldClose(g, now)
        IN  /\ Commit(IF verdict.reason = None
                      THEN SaveFlow(Store, k, verdict.flow)
                      ELSE FinalizeFlow(Store, k, verdict.flow, verdict.reason, now))
            /\ unresolved' = IF verdict.reason = None THEN unresolved ELSE unresolved \ {k}
  BY Zenon DEF AcceptTx, Current
<1>2. now \in Nat
  BY DEF TypeOK
<1>3. e \in Event /\ k \in Key
  <2>1. batch[w] \in Seq(Event) /\ batch[w] # << >>
    BY Zenon DEF TypeOK, AcceptTx
  <2>2. Len(batch[w]) >= 1
    BY <2>1
  <2>3. e \in Event
    BY <2>1, <2>2
  <2> HIDE DEF e
  <2> QED BY Zenon, <2>3 DEF Event
<1> HIDE DEF e
<1>4. current \in Flow /\ FlagsExact(current) /\ Budgeted(current)
  <2>1. CASE flows[k] = None
    BY <2>1, <1>3, OpenFlow, Zenon DEF Current
  <2>2. CASE flows[k] # None
    BY Zenon, <2>2, <1>3 DEF TypeOK, StoredFlows, OpenFlows, Stored, Current
  <2> QED BY Zenon, <2>1, <2>2
<1> HIDE DEF k, current
<1>5. g \in Flow /\ FlagsExact(g) /\ Budgeted(g)
  BY Zenon, <1>3, <1>4, ApplyType
<1> DEFINE verdict == ShouldClose(g, now)
<1> HIDE DEF g
<1>6. CASE verdict.reason = None
  <2>1. Stored(verdict.flow) /\ SameBody(verdict.flow, g)
    BY Zenon, <1>2, <1>5, <1>6, ShouldCloseStored, VerdictBody
  <2>2. Commit(SaveFlow(Store, k, verdict.flow)) /\ unresolved' = unresolved
    BY Zenon, <1>1, <1>6
  <2> HIDE DEF verdict
  <2>3. verdict.flow \in Flow
    BY Zenon, <2>1 DEF Stored
  <2>4. Saves(k, verdict.flow)
    BY Zenon, <2>1, <2>2, <2>3, <1>3 DEF Commit, SaveFlow, Store, Saves, Prior, TypeOK
  <2> QED BY <2>1, <2>3, <2>4, <1>3, <1>4, <1>5, Zenon DEF k, g, current, e
<1>7. CASE verdict.reason # None
  <2>1. verdict.flow = g
    BY Zenon, <1>2, <1>5, <1>7, VerdictFlow
  <2>2. /\ Commit(FinalizeFlow(Store, k, g, verdict.reason, now))
        /\ unresolved' = unresolved \ {k}
    BY Zenon, <1>1, <1>7, <2>1
  <2> DEFINE d == Finalize(g, verdict.reason, now)
  <2>3. Commit(DeleteFlow(EnqueueOutbox(Store, OutputID(k, g), d), k))
    BY Zenon, <2>2 DEF FinalizeFlow
  <2> HIDE DEF d, verdict
  <2>4. Ends(k, g)
    BY <2>2, <2>3, <1>3, <1>5, Zenon
       DEF Commit, DeleteFlow, EnqueueOutbox, Store, Ends, Prior, TypeOK
  <2>5. outbox' = [x \in DOMAIN outbox \cup {OutputID(k, g)} |->
                     IF x = OutputID(k, g) THEN d ELSE outbox[x]]
    BY <2>3, Zenon DEF Commit, DeleteFlow, EnqueueOutbox, Store
  <2>6. Closes(k, g, now)
    BY <1>7, <2>5, Zenon DEF Closes, d, verdict
  <2> QED BY <2>4, <2>6, <1>2, <1>3, <1>4, <1>5, Zenon DEF k, g, current, e
<1> QED BY <1>6, <1>7, Zenon

\* It saves one flow or ends one.
LEMMA AcceptEffect ==
    ASSUME TypeOK, StoredFlows, NEW w \in Worker, AcceptTx(w)
    PROVE  \E k \in Key, f \in Flow : Saves(k, f) \/ Ends(k, f)
BY AcceptDetail, Zenon

\* The effect of a sweep's transaction on the store.
Sweeps(S) ==
    /\ S \subseteq OpenFlows
    /\ \A k \in Key : flows[k] # None /\ flows[k].expiresAt <= sweepAt => k \in S \/ Cardinality(S) = SweepBatch
    /\ flows' = [k \in Key |-> IF k \in S THEN None ELSE flows[k]]
    /\ expiry' = expiry \ {ExpiryKey(flows[k].expiresAt, k) : k \in S}
    /\ DOMAIN outbox' = DOMAIN outbox \cup {OutputID(k, flows[k]) : k \in S}
    /\ unresolved' = unresolved \ S
    /\ up' = (up \/ Cardinality(S) < SweepBatch)

\* Every due flow is found: its index entry is at its deadline's millisecond.
LEMMA DueFound ==
    ASSUME TypeOK, ExpiryIndexExact, NEW t \in Nat, NEW k \in Key,
           flows[k] # None, flows[k].expiresAt <= t
    PROVE  k \in DueFlows(Store, t)
<1>1. ExpiryKey(flows[k].expiresAt, k) \in expiry
  BY Zenon DEF ExpiryIndexExact, OpenFlows
<1>2. flows[k].expiresAt \in Nat
  BY Zenon DEF TypeOK, Flow
<1>3. flows[k].expiresAt \div Milli <= t \div Milli
  BY <1>2, CorrelationAssumption, SMTT(30)
<1> QED BY Zenon, <1>1, <1>3 DEF DueFlows, Store, ExpiryKey

\* A sweep's transaction has that effect, on due flows only, and records why.
LEMMA SweepDetail ==
    ASSUME TypeOK, ExpiryIndexExact, SweepTx
    PROVE  \E S \in SUBSET Key :
             /\ Sweeps(S)
             /\ \A k \in S : flows[k].expiresAt <= sweepAt
             /\ outbox' = FinalizeAll(S).outbox
<1>1. PICK S \in SUBSET Key :
        /\ SweepChoice(DueFlows(Store, sweepAt), S)
        /\ Commit(FinalizeAll(S))
        /\ unresolved' = unresolved \ S
        /\ up' = (up \/ Cardinality(S) < SweepBatch)
  BY Zenon DEF SweepTx
<1>2. S \subseteq OpenFlows
  BY <1>1, SMTT(30) DEF SweepChoice, DueFlows, Store, OpenFlows
<1>3. ASSUME NEW k \in Key, flows[k] # None, flows[k].expiresAt <= sweepAt
      PROVE  k \in S \/ Cardinality(S) = SweepBatch
  <2>1. k \in DueFlows(Store, sweepAt)
    BY <1>3, DueFound, SMTT(30) DEF TypeOK
  <2> QED BY Zenon, <1>1, <2>1 DEF SweepChoice
<1>4. /\ flows' = [k \in Key |-> IF k \in S THEN None ELSE flows[k]]
      /\ expiry' = expiry \ {ExpiryKey(flows[k].expiresAt, k) : k \in S}
      /\ DOMAIN outbox' = DOMAIN outbox \cup {OutputID(k, flows[k]) : k \in S}
  BY <1>1, Zenon DEF Commit, FinalizeAll
<1>5. \A k \in S : flows[k].expiresAt <= sweepAt
  BY <1>1, SMTT(30) DEF SweepChoice, DueFlows, Store
<1>6. outbox' = FinalizeAll(S).outbox
  BY <1>1, Zenon DEF Commit
<1>7. Sweeps(S)
  BY Zenon, <1>1, <1>2, <1>3, <1>4 DEF Sweeps
<1> QED BY Zenon, <1>5, <1>6, <1>7

\* In short.
LEMMA SweepEffect ==
    ASSUME TypeOK, ExpiryIndexExact, SweepTx
    PROVE  \E S \in SUBSET Key : Sweeps(S)
BY SweepDetail, Zenon
-----------------------------------------------------------------------------
\* The index stays exact.
LEMMA IndexStep ==
    ASSUME TypeOK, StoredFlows, ExpiryIndexExact, [Next]_vars
    PROVE  ExpiryIndexExact'
<1> DEFINE Entry(k) == ExpiryKey(flows[k].expiresAt, k)
<1>1. ASSUME NEW w \in Worker, AcceptTx(w) PROVE ExpiryIndexExact'
  <2>1. PICK k \in Key, f \in Flow : Saves(k, f) \/ Ends(k, f)
    BY Zenon, <1>1, AcceptEffect
  <2>2. expiry = {Entry(j) : j \in OpenFlows}
    BY Zenon DEF ExpiryIndexExact
  <2>3. \A j \in OpenFlows : j # k => Entry(j) \notin Prior(k)
    BY Zenon DEF Prior, ExpiryKey
  <2>4. CASE Saves(k, f)
    <3>1. f # None
      BY NoneAssumption, Zenon
    <3>2. OpenFlows' = OpenFlows \cup {k}
      BY Zenon, <2>4, <3>1 DEF Saves, OpenFlows, TypeOK
    <3>3. \A j \in OpenFlows' : flows'[j] = IF j = k THEN f ELSE flows[j]
      BY Zenon, <2>4 DEF Saves, OpenFlows, TypeOK
    <3>4. expiry' = {ExpiryKey(flows'[j].expiresAt, j) : j \in OpenFlows'}
      BY <2>2, <2>3, <2>4, <3>2, <3>3 DEF Saves, Prior, OpenFlows
    <3> QED BY Zenon, <3>4 DEF ExpiryIndexExact
  <2>5. CASE Ends(k, f)
    <3>1. OpenFlows' = OpenFlows \ {k}
      BY Zenon, <2>5 DEF Ends, OpenFlows, TypeOK
    <3>2. \A j \in OpenFlows' : flows'[j] = flows[j]
      BY Zenon, <2>5, <3>1 DEF Ends, OpenFlows, TypeOK
    <3>3. expiry' = {ExpiryKey(flows'[j].expiresAt, j) : j \in OpenFlows'}
      BY Zenon, <2>2, <2>3, <2>5, <3>1, <3>2 DEF Ends, Prior, OpenFlows
    <3> QED BY Zenon, <3>3 DEF ExpiryIndexExact
  <2> QED BY Zenon, <2>1, <2>4, <2>5
<1>2. CASE SweepTx
  <2>1. PICK S \in SUBSET Key : Sweeps(S)
    BY <1>2, SweepEffect, Zenon
  <2>2. OpenFlows' = OpenFlows \ S
    BY Zenon, <2>1 DEF Sweeps, OpenFlows
  <2>3. \A j \in OpenFlows' : flows'[j] = flows[j]
    BY Zenon, <2>1, <2>2 DEF Sweeps, OpenFlows
  <2>4. \A j \in OpenFlows \ S : Entry(j) \notin {Entry(k) : k \in S}
    BY Zenon DEF ExpiryKey
  <2>5. expiry' = {ExpiryKey(flows'[j].expiresAt, j) : j \in OpenFlows'}
    BY Zenon, <2>1, <2>2, <2>3, <2>4 DEF Sweeps, ExpiryIndexExact
  <2> QED BY Zenon, <2>5 DEF ExpiryIndexExact
<1>3. CASE UNCHANGED <<flows, expiry>>
  BY <1>3, Zenon DEF ExpiryIndexExact, OpenFlows
<1> QED
  BY Zenon, <1>1, <1>2, <1>3 DEF Next, vars, storeVars, requestVars, Tick, Receive, Request,
     CheckOpenFlows, CheckOutbox, AcceptFails, Sweep, SweepBegin, Deliver, Replay, Reload, Restart

\* The flows in the store stay ones that no closer ended.
LEMMA StoredStep ==
    ASSUME TypeOK, StoredFlows, ExpiryIndexExact, [Next]_vars
    PROVE  StoredFlows'
<1>1. ASSUME NEW w \in Worker, AcceptTx(w) PROVE StoredFlows'
  <2>1. PICK k \in Key, f \in Flow : Saves(k, f) \/ Ends(k, f)
    BY Zenon, <1>1, AcceptEffect
  <2> SUFFICES ASSUME NEW j \in OpenFlows' PROVE Stored(flows'[j])
    BY ZenonT(60) DEF StoredFlows, Stored, FlagsExact, Observed, Budgeted, LimitReached, AllComplete,
       CompleteInvocations, IncompleteInvocations, InvocationComplete
  <2>2. ASSUME Saves(k, f) PROVE flows'[j] = flows[j] \/ (flows'[j] = f /\ Stored(f))
    BY Zenon, <2>2 DEF Saves, OpenFlows, TypeOK
  <2>3. ASSUME Ends(k, f) PROVE flows'[j] = flows[j]
    BY Zenon, <2>3 DEF Ends, OpenFlows, TypeOK
  <2> QED BY Zenon, <2>1, <2>2, <2>3 DEF StoredFlows, OpenFlows, Saves, Ends
<1>2. CASE SweepTx
  <2>1. PICK S \in SUBSET Key : Sweeps(S)
    BY Zenon, <1>2, SweepEffect
  <2>2. \A j \in OpenFlows' : j \in OpenFlows /\ flows'[j] = flows[j]
    BY Zenon, <2>1 DEF Sweeps, OpenFlows
  <2> QED BY Zenon, <2>2 DEF StoredFlows
<1>3. CASE UNCHANGED flows
  BY Zenon, <1>3 DEF StoredFlows, OpenFlows
<1> QED
  BY Zenon, <1>1, <1>2, <1>3 DEF Next, vars, storeVars, requestVars, Tick, Receive, Request,
     CheckOpenFlows, CheckOutbox, AcceptFails, Sweep, SweepBegin, Deliver, Replay, Reload, Restart

\* Drains and replays move records between the outbox, the dead letters and the
\* settled ones, as they are.
Resolves(id) ==
    /\ DOMAIN outbox' = DOMAIN outbox \ {id}
    /\ \A x \in DOMAIN outbox' : outbox'[x] = outbox[x]
    /\ replayed' = replayed \ {id}
    /\ DOMAIN dead' \subseteq DOMAIN dead \cup {id}
    /\ DOMAIN dead' \cup DOMAIN settled' = DOMAIN dead \cup DOMAIN settled \cup {id}
    /\ DOMAIN settled' \cap DOMAIN dead' \subseteq DOMAIN settled \cup (DOMAIN dead \cap {id})
    /\ \A x \in DOMAIN dead' :
         \/ x = id /\ dead'[x] = outbox[id]
         \/ x \in DOMAIN dead /\ dead'[x] = dead[x]
    /\ \A x \in DOMAIN settled' :
         \/ x = id /\ settled'[x] = outbox[id]
         \/ x \in DOMAIN settled /\ settled'[x] = settled[x]
         \/ x \in DOMAIN dead /\ settled'[x] = dead[x]

Replays(R) ==
    /\ DOMAIN outbox' = DOMAIN outbox \cup R
    /\ \A x \in DOMAIN outbox' : outbox'[x] = IF x \in R THEN dead[x] ELSE outbox[x]
    /\ replayed' = replayed \cup R
    /\ DOMAIN dead' = DOMAIN dead \ R
    /\ \A x \in DOMAIN dead' : dead'[x] = dead[x]
    /\ settled' = settled

\* What a drain does to the records.
LEMMA DeliverEffect ==
    ASSUME Deliver
    PROVE  \E id \in DOMAIN outbox : Resolves(id)
<1>1. PICK id \in DOMAIN outbox :
        /\ Confirm(id) \/ DeadLetter(id)
        /\ outbox' = Pick(outbox, DOMAIN outbox \ {id})
        /\ replayed' = replayed \ {id}
  BY Zenon DEF Deliver
<1> DEFINE one == Pick(outbox, {id})
<1>2. DOMAIN one = {id} /\ one[id] = outbox[id]
  BY Zenon DEF Put, Pick
<1> HIDE DEF one
<1>3. /\ DOMAIN outbox' = DOMAIN outbox \ {id}
      /\ \A x \in DOMAIN outbox' : outbox'[x] = outbox[x]
  BY Zenon, <1>1 DEF Put, Pick
<1>4. CASE Confirm(id)
  <2>1. settled' = Put(settled, one) /\ dead' = dead
    BY <1>4, Zenon DEF Confirm, one
  <2>2. /\ DOMAIN settled' = DOMAIN settled \cup {id}
        /\ \A x \in DOMAIN settled' : settled'[x] = IF x = id THEN outbox[id] ELSE settled[x]
    BY Zenon, <1>2, <2>1 DEF Put, Pick
  <2>3. /\ DOMAIN settled' \cap DOMAIN dead' \subseteq DOMAIN settled \cup (DOMAIN dead \cap {id})
        /\ DOMAIN dead' \cup DOMAIN settled' = DOMAIN dead \cup DOMAIN settled \cup {id}
    BY Zenon, <2>1, <2>2
  <2>4. \A x \in DOMAIN settled' : \/ x = id /\ settled'[x] = outbox[id]
                                   \/ x \in DOMAIN settled /\ settled'[x] = settled[x]
    BY <2>2, Zenon
  <2>5. DOMAIN dead' = DOMAIN dead /\ \A x \in DOMAIN dead : dead'[x] = dead[x]
    BY <2>1, Zenon
  <2> QED BY <1>1, <1>3, <2>3, <2>4, <2>5, Zenon DEF Resolves
<1>5. CASE DeadLetter(id)
  <2> DEFINE all == Put(dead, one)
  <2>1. PICK kept \in SUBSET DOMAIN all :
          /\ dead' = Pick(all, kept)
          /\ settled' = Put(settled, Pick(all, DOMAIN all \ kept))
    BY <1>5, Zenon DEF DeadLetter, one
  <2>2. /\ DOMAIN all = DOMAIN dead \cup {id}
        /\ \A x \in DOMAIN all : all[x] = IF x = id THEN outbox[id] ELSE dead[x]
    BY Zenon, <1>2 DEF Put, Pick
  <2> HIDE DEF all
  <2>3. DOMAIN dead' = kept /\ \A x \in kept : dead'[x] = all[x]
    BY Zenon, <2>1 DEF Put, Pick
  <2> DEFINE lost == Pick(all, DOMAIN all \ kept)
  <2>4. DOMAIN lost = DOMAIN all \ kept /\ \A x \in DOMAIN lost : lost[x] = all[x]
    BY Zenon DEF Put, Pick
  <2> HIDE DEF lost
  <2>5. /\ DOMAIN settled' = DOMAIN settled \cup DOMAIN lost
        /\ \A x \in DOMAIN settled' : settled'[x] = IF x \in DOMAIN lost THEN lost[x] ELSE settled[x]
    BY Zenon, <2>1 DEF Put, Pick, lost
  <2>6. /\ DOMAIN dead' \subseteq DOMAIN dead \cup {id}
        /\ DOMAIN dead' \cup DOMAIN settled' = DOMAIN dead \cup DOMAIN settled \cup {id}
        /\ DOMAIN settled' \cap DOMAIN dead' \subseteq DOMAIN settled \cup (DOMAIN dead \cap {id})
    BY Zenon, <2>1, <2>2, <2>3, <2>4, <2>5
  <2>7. ASSUME NEW x \in DOMAIN dead'
        PROVE  \/ x = id /\ dead'[x] = outbox[id]
               \/ x \in DOMAIN dead /\ dead'[x] = dead[x]
    BY <2>1, <2>2, <2>3, <2>7, Zenon
  <2>8. ASSUME NEW x \in DOMAIN settled'
        PROVE  \/ x = id /\ settled'[x] = outbox[id]
               \/ x \in DOMAIN settled /\ settled'[x] = settled[x]
               \/ x \in DOMAIN dead /\ settled'[x] = dead[x]
    BY <2>2, <2>4, <2>5, <2>8, Zenon
  <2> QED BY <1>1, <1>3, <2>6, <2>7, <2>8, Zenon DEF Resolves
<1> QED BY Zenon, <1>1, <1>4, <1>5

\* What a replay does to them.
LEMMA ReplayEffect ==
    ASSUME Replay
    PROVE  \E R \in SUBSET DOMAIN dead : Replays(R)
<1>1. PICK R \in SUBSET DOMAIN dead :
        /\ outbox' = Put(outbox, Pick(dead, R))
        /\ dead' = Pick(dead, DOMAIN dead \ R)
        /\ replayed' = replayed \cup R /\ settled' = settled
  BY Zenon DEF Replay
<1>2. DOMAIN Pick(dead, R) = R /\ \A x \in R : Pick(dead, R)[x] = dead[x]
  BY Zenon DEF Put, Pick
<1>3. /\ DOMAIN outbox' = DOMAIN outbox \cup R
      /\ \A x \in DOMAIN outbox' : outbox'[x] = IF x \in R THEN dead[x] ELSE outbox[x]
  BY Zenon, <1>1, <1>2 DEF Put, Pick
<1>4. DOMAIN dead' = DOMAIN dead \ R /\ \A x \in DOMAIN dead' : dead'[x] = dead[x]
  BY Zenon, <1>1 DEF Put, Pick
<1> QED BY <1>1, <1>3, <1>4, Zenon DEF Replays

\* The types of the store.
StoreTypes ==
    /\ clock \in 1..MaxTime
    /\ flows \in [Key -> Flow \cup {None}]
    /\ DOMAIN outbox \subseteq Key \X (1..MaxTime)
    /\ DOMAIN dead \subseteq Key \X (1..MaxTime)
    /\ DOMAIN settled \subseteq Key \X (1..MaxTime)
    /\ replayed \subseteq DOMAIN outbox
    /\ unresolved \subseteq OpenFlows
    /\ sweepAt \in 0..clock

\* No step leaves the types of the store.
LEMMA StoreTypesStep ==
    ASSUME TypeOK, StoredFlows, ExpiryIndexExact, [Next]_vars
    PROVE  StoreTypes'
<1> DEFINE Ids == Key \X (1..MaxTime)
<1>0. StoreTypes
  BY Zenon DEF TypeOK, StoreTypes
<1>1. ASSUME NEW w \in Worker, AcceptTx(w) PROVE StoreTypes'
  <2>1. PICK k \in Key, f \in Flow : Saves(k, f) \/ Ends(k, f)
    BY Zenon, <1>1, AcceptEffect
  <2>2. UNCHANGED <<clock, dead, settled, replayed, sweepAt>>
    BY <1>1, Zenon DEF AcceptTx, deliveryVars
  <2>3. OutputID(k, f) \in Ids
    BY Zenon DEF OutputID, Flow
  <2>4. f # None
    BY Zenon, NoneAssumption
  <2>5. DOMAIN outbox' \subseteq Ids /\ DOMAIN outbox \subseteq DOMAIN outbox'
    BY Zenon, <2>1, <2>3 DEF TypeOK, Saves, Ends
  <2>6. flows' \in [Key -> Flow \cup {None}]
    BY <2>1, Zenon DEF TypeOK, Saves, Ends
  <2>7. unresolved' \subseteq OpenFlows'
    BY Zenon, <2>1, <2>4 DEF TypeOK, Saves, Ends, OpenFlows
  <2> QED BY Zenon, <1>0, <2>2, <2>5, <2>6, <2>7 DEF StoreTypes
<1>2. CASE SweepTx
  <2>1. PICK S \in SUBSET Key : Sweeps(S)
    BY Zenon, <1>2, SweepEffect
  <2>2. UNCHANGED <<clock, dead, settled, replayed>> /\ sweepAt' = 0
    BY <1>2, Zenon DEF SweepTx, deliveryVars
  <2>3. \A k \in S : OutputID(k, flows[k]) \in Ids
    BY Zenon, <2>1 DEF OutputID, Flow, Sweeps, OpenFlows, TypeOK
  <2>4. DOMAIN outbox' \subseteq Ids /\ DOMAIN outbox \subseteq DOMAIN outbox'
    BY <1>0, <2>1, <2>3, Zenon DEF StoreTypes, Sweeps
  <2>5. flows' \in [Key -> Flow \cup {None}]
    BY <1>0, <2>1, Zenon DEF StoreTypes, Sweeps
  <2>6. unresolved' \subseteq OpenFlows'
    BY <1>0, <2>1, Zenon DEF StoreTypes, Sweeps, OpenFlows
  <2>7. sweepAt' \in 0..clock'
    BY <1>0, <2>2 DEF StoreTypes
  <2> QED BY <1>0, <2>2, <2>4, <2>5, <2>6, <2>7, Zenon DEF StoreTypes
<1>3. CASE Deliver
  <2>1. PICK id \in DOMAIN outbox : Resolves(id)
    BY <1>3, DeliverEffect, Zenon
  <2>2. UNCHANGED <<clock, flows, unresolved, sweepAt>>
    BY <1>3, Zenon DEF Deliver
  <2> QED BY <1>0, <2>1, <2>2, Zenon DEF Resolves, StoreTypes, OpenFlows
<1>8. CASE Replay
  <2>1. PICK R \in SUBSET DOMAIN dead : Replays(R)
    BY <1>8, ReplayEffect, Zenon
  <2>2. UNCHANGED <<clock, flows, unresolved, sweepAt>>
    BY <1>8, Zenon DEF Replay
  <2> QED BY <1>0, <2>1, <2>2, Zenon DEF Replays, StoreTypes, OpenFlows
<1>4. CASE Tick \/ SweepBegin
  <2>1. clock' \in 1..MaxTime /\ sweepAt' \in 0..clock'
    <3>1. clock \in 1..MaxTime /\ sweepAt \in 0..clock
      BY <1>0, Zenon DEF StoreTypes
    <3> QED BY <1>4, <3>1, CorrelationAssumption DEF Tick, SweepBegin
  <2>2. UNCHANGED <<flows, outbox, dead, settled, replayed, unresolved>>
    BY <1>4, Zenon DEF Tick, SweepBegin, storeVars, deliveryVars
  <2> QED BY <1>0, <2>1, <2>2, Zenon DEF StoreTypes, OpenFlows
<1>5. CASE Reload \/ Restart
  <2>1. UNCHANGED <<clock, flows, outbox, dead, settled, replayed>> /\ OpenFlows' = OpenFlows
    BY <1>5, Zenon DEF Reload, Restart, storeVars, deliveryVars, OpenFlows
  <2>2. unresolved' \subseteq OpenFlows
    BY <1>0, <1>5, Zenon DEF Reload, Restart, StoreTypes
  <2>3. sweepAt' \in 0..clock
    <3>1. clock \in 1..MaxTime /\ sweepAt \in 0..clock
      BY <1>0, Zenon DEF StoreTypes
    <3> QED BY <1>5, <3>1, CorrelationAssumption DEF Reload, Restart
  <2> QED BY <1>0, <2>1, <2>2, <2>3, Zenon DEF StoreTypes
<1>6. ASSUME NEW w \in Worker, Receive(w) PROVE StoreTypes'
  <2>1. clock' \in 1..MaxTime /\ sweepAt \in 0..clock'
    <3>1. clock \in 1..MaxTime /\ sweepAt \in 0..clock
      BY <1>0, Zenon DEF StoreTypes
    <3>2. clock < Arrivals /\ clock' = clock + 1
      BY <1>6, Zenon DEF Receive
    <3> QED BY <3>1, <3>2, CorrelationAssumption
  <2>2. UNCHANGED <<flows, outbox, dead, settled, replayed, unresolved, sweepAt>>
    BY <1>6, Zenon DEF Receive, storeVars, deliveryVars
  <2> QED BY <1>0, <2>1, <2>2, Zenon DEF StoreTypes, OpenFlows
<1>7. CASE UNCHANGED <<clock, storeVars, deliveryVars, unresolved, sweepAt>>
  BY Zenon, <1>0, <1>7 DEF StoreTypes, OpenFlows, storeVars, deliveryVars
<1> QED
  BY <1>1, <1>2, <1>3, <1>4, <1>5, <1>6, <1>7, <1>8, SMTT(30) DEF Next, vars, storeVars,
     deliveryVars, Request, CheckOpenFlows, CheckOutbox, AcceptFails, Sweep

\* The types of the requests.
RequestTypes ==
    /\ received \in 0..MaxEventId
    /\ accepted \subseteq Event
    /\ pc \in [Worker -> {"idle", "flows", "outbox", "tx"}]
    /\ batch \in [Worker -> Seq(Event)]
    /\ since \in [Worker -> Nat]
    /\ \A w \in Worker : /\ pc[w] = "idle" <=> batch[w] = <<>>
                         /\ pc[w] = "tx" <=> since[w] # 0

\* A sequence with a length has an element.
LEMMA NonEmpty ==
    ASSUME NEW q, Len(q) # 0
    PROVE  q # << >>
<1>1. Len(<< >>) = 0
  BY Zenon
<1> QED BY <1>1, Zenon

\* No request step leaves its types.
LEMMA RequestTypesStep ==
    ASSUME TypeOK, [Next]_vars
    PROVE  RequestTypes'
<1>0. RequestTypes
  BY Zenon DEF TypeOK, RequestTypes
<1>1. ASSUME NEW w \in Worker, Receive(w) PROVE RequestTypes'
  <2>1. PICK n \in 1..MaxBatch :
          /\ received + n <= MaxEventId
          /\ received' = received + n
          /\ \E ks \in [1..n -> Key], ds \in [1..n -> Document] :
                batch' = [batch EXCEPT ![w] =
                            [j \in 1..n |-> [id |-> received + j, key |-> ks[j],
                                             doc |-> ds[j], observedAt |-> clock']]]
    BY <1>1, Zenon DEF Receive
  <2>2. PICK ks \in [1..n -> Key], ds \in [1..n -> Document] :
           batch' = [batch EXCEPT ![w] =
                       [j \in 1..n |-> [id |-> received + j, key |-> ks[j],
                                        doc |-> ds[j], observedAt |-> clock']]]
    BY <2>1, Zenon
  <2> DEFINE new == [j \in 1..n |-> [id |-> received + j, key |-> ks[j],
                                     doc |-> ds[j], observedAt |-> clock']]
  <2>3. n \in Nat \ {0} /\ received \in Nat
    BY CorrelationAssumption, SMTT(30) DEF TypeOK
  <2>4. clock' \in 1..MaxTime
    <3>1. clock < Arrivals /\ clock' = clock + 1
      BY <1>1, Zenon DEF Receive
    <3>2. clock \in 1..MaxTime
      BY Zenon DEF TypeOK
    <3> QED BY <3>1, <3>2, CorrelationAssumption
  <2>5. \A j \in 1..n : new[j] \in Event
    BY <2>1, <2>3, <2>4, CorrelationAssumption DEF Event
  <2>6. new \in Seq(Event) /\ new # << >>
    <3>1. new \in [1..n -> Event]
      BY Zenon, <2>5
    <3> HIDE DEF new
    <3>2. new \in Seq(Event) /\ Len(new) = n
      BY <3>1, <2>3
    <3> QED BY Zenon, <3>2, <2>3
  <2> HIDE DEF new
  <2>7. batch' = [batch EXCEPT ![w] = new]
    BY <2>2, SMTT(30) DEF new
  <2>8. pc' = [pc EXCEPT ![w] = "flows"] /\ UNCHANGED <<accepted, since>> /\ pc[w] = "idle"
    BY Zenon, <1>1 DEF Receive
  <2>9. received' \in 0..MaxEventId
    BY <2>1, <2>3, CorrelationAssumption
  <2> QED BY Zenon, <1>0, <2>6, <2>7, <2>8, <2>9 DEF RequestTypes
<1>2. ASSUME NEW w \in Worker, Respond(w), UNCHANGED received, accepted' \subseteq Event
      PROVE  RequestTypes'
  BY <1>0, <1>2 DEF Respond, RequestTypes
<1>3. ASSUME NEW w \in Worker, AcceptTx(w) PROVE RequestTypes'
  <2>a. batch[w] \in Seq(Event) /\ batch[w] # << >>
    BY <1>3, Zenon DEF TypeOK, AcceptTx
  <2>1. batch[w] \in Seq(Event) /\ Len(batch[w]) >= 1
    BY <2>a
  <2>2. batch[w][1] \in Event
    BY <2>1
  <2>3. accepted' \subseteq Event /\ received' = received
    BY <1>3, <2>2, Zenon DEF AcceptTx, TypeOK
  <2>4. CASE Len(batch[w]) = 1
    BY <1>2, <1>3, <2>3, <2>4, Zenon DEF AcceptTx, Proceed
  <2>5. CASE Len(batch[w]) # 1
    <3>1. Tail(batch[w]) \in Seq(Event) /\ Tail(batch[w]) # << >>
      <4>1. Tail(batch[w]) \in Seq(Event) /\ Len(Tail(batch[w])) = Len(batch[w]) - 1
        BY <2>1
      <4>2. Len(Tail(batch[w])) # 0
        BY <4>1, <2>1, <2>5
      <4> QED BY <4>1, <4>2, NonEmpty, Zenon
    <3>2. /\ pc' = [pc EXCEPT ![w] = "flows"]
          /\ batch' = [batch EXCEPT ![w] = Tail(batch[w])]
          /\ since' = [since EXCEPT ![w] = 0]
      BY <1>3, <2>5, ZenonT(60) DEF AcceptTx, Proceed
    <3> QED BY Zenon, <1>0, <2>3, <3>1, <3>2 DEF RequestTypes
  <2> QED BY Zenon, <2>4, <2>5
<1>4. ASSUME NEW w \in Worker, CheckOpenFlows(w) \/ CheckOutbox(w) \/ AcceptFails(w)
      PROVE  RequestTypes'
  <2>1. UNCHANGED <<received, accepted>>
    BY Zenon, <1>4 DEF CheckOpenFlows, CheckOutbox, AcceptFails
  <2>2. CASE Respond(w)
    BY Zenon, <1>2, <2>1, <2>2 DEF TypeOK
  <2>3. CASE pc[w] = "flows" /\ pc' = [pc EXCEPT ![w] = "outbox"] /\ UNCHANGED <<batch, since>>
    BY Zenon, <1>0, <2>1, <2>3 DEF RequestTypes
  <2>4. CASE /\ pc[w] = "outbox" /\ pc' = [pc EXCEPT ![w] = "tx"]
             /\ since' = [since EXCEPT ![w] = clock] /\ UNCHANGED batch
    <3>1. clock \in Nat \ {0}
      BY CorrelationAssumption DEF TypeOK
    <3> QED BY Zenon, <1>0, <2>1, <2>4, <3>1 DEF RequestTypes
  <2> QED BY Zenon, <1>4, <2>2, <2>3, <2>4 DEF CheckOpenFlows, CheckOutbox, AcceptFails
<1>5. CASE Restart
  BY <1>0, <1>5 DEF Restart, Quiet, RequestTypes
<1>6. CASE UNCHANGED <<received, accepted, requestVars>>
  BY <1>0, <1>6, Zenon DEF RequestTypes, requestVars
<1> QED
  BY <1>1, <1>3, <1>4, <1>5, <1>6, Zenon DEF Next, vars, requestVars, Tick, Request, Sweep,
     SweepBegin, SweepTx, Deliver, Replay, Reload

\* Every step keeps the types.
LEMMA TypeStep ==
    ASSUME TypeOK, StoredFlows, ExpiryIndexExact, [Next]_vars
    PROVE  TypeOK'
<1>1. StoreTypes' /\ RequestTypes'
  BY Zenon, StoreTypesStep, RequestTypesStep
<1>2. up' \in BOOLEAN
  BY Zenon DEF TypeOK, Next, vars, Tick, Receive, Request, CheckOpenFlows, CheckOutbox, AcceptTx,
     AcceptFails, Sweep, SweepBegin, SweepTx, Deliver, Replay, Reload, Restart
<1> QED BY Zenon, <1>1, <1>2 DEF TypeOK, StoreTypes, RequestTypes
-----------------------------------------------------------------------------
\* The inductive invariant.
IInv == TypeOK /\ ExpiryIndexExact /\ StoredFlows

\* It holds of a new store.
LEMMA InitHolds == Init => IInv
<1> SUFFICES ASSUME Init PROVE IInv
  BY Zenon
<1>1. OpenFlows = {}
  BY Zenon DEF Init, OpenFlows
<1>2. TypeOK
  <2>1. flows \in [Key -> Flow \cup {None}] /\ clock \in 1..MaxTime /\ sweepAt \in 0..clock
    BY CorrelationAssumption DEF Init
  <2>2. DOMAIN outbox = {} /\ DOMAIN dead = {} /\ DOMAIN settled = {} /\ replayed = {}
    BY DEF Init
  <2>3. received \in 0..MaxEventId /\ accepted \subseteq Event /\ unresolved \subseteq OpenFlows
    BY CorrelationAssumption DEF Init
  <2>4. /\ pc \in [Worker -> {"idle", "flows", "outbox", "tx"}]
        /\ since \in [Worker -> Nat]
        /\ \A w \in Worker : pc[w] = "tx" <=> since[w] # 0
    BY Zenon DEF Init
  <2>5. /\ batch \in [Worker -> Seq(Event)]
        /\ \A w \in Worker : pc[w] = "idle" <=> batch[w] = << >>
    BY DEF Init
  <2>6. up \in BOOLEAN
    BY Zenon DEF Init
  <2> QED BY Zenon, <2>1, <2>2, <2>3, <2>4, <2>5, <2>6 DEF TypeOK
<1>3. ExpiryIndexExact /\ StoredFlows
  BY Zenon, <1>1 DEF Init, ExpiryIndexExact, StoredFlows
<1> QED BY Zenon, <1>2, <1>3 DEF IInv

\* Every step keeps it.
LEMMA StepHolds == IInv /\ [Next]_vars => IInv'
BY Zenon, TypeStep, IndexStep, StoredStep DEF IInv

\* The invariant holds throughout, restarts included.
THEOREM Invariance == Spec => []IInv
BY InitHolds, StepHolds, PTL DEF Spec

\* Types: flows, batches and output IDs are what the code declares.
THEOREM TypesHold == Spec => []TypeOK
<1>1. IInv => TypeOK
  BY Zenon DEF IInv
<1> QED BY <1>1, Invariance, PTL

\* The expiry index has one entry per open flow, at its deadline
\* (pebble/store.go:288-329), for any number of flows, requests and restarts.
THEOREM IndexIsExact == Spec => []ExpiryIndexExact
<1>1. IInv => ExpiryIndexExact
  BY Zenon DEF IInv
<1> QED BY <1>1, Invariance, PTL

\* A stored flow is not closable and its deadline is exact
\* (flow.go:187-275), for any rule: any roles, slots, limits and windows.
THEOREM DeadlinesAreExact == Spec => []DeadlineExact
<1>1. IInv => DeadlineExact
  <2>1. ASSUME IInv, NEW k \in OpenFlows PROVE Stored(flows[k])
    BY Zenon, <2>1 DEF IInv, StoredFlows
  <2> QED BY <2>1, StoredDeadline, Zenon DEF DeadlineExact, Budgeted
<1> QED BY <1>1, Invariance, PTL

\* The server listens only after a startup sweep that found fewer flows than
\* it may finalize, so no flow that was due is still open (main.go:184-195).
THEOREM StartupIsComplete == Spec => StartupSweepsAll
<1> DEFINE Listening == ~up /\ up' => \A k \in Key : flows'[k] # None => flows'[k].expiresAt > sweepAt
<1>1. IInv /\ [Next]_vars => [Listening]_vars
  <2> SUFFICES ASSUME IInv, Next, ~up, up', NEW k \in Key, flows'[k] # None
               PROVE  flows'[k].expiresAt > sweepAt
    BY Zenon
  <2>1. SweepTx
    BY Zenon DEF Next, Tick, Receive, Request, CheckOpenFlows, CheckOutbox, AcceptTx, AcceptFails,
       Sweep, SweepBegin, Deliver, Replay, Reload, Restart
  <2>2. PICK S \in SUBSET Key : Sweeps(S)
    BY Zenon, <2>1, SweepEffect DEF IInv
  <2>3. Cardinality(S) # SweepBatch
    <3>1. Cardinality(S) < SweepBatch
      BY <2>2, Zenon DEF Sweeps
    <3> QED BY <3>1, CorrelationAssumption
  <2>4. k \notin S /\ flows'[k] = flows[k]
    BY <2>2, Zenon DEF Sweeps
  <2>5. ~(flows[k].expiresAt <= sweepAt)
    BY <2>2, <2>3, <2>4, Zenon DEF Sweeps
  <2>6. flows[k] \in Flow /\ sweepAt \in Nat
    BY <2>4, CorrelationAssumption DEF IInv, TypeOK
  <2>7. flows[k].expiresAt \in Nat
    BY <2>6, Zenon DEF Flow
  <2> QED BY <2>4, <2>5, <2>6, <2>7
<1> QED BY <1>1, Invariance, PTL DEF Spec, StartupSweepsAll
-----------------------------------------------------------------------------
\* No event of a flow is terminal.
Calm(f) ==
    /\ \A n \in DOMAIN f.events : f.events[n].doc \notin Terminal
    /\ \A m \in Members(f) : m.doc \notin Terminal

\* A terminal event ends its flow at once, so no stored flow has one.
CalmFlows == \A k \in OpenFlows : Calm(flows[k])

\* What ReasonHonest says of one document.
Honest(d) ==
    /\ d.reason = "timeout" => d.finalizedAt >= d.firstObservedAt + Timeout
    /\ d.reason = "invocations_complete" => d.incomplete = Cardinality({})
    /\ d.reason = "terminal_event" => d.events[Len(d.events)].doc \in Terminal
    /\ \A n \in 1..(Len(d.events) - 1) : d.events[n].doc \notin Terminal
    /\ MaxEvents > 0 => Len(d.events) <= MaxEvents

\* Every record is honest, wherever it is.
HonestRecords ==
    /\ \A id \in DOMAIN outbox : Honest(outbox[id])
    /\ \A id \in DOMAIN dead : Honest(dead[id])
    /\ \A id \in DOMAIN settled : Honest(settled[id])

\* A new flow has no events.
LEMMA OpenCalm ==
    ASSUME NEW e \in Event
    PROVE  /\ Calm(Open(e)) /\ ~Open(e).terminalSeen
           /\ MaxEvents > 0 => Len(Open(e).events) < MaxEvents
<1>1. Open(e).events = << >> /\ Open(e).terminalSeen = FALSE
  BY Zenon DEF Open
<1>2. Observed(Open(e)) = {}
  BY Zenon DEF Open, Observed
<1>3. Members(Open(e)) = {}
  BY <1>2 DEF Members
<1>4. Calm(Open(e))
  <2>1. DOMAIN << >> = {}
    OBVIOUS
  <2> QED BY <1>1, <1>3, <2>1, Zenon DEF Calm
<1>5. MaxEvents > 0 => Len(Open(e).events) < MaxEvents
  <2>1. Len(Open(e).events) = 0
    BY <1>1
  <2> QED BY Zenon, <2>1, FlowAssumption
<1> QED BY <1>1, <1>4, <1>5, Zenon

\* After one event, only the last one can be terminal, and then the flow has
\* seen it: a repetition of a member is not terminal.
LEMMA TakesLast ==
    ASSUME NEW f \in Flow, NEW g \in Flow, NEW e \in Event,
           Takes(f, g, e), Calm(f), ~f.terminalSeen,
           MaxEvents > 0 => Len(f.events) < MaxEvents
    PROVE  /\ \A n \in 1..(Len(g.events) - 1) : g.events[n].doc \notin Terminal
           /\ g.terminalSeen => g.events[Len(g.events)].doc \in Terminal
           /\ MaxEvents > 0 => Len(g.events) <= MaxEvents
           /\ ~g.terminalSeen => Calm(g)
<1>1. f.events \in Seq(Event) /\ g.events \in Seq(Event) /\ Len(f.events) \in Nat
  BY DEF Flow
<1>2. g.terminalSeen <=> e.doc \in Terminal
  BY Zenon DEF Takes
<1>3. ~g.terminalSeen => \A m \in Members(g) : m.doc \notin Terminal
  BY <1>2, Zenon DEF Takes, Calm
<1>4. \A n \in 1..Len(f.events) : f.events[n].doc \notin Terminal
  <2>1. DOMAIN f.events = 1..Len(f.events)
    BY <1>1
  <2> QED BY <2>1, Zenon DEF Calm
<1>5. CASE g.events = Append(f.events, e)
  <2>1. /\ Len(g.events) = Len(f.events) + 1
        /\ \A n \in 1..Len(f.events) : g.events[n] = f.events[n]
        /\ g.events[Len(f.events) + 1] = e
        /\ DOMAIN g.events = 1..(Len(f.events) + 1)
    BY <1>1, <1>5
  <2>2. \A n \in 1..(Len(g.events) - 1) : g.events[n].doc \notin Terminal
    BY <1>1, <1>4, <2>1
  <2>3. ~g.terminalSeen => \A n \in DOMAIN g.events : g.events[n].doc \notin Terminal
    BY <1>1, <1>2, <1>4, <2>1
  <2>4. MaxEvents > 0 => Len(g.events) <= MaxEvents
    BY <1>1, <2>1, FlowAssumption
  <2>5. g.terminalSeen => g.events[Len(g.events)].doc \in Terminal
    BY Zenon, <1>2, <2>1
  <2> QED BY <1>3, <2>2, <2>3, <2>4, <2>5, Zenon DEF Calm
<1>6. CASE g.events = f.events /\ \E m \in Members(f) : m.doc = e.doc
  <2>1. ~g.terminalSeen
    BY <1>2, <1>6, Zenon DEF Calm
  <2>2. \A n \in 1..(Len(g.events) - 1) : g.events[n].doc \notin Terminal
    BY <1>1, <1>4, <1>6
  <2>3. MaxEvents > 0 => Len(g.events) <= MaxEvents
    BY <1>1, <1>6, FlowAssumption
  <2> QED BY <1>3, <1>6, <2>1, <2>2, <2>3, Zenon DEF Calm
<1> QED BY <1>5, <1>6, Zenon DEF Takes

\* A flow that is complete misses nothing.
LEMMA CompleteMissesNothing ==
    ASSUME NEW f, AllComplete(f)
    PROVE  Cardinality(IncompleteInvocations(f)) = Cardinality({})
BY Zenon DEF AllComplete

\* The reasons ShouldClose gives.
LEMMA VerdictReason ==
    ASSUME NEW f \in Flow, NEW now \in Nat, ShouldClose(f, now).reason # None
    PROVE  LET reason == ShouldClose(f, now).reason
           IN  /\ reason # "timeout"
               /\ reason = "terminal_event" => f.terminalSeen
               /\ reason = "invocations_complete" => AllComplete(f)
BY Zenon DEF ShouldClose

\* The record of a flow that an event ends is honest.
LEMMA CloseHonest ==
    ASSUME NEW f \in Flow, NEW g \in Flow, NEW e \in Event, NEW now \in Nat,
           Takes(f, g, e), Calm(f), ~f.terminalSeen,
           MaxEvents > 0 => Len(f.events) < MaxEvents,
           ShouldClose(g, now).reason # None
    PROVE  Honest(Finalize(g, ShouldClose(g, now).reason, now))
<1> DEFINE reason == ShouldClose(g, now).reason
           d == Finalize(g, reason, now)
<1>1. /\ d.reason = reason /\ d.events = g.events
      /\ d.incomplete = Cardinality(IncompleteInvocations(g))
  BY Zenon DEF Finalize
<1>2. /\ reason # "timeout"
      /\ reason = "terminal_event" => g.terminalSeen
      /\ reason = "invocations_complete" => AllComplete(g)
  BY VerdictReason, Zenon
<1> HIDE DEF d, reason
<1>3. reason = "invocations_complete" => d.incomplete = Cardinality({})
  BY <1>1, <1>2, CompleteMissesNothing, Zenon
<1>4. /\ \A n \in 1..(Len(g.events) - 1) : g.events[n].doc \notin Terminal
      /\ g.terminalSeen => g.events[Len(g.events)].doc \in Terminal
      /\ MaxEvents > 0 => Len(g.events) <= MaxEvents
  BY TakesLast, Zenon
<1>5. Honest(d)
  BY <1>1, <1>2, <1>3, <1>4, Zenon DEF Honest
<1> QED BY Zenon, <1>5 DEF d, reason

\* A sweep that names timeout has waited for the whole budget: a flow that is
\* due earlier has finished settling and is complete.
LEMMA SweepHonest ==
    ASSUME NEW f \in Flow, Stored(f), Calm(f), NEW now \in Nat, f.expiresAt <= now,
           NEW reason,
           \/ reason = "rule_unavailable"
           \/ reason = "timeout" /\ ShouldClose(f, now).reason = None
           \/ reason = ShouldClose(f, now).reason /\ reason # None
    PROVE  Honest(Finalize(f, reason, now))
<1> DEFINE d == Finalize(f, reason, now)
<1>1. /\ d.reason = reason /\ d.events = f.events
      /\ d.incomplete = Cardinality(IncompleteInvocations(f))
      /\ d.finalizedAt = now /\ d.firstObservedAt = f.firstObservedAt
  BY Zenon DEF Finalize
<1>2. f.events \in Seq(Event) /\ Len(f.events) \in Nat
  BY DEF Flow
<1>3. ~f.terminalSeen /\ (MaxEvents > 0 => Len(f.events) < MaxEvents)
  BY <1>2, FlowAssumption DEF Stored, LimitReached
<1>4. \A n \in 1..(Len(f.events) - 1) : f.events[n].doc \notin Terminal
  BY <1>2 DEF Calm
<1>5. MaxEvents > 0 => Len(f.events) <= MaxEvents
  BY <1>2, <1>3, FlowAssumption
<1>6. reason # "terminal_event"
  BY <1>3, VerdictReason, Zenon
<1>7. reason = "invocations_complete" => AllComplete(f)
  BY VerdictReason, Zenon
<1>8. reason = "invocations_complete" => d.incomplete = Cardinality({})
  BY <1>1, <1>7, CompleteMissesNothing, Zenon
<1>9. ASSUME reason = "timeout" PROVE now >= f.firstObservedAt + Timeout
  <2>1. ShouldClose(f, now).reason = None
    BY <1>9, VerdictReason, Zenon
  <2>2. None \notin {"terminal_event", "limit_exceeded", "invocations_complete"}
    BY Zenon, NoneAssumption DEF CloseReason
  <2>3. /\ f.timeoutAt \in Nat /\ f.expiresAt \in Nat /\ f.settleUntil \in Nat
        /\ f.firstObservedAt \in Nat
    <3>1. f.timeoutAt \in Nat /\ f.expiresAt \in Nat /\ f.settleUntil \in Nat
      BY Zenon DEF Flow
    <3>2. f.firstObservedAt \in 1..MaxTime
      BY Zenon DEF Flow
    <3> QED BY <3>1, <3>2, CorrelationAssumption
  <2>4. f.timeoutAt = f.firstObservedAt + Timeout
    BY Zenon DEF Stored, Budgeted
  <2>5. f.expiresAt = f.timeoutAt \/ (f.settleUntil # 0 /\ f.expiresAt = f.settleUntil)
    BY Zenon DEF Stored, Budgeted
  <2>6. CASE f.settleUntil = 0
    BY Zenon, <2>3, <2>4, <2>5, <2>6
  <2>7. CASE f.settleUntil # 0
    <3>1. AllComplete(f)
      BY Zenon, <2>7 DEF Stored
    <3>2. now < f.settleUntil
      BY Zenon, <1>3, <2>1, <2>2, <2>7, <3>1 DEF ShouldClose, Stored
    <3> QED BY <2>3, <2>4, <2>5, <3>2
  <2> QED BY Zenon, <2>6, <2>7
<1> HIDE DEF d
<1>10. Honest(d)
  BY <1>1, <1>4, <1>5, <1>6, <1>8, <1>9, Zenon DEF Honest
<1> QED BY Zenon, <1>10 DEF d

\* No step stores a flow with a terminal event, or a record that is not honest.
LEMMA HonestStep ==
    ASSUME IInv, CalmFlows, HonestRecords, [Next]_vars
    PROVE  CalmFlows' /\ HonestRecords'
<1>0. TypeOK /\ StoredFlows /\ ExpiryIndexExact
  BY Zenon DEF IInv
<1>a. (\A k \in OpenFlows' : Calm(flows'[k])) => CalmFlows'
  BY Zenon DEF CalmFlows
<1>b. /\ \A id \in DOMAIN outbox' : Honest(outbox'[id])
      /\ \A id \in DOMAIN dead' : Honest(dead'[id])
      /\ \A id \in DOMAIN settled' : Honest(settled'[id])
      => HonestRecords'
  BY Zenon DEF HonestRecords, Honest
<1>1. ASSUME NEW w \in Worker, AcceptTx(w) PROVE CalmFlows' /\ HonestRecords'
  <2> DEFINE e == batch[w][1]
             f == Current(e)
             g == Apply(f, e)
  <2>1. /\ e \in Event /\ e.key \in Key /\ f \in Flow /\ FlagsExact(f) /\ Budgeted(f) /\ g \in Flow
        /\ \/ \E h \in Flow : Saves(e.key, h) /\ SameBody(h, g)
           \/ Ends(e.key, g) /\ \E now \in Nat : Closes(e.key, g, now)
    BY <1>0, <1>1, AcceptDetail, Zenon
  <2>2. dead' = dead /\ settled' = settled
    BY <1>1, Zenon DEF AcceptTx, deliveryVars
  <2> HIDE DEF e
  <2>3. Calm(f) /\ ~f.terminalSeen /\ (MaxEvents > 0 => Len(f.events) < MaxEvents)
    <3>1. CASE flows[e.key] = None
      BY <2>1, <3>1, OpenCalm, Zenon DEF Current
    <3>2. CASE flows[e.key] # None
      <4>1. f = flows[e.key] /\ e.key \in OpenFlows
        BY <2>1, <3>2, Zenon DEF Current, OpenFlows
      <4>2. Calm(f) /\ Stored(f)
        BY <1>0, <4>1, Zenon DEF CalmFlows, StoredFlows
      <4> HIDE DEF f
      <4>3. f.events \in Seq(Event)
        BY Zenon, <2>1 DEF Flow
      <4>4. MaxEvents > 0 => Len(f.events) < MaxEvents
        BY <4>2, <4>3, FlowAssumption DEF Stored, LimitReached
      <4> QED BY <4>2, <4>4, Zenon DEF Stored
    <3> QED BY Zenon, <3>1, <3>2
  <2> HIDE DEF f
  <2>4. Takes(f, g, e)
    BY Zenon, <2>1, ApplyTakes
  <2> HIDE DEF g
  <2>5. ASSUME NEW h \in Flow, Saves(e.key, h), SameBody(h, g)
        PROVE  CalmFlows' /\ HonestRecords'
    <3>1. ~g.terminalSeen
      BY <2>5, Zenon DEF Saves, Stored, SameBody
    <3>2. Calm(g)
      BY <2>1, <2>3, <2>4, <3>1, TakesLast, Zenon
    <3>3. Calm(h)
      <4>1. Members(h) = Members(g) /\ h.events = g.events
        BY <2>5, SameMembers, Zenon DEF SameBody
      <4> QED BY <3>2, <4>1, Zenon DEF Calm
    <3>4. \A k \in OpenFlows' : flows'[k] = h \/ (k \in OpenFlows /\ flows'[k] = flows[k])
      BY <1>0, <2>1, <2>5, Zenon DEF Saves, OpenFlows, TypeOK
    <3>5. outbox' = outbox
      BY Zenon, <2>5 DEF Saves
    <3>6. CalmFlows'
      BY <1>a, <3>3, <3>4, Zenon DEF CalmFlows
    <3>7. HonestRecords'
      BY <1>b, <2>2, <3>5, Zenon DEF HonestRecords
    <3> QED BY Zenon, <3>6, <3>7
  <2>6. ASSUME Ends(e.key, g), NEW now \in Nat, Closes(e.key, g, now)
        PROVE  CalmFlows' /\ HonestRecords'
    <3>1. Honest(Finalize(g, ShouldClose(g, now).reason, now))
      BY <2>1, <2>3, <2>4, <2>6, CloseHonest, Zenon DEF Closes
    <3>2. \A k \in OpenFlows' : k \in OpenFlows /\ flows'[k] = flows[k]
      BY <1>0, <2>1, <2>6, Zenon DEF Ends, OpenFlows, TypeOK
    <3>3. \A id \in DOMAIN outbox' : Honest(outbox'[id])
      BY <2>6, <3>1, Zenon DEF Closes, HonestRecords
    <3>4. CalmFlows'
      BY <1>a, <3>2, Zenon DEF CalmFlows
    <3>5. HonestRecords'
      BY <1>b, <2>2, <3>3, Zenon DEF HonestRecords
    <3> QED BY Zenon, <3>4, <3>5
  <2> QED BY <2>1, <2>5, <2>6, Zenon
<1>2. CASE SweepTx
  <2>1. PICK S \in SUBSET Key :
          /\ Sweeps(S)
          /\ \A k \in S : flows[k].expiresAt <= sweepAt
          /\ outbox' = FinalizeAll(S).outbox
    BY <1>0, <1>2, SweepDetail, Zenon
  <2>2. \A k \in OpenFlows' : k \in OpenFlows /\ flows'[k] = flows[k]
    BY Zenon, <2>1 DEF Sweeps, OpenFlows
  <2>3. dead' = dead /\ settled' = settled
    BY <1>2, Zenon DEF SweepTx, deliveryVars
  <2>4. ASSUME NEW k \in S PROVE Honest(Finalize(flows[k], SweepReason(k), sweepAt))
    <3>1. k \in OpenFlows /\ flows[k] \in Flow
      BY Zenon, <1>0, <2>1 DEF Sweeps, OpenFlows, TypeOK
    <3>2. Stored(flows[k]) /\ Calm(flows[k]) /\ flows[k].expiresAt <= sweepAt
      BY <1>0, <2>1, <3>1, Zenon DEF StoredFlows, CalmFlows
    <3>3. sweepAt \in Nat
      BY <1>0 DEF TypeOK
    <3>4. \/ SweepReason(k) = "rule_unavailable"
          \/ SweepReason(k) = "timeout" /\ ShouldClose(flows[k], sweepAt).reason = None
          \/ SweepReason(k) = ShouldClose(flows[k], sweepAt).reason /\ SweepReason(k) # None
      BY Zenon DEF SweepReason
    <3> QED BY <3>1, <3>2, <3>3, <3>4, SweepHonest, Zenon
  <2>5. ASSUME NEW id \in DOMAIN outbox' PROVE Honest(outbox'[id])
    <3> DEFINE ids == {OutputID(k, flows[k]) : k \in S}
    <3>1. /\ DOMAIN outbox' = DOMAIN outbox \cup ids
          /\ outbox'[id] = IF id \in ids
                           THEN Finalize(flows[id[1]], SweepReason(id[1]), sweepAt)
                           ELSE outbox[id]
      BY <2>1, <2>5, Zenon DEF FinalizeAll
    <3>2. id \in ids => id[1] \in S
      BY DEF OutputID
    <3> HIDE DEF ids
    <3> QED BY <2>4, <2>5, <3>1, <3>2, Zenon DEF HonestRecords
  <2>6. CalmFlows'
    BY <1>a, <2>2, Zenon DEF CalmFlows
  <2>7. HonestRecords'
    BY <1>b, <2>3, <2>5, Zenon DEF HonestRecords
  <2> QED BY Zenon, <2>6, <2>7
<1>3. CASE Deliver \/ Replay
  <2>1. /\ \A x \in DOMAIN outbox' : Honest(outbox'[x])
        /\ \A x \in DOMAIN dead' : Honest(dead'[x])
        /\ \A x \in DOMAIN settled' : Honest(settled'[x])
    <3>1. CASE Deliver
      <4>1. PICK id \in DOMAIN outbox : Resolves(id)
        BY <3>1, DeliverEffect, Zenon
      <4> QED BY <4>1, Zenon DEF Resolves, HonestRecords
    <3>2. CASE Replay
      <4>1. PICK R \in SUBSET DOMAIN dead : Replays(R)
        BY <3>2, ReplayEffect, Zenon
      <4> QED BY <4>1, Zenon DEF Replays, HonestRecords
    <3> QED BY Zenon, <1>3, <3>1, <3>2
  <2>2. flows' = flows
    BY <1>3, Zenon DEF Deliver, Replay
  <2>3. CalmFlows'
    BY <1>a, <2>2, Zenon DEF CalmFlows, OpenFlows
  <2> QED BY <1>b, <2>1, <2>3, Zenon
<1>4. CASE UNCHANGED <<flows, outbox, dead, settled>>
  <2>1. CalmFlows'
    BY <1>a, <1>4, Zenon DEF CalmFlows, OpenFlows
  <2>2. HonestRecords'
    BY <1>b, <1>4, Zenon DEF HonestRecords
  <2> QED BY Zenon, <2>1, <2>2
<1> QED
  BY <1>1, <1>2, <1>3, <1>4, Zenon DEF Next, vars, storeVars, deliveryVars, requestVars, Tick,
     Receive, Request, CheckOpenFlows, CheckOutbox, AcceptFails, Sweep, SweepBegin, Reload, Restart
=============================================================================
