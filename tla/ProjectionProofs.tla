-------------------------- MODULE ProjectionProofs --------------------------
(***************************************************************************)
(* Proofs about the document of a flow, for any rules, documents, number   *)
(* of events and order of arrival.                                         *)
(*   - Every stored event is in the slot its document names or aside as a  *)
(*     plain entry, never in both, and no two entries have the same order  *)
(*     (Filed).  Apply keeps this, case by case.                           *)
(*   - So the timeline lists every entry once, and an event is in one of   *)
(*     them; looking it up by value can only find the slot it is in.       *)
(*   - The times are a recursive function of the events; they are the      *)
(*     bounds of the stamps seen so far, or the first turn where they are  *)
(*     not would contradict the turn before.                               *)
(***************************************************************************)
EXTENDS Projection, WellFoundedInduction, TLAPS

\* A non-empty set of naturals has a least element.
LEMMA NatLeast ==
    ASSUME NEW T, T \subseteq Nat, T # {}
    PROVE  \E x \in T : \A y \in T : x <= y
<1>1. PICK x \in T : \A y \in T : ~(<<y, x>> \in OpToRel(<, Nat))
  BY NatLessThanWellFounded, WFMin, Zenon
<1>2. ASSUME NEW y \in T, y < x
      PROVE  <<y, x>> \in OpToRel(<, Nat)
  BY <1>2 DEF OpToRel
<1> QED
  <2> SUFFICES ASSUME NEW y \in T PROVE x <= y
    OBVIOUS
  <2>1. ~(y < x)
    BY <1>1, <1>2, Zenon
  <2> QED
    BY <2>1

(***************************************************************************)
(* The projection.  Where an event of the flow is: in the slot its         *)
(* document names, or aside as a plain entry because it names none or      *)
(* another document holds it.                                              *)
(***************************************************************************)

\* Who holds a role of an invocation, and the slot a document names.
Holder(I, i, r) == IF I[i] = None THEN None ELSE I[i].members[r]

Taken(I, d) == Holder(I, SlotOf[d].inv, SlotOf[d].role)

\* A member is in the slot its document names (flow.go, Apply).
Seated(I) ==
    \A i \in Invocation, r \in Role :
        Holder(I, i, r) # None => SlotOf[Holder(I, i, r).doc] = [inv |-> i, role |-> r]

\* Plain entries have distinct events, of the first n arrivals, and an event
\* that names a slot is one because another document holds it.
Aside(I, P, n) ==
    /\ \A p \in 1..Len(P) : P[p].event.id <= n
    /\ \A p, q \in 1..Len(P) : p < q => P[p].event.id < P[q].event.id
    /\ \A p \in 1..Len(P) :
         \/ SlotOf[P[p].event.doc] = None
         \/ /\ Taken(I, P[p].event.doc) # None
            /\ Taken(I, P[p].event.doc).doc # P[p].event.doc

\* Every stored event is in one of the two places.
Located(E, I, P) ==
    \A a \in 1..Len(E) :
        \/ \E p \in 1..Len(P) : P[p].event = E[a]
        \/ SlotOf[E[a].doc] # None /\ Taken(I, E[a].doc) = E[a]

\* No two entries were given the same order.
Ordered(I, P, k) ==
    /\ \A p \in 1..Len(P) : P[p].order < k
    /\ \A i \in Invocation : I[i] # None => I[i].order < k
    /\ \A p, q \in 1..Len(P) : p # q => P[p].order # P[q].order
    /\ \A i, j \in Invocation : I[i] # None /\ I[j] # None /\ i # j => I[i].order # I[j].order
    /\ \A p \in 1..Len(P), i \in Invocation : I[i] # None => P[p].order # I[i].order

\* A flow that took n arrivals.
Filed(f, n) ==
    /\ f \in Flow
    /\ Len(f.events) + f.duplicates = n
    /\ Seated(f.invocations)
    /\ Aside(f.invocations, f.plain, n)
    /\ Located(f.events, f.invocations, f.plain)
    /\ Ordered(f.invocations, f.plain, f.nextOrder)
-----------------------------------------------------------------------------
Invocations == [Invocation -> Stitched \cup {None}]

\* A slot is an invocation and a role.
LEMMA SlotParts ==
    ASSUME NEW d \in Document, SlotOf[d] # None
    PROVE  /\ SlotOf[d] \in Slot /\ SlotOf[d].inv \in Invocation /\ SlotOf[d].role \in Role
           /\ SlotOf[d] = [inv |-> SlotOf[d].inv, role |-> SlotOf[d].role]
BY FlowAssumption DEF Slot

\* The parts of a flow.
LEMMA FlowParts ==
    ASSUME NEW f \in Flow
    PROVE  /\ f.events \in Seq(Event) /\ f.plain \in Seq(PlainEntry)
           /\ f.invocations \in Invocations
           /\ f.duplicates \in Nat /\ f.nextOrder \in Nat /\ f.anomalies \in Nat
           /\ Len(f.events) \in Nat /\ Len(f.plain) \in Nat
<1>1. /\ f.events \in Seq(Event) /\ f.plain \in Seq(PlainEntry)
      /\ f.invocations \in Invocations
      /\ f.duplicates \in Nat /\ f.nextOrder \in Nat /\ f.anomalies \in Nat
  BY Zenon DEF Flow, Invocations
<1> QED BY <1>1

\* The parts of an event, of a plain entry and of an invocation.
LEMMA EventParts ==
    ASSUME NEW e \in Event
    PROVE  /\ e.doc \in Document /\ e.observedAt \in 1..MaxTime /\ e.observedAt \in Nat
           /\ e.id \in Nat /\ e # None
BY ProjectionAssumption DEF Event

LEMMA PlainParts ==
    ASSUME NEW P \in Seq(PlainEntry), NEW p \in 1..Len(P)
    PROVE  P[p] \in PlainEntry /\ P[p].event \in Event /\ P[p].order \in Nat
<1>1. P[p] \in PlainEntry
  OBVIOUS
<1> QED BY <1>1, Zenon DEF PlainEntry

LEMMA StitchedParts ==
    ASSUME NEW v \in Stitched
    PROVE  /\ v.members \in [Role -> Event \cup {None}] /\ v.duplicates \in Nat
           /\ v.firstObservedAt \in Nat /\ v.order \in Nat /\ v # None
BY ProjectionAssumption DEF Stitched

\* What holds of the slots holds as long as their holders are the same.
Alike(I, J) == \A i \in Invocation, r \in Role : Holder(J, i, r) = Holder(I, i, r)

LEMMA SameHolders ==
    ASSUME NEW I, NEW J, NEW E \in Seq(Event), NEW P \in Seq(PlainEntry), NEW n,
           Alike(I, J), Seated(I), Aside(I, P, n), Located(E, I, P)
    PROVE  Seated(J) /\ Aside(J, P, n) /\ Located(E, J, P)
<1>1. \A d \in Document : SlotOf[d] # None => Taken(J, d) = Taken(I, d)
  BY SlotParts, Zenon DEF Taken, Alike
<1>2. /\ \A a \in 1..Len(E) : E[a].doc \in Document
      /\ \A p \in 1..Len(P) : P[p].event.doc \in Document
  <2>1. \A a \in 1..Len(E) : E[a] \in Event
    OBVIOUS
  <2> QED BY <2>1, EventParts, PlainParts, Zenon
<1>3. Seated(J)
  BY Zenon DEF Seated, Alike
<1>4. Aside(J, P, n)
  BY <1>1, <1>2, Zenon DEF Aside
<1>5. Located(E, J, P)
  BY <1>1, <1>2, Zenon DEF Located
<1> QED BY <1>3, <1>4, <1>5
-----------------------------------------------------------------------------
\* Storing an event appends it (flow.go, storeEvent).
LEMMA StoreEventParts ==
    ASSUME NEW f \in Flow, NEW e \in Event
    PROVE  LET g == StoreEvent(f, e)
           IN  /\ g \in Flow /\ g.events = Append(f.events, e)
               /\ g.invocations = f.invocations /\ g.plain = f.plain
               /\ g.duplicates = f.duplicates /\ g.nextOrder = f.nextOrder
<1> DEFINE bytes == f.bytes + Size[e.doc]
           over == \/ f.limitExceeded
                   \/ MaxEventBytes > 0 /\ Size[e.doc] > MaxEventBytes
                   \/ MaxFlowBytes > 0 /\ bytes > MaxFlowBytes
           longer == Append(f.events, e)
           g == StoreEvent(f, e)
<1>1. g = [f EXCEPT !.events = longer, !.bytes = bytes, !.limitExceeded = over]
  BY Zenon DEF StoreEvent
<1>2. over \in BOOLEAN
  BY Zenon
<1>3. bytes \in Nat
  <2>1. f.bytes \in Nat /\ Size[e.doc] \in Nat
    BY EventParts, FlowAssumption, Zenon DEF Flow
  <2> QED BY <2>1
<1>4. longer \in Seq(Event)
  BY FlowParts
<1> HIDE DEF over, bytes, longer
<1>5. g \in Flow
  BY <1>1, <1>2, <1>3, <1>4, ZenonT(60) DEF Flow
<1>6. /\ g.events = longer /\ g.invocations = f.invocations /\ g.plain = f.plain
      /\ g.duplicates = f.duplicates /\ g.nextOrder = f.nextOrder
  BY <1>1 DEF Flow
<1> QED BY <1>5, <1>6, Zenon DEF longer

\* The flags and counters that nothing below looks at.
LEMMA OtherFields ==
    ASSUME NEW f \in Flow, NEW b \in BOOLEAN, NEW n, Filed(f, n)
    PROVE  /\ Filed([f EXCEPT !.terminalSeen = b], n)
           /\ [f EXCEPT !.terminalSeen = b].invocations = f.invocations
           /\ Filed([f EXCEPT !.anomalies = @ + 1], n)
           /\ [f EXCEPT !.anomalies = @ + 1].invocations = f.invocations
<1> DEFINE g == [f EXCEPT !.terminalSeen = b]
           h == [f EXCEPT !.anomalies = f.anomalies + 1]
<1>1. f.anomalies + 1 \in Nat
  BY FlowParts
<1>2. g \in Flow /\ h \in Flow
  BY <1>1, Zenon DEF Flow
<1>3. /\ g.events = f.events /\ g.invocations = f.invocations /\ g.plain = f.plain
      /\ g.duplicates = f.duplicates /\ g.nextOrder = f.nextOrder
  BY DEF Flow
<1>4. /\ h.events = f.events /\ h.invocations = f.invocations /\ h.plain = f.plain
      /\ h.duplicates = f.duplicates /\ h.nextOrder = f.nextOrder
  BY DEF Flow
<1>5. h = [f EXCEPT !.anomalies = @ + 1]
  OBVIOUS
<1> HIDE DEF g, h
<1>6. Filed(g, n) /\ Filed(h, n)
  BY <1>2, <1>3, <1>4, Zenon DEF Filed
<1> QED BY <1>3, <1>4, <1>5, <1>6 DEF g

\* A new invocation has no members and the next order.
LEMMA WithInvocationFiled ==
    ASSUME NEW f, NEW n, Filed(f, n), NEW e \in Event, NEW i \in Invocation
    PROVE  LET g == WithInvocation(f, i, e) IN Filed(g, n) /\ g.invocations[i] \in Stitched
<1> DEFINE g == WithInvocation(f, i, e)
           fresh == [members  |-> [r \in Role |-> None], complete |-> FALSE,
                     duplicates |-> 0, firstObservedAt |-> e.observedAt, order |-> f.nextOrder]
           I == f.invocations
           J == [I EXCEPT ![i] = fresh]
           k == f.nextOrder
<1>1. /\ f \in Flow /\ Len(f.events) + f.duplicates = n
      /\ Seated(I) /\ Aside(I, f.plain, n) /\ Located(f.events, I, f.plain)
      /\ Ordered(I, f.plain, k)
  BY Zenon DEF Filed
<1>2. I \in Invocations /\ k \in Nat /\ f.events \in Seq(Event) /\ f.plain \in Seq(PlainEntry)
  BY <1>1, FlowParts, Zenon
<1>3. CASE I[i] # None
  <2>1. g = f
    BY <1>3, Zenon DEF WithInvocation
  <2>2. I[i] \in Stitched
    BY <1>2, <1>3 DEF Invocations
  <2> QED BY <2>1, <2>2, Zenon
<1>4. CASE I[i] = None
  <2>1. fresh \in Stitched /\ fresh.order = k /\ \A r \in Role : fresh.members[r] = None
    BY <1>2, EventParts DEF Stitched
  <2>2. g = [f EXCEPT !.invocations = J, !.nextOrder = k + 1]
    BY <1>1, <1>4 DEF WithInvocation, Flow
  <2> HIDE DEF fresh
  <2>3. J \in Invocations /\ \A j \in Invocation : J[j] = IF j = i THEN fresh ELSE I[j]
    BY <1>2, <2>1 DEF Invocations
  <2> HIDE DEF J, g
  <2>4. k + 1 \in Nat
    BY <1>2
  <2>5. g \in Flow
    BY <1>1, <2>2, <2>3, <2>4, Zenon DEF Flow, Invocations
  <2>6. /\ g.events = f.events /\ g.invocations = J /\ g.plain = f.plain
        /\ g.duplicates = f.duplicates /\ g.nextOrder = k + 1
    BY <1>1, <2>2 DEF Flow
  <2>7. Alike(I, J)
    BY <1>4, <2>1, <2>3 DEF Alike, Holder
  <2>8. Seated(J) /\ Aside(J, f.plain, n) /\ Located(f.events, J, f.plain)
    BY <1>1, <1>2, <2>7, SameHolders
  <2>9. Ordered(J, f.plain, k + 1)
    <3>1. \A p \in 1..Len(f.plain) : f.plain[p].order \in Nat
      BY <1>2, PlainParts, Zenon
    <3>2. \A j \in Invocation : I[j] # None => I[j].order \in Nat
      BY <1>2, StitchedParts DEF Invocations
    <3> DEFINE P == f.plain
    <3> HIDE DEF I, k, P
    <3>3. /\ \A p \in 1..Len(P) : P[p].order < k
          /\ \A j \in Invocation : I[j] # None => I[j].order < k
          /\ \A p, q \in 1..Len(P) : p # q => P[p].order # P[q].order
          /\ \A j, l \in Invocation : I[j] # None /\ I[l] # None /\ j # l => I[j].order # I[l].order
          /\ \A p \in 1..Len(P), j \in Invocation : I[j] # None => P[p].order # I[j].order
      BY <1>1, Zenon DEF Ordered, P
    <3>4. k < k + 1 /\ \A x \in Nat : x < k => x < k + 1 /\ x # k
      BY <1>2
    <3>5. \A p \in 1..Len(P) : P[p].order < k + 1 /\ P[p].order # k
      BY <3>1, <3>3, <3>4, Zenon DEF P
    <3>6. \A j \in Invocation : I[j] # None => I[j].order < k + 1 /\ I[j].order # k
      BY <3>2, <3>3, <3>4, Zenon
    <3>7. ASSUME NEW j \in Invocation, J[j] # None
          PROVE  \/ j = i /\ J[j].order = k
                 \/ j # i /\ I[j] # None /\ J[j].order = I[j].order
      BY <2>1, <2>3, <3>7
    <3>8. \A j \in Invocation : J[j] # None => J[j].order < k + 1
      BY <3>4, <3>6, <3>7, Zenon
    <3>9. ASSUME NEW j \in Invocation, NEW l \in Invocation, J[j] # None, J[l] # None, j # l
          PROVE  J[j].order # J[l].order
      BY <3>3, <3>6, <3>7, <3>9, Zenon
    <3>10. ASSUME NEW p \in 1..Len(P), NEW j \in Invocation, J[j] # None
           PROVE  P[p].order # J[j].order
      BY <3>3, <3>5, <3>7, <3>10, Zenon
    <3> QED BY <3>3, <3>5, <3>8, <3>9, <3>10, Zenon DEF Ordered, P
  <2>10. Filed(g, n)
    BY <1>1, <2>5, <2>6, <2>8, <2>9, Zenon DEF Filed
  <2> QED BY <2>1, <2>3, <2>6, <2>10, Zenon DEF g
<1> QED BY <1>3, <1>4, Zenon

\* Numbers of later arrivals do not matter to the plain entries.
LEMMA AsideLater ==
    ASSUME NEW I, NEW P \in Seq(PlainEntry), NEW n \in Nat, Aside(I, P, n)
    PROVE  Aside(I, P, n + 1)
<1>1. \A p \in 1..Len(P) : P[p].event.id \in Nat
  BY EventParts, PlainParts, Zenon
<1>2. ASSUME NEW p \in 1..Len(P) PROVE P[p].event.id <= n + 1
  <2>1. P[p].event.id <= n
    BY Zenon DEF Aside
  <2> QED BY <1>1, <2>1
<1> QED BY <1>2, Zenon DEF Aside

\* Changing an invocation but not its order.
LEMMA OrderedSame ==
    ASSUME NEW I, NEW J, NEW P, NEW k, Ordered(I, P, k),
           \A i \in Invocation : /\ J[i] # None <=> I[i] # None
                                 /\ I[i] # None => J[i].order = I[i].order
    PROVE  Ordered(J, P, k)
<1>1. /\ \A p \in 1..Len(P) : P[p].order < k
      /\ \A p, q \in 1..Len(P) : p # q => P[p].order # P[q].order
  BY Zenon DEF Ordered
<1>2. \A i \in Invocation : J[i] # None => J[i].order < k
  BY Zenon DEF Ordered
<1>3. ASSUME NEW i \in Invocation, NEW j \in Invocation, J[i] # None, J[j] # None, i # j
      PROVE  J[i].order # J[j].order
  <2>1. I[i].order # I[j].order
    BY <1>3, Zenon DEF Ordered
  <2> QED BY <1>3, <2>1, Zenon
<1>4. ASSUME NEW p \in 1..Len(P), NEW i \in Invocation, J[i] # None
      PROVE  P[p].order # J[i].order
  <2>1. P[p].order # I[i].order
    BY <1>4, Zenon DEF Ordered
  <2> QED BY <1>4, <2>1, Zenon
<1> QED BY <1>1, <1>2, <1>3, <1>4, Zenon DEF Ordered

\* A duplicate is counted in the flow and in its invocation.
LEMMA CountDuplicateFiled ==
    ASSUME NEW f, NEW n \in Nat, Filed(f, n), NEW slot \in Slot,
           f.invocations[slot.inv] \in Stitched
    PROVE  Filed(CountDuplicate(f, slot), n + 1)
<1> DEFINE i == slot.inv
           old == f.invocations[i]
           new == [old EXCEPT !.duplicates = old.duplicates + 1]
           I == f.invocations
           J == [I EXCEPT ![i] = new]
           P == f.plain
           k == f.nextOrder
           g == CountDuplicate(f, slot)
<1>1. /\ f \in Flow /\ Len(f.events) + f.duplicates = n
      /\ Seated(I) /\ Aside(I, P, n) /\ Located(f.events, I, P) /\ Ordered(I, P, k)
  BY Zenon DEF Filed
<1>2. /\ I \in Invocations /\ f.events \in Seq(Event) /\ P \in Seq(PlainEntry)
      /\ f.duplicates \in Nat /\ Len(f.events) \in Nat
  BY <1>1, FlowParts, Zenon
<1>3. i \in Invocation
  BY DEF Slot
<1>4. new \in Stitched /\ new.members = old.members /\ new.order = old.order
  BY DEF Stitched
<1>5. g = [f EXCEPT !.duplicates = f.duplicates + 1, !.invocations = J]
  BY <1>1, <1>3 DEF CountDuplicate, Flow
<1> HIDE DEF new
<1>6. J \in Invocations /\ \A j \in Invocation : J[j] = IF j = i THEN new ELSE I[j]
  BY <1>2, <1>3, <1>4 DEF Invocations
<1>7. f.duplicates + 1 \in Nat /\ Len(f.events) + (f.duplicates + 1) = n + 1
  BY <1>1, <1>2
<1> HIDE DEF J, g
<1>8. g \in Flow
  BY <1>1, <1>5, <1>6, <1>7, Zenon DEF Flow, Invocations
<1>9. /\ g.events = f.events /\ g.invocations = J /\ g.plain = P
      /\ g.duplicates = f.duplicates + 1 /\ g.nextOrder = k
  BY <1>1, <1>5 DEF Flow
<1>10. old # None /\ new # None
  BY <1>4, StitchedParts
<1>11. Alike(I, J)
  BY <1>4, <1>6, <1>10 DEF Alike, Holder
<1>12. Seated(J) /\ Aside(J, P, n) /\ Located(f.events, J, P)
  BY <1>1, <1>2, <1>11, SameHolders
<1>13. Aside(J, P, n + 1)
  BY <1>2, <1>12, AsideLater, Zenon
<1>14. Ordered(J, P, k)
  <2>1. \A j \in Invocation : (J[j] # None <=> I[j] # None)
                              /\ (I[j] # None => J[j].order = I[j].order)
    BY <1>4, <1>6, <1>10
  <2> QED BY <1>1, <2>1, OrderedSame
<1> QED BY <1>7, <1>8, <1>9, <1>12, <1>13, <1>14, Zenon DEF Filed, g

\* The sequence q is p and then x.
Longer(q, p, x) ==
    /\ Len(p) \in Nat /\ Len(q) = Len(p) + 1
    /\ Len(p) + 1 \in 1..Len(q) /\ q[Len(p) + 1] = x
    /\ \A a \in 1..Len(p) : a \in 1..Len(q) /\ q[a] = p[a]
    /\ \A a \in 1..Len(q) : a \in 1..Len(p) \/ a = Len(p) + 1

LEMMA AppendLonger ==
    ASSUME NEW S, NEW p \in Seq(S), NEW x \in S
    PROVE  Append(p, x) \in Seq(S) /\ Longer(Append(p, x), p, x)
<1> DEFINE l == Len(p)
           q == Append(p, x)
<1>1. /\ l \in Nat /\ Len(q) = l + 1 /\ q \in Seq(S)
      /\ \A a \in 1..(l + 1) : q[a] = IF a = l + 1 THEN x ELSE p[a]
  OBVIOUS
<1> HIDE DEF l, q
<1>2. /\ l \in Nat /\ Len(q) = l + 1 /\ l + 1 \in 1..Len(q) /\ q[l + 1] = x
      /\ \A a \in 1..l : a \in 1..Len(q) /\ q[a] = p[a]
      /\ \A a \in 1..Len(q) : a \in 1..l \/ a = l + 1
  BY <1>1
<1> QED BY <1>1, <1>2, Zenon DEF Longer, l, q

\* One more plain entry, of a later event.
LEMMA AsideLonger ==
    ASSUME NEW I, NEW P \in Seq(PlainEntry), NEW Q, NEW x \in PlainEntry, Longer(Q, P, x),
           NEW n \in Nat, Aside(I, P, n), x.event.id = n + 1,
           \/ SlotOf[x.event.doc] = None
           \/ Taken(I, x.event.doc) # None /\ Taken(I, x.event.doc).doc # x.event.doc
    PROVE  Aside(I, Q, n + 1)
<1> DEFINE l == Len(P)
           id == [a \in 1..Len(Q) |-> Q[a].event.id]
<1>1. /\ l \in Nat /\ Len(Q) = l + 1 /\ l + 1 \in 1..Len(Q) /\ Q[l + 1] = x
      /\ \A a \in 1..l : a \in 1..Len(Q) /\ Q[a] = P[a]
      /\ \A a \in 1..Len(Q) : a \in 1..l \/ a = l + 1
  BY Zenon DEF Longer
<1>2. \A a \in 1..l : P[a].event.id \in Nat /\ P[a].event.id <= n
  BY EventParts, PlainParts, Zenon DEF Aside
<1>3. \A a, b \in 1..l : a < b => P[a].event.id < P[b].event.id
  BY Zenon DEF Aside
<1>4. \A a \in 1..l : id[a] = P[a].event.id
  BY <1>1
<1>5. id[l + 1] = n + 1
  BY <1>1
<1>6. \A a \in 1..Len(Q) : id[a] = Q[a].event.id
  OBVIOUS
<1> HIDE DEF id, l
<1>7. /\ \A a \in 1..l : id[a] \in Nat /\ id[a] <= n
      /\ \A a, b \in 1..l : a < b => id[a] < id[b]
  BY <1>2, <1>3, <1>4, Zenon
<1>8. \A a \in 1..Len(Q) : id[a] <= n + 1
  BY <1>1, <1>5, <1>7
<1>9. ASSUME NEW a \in 1..Len(Q), NEW b \in 1..Len(Q), a < b
      PROVE  id[a] < id[b]
  <2>1. a \in 1..l
    BY <1>1, <1>9
  <2>2. id[a] \in Nat /\ id[a] <= n
    BY <1>7, <2>1, Zenon
  <2>3. CASE b \in 1..l
    BY <1>7, <1>9, <2>1, <2>3, Zenon
  <2>4. CASE b = l + 1
    <3>1. id[b] = n + 1
      BY <1>5, <2>4, Zenon
    <3> QED BY <2>2, <3>1
  <2> QED BY <1>1, <2>3, <2>4, Zenon
<1>10. ASSUME NEW a \in 1..Len(Q)
       PROVE  \/ SlotOf[Q[a].event.doc] = None
              \/ Taken(I, Q[a].event.doc) # None /\ Taken(I, Q[a].event.doc).doc # Q[a].event.doc
  <2>1. CASE a = l + 1
    BY <1>1, <2>1, Zenon
  <2>2. CASE a \in 1..l
    BY <1>1, <2>2, Zenon DEF Aside, l
  <2> QED BY <1>1, <2>1, <2>2, Zenon
<1>11. \A a \in 1..Len(Q) : Q[a].event.id <= n + 1
  BY <1>6, <1>8, Zenon
<1>12. \A a, b \in 1..Len(Q) : a < b => Q[a].event.id < Q[b].event.id
  BY <1>6, <1>9, Zenon
<1> QED BY <1>10, <1>11, <1>12, Zenon DEF Aside

LEMMA OrderedLonger ==
    ASSUME NEW I \in Invocations, NEW P \in Seq(PlainEntry), NEW Q, NEW x \in PlainEntry,
           Longer(Q, P, x), NEW k \in Nat, Ordered(I, P, k), x.order = k
    PROVE  Ordered(I, Q, k + 1)
<1> DEFINE l == Len(P)
           o == [a \in 1..Len(Q) |-> Q[a].order]
           On == {i \in Invocation : I[i] # None}
           t == [i \in On |-> I[i].order]
<1>1. /\ l \in Nat /\ Len(Q) = l + 1 /\ l + 1 \in 1..Len(Q) /\ Q[l + 1] = x
      /\ \A a \in 1..l : a \in 1..Len(Q) /\ Q[a] = P[a]
      /\ \A a \in 1..Len(Q) : a \in 1..l \/ a = l + 1
  BY Zenon DEF Longer
<1>2. \A a \in 1..l : P[a].order \in Nat
  BY PlainParts, Zenon
<1>3. \A i \in On : t[i] \in Nat /\ t[i] = I[i].order
  BY StitchedParts DEF Invocations
<1>4. \A a \in 1..Len(Q) : o[a] = Q[a].order
  OBVIOUS
<1> HIDE DEF o, t, l
<1>5. \A a \in 1..l : o[a] = P[a].order
  BY <1>1, <1>4, Zenon
<1>6. /\ o[l + 1] = k
      /\ \A a \in 1..l : o[a] \in Nat /\ o[a] < k
      /\ \A a, b \in 1..l : a # b => o[a] # o[b]
  <2>1. o[l + 1] = k
    BY <1>1, <1>4, Zenon
  <2>2. \A a \in 1..l : o[a] \in Nat /\ o[a] < k
    BY <1>2, <1>5, Zenon DEF Ordered, l
  <2>3. \A a, b \in 1..l : a # b => o[a] # o[b]
    BY <1>5, Zenon DEF Ordered, l
  <2> QED BY <2>1, <2>2, <2>3
<1>7. /\ \A i \in On : t[i] < k
      /\ \A i, j \in On : i # j => t[i] # t[j]
  BY <1>3, Zenon DEF Ordered
<1>8. ASSUME NEW a \in 1..l, NEW i \in On PROVE o[a] # t[i]
  <2>1. P[a].order # I[i].order
    BY Zenon DEF Ordered, l, On
  <2> QED BY <1>3, <1>5, <2>1, Zenon
<1> HIDE DEF On
<1>9. /\ \A a \in 1..Len(Q) : o[a] < k + 1
      /\ \A i \in On : t[i] < k + 1
  BY <1>1, <1>3, <1>6, <1>7
<1>10. ASSUME NEW a \in 1..Len(Q), NEW i \in On PROVE o[a] # t[i]
  BY <1>1, <1>3, <1>6, <1>7, <1>8
<1>11. ASSUME NEW a \in 1..Len(Q), NEW b \in 1..Len(Q), a # b PROVE o[a] # o[b]
  <2>1. \A n \in 1..l : o[n] # k
    BY <1>6
  <2>2. CASE a = l + 1 \/ b = l + 1
    BY <1>1, <1>6, <1>11, <2>1, <2>2, Zenon
  <2>3. CASE a \in 1..l /\ b \in 1..l
    BY <1>6, <1>11, <2>3, Zenon
  <2> QED BY <1>1, <2>2, <2>3, Zenon
<1>12. /\ \A a \in 1..Len(Q) : Q[a].order < k + 1
       /\ \A a, b \in 1..Len(Q) : a # b => Q[a].order # Q[b].order
  BY <1>4, <1>9, <1>11, Zenon
<1>13. /\ \A i \in Invocation : I[i] # None => i \in On
       /\ \A i \in Invocation : I[i] # None => I[i].order < k + 1
  BY <1>3, <1>9, Zenon DEF On
<1>14. \A i, j \in Invocation : I[i] # None /\ I[j] # None /\ i # j => I[i].order # I[j].order
  BY Zenon DEF Ordered
<1>15. \A a \in 1..Len(Q), i \in Invocation : I[i] # None => Q[a].order # I[i].order
  BY <1>3, <1>4, <1>10, <1>13, Zenon
<1> QED BY <1>12, <1>13, <1>14, <1>15, Zenon DEF Ordered

LEMMA LocatedLonger ==
    ASSUME NEW E, NEW F, NEW e, NEW I, NEW P, NEW Q, NEW x, Longer(F, E, e), Longer(Q, P, x),
           x.event = e, Located(E, I, P)
    PROVE  Located(F, I, Q)
<1> SUFFICES ASSUME NEW a \in 1..Len(F)
             PROVE  \/ \E p \in 1..Len(Q) : Q[p].event = F[a]
                    \/ SlotOf[F[a].doc] # None /\ Taken(I, F[a].doc) = F[a]
  BY Zenon DEF Located
<1>1. CASE a = Len(E) + 1
  <2>1. F[a] = e
    BY <1>1, Zenon DEF Longer
  <2>2. Len(P) + 1 \in 1..Len(Q) /\ Q[Len(P) + 1].event = e
    BY Zenon DEF Longer
  <2> QED BY <2>1, <2>2, Zenon
<1>2. CASE a \in 1..Len(E)
  <2>1. F[a] = E[a]
    BY <1>2, Zenon DEF Longer
  <2>2. \A p \in 1..Len(P) : p \in 1..Len(Q) /\ Q[p] = P[p]
    BY Zenon DEF Longer
  <2> QED BY <1>2, <2>1, <2>2, Zenon DEF Located
<1> QED BY <1>1, <1>2, Zenon DEF Longer

\* An event that is put aside (flow.go, Apply).
LEMMA AppendPlainFiled ==
    ASSUME NEW f, NEW n \in Nat, Filed(f, n), NEW e \in Event, e.id = n + 1,
           \/ SlotOf[e.doc] = None
           \/ Taken(f.invocations, e.doc) # None /\ Taken(f.invocations, e.doc).doc # e.doc
    PROVE  Filed(AppendPlain(f, e), n + 1)
<1> DEFINE s == StoreEvent(f, e)
           k == f.nextOrder
           x == [event |-> e, order |-> k]
           E == f.events
           I == f.invocations
           P == f.plain
           F == Append(E, e)
           Q == Append(P, x)
           g == AppendPlain(f, e)
<1>1. /\ f \in Flow /\ Len(E) + f.duplicates = n
      /\ Seated(I) /\ Aside(I, P, n) /\ Located(E, I, P) /\ Ordered(I, P, k)
  BY Zenon DEF Filed
<1>2. /\ I \in Invocations /\ E \in Seq(Event) /\ P \in Seq(PlainEntry)
      /\ f.duplicates \in Nat /\ k \in Nat
  BY <1>1, FlowParts, Zenon
<1>3. /\ s \in Flow /\ s.events = F /\ s.invocations = I /\ s.plain = P
      /\ s.duplicates = f.duplicates /\ s.nextOrder = k
  BY <1>1, StoreEventParts, Zenon
<1>4. x \in PlainEntry /\ x.event = e /\ x.order = k
  BY <1>2 DEF PlainEntry
<1>5. g = [s EXCEPT !.plain = Append(s.plain, x), !.nextOrder = s.nextOrder + 1]
  BY Zenon DEF AppendPlain
<1>6. g = [s EXCEPT !.plain = Q, !.nextOrder = k + 1]
  BY <1>3, <1>5, Zenon
<1> HIDE DEF s, x, g
<1>7. Q \in Seq(PlainEntry) /\ Longer(Q, P, x) /\ Longer(F, E, e)
  BY <1>2, <1>4, AppendLonger, Zenon
<1>8. k + 1 \in Nat
  BY <1>2
<1> HIDE DEF Q, F
<1>9. g \in Flow
  BY <1>3, <1>6, <1>7, <1>8, Zenon DEF Flow
<1>10. /\ g.events = F /\ g.invocations = I /\ g.plain = Q
       /\ g.duplicates = f.duplicates /\ g.nextOrder = k + 1
  BY <1>3, <1>6 DEF Flow
<1> HIDE DEF E, I, P, k
<1>11. \/ SlotOf[x.event.doc] = None
       \/ Taken(I, x.event.doc) # None /\ Taken(I, x.event.doc).doc # x.event.doc
  BY <1>4, Zenon DEF I
<1>12. Aside(I, Q, n + 1)
  BY <1>1, <1>2, <1>4, <1>7, <1>11, AsideLonger
<1>13. Located(F, I, Q)
  BY <1>1, <1>4, <1>7, LocatedLonger, Zenon
<1>14. Ordered(I, Q, k + 1)
  BY <1>1, <1>2, <1>4, <1>7, OrderedLonger, Zenon
<1>15. Len(F) + f.duplicates = n + 1
  <2>1. Len(F) = Len(E) + 1 /\ Len(E) \in Nat
    BY <1>7, Zenon DEF Longer
  <2> QED BY <1>1, <1>2, <2>1
<1> QED BY <1>1, <1>9, <1>10, <1>12, <1>13, <1>14, <1>15, Zenon DEF Filed, g

\* The holders after e took the free slot that its document names.
LEMMA SeatTaken ==
    ASSUME NEW I, NEW J, NEW E \in Seq(Event), NEW F, NEW e \in Event, NEW P \in Seq(PlainEntry),
           NEW n, Seated(I), Aside(I, P, n), Located(E, I, P), Longer(F, E, e),
           SlotOf[e.doc] # None, Taken(I, e.doc) = None,
           \A i \in Invocation, r \in Role :
               Holder(J, i, r) = IF [inv |-> i, role |-> r] = SlotOf[e.doc] THEN e
                                 ELSE Holder(I, i, r)
    PROVE  Seated(J) /\ Aside(J, P, n) /\ Located(F, J, P)
<1>1. ASSUME NEW d \in Document, SlotOf[d] # None
      PROVE  Taken(J, d) = IF SlotOf[d] = SlotOf[e.doc] THEN e ELSE Taken(I, d)
  <2>1. /\ SlotOf[d].inv \in Invocation /\ SlotOf[d].role \in Role
        /\ SlotOf[d] = [inv |-> SlotOf[d].inv, role |-> SlotOf[d].role]
    BY <1>1, SlotParts, Zenon
  <2> QED BY <2>1, Zenon DEF Taken
<1>2. \A d \in Document : SlotOf[d] = SlotOf[e.doc] => Taken(I, d) = None
  BY Zenon DEF Taken
<1>3. e.doc \in Document /\ e # None
  BY EventParts, Zenon
<1>4. Seated(J)
  <2> SUFFICES ASSUME NEW i \in Invocation, NEW r \in Role, Holder(J, i, r) # None
               PROVE  SlotOf[Holder(J, i, r).doc] = [inv |-> i, role |-> r]
    BY Zenon DEF Seated
  <2> DEFINE here == [inv |-> i, role |-> r]
  <2>1. Holder(J, i, r) = IF here = SlotOf[e.doc] THEN e ELSE Holder(I, i, r)
    BY Zenon
  <2>2. Holder(I, i, r) # None => SlotOf[Holder(I, i, r).doc] = here
    BY Zenon DEF Seated
  <2> HIDE DEF here
  <2>3. CASE here = SlotOf[e.doc]
    BY <2>1, <2>3, Zenon DEF here
  <2>4. CASE here # SlotOf[e.doc]
    BY <2>1, <2>2, <2>4, Zenon DEF here
  <2> QED BY <2>3, <2>4
<1>5. Aside(J, P, n)
  <2>1. ASSUME NEW p \in 1..Len(P), SlotOf[P[p].event.doc] # None
        PROVE  /\ Taken(J, P[p].event.doc) # None
               /\ Taken(J, P[p].event.doc).doc # P[p].event.doc
    <3>1. P[p].event.doc \in Document
      BY EventParts, PlainParts, Zenon
    <3>2. /\ Taken(I, P[p].event.doc) # None
          /\ Taken(I, P[p].event.doc).doc # P[p].event.doc
      BY <2>1, Zenon DEF Aside
    <3>3. SlotOf[P[p].event.doc] # SlotOf[e.doc]
      BY <1>2, <3>1, <3>2, Zenon
    <3>4. Taken(J, P[p].event.doc) = Taken(I, P[p].event.doc)
      BY <1>1, <2>1, <3>1, <3>3, Zenon
    <3> QED BY <3>2, <3>4, Zenon
  <2> QED BY <2>1, Zenon DEF Aside
<1>6. Located(F, J, P)
  <2> SUFFICES ASSUME NEW a \in 1..Len(F)
               PROVE  \/ \E p \in 1..Len(P) : P[p].event = F[a]
                      \/ SlotOf[F[a].doc] # None /\ Taken(J, F[a].doc) = F[a]
    BY Zenon DEF Located
  <2>1. CASE a = Len(E) + 1
    <3>1. F[a] = e
      BY <2>1, Zenon DEF Longer
    <3>2. Taken(J, e.doc) = e
      BY <1>1, <1>3, Zenon
    <3> QED BY <3>1, <3>2, Zenon
  <2>2. CASE a \in 1..Len(E)
    <3>1. F[a] = E[a]
      BY <2>2, Zenon DEF Longer
    <3>2. E[a] \in Event
      BY <2>2
    <3>3. E[a].doc \in Document /\ E[a] # None
      BY <3>2, EventParts, Zenon
    <3>4. CASE SlotOf[E[a].doc] # None /\ Taken(I, E[a].doc) = E[a]
      <4>1. SlotOf[E[a].doc] # SlotOf[e.doc]
        BY <1>2, <3>3, <3>4, Zenon
      <4>2. Taken(J, E[a].doc) = E[a]
        BY <1>1, <3>3, <3>4, <4>1, Zenon
      <4> QED BY <3>1, <3>4, <4>2, Zenon
    <3> QED BY <2>2, <3>1, <3>4, Zenon DEF Located
  <2> QED BY <2>1, <2>2, Zenon DEF Longer
<1> QED BY <1>4, <1>5, <1>6

\* An event that takes its slot (flow.go, Apply).
LEMMA OccupyFiled ==
    ASSUME NEW f, NEW n \in Nat, Filed(f, n), NEW e \in Event, NEW slot \in Slot,
           slot = SlotOf[e.doc], slot # None,
           f.invocations[slot.inv] \in Stitched, Taken(f.invocations, e.doc) = None
    PROVE  Filed(Occupy(f, slot, e), n + 1)
<1> DEFINE i == slot.inv
           s == StoreEvent(f, e)
           old == f.invocations[i]
           members == [old.members EXCEPT ![slot.role] = e]
           full == old.complete \/ InvocationComplete(i, members)
           new == [old EXCEPT !.members = members, !.complete = full]
           E == f.events
           I == f.invocations
           P == f.plain
           k == f.nextOrder
           F == Append(E, e)
           J == [I EXCEPT ![i] = new]
           g == Occupy(f, slot, e)
<1> HIDE DEF s, old, members, full, new, F, J, g
<1>1. /\ f \in Flow /\ Len(E) + f.duplicates = n
      /\ Seated(I) /\ Aside(I, P, n) /\ Located(E, I, P) /\ Ordered(I, P, k)
  BY Zenon DEF Filed
<1>2. /\ I \in Invocations /\ E \in Seq(Event) /\ P \in Seq(PlainEntry)
      /\ f.duplicates \in Nat /\ k \in Nat
  BY <1>1, FlowParts, Zenon
<1>3. /\ s \in Flow /\ s.events = F /\ s.invocations = I /\ s.plain = P
      /\ s.duplicates = f.duplicates /\ s.nextOrder = k
  BY <1>1, StoreEventParts, Zenon DEF s, F
<1>4. i \in Invocation /\ slot.role \in Role /\ slot = [inv |-> i, role |-> slot.role]
  BY DEF Slot
<1>5. old.members \in [Role -> Event \cup {None}]
  BY StitchedParts, Zenon DEF old
<1>6. /\ members \in [Role -> Event \cup {None}]
      /\ \A r \in Role : members[r] = IF r = slot.role THEN e ELSE old.members[r]
  BY <1>4, <1>5 DEF members
<1>7. full \in BOOLEAN
  BY Zenon DEF full, InvocationComplete
<1>8. g = [s EXCEPT !.invocations = J]
  BY <1>3, <1>4, ZenonT(60) DEF Occupy, Flow, g, s, J, new, full, members, old
<1>9. new \in Stitched /\ new.members = members /\ new.order = old.order
  <2>1. old \in Stitched
    BY Zenon DEF old
  <2>2. new \in Stitched
    BY <1>6, <1>7, <2>1, Zenon DEF Stitched, new
  <2> QED BY <2>1, <2>2 DEF Stitched, new
<1>10. J \in Invocations /\ \A j \in Invocation : J[j] = IF j = i THEN new ELSE I[j]
  BY <1>2, <1>4, <1>9 DEF Invocations, J
<1>11. g \in Flow
  BY <1>3, <1>8, <1>10, Zenon DEF Flow, Invocations
<1>12. /\ g.events = F /\ g.invocations = J /\ g.plain = P
       /\ g.duplicates = f.duplicates /\ g.nextOrder = k
  BY <1>3, <1>8 DEF Flow
<1>13. F \in Seq(Event) /\ Longer(F, E, e)
  BY <1>2, AppendLonger, Zenon DEF F
<1>14. old # None /\ new # None
  BY <1>9, StitchedParts, Zenon DEF old
<1>15. ASSUME NEW j \in Invocation, NEW r \in Role
       PROVE  Holder(J, j, r) = IF [inv |-> j, role |-> r] = SlotOf[e.doc] THEN e
                                ELSE Holder(I, j, r)
  <2>1. [inv |-> j, role |-> r] = SlotOf[e.doc] <=> j = i /\ r = slot.role
    BY <1>4
  <2>2. CASE j = i
    <3>1. Holder(J, j, r) = members[r] /\ Holder(I, j, r) = old.members[r]
      BY <1>9, <1>10, <1>14, <2>2, Zenon DEF Holder, old
    <3> QED BY <1>6, <2>1, <2>2, <3>1, Zenon
  <2>3. CASE j # i
    BY <1>10, <2>1, <2>3, Zenon DEF Holder
  <2> QED BY <2>2, <2>3
<1>16. Seated(J) /\ Aside(J, P, n) /\ Located(F, J, P)
  <2> HIDE DEF I, E, P, i
  <2> QED BY <1>1, <1>2, <1>13, <1>15, SeatTaken DEF I
<1>17. Aside(J, P, n + 1)
  BY <1>2, <1>16, AsideLater, Zenon
<1>18. Ordered(J, P, k)
  <2>1. \A j \in Invocation : /\ J[j] # None <=> I[j] # None
                              /\ I[j] # None => J[j].order = I[j].order
    BY <1>9, <1>10, <1>14 DEF old
  <2> QED BY <1>1, <2>1, OrderedSame
<1>19. Len(F) + f.duplicates = n + 1
  <2>1. Len(F) = Len(E) + 1 /\ Len(E) \in Nat
    BY <1>13, Zenon DEF Longer
  <2> QED BY <1>1, <1>2, <2>1
<1> QED BY <1>11, <1>12, <1>16, <1>17, <1>18, <1>19, Zenon DEF Filed, g

\* Every arrival is filed (flow.go:185-244).
LEMMA ApplyFiled ==
    ASSUME NEW f, NEW n \in Nat, Filed(f, n), NEW e \in Event, e.id = n + 1
    PROVE  Filed(Apply(f, e), n + 1)
<1> DEFINE slot == SlotOf[e.doc]
           seen == f.terminalSeen \/ e.doc \in Terminal
           g == [f EXCEPT !.terminalSeen = seen]
           h == WithInvocation(g, slot.inv, e)
           k == [h EXCEPT !.anomalies = @ + 1]
<1>1. Apply(f, e) = IF slot = None THEN AppendPlain(g, e)
                    ELSE IF Occupant(h, slot) = None THEN Occupy(h, slot, e)
                    ELSE IF IsDuplicate(h, e) THEN CountDuplicate(h, slot)
                    ELSE AppendPlain(k, e)
  BY Zenon DEF Apply
<1>2. f \in Flow /\ seen \in BOOLEAN /\ e.doc \in Document
  BY EventParts, Zenon DEF Filed
<1> HIDE DEF seen
<1>3. Filed(g, n)
  BY <1>2, OtherFields, Zenon
<1> HIDE DEF g
<1>4. CASE slot = None
  <2>1. Apply(f, e) = AppendPlain(g, e)
    BY <1>1, <1>4, Zenon
  <2> QED BY <1>3, <1>4, <2>1, AppendPlainFiled
<1>5. CASE slot # None
  <2>1. slot \in Slot /\ slot.inv \in Invocation /\ slot.role \in Role
    BY <1>2, <1>5, SlotParts, Zenon
  <2>2. Filed(h, n) /\ h.invocations[slot.inv] \in Stitched
    BY <1>3, <2>1, WithInvocationFiled, Zenon
  <2> HIDE DEF h
  <2>3. Occupant(h, slot) = Taken(h.invocations, e.doc)
    BY Zenon DEF Occupant, Taken, Holder
  <2>4. CASE Occupant(h, slot) = None
    <3>1. Apply(f, e) = Occupy(h, slot, e)
      BY <1>1, <1>5, <2>4, Zenon
    <3> HIDE DEF slot
    <3> QED BY <1>5, <2>1, <2>2, <2>3, <2>4, <3>1, OccupyFiled DEF slot
  <2>5. CASE Occupant(h, slot) # None /\ IsDuplicate(h, e)
    <3>1. Apply(f, e) = CountDuplicate(h, slot)
      BY <1>1, <1>5, <2>5, Zenon
    <3> HIDE DEF slot
    <3> QED BY <2>1, <2>2, <3>1, CountDuplicateFiled
  <2>6. CASE Occupant(h, slot) # None /\ ~IsDuplicate(h, e)
    <3>1. Apply(f, e) = AppendPlain(k, e)
      BY <1>1, <1>5, <2>6, Zenon
    <3>2. h \in Flow
      BY <2>2, Zenon DEF Filed
    <3>3. Filed(k, n) /\ k.invocations = h.invocations
      BY <2>2, <3>2, OtherFields, Zenon
    <3>4. Taken(h.invocations, e.doc) # None /\ Taken(h.invocations, e.doc).doc # e.doc
      BY <1>5, <2>3, <2>6, Zenon DEF IsDuplicate
    <3> HIDE DEF k
    <3> QED BY <3>1, <3>3, <3>4, AppendPlainFiled
  <2> QED BY <2>4, <2>5, <2>6, Zenon
<1> QED BY <1>4, <1>5, Zenon
-----------------------------------------------------------------------------
(***************************************************************************)
(* The times of a flow.                                                    *)
(***************************************************************************)

\* One turn of the loop of flowTimes: f[i] is what the first i events give.
Turning(f, s, i) == IF i = 0 THEN NoTimes ELSE Widen(f[i - 1], EventTimestamp(s[i]))

Turns(f, s, n) == f = [i \in 0..n |-> Turning(f, s, i)]

\* The loop is well defined.
LEMMA TurnsExist ==
    ASSUME NEW s, NEW n \in Nat
    PROVE  \E f : Turns(f, s, n)
<1> DEFINE Has(m) == \E f : Turns(f, s, m)
           Bad == {m \in Nat : ~Has(m)}
<1>1. Has(0)
  <2> DEFINE f == [i \in 0..0 |-> NoTimes]
  <2>1. f = [i \in 0..0 |-> Turning(f, s, i)]
    BY DEF Turning
  <2> QED BY <2>1 DEF Turns
<1>2. ASSUME NEW m \in Nat, Has(m)
      PROVE  Has(m + 1)
  <2>1. PICK f : f = [i \in 0..m |-> Turning(f, s, i)]
    BY <1>2 DEF Turns
  <2> DEFINE g == [i \in 0..(m + 1) |-> IF i = m + 1 THEN Turning(f, s, i) ELSE f[i]]
  <2>2. ASSUME NEW i \in 0..(m + 1)
        PROVE  g[i] = Turning(g, s, i)
    <3>1. CASE i = 0
      BY <2>1, <3>1 DEF Turning
    <3>2. CASE i # 0
      <4>1. i - 1 \in 0..m /\ i - 1 # m + 1 /\ i - 1 \in 0..(m + 1)
        BY <3>2
      <4>2. g[i - 1] = f[i - 1]
        BY <4>1
      <4>3. Turning(g, s, i) = Turning(f, s, i)
        BY <4>2 DEF Turning
      <4>4. g[i] = Turning(f, s, i)
        BY <2>1
      <4> QED BY <4>3, <4>4
    <3> QED BY <3>1, <3>2
  <2>3. g = [i \in 0..(m + 1) |-> Turning(g, s, i)]
    <3> HIDE DEF g
    <3>1. DOMAIN g = 0..(m + 1) /\ g = [i \in DOMAIN g |-> g[i]]
      BY DEF g
    <3> QED BY <2>2, <3>1
  <2> HIDE DEF g
  <2> QED BY <2>3 DEF Turns
<1>3. Bad = {}
  <2> SUFFICES ASSUME Bad # {} PROVE FALSE
    OBVIOUS
  <2>1. PICK x \in Bad : \A y \in Bad : x <= y
    BY NatLeast, Zenon
  <2> HIDE DEF Has
  <2>2. x # 0
    BY <1>1, <2>1
  <2>3. x - 1 \in Nat /\ Has(x - 1)
    BY <2>1, <2>2
  <2> QED BY <1>2, <2>1, <2>3
<1> QED
  <2> HIDE DEF Has
  <2>1. Has(n)
    BY <1>3
  <2> QED BY <2>1 DEF Has

\* The bounds t of the timestamps among s[1..i], 0 not being one.
Bounds(t, s, i) ==
    /\ t.first \in Nat /\ t.last \in Nat
    /\ (\A a \in 1..i : s[a] = 0) => t.first = 0 /\ t.last = 0
    /\ \A b \in 1..i : s[b] # 0 =>
         /\ \E a \in 1..i : s[a] # 0 /\ s[a] = t.first
         /\ \E a \in 1..i : s[a] # 0 /\ s[a] = t.last
         /\ t.first <= s[b] /\ s[b] <= t.last

\* One timestamp more.
LEMMA WidenBounds ==
    ASSUME NEW n \in Nat, NEW s \in [1..n -> Nat], NEW i \in 1..n, NEW t, Bounds(t, s, i - 1)
    PROVE  Bounds(Widen(t, s[i]), s, i)
<1> DEFINE u == Widen(t, s[i])
           x == s[i]
<1>1. x \in Nat /\ t.first \in Nat /\ t.last \in Nat
  BY DEF Bounds
<1>2. /\ \A a \in 1..(i - 1) : a \in 1..i /\ s[a] \in Nat
      /\ \A a \in 1..i : a \in 1..(i - 1) \/ a = i
      /\ i \in 1..i
  OBVIOUS
<1>3. CASE x = 0
  <2>1. u = t
    BY <1>3, Zenon DEF Widen
  <2> QED BY <1>2, <1>3, <2>1, Zenon DEF Bounds
<1>4. CASE x # 0
  <2>1. /\ u.first = IF t.first = 0 \/ x < t.first THEN x ELSE t.first
        /\ u.last = IF t.last = 0 \/ x > t.last THEN x ELSE t.last
    BY <1>4 DEF Widen
  <2> HIDE DEF u
  <2>2. CASE \A a \in 1..(i - 1) : s[a] = 0
    <3>1. t.first = 0 /\ t.last = 0
      BY <2>2, Zenon DEF Bounds
    <3>2. u.first = x /\ u.last = x
      BY <2>1, <3>1, Zenon
    <3>3. \A b \in 1..i : s[b] # 0 => s[b] = x
      BY <1>2, <2>2, Zenon
    <3>4. Bounds(u, s, i)
      <4>1. ~\A a \in 1..i : s[a] = 0
        BY <1>2, <1>4, Zenon
      <4>2. \A b \in 1..i : s[b] # 0 => u.first <= s[b] /\ s[b] <= u.last
        BY <1>1, <3>2, <3>3
      <4> QED BY <1>1, <1>2, <1>4, <3>2, <4>1, <4>2, Zenon DEF Bounds
    <3> QED BY <3>4 DEF u
  <2>3. CASE \E a \in 1..(i - 1) : s[a] # 0
    <3>1. /\ \E a \in 1..(i - 1) : s[a] # 0 /\ s[a] = t.first
          /\ \E a \in 1..(i - 1) : s[a] # 0 /\ s[a] = t.last
          /\ \A b \in 1..(i - 1) : s[b] # 0 => t.first <= s[b] /\ s[b] <= t.last
      BY <2>3, Zenon DEF Bounds
    <3>2. t.first # 0 /\ t.last # 0 /\ t.first <= t.last
      BY <1>1, <3>1
    <3>3. /\ u.first \in Nat /\ u.last \in Nat
          /\ u.first <= x /\ u.first <= t.first /\ x <= u.last /\ t.last <= u.last
          /\ u.first = x \/ u.first = t.first
          /\ u.last = x \/ u.last = t.last
      BY <1>1, <2>1, <3>2
    <3>4. /\ \E a \in 1..i : s[a] # 0 /\ s[a] = u.first
          /\ \E a \in 1..i : s[a] # 0 /\ s[a] = u.last
      BY <1>2, <1>4, <3>1, <3>3, Zenon
    <3>5. ASSUME NEW b \in 1..i, s[b] # 0 PROVE u.first <= s[b] /\ s[b] <= u.last
      <4>1. CASE b = i
        BY <3>3, <4>1
      <4>2. CASE b \in 1..(i - 1)
        <5>1. t.first <= s[b] /\ s[b] <= t.last /\ s[b] \in Nat
          BY <1>2, <3>1, <3>5, <4>2, Zenon
        <5> QED BY <1>1, <3>3, <5>1
      <4> QED BY <1>2, <4>1, <4>2, Zenon
    <3>6. ~\A a \in 1..i : s[a] = 0
      BY <1>2, <1>4, Zenon
    <3>7. Bounds(u, s, i)
      BY <3>3, <3>4, <3>5, <3>6, Zenon DEF Bounds
    <3> QED BY <3>7 DEF u
  <2> QED BY <2>2, <2>3, Zenon
<1> QED BY <1>3, <1>4

\* flowTimes gives the bounds of the timestamps (projection/document.go:245-263).
LEMMA FlowTimesIs ==
    ASSUME NEW E \in Seq(Event)
    PROVE  Bounds(FlowTimes(E), [a \in 1..Len(E) |-> EventTimestamp(E[a])], Len(E))
<1> DEFINE n == Len(E)
           s == [a \in 1..n |-> EventTimestamp(E[a])]
           times == CHOOSE f : f = [i \in 0..n |-> Turning(f, E, i)]
<1>1. n \in Nat /\ \A a \in 1..n : E[a] \in Event
  OBVIOUS
<1>2. FlowTimes(E) = times[n]
  BY DEF FlowTimes, Turning
<1>3. times = [i \in 0..n |-> Turning(times, E, i)]
  <2>1. \E f : Turns(f, E, n)
    BY <1>1, TurnsExist, Zenon
  <2>2. Turns(CHOOSE f : Turns(f, E, n), E, n)
    BY <2>1, Zenon
  <2> QED BY <2>2, Zenon DEF Turns
<1> HIDE DEF times
<1>4. s \in [1..n -> Nat]
  <2>1. \A a \in 1..n : EventTimestamp(E[a]) \in Nat
    BY <1>1, EventParts, ProjectionAssumption DEF EventTimestamp
  <2> QED BY <2>1
<1>5. \A i \in 1..n : s[i] = EventTimestamp(E[i])
  OBVIOUS
<1> HIDE DEF n, s
<1> DEFINE Bad == {i \in 0..n : ~Bounds(times[i], s, i)}
<1>6. times[0] = NoTimes /\ \A i \in 1..n : times[i] = Widen(times[i - 1], s[i])
  <2>1. times[0] = NoTimes
    BY <1>1, <1>3 DEF Turning
  <2>2. ASSUME NEW i \in 1..n PROVE times[i] = Widen(times[i - 1], s[i])
    <3>1. i \in 0..n /\ i # 0
      BY <1>1
    <3>2. times[i] = Turning(times, E, i)
      BY <1>3, <3>1
    <3> QED BY <1>5, <3>1, <3>2, Zenon DEF Turning
  <2> QED BY <2>1, <2>2
<1>7. Bounds(times[0], s, 0)
  BY <1>6 DEF Bounds, NoTimes
<1>8. Bad = {}
  <2> SUFFICES ASSUME Bad # {} PROVE FALSE
    OBVIOUS
  <2>1. PICK x \in Bad : \A y \in Bad : x <= y
    <3>1. Bad \subseteq Nat
      BY <1>1
    <3> QED BY <3>1, NatLeast, Zenon
  <2>2. x # 0
    BY <1>7, <2>1
  <2>3. x \in 1..n /\ x - 1 \in 0..n /\ ~(x <= x - 1)
    BY <1>1, <2>1, <2>2
  <2>4. Bounds(times[x - 1], s, x - 1)
    BY <2>1, <2>3
  <2>5. Bounds(times[x], s, x)
    BY <1>1, <1>4, <1>6, <2>3, <2>4, WidenBounds, Zenon
  <2> QED BY <2>1, <2>5
<1>9. n \in 0..n
  BY <1>1
<1>10. Bounds(times[n], s, n)
  BY <1>8, <1>9
<1> QED BY <1>2, <1>10, Zenon DEF n, s
-----------------------------------------------------------------------------
(***************************************************************************)
(* The entries of a flow.                                                  *)
(***************************************************************************)

\* What the proofs below use of finite sets.  The library proves it (Counts).
Counting ==
    /\ \A S, T : IsFiniteSet(S) /\ T \subseteq S =>
         IsFiniteSet(T) /\ Cardinality(T) \in Nat /\ Cardinality(S) \in Nat
    /\ \A S, T, x : IsFiniteSet(S) /\ T \subseteq S /\ x \in S /\ x \notin T =>
         Cardinality(T) < Cardinality(S)
    /\ \A S, f : /\ IsFiniteSet(S) /\ f \in [S -> 0..(Cardinality(S) - 1)]
                 /\ \A x, y \in S : f[x] = f[y] => x = y
                 => \A n \in 0..(Cardinality(S) - 1) : \E x \in S : f[x] = n
    /\ \A x : Cardinality({x}) = 1
    /\ \A S, f : IsFiniteSet(S) => IsFiniteSet({f[x] : x \in S})
    /\ \A S, T : IsFiniteSet(S) /\ IsFiniteSet(T) => IsFiniteSet(S \cup T)
    /\ \A n \in Nat : IsFiniteSet(1..n)

Before(S, x) == {y \in S : Precedes(y, x)}
Place(S, x) == Cardinality(Before(S, x))

\* Entries that their times and orders tell apart.
Told(S) ==
    /\ IsFiniteSet(S)
    /\ \A x \in S : x.observedAt \in Nat /\ x.order \in Nat
    /\ \A x, y \in S : x.order = y.order => x = y

\* The sequence q has every element of S once.
Lists(q, S) ==
    /\ q \in [1..Cardinality(S) -> S]
    /\ \A x \in S : \E a \in 1..Cardinality(S) : q[a] = x
    /\ \A a, b \in 1..Cardinality(S) : q[a] = q[b] => a = b

\* Precedes orders such entries.
LEMMA PrecedesOrders ==
    ASSUME NEW S, Told(S)
    PROVE  /\ \A x \in S : ~Precedes(x, x)
           /\ \A x, y \in S : x = y \/ Precedes(x, y) \/ Precedes(y, x)
           /\ \A x, y, z \in S : Precedes(x, y) /\ Precedes(y, z) => Precedes(x, z)
<1> DEFINE o == [x \in S |-> x.observedAt]
           k == [x \in S |-> x.order]
<1>1. /\ \A x \in S : o[x] \in Nat /\ k[x] \in Nat
      /\ \A x, y \in S : k[x] = k[y] => x = y
      /\ \A x, y \in S : Precedes(x, y) <=> o[x] < o[y] \/ (o[x] = o[y] /\ k[x] < k[y])
  BY DEF Told, Precedes
<1> HIDE DEF o, k
<1>2. \A x \in S : ~Precedes(x, x)
  BY <1>1
<1>3. ASSUME NEW x \in S, NEW y \in S, x # y PROVE Precedes(x, y) \/ Precedes(y, x)
  <2>1. k[x] # k[y]
    BY <1>1, <1>3, Zenon
  <2> QED BY <1>1, <2>1
<1>4. ASSUME NEW x \in S, NEW y \in S, NEW z \in S, Precedes(x, y), Precedes(y, z)
      PROVE  Precedes(x, z)
  BY <1>1, <1>4
<1> QED BY <1>2, <1>3, <1>4, Zenon

\* Entries lists every entry once (flow/finalize.go, Entries).
LEMMA EntriesList ==
    ASSUME Counting, NEW f, Told(EntrySet(f))
    PROVE  Lists(Entries(f), EntrySet(f))
<1> DEFINE S == EntrySet(f)
           n == Cardinality(S)
           q == Entries(f)
           place == [x \in S |-> Place(S, x)]
<1>1. q = [a \in 1..n |-> CHOOSE x \in S : Place(S, x) = a - 1]
  BY DEF Entries, Place, Before
<1>2. Told(S)
  OBVIOUS
<1> HIDE DEF S, q, place
<1>3. IsFiniteSet(S) /\ n \in Nat
  BY <1>2, Zenon DEF Counting, Told
<1>4. \A x \in S : Before(S, x) \subseteq S /\ x \notin Before(S, x)
  BY <1>2, PrecedesOrders, Zenon DEF Before
<1>5. \A x \in S : /\ IsFiniteSet(Before(S, x))
                   /\ Place(S, x) \in Nat /\ Place(S, x) < n
  BY <1>3, <1>4, Zenon DEF Place, Counting
<1>6. ASSUME NEW x \in S, NEW y \in S, Precedes(x, y)
      PROVE  Place(S, x) < Place(S, y)
  <2>1. Before(S, x) \subseteq Before(S, y)
    BY <1>2, <1>6, PrecedesOrders, Zenon DEF Before
  <2>2. x \in Before(S, y) /\ x \notin Before(S, x)
    BY <1>4, <1>6, Zenon DEF Before
  <2> QED BY <1>5, <2>1, <2>2, Zenon DEF Place, Counting
<1>7. ASSUME NEW x \in S, NEW y \in S, Place(S, x) = Place(S, y)
      PROVE  x = y
  <2>1. ~Precedes(x, y) /\ ~Precedes(y, x)
    BY <1>5, <1>6, <1>7
  <2> QED BY <1>2, <2>1, PrecedesOrders, Zenon
<1>8. place \in [S -> 0..(n - 1)] /\ \A x \in S : place[x] = Place(S, x)
  <2>1. \A x \in S : Place(S, x) \in 0..(n - 1)
    BY <1>3, <1>5
  <2> QED BY <2>1, Zenon DEF place
<1>9. ASSUME NEW x \in S, NEW y \in S, place[x] = place[y] PROVE x = y
  <2>1. Place(S, x) = Place(S, y)
    BY <1>8, <1>9
  <2> QED BY <1>7, <2>1, Zenon
<1>10. \A i \in 0..(n - 1) : \E x \in S : place[x] = i
  BY <1>3, <1>8, <1>9 DEF Counting
<1> HIDE DEF n
<1>11. ASSUME NEW a \in 1..n PROVE q[a] \in S /\ place[q[a]] = a - 1
  <2>1. a - 1 \in 0..(n - 1)
    BY <1>3
  <2>2. \E x \in S : Place(S, x) = a - 1
    BY <1>8, <1>10, <2>1, Zenon
  <2>3. q[a] = CHOOSE x \in S : Place(S, x) = a - 1
    BY <1>1
  <2> QED BY <1>8, <2>2, <2>3, Zenon
<1>12. q \in [1..n -> S]
  BY <1>1, <1>11
<1>13. ASSUME NEW x \in S PROVE \E a \in 1..n : q[a] = x
  <2> DEFINE a == place[x] + 1
  <2>1. a \in 1..n /\ a - 1 = place[x]
    BY <1>3, <1>8
  <2> HIDE DEF a
  <2> QED BY <1>9, <1>11, <2>1, Zenon
<1>14. ASSUME NEW a \in 1..n, NEW b \in 1..n, q[a] = q[b] PROVE a = b
  <2>1. a - 1 = b - 1
    BY <1>11, <1>14, Zenon
  <2> QED BY <1>3, <2>1
<1> QED BY <1>12, <1>13, <1>14, Zenon DEF Lists, n, q, S

\* The two kinds of entries.
StitchedEntry(f, i) ==
    [inv     |-> i,
     members |-> {f.invocations[i].members[r] : r \in Role} \ {None},
     observedAt |-> f.invocations[i].firstObservedAt,
     order |-> f.invocations[i].order]

AsideEntry(f, p) ==
    [inv     |-> None,
     members |-> {f.plain[p].event},
     observedAt |-> f.plain[p].event.observedAt,
     order |-> f.plain[p].order]

LEMMA EntryKinds ==
    ASSUME NEW f, NEW n, Filed(f, n)
    PROVE  /\ EntrySet(f) = {StitchedEntry(f, i) : i \in Observed(f)}
                            \cup {AsideEntry(f, p) : p \in 1..Len(f.plain)}
           /\ \A i \in Observed(f) : /\ i \in Invocation /\ f.invocations[i] \in Stitched
                                     /\ f.invocations[i] # None
           /\ \A p \in 1..Len(f.plain) : f.plain[p].event \in Event /\ f.plain[p].order \in Nat
<1>1. f \in Flow
  BY Zenon DEF Filed
<1>2. f.invocations \in Invocations /\ f.plain \in Seq(PlainEntry)
  BY <1>1, FlowParts, Zenon
<1>3. DOMAIN f.plain = 1..Len(f.plain)
  BY <1>2
<1>4. EntrySet(f) = {StitchedEntry(f, i) : i \in Observed(f)}
                    \cup {AsideEntry(f, p) : p \in 1..Len(f.plain)}
  BY <1>3, Zenon DEF EntrySet, StitchedEntry, AsideEntry
<1>5. \A i \in Observed(f) : /\ i \in Invocation /\ f.invocations[i] \in Stitched
                             /\ f.invocations[i] # None
  BY <1>2 DEF Observed, Invocations
<1> QED BY <1>2, <1>4, <1>5, PlainParts, Zenon

\* The orders tell the entries apart.
LEMMA EntriesTold ==
    ASSUME NEW f, NEW n, Filed(f, n), IsFiniteSet(EntrySet(f))
    PROVE  Told(EntrySet(f))
<1> DEFINE S == EntrySet(f)
           I == f.invocations
           P == f.plain
<1>1. S = {StitchedEntry(f, i) : i \in Observed(f)} \cup {AsideEntry(f, p) : p \in 1..Len(P)}
  BY EntryKinds, Zenon
<1>2. \A i \in Observed(f) : i \in Invocation /\ I[i] \in Stitched /\ I[i] # None
  BY EntryKinds, Zenon
<1>3. \A p \in 1..Len(P) : P[p].event \in Event /\ P[p].order \in Nat
  BY EntryKinds, Zenon
<1>4. ASSUME NEW i \in Observed(f)
      PROVE  /\ StitchedEntry(f, i).order = I[i].order
             /\ StitchedEntry(f, i).observedAt \in Nat /\ StitchedEntry(f, i).order \in Nat
  BY <1>2, StitchedParts DEF StitchedEntry
<1>5. ASSUME NEW p \in 1..Len(P)
      PROVE  /\ AsideEntry(f, p).order = P[p].order
             /\ AsideEntry(f, p).observedAt \in Nat /\ AsideEntry(f, p).order \in Nat
  BY <1>3, EventParts DEF AsideEntry
<1>6. Ordered(I, P, f.nextOrder)
  BY Zenon DEF Filed
<1> HIDE DEF S, I, P
<1>7. /\ \A i, j \in Observed(f) : I[i].order = I[j].order => i = j
      /\ \A p, q \in 1..Len(P) : P[p].order = P[q].order => p = q
      /\ \A p \in 1..Len(P), i \in Observed(f) : P[p].order # I[i].order
  BY <1>2, <1>6, Zenon DEF Ordered
<1>8. \A x \in S : x.observedAt \in Nat /\ x.order \in Nat
  BY <1>1, <1>4, <1>5, Zenon
<1>9. ASSUME NEW x \in S, NEW y \in S, x.order = y.order PROVE x = y
  <2>1. CASE \E i \in Observed(f) : x = StitchedEntry(f, i)
    <3>1. PICK i \in Observed(f) : x = StitchedEntry(f, i)
      BY <2>1, Zenon
    <3>2. ASSUME NEW j \in Observed(f), y = StitchedEntry(f, j) PROVE x = y
      <4>1. I[i].order = I[j].order
        BY <1>4, <1>9, <3>1, <3>2, Zenon
      <4> QED BY <1>7, <3>1, <3>2, <4>1, Zenon
    <3>3. ASSUME NEW p \in 1..Len(P), y = AsideEntry(f, p) PROVE FALSE
      <4>1. P[p].order = I[i].order
        BY <1>4, <1>5, <1>9, <3>1, <3>3, Zenon
      <4> QED BY <1>7, <4>1, Zenon
    <3> QED BY <1>1, <3>2, <3>3, Zenon
  <2>2. CASE \E p \in 1..Len(P) : x = AsideEntry(f, p)
    <3>1. PICK p \in 1..Len(P) : x = AsideEntry(f, p)
      BY <2>2, Zenon
    <3>2. ASSUME NEW j \in Observed(f), y = StitchedEntry(f, j) PROVE FALSE
      <4>1. P[p].order = I[j].order
        BY <1>4, <1>5, <1>9, <3>1, <3>2, Zenon
      <4> QED BY <1>7, <4>1, Zenon
    <3>3. ASSUME NEW q \in 1..Len(P), y = AsideEntry(f, q) PROVE x = y
      <4>1. P[p].order = P[q].order
        BY <1>5, <1>9, <3>1, <3>3, Zenon
      <4> QED BY <1>7, <3>1, <3>3, <4>1, Zenon
    <3> QED BY <1>1, <3>2, <3>3, Zenon
  <2> QED BY <1>1, <2>1, <2>2, Zenon
<1> QED BY <1>8, <1>9, Zenon DEF Told, S

\* A stored event is in one place only: the slot its document names or one
\* plain entry.
LEMMA OnePlace ==
    ASSUME NEW f, NEW n, Filed(f, n), NEW e \in Event, \E a \in 1..Len(f.events) : f.events[a] = e
    PROVE  /\ \A i \in Observed(f), r \in Role :
                f.invocations[i].members[r] = e => SlotOf[e.doc] = [inv |-> i, role |-> r]
           /\ \A p \in 1..Len(f.plain), i \in Observed(f), r \in Role :
                f.plain[p].event = e => f.invocations[i].members[r] # e
           /\ \A p, q \in 1..Len(f.plain) : f.plain[p].event = e /\ f.plain[q].event = e => p = q
           /\ \/ \E p \in 1..Len(f.plain) : f.plain[p].event = e
              \/ \E i \in Observed(f), r \in Role : f.invocations[i].members[r] = e
<1> DEFINE I == f.invocations
           P == f.plain
<1>1. /\ Seated(I) /\ Aside(I, P, n) /\ Located(f.events, I, P)
  BY Zenon DEF Filed
<1>2. \A i \in Observed(f) : i \in Invocation /\ I[i] # None
  BY EntryKinds, Zenon
<1>3. e # None /\ e.doc \in Document
  BY EventParts, Zenon
<1>4. \A i \in Observed(f), r \in Role : Holder(I, i, r) = I[i].members[r]
  BY <1>2, Zenon DEF Holder
<1>5. ASSUME NEW i \in Observed(f), NEW r \in Role, I[i].members[r] = e
      PROVE  SlotOf[e.doc] = [inv |-> i, role |-> r]
  <2>1. i \in Invocation /\ Holder(I, i, r) = e
    BY <1>2, <1>4, <1>5, Zenon
  <2>2. SlotOf[Holder(I, i, r).doc] = [inv |-> i, role |-> r]
    BY <1>1, <1>3, <2>1, Zenon DEF Seated
  <2> QED BY <2>1, <2>2, Zenon
<1>6. ASSUME NEW p \in 1..Len(P), NEW i \in Observed(f), NEW r \in Role,
             P[p].event = e, I[i].members[r] = e
      PROVE  FALSE
  <2>1. SlotOf[e.doc] = [inv |-> i, role |-> r]
    BY <1>5, <1>6, Zenon
  <2>2. SlotOf[e.doc].inv = i /\ SlotOf[e.doc].role = r /\ SlotOf[e.doc] # None
    <3>1. [inv |-> i, role |-> r] \in Slot
      BY <1>2 DEF Slot
    <3> QED BY <2>1, <3>1, FlowAssumption
  <2>3. Taken(I, e.doc) = e
    BY <1>4, <1>6, <2>2, Zenon DEF Taken
  <2> QED BY <1>1, <1>6, <2>2, <2>3, Zenon DEF Aside
<1>7. ASSUME NEW p \in 1..Len(P), NEW q \in 1..Len(P), P[p].event = e, P[q].event = e
      PROVE  p = q
  <2>1. ~(p < q) /\ ~(q < p)
    <3>1. e.id \in Nat
      BY EventParts, Zenon
    <3>2. ~(e.id < e.id)
      BY <3>1
    <3> QED BY <1>1, <1>7, <3>2, Zenon DEF Aside
  <2>2. Len(P) \in Nat
    BY FlowParts, Zenon DEF Filed
  <2> QED BY <2>1, <2>2
<1>8. \/ \E p \in 1..Len(P) : P[p].event = e
      \/ \E i \in Observed(f), r \in Role : I[i].members[r] = e
  <2>1. CASE SlotOf[e.doc] # None /\ Taken(I, e.doc) = e
    <3>1. SlotOf[e.doc].inv \in Invocation /\ SlotOf[e.doc].role \in Role
      BY <1>3, <2>1, SlotParts, Zenon
    <3>2. I[SlotOf[e.doc].inv] # None /\ I[SlotOf[e.doc].inv].members[SlotOf[e.doc].role] = e
      BY <1>3, <2>1, Zenon DEF Taken, Holder
    <3>3. SlotOf[e.doc].inv \in Observed(f)
      BY <3>1, <3>2, Zenon DEF Observed
    <3> QED BY <3>1, <3>2, <3>3, Zenon
  <2> QED BY <1>1, <2>1, Zenon DEF Located
<1> QED BY <1>5, <1>6, <1>7, <1>8, Zenon

\* It is a member of exactly one entry.
LEMMA OneEntry ==
    ASSUME NEW f, NEW n, Filed(f, n), NEW e \in Event, \E a \in 1..Len(f.events) : f.events[a] = e
    PROVE  \E x \in EntrySet(f) : /\ e \in x.members
                                  /\ \A y \in EntrySet(f) : e \in y.members => y = x
<1> DEFINE S == EntrySet(f)
           I == f.invocations
           P == f.plain
<1>1. S = {StitchedEntry(f, i) : i \in Observed(f)} \cup {AsideEntry(f, p) : p \in 1..Len(P)}
  BY EntryKinds, Zenon
<1>2. e # None
  BY EventParts, Zenon
<1>3. ASSUME NEW i \in Observed(f)
      PROVE  e \in StitchedEntry(f, i).members <=> \E r \in Role : I[i].members[r] = e
  <2>1. StitchedEntry(f, i).members = {I[i].members[r] : r \in Role} \ {None}
    BY DEF StitchedEntry
  <2> QED BY <1>2, <2>1, Zenon
<1>4. ASSUME NEW p \in 1..Len(P)
      PROVE  e \in AsideEntry(f, p).members <=> P[p].event = e
  <2>1. AsideEntry(f, p).members = {P[p].event}
    BY DEF AsideEntry
  <2> QED BY <2>1, Zenon
<1>5. /\ \A i \in Observed(f), r \in Role :
           I[i].members[r] = e => SlotOf[e.doc] = [inv |-> i, role |-> r]
      /\ \A p \in 1..Len(P), i \in Observed(f), r \in Role : P[p].event = e => I[i].members[r] # e
      /\ \A p, q \in 1..Len(P) : P[p].event = e /\ P[q].event = e => p = q
      /\ \/ \E p \in 1..Len(P) : P[p].event = e
         \/ \E i \in Observed(f), r \in Role : I[i].members[r] = e
  BY OnePlace
<1> HIDE DEF S, I, P
<1>6. ASSUME NEW p \in 1..Len(P), P[p].event = e
      PROVE  \A y \in S : e \in y.members => y = AsideEntry(f, p)
  <2>1. \A q \in 1..Len(P) : e \in AsideEntry(f, q).members => q = p
    BY <1>4, <1>5, <1>6, Zenon
  <2>2. \A i \in Observed(f) : e \notin StitchedEntry(f, i).members
    BY <1>3, <1>5, <1>6, Zenon
  <2> QED BY <1>1, <2>1, <2>2, Zenon
<1>7. ASSUME NEW i \in Observed(f), NEW r \in Role, I[i].members[r] = e
      PROVE  \A y \in S : e \in y.members => y = StitchedEntry(f, i)
  <2>1. \A q \in 1..Len(P) : e \notin AsideEntry(f, q).members
    BY <1>4, <1>5, <1>7, Zenon
  <2>2. ASSUME NEW j \in Observed(f), e \in StitchedEntry(f, j).members PROVE j = i
    <3>1. PICK u \in Role : I[j].members[u] = e
      BY <1>3, <2>2, Zenon
    <3>2. SlotOf[e.doc] = [inv |-> j, role |-> u]
      BY <1>5, <3>1, Zenon
    <3>3. SlotOf[e.doc] = [inv |-> i, role |-> r]
      BY <1>5, <1>7, Zenon
    <3> QED BY <3>2, <3>3
  <2> QED BY <1>1, <2>1, <2>2, Zenon
<1>8. CASE \E p \in 1..Len(P) : P[p].event = e
  <2>1. PICK p \in 1..Len(P) : P[p].event = e
    BY <1>8, Zenon
  <2>2. AsideEntry(f, p) \in S /\ e \in AsideEntry(f, p).members
    BY <1>1, <1>4, <2>1, Zenon
  <2> QED BY <1>6, <2>1, <2>2, Zenon DEF S
<1>9. CASE \E i \in Observed(f), r \in Role : I[i].members[r] = e
  <2>1. PICK i \in Observed(f), r \in Role : I[i].members[r] = e
    BY <1>9, Zenon
  <2>2. StitchedEntry(f, i) \in S /\ e \in StitchedEntry(f, i).members
    BY <1>1, <1>3, <2>1, Zenon
  <2> QED BY <1>7, <2>1, <2>2, Zenon DEF S
<1> QED BY <1>5, <1>8, <1>9, Zenon

\* The view of an entry shows its members (projection/document.go:95-107).
LEMMA ViewShows ==
    ASSUME NEW f, NEW n, Filed(f, n), NEW x \in EntrySet(f), NEW g, g.invocations = f.invocations,
           NEW r
    PROVE  View(g, r, x).members = x.members
<1>1. EntrySet(f) = {StitchedEntry(f, i) : i \in Observed(f)}
                    \cup {AsideEntry(f, p) : p \in 1..Len(f.plain)}
  BY EntryKinds, Zenon
<1>2. ASSUME NEW i \in Observed(f), x = StitchedEntry(f, i)
      PROVE  View(g, r, x).members = x.members
  <2>1. i # None
    BY EntryKinds, FlowAssumption
  <2>2. x.inv = i /\ x.members = {f.invocations[i].members[u] : u \in Role} \ {None}
    BY <1>2 DEF StitchedEntry
  <2>3. View(g, r, x) = InvocationView(i, f.invocations[i], r)
    BY <2>1, <2>2, Zenon DEF View
  <2>4. InvocationView(i, f.invocations[i], r).members
          = {f.invocations[i].members[u] : u \in Role} \ {None}
    BY DEF InvocationView
  <2> QED BY <2>2, <2>3, <2>4, Zenon
<1>3. ASSUME NEW p \in 1..Len(f.plain), x = AsideEntry(f, p)
      PROVE  View(g, r, x).members = x.members
  <2>1. x.inv = None
    BY <1>3 DEF AsideEntry
  <2>2. View(g, r, x) = PlainView(x)
    BY <2>1, Zenon DEF View
  <2> QED BY <2>2 DEF PlainView
<1> QED BY <1>1, <1>2, <1>3, Zenon
-----------------------------------------------------------------------------
(***************************************************************************)
(* The specification.                                                      *)
(***************************************************************************)

\* The document of the flow, as the configured rule projects it.
Projected(f, r) == Project(Finalize(f, "timeout", f.expiresAt), r)

ProjectionInv ==
    /\ arrivals \in 0..MaxArrivals
    /\ flow = None => arrivals = 0 /\ document = None
    /\ flow # None => Filed(flow, arrivals)
    /\ document # None => document = Projected(flow, configured)

\* What the document takes from the flow.
LEMMA DocumentParts ==
    ASSUME NEW f, NEW r
    PROVE  /\ Projected(f, r).startedAt = FlowTimes(f.events).first
           /\ Projected(f, r).endedAt = FlowTimes(f.events).last
           /\ Projected(f, r).eventCount = Len(f.events)
           /\ Projected(f, r).duplicateCount = f.duplicates
           /\ Projected(f, r).events = [m \in DOMAIN Entries(f) |->
                            View(Finalize(f, "timeout", f.expiresAt), r, Entries(f)[m])]
           /\ Finalize(f, "timeout", f.expiresAt).invocations = f.invocations
<1> DEFINE g == Finalize(f, "timeout", f.expiresAt)
           d == Projected(f, r)
<1>1. /\ g.events = f.events /\ g.entries = Entries(f) /\ g.invocations = f.invocations
      /\ g.duplicates = f.duplicates
  BY DEF Finalize
<1>2. d = Project(g, r)
  BY DEF Projected
<1> HIDE DEF g, d
<1>3. /\ d.startedAt = FlowTimes(g.events).first /\ d.endedAt = FlowTimes(g.events).last
      /\ d.eventCount = Len(g.events) /\ d.duplicateCount = g.duplicates
      /\ d.events = [m \in DOMAIN g.entries |-> View(g, r, g.entries[m])]
  BY <1>2 DEF Project
<1> QED BY <1>1, <1>3, Zenon DEF g, d

\* A flow is opened before its first arrival is filed.
LEMMA OpenFiled ==
    ASSUME NEW e \in Event
    PROVE  Filed(Open(e), 0)
<1> DEFINE f == Open(e)
           I == [i \in Invocation |-> None]
<1>1. /\ f.events = << >> /\ f.plain = << >> /\ f.invocations = I
      /\ f.duplicates = 0 /\ f.nextOrder = 0
  BY DEF Open
<1>2. f \in Flow
  <2>1. e.observedAt \in 1..MaxTime /\ e.observedAt + Timeout \in Nat
    BY EventParts, FlowAssumption
  <2> QED BY <2>1 DEF Open, Flow
<1> HIDE DEF f
<1>3. \A i \in Invocation : I[i] = None
  OBVIOUS
<1> HIDE DEF I
<1>4. Seated(I) /\ Aside(I, << >>, 0) /\ Located(<< >>, I, << >>) /\ Ordered(I, << >>, 0)
  <2>1. \A p : p \notin 1..Len(<< >>)
    OBVIOUS
  <2>2. Seated(I)
    BY <1>3, Zenon DEF Seated, Holder
  <2>3. Aside(I, << >>, 0) /\ Located(<< >>, I, << >>)
    BY <2>1, Zenon DEF Aside, Located
  <2> QED BY <1>3, <2>1, <2>2, <2>3, Zenon DEF Ordered
<1>5. Len(f.events) + f.duplicates = 0
  BY <1>1
<1> QED BY <1>1, <1>2, <1>4, <1>5, Zenon DEF Filed, f

LEMMA ProjectionStarts == ProjectionInit => ProjectionInv
BY ProjectionAssumption DEF ProjectionInit, ProjectionInv

LEMMA ProjectionSteps == ProjectionInv /\ [ProjectionNext]_projectionVars => ProjectionInv'
<1> SUFFICES ASSUME ProjectionInv, [ProjectionNext]_projectionVars PROVE ProjectionInv'
  OBVIOUS
<1>1. ASSUME NEW d \in Document, NEW t \in 1..MaxTime, AcceptEvent(d, t)
      PROVE  ProjectionInv'
  <2> DEFINE e == [doc |-> d, observedAt |-> t, id |-> arrivals + 1]
             f == IF flow = None THEN Open(e) ELSE flow
  <2>1. /\ document = None /\ arrivals < MaxArrivals /\ flow' = Apply(f, e)
        /\ arrivals' = arrivals + 1 /\ document' = document
    BY <1>1, Zenon DEF AcceptEvent
  <2>2. arrivals \in Nat /\ MaxArrivals \in Nat
    BY ProjectionAssumption DEF ProjectionInv
  <2>3. e \in Event /\ e.id = arrivals + 1
    BY <2>1, <2>2 DEF Event
  <2> HIDE DEF e
  <2>4. Filed(f, arrivals)
    BY <2>3, OpenFiled, Zenon DEF ProjectionInv
  <2> HIDE DEF f
  <2>5. Filed(flow', arrivals + 1)
    BY <2>1, <2>2, <2>3, <2>4, ApplyFiled, Zenon
  <2>6. flow' # None
    <3>1. flow' \in Flow
      BY <2>5, Zenon DEF Filed
    <3> QED BY <3>1, ProjectionAssumption
  <2>7. arrivals' \in 0..MaxArrivals
    BY <2>1, <2>2
  <2> QED BY <2>1, <2>5, <2>6, <2>7, Zenon DEF ProjectionInv
<1>2. CASE FinalizeAndProject
  <2>1. /\ flow # None /\ document' = Projected(flow, configured)
        /\ configured' = configured /\ flow' = flow /\ arrivals' = arrivals
    BY <1>2, Zenon DEF FinalizeAndProject, Projected
  <2> QED BY <2>1, Zenon DEF ProjectionInv
<1>3. CASE UNCHANGED projectionVars
  BY <1>3, Zenon DEF projectionVars, ProjectionInv
<1> QED BY <1>1, <1>2, <1>3 DEF ProjectionNext
-----------------------------------------------------------------------------
\* There are finitely many entries.
LEMMA EntriesFinite ==
    ASSUME Counting, NEW f, NEW n, Filed(f, n)
    PROVE  IsFiniteSet(EntrySet(f))
<1> DEFINE a == [i \in Observed(f) |-> StitchedEntry(f, i)]
           b == [p \in 1..Len(f.plain) |-> AsideEntry(f, p)]
<1>1. EntrySet(f) = {a[i] : i \in Observed(f)} \cup {b[p] : p \in 1..Len(f.plain)}
  <2>1. EntrySet(f) = {StitchedEntry(f, i) : i \in Observed(f)}
                      \cup {AsideEntry(f, p) : p \in 1..Len(f.plain)}
    BY EntryKinds, Zenon
  <2>2. /\ {a[i] : i \in Observed(f)} = {StitchedEntry(f, i) : i \in Observed(f)}
        /\ {b[p] : p \in 1..Len(f.plain)} = {AsideEntry(f, p) : p \in 1..Len(f.plain)}
    OBVIOUS
  <2> QED BY <2>1, <2>2, Zenon
<1> HIDE DEF a, b
<1>2. IsFiniteSet(Observed(f))
  <2>1. Observed(f) \subseteq Invocation /\ IsFiniteSet(Invocation)
    BY FlowAssumption, Zenon DEF Observed
  <2> QED BY <2>1, Zenon DEF Counting
<1>3. IsFiniteSet(1..Len(f.plain))
  <2>1. Len(f.plain) \in Nat
    BY FlowParts, Zenon DEF Filed
  <2> QED BY <2>1, Zenon DEF Counting
<1>4. /\ \A S, c : IsFiniteSet(S) => IsFiniteSet({c[x] : x \in S})
      /\ \A S, T : IsFiniteSet(S) /\ IsFiniteSet(T) => IsFiniteSet(S \cup T)
  BY Zenon DEF Counting
<1>5. IsFiniteSet({a[i] : i \in Observed(f)})
  BY <1>2, <1>4, Zenon
<1>6. IsFiniteSet({b[p] : p \in 1..Len(f.plain)})
  BY <1>3, <1>4, Zenon
<1>7. IsFiniteSet({a[i] : i \in Observed(f)} \cup {b[p] : p \in 1..Len(f.plain)})
  BY <1>4, <1>5, <1>6, Zenon
<1> QED BY <1>1, <1>7, Zenon

\* Every stored event is shown in one view (projection/document.go:95-107).
LEMMA ShownInOne ==
    ASSUME Counting, NEW f, NEW n, Filed(f, n), NEW r, NEW d, d = Projected(f, r),
           NEW e \in Event, \E a \in 1..Len(f.events) : f.events[a] = e
    PROVE  Cardinality({m \in DOMAIN d.events : e \in d.events[m].members}) = 1
<1> DEFINE S == EntrySet(f)
           q == Entries(f)
           N == 1..Cardinality(S)
           g == Finalize(f, "timeout", f.expiresAt)
           shown == {m \in DOMAIN d.events : e \in d.events[m].members}
<1>1. Lists(q, S)
  BY EntriesFinite, EntriesTold, EntriesList, Zenon
<1>2. d.events = [m \in DOMAIN q |-> View(g, r, q[m])] /\ g.invocations = f.invocations
  <2>1. Projected(f, r).events = [m \in DOMAIN q |-> View(g, r, q[m])]
    BY DocumentParts, Zenon
  <2>2. g.invocations = f.invocations
    BY DocumentParts, Zenon
  <2> QED BY <2>1, <2>2, Zenon
<1>3. PICK x \in S : e \in x.members /\ \A y \in S : e \in y.members => y = x
  BY OneEntry, Zenon
<1>4. \A y \in S : View(g, r, y).members = y.members
  BY <1>2, ViewShows DEF S
<1> HIDE DEF S, q, g
<1>5. /\ DOMAIN q = N /\ \A m \in N : q[m] \in S
      /\ \A y \in S : \E m \in N : q[m] = y
      /\ \A a, b \in N : q[a] = q[b] => a = b
  <2>1. q \in [N -> S]
    BY <1>1, Zenon DEF Lists
  <2>2. DOMAIN q = N /\ \A m \in N : q[m] \in S
    BY <2>1
  <2> QED BY <1>1, <2>2, Zenon DEF Lists
<1> HIDE DEF N
<1>6. DOMAIN d.events = N /\ \A m \in N : d.events[m].members = q[m].members
  <2>1. DOMAIN d.events = N /\ \A m \in N : d.events[m] = View(g, r, q[m])
    BY <1>2, <1>5
  <2> QED BY <1>4, <1>5, <2>1, Zenon
<1>7. PICK k \in N : q[k] = x
  BY <1>5, Zenon
<1>8. shown = {k}
  <2>1. \A m \in N : e \in q[m].members => m = k
    BY <1>3, <1>5, <1>7, Zenon
  <2>2. e \in q[k].members
    BY <1>3, <1>7, Zenon
  <2> QED BY <1>6, <1>7, <2>1, <2>2, Zenon
<1>9. Cardinality({k}) = 1
  BY Zenon DEF Counting
<1> QED BY <1>8, <1>9, Zenon

\* Range of a flow's events.
LEMMA StoredEvents ==
    ASSUME NEW f \in Flow
    PROVE  /\ DOMAIN f.events = 1..Len(f.events)
           /\ \A a \in 1..Len(f.events) : f.events[a] \in Event
           /\ \A e \in Range(f.events) : e \in Event /\ \E a \in 1..Len(f.events) : f.events[a] = e
<1>1. f.events \in Seq(Event)
  BY FlowParts, Zenon
<1>2. DOMAIN f.events = 1..Len(f.events) /\ \A a \in 1..Len(f.events) : f.events[a] \in Event
  BY <1>1
<1> QED BY <1>2, Zenon DEF Range

LEMMA TimesHold == ProjectionInv => FlowTimesExact
<1> SUFFICES ASSUME ProjectionInv, document # None PROVE FlowTimesExact
  BY Zenon DEF FlowTimesExact
<1> DEFINE E == flow.events
           s == [a \in 1..Len(E) |-> EventTimestamp(E[a])]
           t == FlowTimes(E)
<1>1. flow # None /\ Filed(flow, arrivals) /\ document = Projected(flow, configured)
  BY Zenon DEF ProjectionInv
<1>2. flow \in Flow
  BY <1>1, Zenon DEF Filed
<1>3. E \in Seq(Event) /\ DOMAIN E = 1..Len(E)
  BY <1>2, FlowParts, StoredEvents, Zenon
<1>4. document.startedAt = t.first /\ document.endedAt = t.last
  <2>1. Projected(flow, configured).startedAt = t.first
    BY DocumentParts, Zenon
  <2>2. Projected(flow, configured).endedAt = t.last
    BY DocumentParts, Zenon
  <2> QED BY <1>1, <2>1, <2>2, Zenon
<1>5. Bounds(t, s, Len(E))
  BY <1>3, FlowTimesIs, Zenon
<1>6. \A a \in 1..Len(E) : s[a] = EventTimestamp(E[a])
  OBVIOUS
<1>7. \A x : x \in Stamps <=> \E a \in 1..Len(E) : x # 0 /\ x = s[a]
  BY <1>3, <1>6, Zenon DEF Stamps, Range
<1> HIDE DEF s, t, E
<1>8. CASE Stamps = {}
  <2>1. \A a \in 1..Len(E) : s[a] = 0
    BY <1>7, <1>8, Zenon
  <2>2. t.first = 0 /\ t.last = 0
    BY <1>5, <2>1, Zenon DEF Bounds
  <2> QED BY <1>4, <1>8, <2>2, Zenon DEF FlowTimesExact
<1>9. CASE Stamps # {}
  <2>1. PICK b \in 1..Len(E) : s[b] # 0
    BY <1>7, <1>9, Zenon
  <2>2. t.first \in Stamps /\ t.last \in Stamps
    BY <1>5, <1>7, <2>1, Zenon DEF Bounds
  <2>3. \A a \in 1..Len(E) : s[a] # 0 => t.first <= s[a] /\ s[a] <= t.last
    BY <1>5, Zenon DEF Bounds
  <2>4. \A x \in Stamps : t.first <= x /\ x <= t.last
    BY <1>7, <2>3, Zenon
  <2> QED BY <1>4, <1>9, <2>2, <2>4, Zenon DEF FlowTimesExact
<1> QED BY <1>8, <1>9

LEMMA RolesHold == ProjectionInv => RoleByIdentity
<1> DEFINE I == flow.invocations
           P == flow.plain
<1> SUFFICES ASSUME ProjectionInv, document # None, NEW e \in Range(flow.events), NEW r \in Role,
                    NEW i \in Invocation, I[i] # None, I[i].members[r] # None,
                    I[i].members[r].doc = e.doc
             PROVE  i \in Observed(flow) /\ I[i].members[r] = e
  BY Zenon DEF RoleByIdentity, EventOccupiesRole
<1>1. Filed(flow, arrivals)
  BY Zenon DEF ProjectionInv
<1>2. flow \in Flow /\ Seated(I) /\ Aside(I, P, arrivals) /\ Located(flow.events, I, P)
  BY <1>1, Zenon DEF Filed
<1>3. PICK a \in 1..Len(flow.events) : flow.events[a] = e
  BY <1>2, StoredEvents, Zenon
<1>4. i \in Observed(flow)
  BY Zenon DEF Observed
<1> HIDE DEF I, P
<1>5. Holder(I, i, r) = I[i].members[r]
  BY Zenon DEF Holder
<1>6. SlotOf[e.doc] = [inv |-> i, role |-> r]
  <2>1. SlotOf[Holder(I, i, r).doc] = [inv |-> i, role |-> r]
    BY <1>2, <1>5, Zenon DEF Seated
  <2> QED BY <1>5, <2>1, Zenon
<1>7. SlotOf[e.doc] # None /\ SlotOf[e.doc].inv = i /\ SlotOf[e.doc].role = r
  <2>1. [inv |-> i, role |-> r] \in Slot
    BY DEF Slot
  <2>2. SlotOf[e.doc] # None
    BY <1>6, <2>1, FlowAssumption, Zenon
  <2> QED BY <1>6, <2>2
<1>8. Taken(I, e.doc) = I[i].members[r]
  BY <1>5, <1>7, Zenon DEF Taken
<1>9. ~\E p \in 1..Len(P) : P[p].event = e
  <2> SUFFICES ASSUME NEW p \in 1..Len(P), P[p].event = e PROVE FALSE
    BY Zenon
  <2>1. \/ SlotOf[P[p].event.doc] = None
        \/ Taken(I, P[p].event.doc).doc # P[p].event.doc
    BY <1>2, Zenon DEF Aside
  <2>2. SlotOf[e.doc] = None \/ Taken(I, e.doc).doc # e.doc
    BY <2>1, Zenon
  <2> QED BY <1>7, <1>8, <2>2, Zenon
<1>10. Taken(I, e.doc) = e
  <2>1. \/ \E p \in 1..Len(P) : P[p].event = flow.events[a]
        \/ Taken(I, flow.events[a].doc) = flow.events[a]
    BY <1>2, <1>3, Zenon DEF Located
  <2> QED BY <1>3, <1>9, <2>1, Zenon
<1> QED BY <1>4, <1>8, <1>10, Zenon

LEMMA ShownHolds ==
    ASSUME Counting
    PROVE  ProjectionInv => ShownOnce
<1> SUFFICES ASSUME ProjectionInv, document # None PROVE ShownOnce
  BY Zenon DEF ShownOnce
<1>1. Filed(flow, arrivals) /\ document = Projected(flow, configured)
  BY Zenon DEF ProjectionInv
<1>2. flow \in Flow /\ Len(flow.events) + flow.duplicates = arrivals
  BY <1>1, Zenon DEF Filed
<1>3. document.eventCount + document.duplicateCount = arrivals
  <2>1. Projected(flow, configured).eventCount = Len(flow.events)
    BY DocumentParts, Zenon
  <2>2. Projected(flow, configured).duplicateCount = flow.duplicates
    BY DocumentParts, Zenon
  <2> QED BY <1>1, <1>2, <2>1, <2>2, Zenon
<1>4. ASSUME NEW e \in Range(flow.events)
      PROVE  Cardinality({n \in DOMAIN document.events : e \in document.events[n].members}) = 1
  <2>1. e \in Event /\ \E a \in 1..Len(flow.events) : flow.events[a] = e
    BY <1>2, StoredEvents, Zenon
  <2> QED BY <1>1, <2>1, ShownInOne
<1> QED BY <1>3, <1>4, Zenon DEF ShownOnce
-----------------------------------------------------------------------------
INSTANCE FiniteSetTheorems

\* The library's facts about finite sets.
LEMMA Counts == Counting
<1>1. \A S : IsFiniteSet(S) => Cardinality(S) \in Nat
  BY FS_CardinalityType, Zenon
<1>2. ASSUME NEW S, NEW T, IsFiniteSet(S), T \subseteq S
      PROVE  IsFiniteSet(T) /\ Cardinality(T) <= Cardinality(S)
                            /\ (Cardinality(S) = Cardinality(T) => S = T)
  BY <1>2, FS_Subset, Zenon
<1>3. ASSUME NEW S, NEW T, NEW x, IsFiniteSet(S), T \subseteq S, x \in S, x \notin T
      PROVE  Cardinality(T) < Cardinality(S)
  <2> DEFINE a == Cardinality(T)
             b == Cardinality(S)
  <2>1. a <= b /\ IsFiniteSet(T) /\ (b = a => S = T)
    BY <1>2, <1>3, Zenon
  <2>2. a # b
    BY <1>3, <2>1, Zenon
  <2>3. a \in Nat /\ b \in Nat
    BY <1>1, <1>3, <2>1, Zenon
  <2> HIDE DEF a, b
  <2>4. a < b
    BY <2>1, <2>2, <2>3
  <2> QED BY <2>4, Zenon DEF a, b
<1>4. \A S, f : (/\ IsFiniteSet(S) /\ f \in [S -> 0..(Cardinality(S) - 1)]
                 /\ \A x, y \in S : f[x] = f[y] => x = y)
                => \A n \in 0..(Cardinality(S) - 1) : \E x \in S : f[x] = n
  <2> TAKE S, f
  <2>0. HAVE /\ IsFiniteSet(S) /\ f \in [S -> 0..(Cardinality(S) - 1)]
             /\ \A x, y \in S : f[x] = f[y] => x = y
  <2> DEFINE c == Cardinality(S)
             T == 0..(c - 1)
  <2>1. c \in Nat
    BY <1>1, <2>0, Zenon
  <2> HIDE DEF c
  <2>2. IsFiniteSet(T) /\ Cardinality(T) = IF 0 > c - 1 THEN 0 ELSE c - 1 - 0 + 1
    <3>1. 0 \in Int /\ c - 1 \in Int
      BY <2>1
    <3> QED BY <3>1, FS_Interval, Zenon
  <2> HIDE DEF T
  <2>3. Cardinality(T) = c
    BY <2>1, <2>2
  <2>4. f \in Injection(S, T)
    <3>1. f \in [S -> T]
      BY <2>0, Zenon DEF T, c
    <3> QED BY <2>0, <3>1 DEF Injection, IsInjective
  <2>5. f \in Surjection(S, T)
    BY <2>0, <2>2, <2>3, <2>4, FS_Injection, Zenon DEF c
  <2> QED BY <2>5, Zenon DEF Surjection, T, c
<1>5. \A x : Cardinality({x}) = 1
  BY FS_Singleton, Zenon
<1>6. ASSUME NEW S, NEW f, IsFiniteSet(S)
      PROVE  IsFiniteSet({f[x] : x \in S})
  <2> DEFINE T == {f[x] : x \in S}
             g == [x \in S |-> f[x]]
  <2>1. g \in [S -> T] /\ \A t \in T : \E x \in S : g[x] = t
    BY Zenon
  <2> HIDE DEF g, T
  <2>2. g \in Surjection(S, T)
    BY <2>1, Zenon DEF Surjection
  <2>3. IsFiniteSet(T)
    BY <1>6, <2>2, FS_Surjection, Zenon
  <2> QED BY <2>3, Zenon DEF T
<1>7. ASSUME NEW S, NEW T, IsFiniteSet(S), IsFiniteSet(T)
      PROVE  IsFiniteSet(S \cup T)
  BY <1>7, FS_Union, Zenon
<1>8. ASSUME NEW n \in Nat
      PROVE  IsFiniteSet(1..n)
  <2>1. 1 \in Int /\ n \in Int
    OBVIOUS
  <2> QED BY <2>1, FS_Interval, Zenon
<1>9. \A S, T : IsFiniteSet(S) /\ T \subseteq S =>
        IsFiniteSet(T) /\ Cardinality(T) \in Nat /\ Cardinality(S) \in Nat
  BY <1>1, <1>2, Zenon
<1> QED BY <1>3, <1>4, <1>5, <1>6, <1>7, <1>8, <1>9, Zenon DEF Counting
-----------------------------------------------------------------------------
\* THEOREM: ProjectionInv, the inductive invariant, holds of every open flow
\* and of its document, for every rule, document and order of arrival
\* (flow.go:185-244).
THEOREM ProjectionInvariance == ProjectionSpec => []ProjectionInv
<1>1. ProjectionInit => ProjectionInv
  BY ProjectionStarts
<1>2. ProjectionInv /\ [ProjectionNext]_projectionVars => ProjectionInv'
  BY ProjectionSteps
<1> QED BY <1>1, <1>2, PTL DEF ProjectionSpec

\* THEOREM: the document's times are the least and the greatest producer
\* timestamp of its events (projection/document.go:245-263, flowTimes).
THEOREM TimesAreExact == ProjectionSpec => []FlowTimesExact
BY ProjectionInvariance, TimesHold, PTL

\* THEOREM: every arrival is counted once, and every stored event is a member
\* of exactly one view of the document (flow.go:185-244,
\* projection/document.go:95-107).
THEOREM EventsAreShownOnce == ProjectionSpec => []ShownOnce
<1>1. ProjectionInv => ShownOnce
  BY Counts, ShownHolds
<1> QED BY <1>1, ProjectionInvariance, PTL

\* THEOREM: the event that is found in a role by its time and its document is
\* the one that was put there (projection/document.go:166-174).
THEOREM RolesAreIdentities == ProjectionSpec => []RoleByIdentity
BY ProjectionInvariance, RolesHold, PTL
=============================================================================
