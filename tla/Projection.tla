----------------------------- MODULE Projection -----------------------------
(***************************************************************************)
(* The output document of a finalized flow                                 *)
(* (internal/domain/projection/document.go), for one flow whose events     *)
(* were applied in any order and observed at any time.  Beyond what        *)
(* FlowAggregate knows of a document, the paths of the rule give it a      *)
(* producer timestamp, 0 when it has none that parses, and a value for     *)
(* every promoted field.                                                   *)
(***************************************************************************)
EXTENDS FlowAggregate, Functions

CONSTANTS
    Rules,       \* definitions: the order of roles and requires of every stitch
    Stamp,       \* extract.timestamp of a document
    Promotion,   \* promoted fields: [name, from], from is first, last, any or a role
    ValueOf,     \* value of a promoted field's path in a document, or None
    Coerces,     \* the values a field's declared type takes
    TimestampSource, \* output.timestamp
    MaxTime,     \* bound: observed times
    MaxArrivals  \* bound: events of the flow

Event == [doc : Document, observedAt : 1..MaxTime, id : 1..MaxArrivals]

Stitched ==
    [members : [Role -> Event \cup {None}], complete : BOOLEAN, duplicates : Nat,
     firstObservedAt : 1..MaxTime, order : Nat]

PlainEntry == [event : Event, order : Nat]

Flow ==
    [events : Seq(Event), invocations : [Invocation -> Stitched \cup {None}],
     plain : Seq(PlainEntry), firstObservedAt : 1..MaxTime,
     timeoutAt : Nat, expiresAt : Nat, settleUntil : Nat, duplicates : Nat,
     anomalies : Nat, terminalSeen : BOOLEAN, limitExceeded : BOOLEAN,
     bytes : Nat, nextOrder : Nat]

ASSUME ProjectionAssumption ==
    /\ \A r \in Rules, i \in Invocation :
         /\ Range(r.requires[i]) = Requires[i]
         /\ Range(r.roles[i]) \subseteq Role
         /\ Requires[i] \subseteq Range(r.roles[i])
    /\ Stamp \in [Document -> Nat]
    /\ \A p \in Promotion : p.from \in Role \cup {"first", "last", "any"}
    /\ TimestampSource \in {"finalized", "last_event", "first_event"}
    /\ MaxTime \in Nat /\ MaxArrivals \in Nat
    /\ None \notin Event \cup Stitched \cup Flow

VARIABLES
    configured, \* the rule, one of Rules
    flow,       \* the open flow, None before its first event
    arrivals,   \* number of events applied
    document    \* the projected document, None before

projectionVars == <<configured, flow, arrivals, document>>
-----------------------------------------------------------------------------
EventTimestamp(e) == Stamp[e.doc]

NoTimes == [first |-> 0, last |-> 0]

\* Faulty variant: an event moves one bound only.
FlowTimesElse(events) ==
    LET times[n \in 0..Len(events)] ==
          IF n = 0 THEN NoTimes
          ELSE LET t == times[n - 1]
                   stamp == EventTimestamp(events[n])
               IN  IF stamp = 0 THEN t
                   ELSE IF t.first = 0 \/ stamp < t.first THEN [t EXCEPT !.first = stamp]
                   ELSE IF t.last = 0 \/ stamp > t.last THEN [t EXCEPT !.last = stamp]
                   ELSE t
    IN  times[Len(events)]

\* One turn of the loop: the bounds t, moved by an event's timestamp.
Widen(t, stamp) ==
    IF stamp = 0 THEN t
    ELSE [first |-> IF t.first = 0 \/ stamp < t.first THEN stamp ELSE t.first,
          last  |-> IF t.last = 0 \/ stamp > t.last THEN stamp ELSE t.last]

FlowTimes(events) ==
    LET times[n \in 0..Len(events)] ==
          IF n = 0 THEN NoTimes
          ELSE Widen(times[n - 1], EventTimestamp(events[n]))
    IN  times[Len(events)]

\* The times of an invocation's members, taken in the order of roles.
TimesInOrder(members, roles) ==
    LET times[n \in 0..Len(roles)] ==
          IF n = 0 THEN NoTimes
          ELSE LET t == times[n - 1]
                   stamp == EventTimestamp(members[roles[n]])
               IN  IF members[roles[n]] = None THEN t
                   ELSE [first |-> IF t.first = 0 THEN stamp ELSE t.first, last |-> stamp]
    IN  times[Len(roles)]

\* In the order of requires; in the order of roles if that finds no time.
InvocationTimes(i, invocation, r) ==
    LET required == IF r.requires[i] = << >> THEN r.roles[i] ELSE r.requires[i]
        times == TimesInOrder(invocation.members, required)
    IN  IF times.first # 0 THEN times ELSE TimesInOrder(invocation.members, r.roles[i])

InvocationView(i, invocation, r) ==
    LET times == InvocationTimes(i, invocation, r)
    IN  [inv        |-> i,
         complete   |-> invocation.complete,
         startedAt  |-> times.first,
         endedAt    |-> IF invocation.complete THEN times.last ELSE 0,
         duration   |-> IF invocation.complete THEN times.last - times.first ELSE -1,
         members    |-> {invocation.members[x] : x \in Role} \ {None}]

PlainView(entry) == [inv |-> None, members |-> entry.members]

View(finalized, r, entry) ==
    IF entry.inv = None THEN PlainView(entry)
    ELSE InvocationView(entry.inv, finalized.invocations[entry.inv], r)

\* invocationView's second result: a negative duration, the -1 included.
ClockSkew(view) == view.inv # None /\ view.duration < 0

OutputTimestamp(finalized) ==
    LET times == FlowTimes(finalized.events)
    IN  CASE TimestampSource = "finalized"  -> finalized.finalizedAt
          [] TimestampSource = "last_event" -> times.last
          [] OTHER                          -> times.first
-----------------------------------------------------------------------------
\* Faulty variant: members are told apart by time only.
EventOccupiesRoleByTime(e, invocations, role) ==
    \E i \in Invocation :
        /\ invocations[i] # None
        /\ invocations[i].members[role] # None
        /\ invocations[i].members[role].observedAt = e.observedAt

\* Members hold copies of events: they are found by value.
EventOccupiesRole(e, invocations, role) ==
    \E i \in Invocation :
        /\ invocations[i] # None
        /\ invocations[i].members[role] # None
        /\ invocations[i].members[role].observedAt = e.observedAt
        /\ invocations[i].members[role].doc = e.doc

\* The first event a condition holds of, or None.
FirstSuch(events, Test(_)) ==
    LET found == SelectSeq(events, Test)
    IN  IF found = << >> THEN None ELSE found[1]

\* The event a field is promoted from.
PromotionSource(finalized, p) ==
    CASE p.from = "first" -> finalized.events[1]
      [] p.from = "last"  -> finalized.events[Len(finalized.events)]
      [] p.from = "any"   -> FirstSuch(finalized.events, LAMBDA e : ValueOf[p][e.doc] # None)
      [] OTHER -> FirstSuch(finalized.events,
                            LAMBDA e : EventOccupiesRole(e, finalized.invocations, p.from))

PromotionValue(finalized, p) ==
    IF finalized.events = << >> \/ PromotionSource(finalized, p) = None THEN None
    ELSE ValueOf[p][PromotionSource(finalized, p).doc]

\* projectPromotions: a value that does not coerce becomes an anomaly.
Fields(finalized) ==
    [p \in Promotion |->
        LET value == PromotionValue(finalized, p)
        IN  IF value \in Coerces[p] THEN value ELSE None]

PromotionAnomalies(finalized) ==
    {p \in Promotion : PromotionValue(finalized, p) \notin Coerces[p] \cup {None}}

Project(finalized, r) ==
    LET times == FlowTimes(finalized.events)
        views == [n \in DOMAIN finalized.entries |-> View(finalized, r, finalized.entries[n])]
    IN  [timestamp  |-> OutputTimestamp(finalized),
         startedAt  |-> times.first,
         endedAt    |-> times.last,
         duration   |-> times.last - times.first,
         eventCount |-> Len(finalized.events),
         duplicateCount |-> finalized.duplicates,
         incomplete |-> finalized.incomplete,
         events     |-> views,
         conflicts  |-> finalized.anomalies,
         clockSkew  |-> {n \in DOMAIN views : ClockSkew(views[n])},
         promotionFailed |-> PromotionAnomalies(finalized),
         fields     |-> Fields(finalized)]
-----------------------------------------------------------------------------
ProjectionInit ==
    /\ configured \in Rules
    /\ flow = None
    /\ arrivals = 0
    /\ document = None

\* An event reaches the flow, the first one opens it.  Concurrent requests
\* reach it in another order than they were received.
AcceptEvent(d, t) ==
    LET e == [doc |-> d, observedAt |-> t, id |-> arrivals + 1]
    IN  /\ document = None
        /\ arrivals < MaxArrivals
        /\ flow' = Apply(IF flow = None THEN Open(e) ELSE flow, e)
        /\ arrivals' = arrivals + 1
        /\ UNCHANGED <<configured, document>>

\* The flow times out.
FinalizeAndProject ==
    /\ flow # None
    /\ document = None
    /\ document' = Project(Finalize(flow, "timeout", flow.expiresAt), configured)
    /\ UNCHANGED <<configured, flow, arrivals>>

ProjectionNext ==
    (\E d \in Document, t \in 1..MaxTime : AcceptEvent(d, t)) \/ FinalizeAndProject

ProjectionSpec == ProjectionInit /\ [][ProjectionNext]_projectionVars
-----------------------------------------------------------------------------
(***************************************************************************)
(* Properties.                                                             *)
(***************************************************************************)

Stamps == {EventTimestamp(e) : e \in Range(flow.events)} \ {0}

\* The document's times are the least and the greatest producer timestamp of
\* its events, however they arrived; events without one do not count
\* (projection/document.go:245-263).
FlowTimesExact ==
    document # None =>
      IF Stamps = {} THEN document.startedAt = 0 /\ document.endedAt = 0
      ELSE /\ {document.startedAt, document.endedAt} \subseteq Stamps
           /\ \A s \in Stamps : document.startedAt <= s /\ s <= document.endedAt

\* Every arrival is a counted duplicate or a stored event, and every stored
\* event is shown in exactly one entry of the document, whatever slots the
\* events contest (flow.go:185-244, projection/document.go:95-107).
ShownOnce ==
    document # None =>
      /\ document.eventCount + document.duplicateCount = arrivals
      /\ \A e \in Range(flow.events) :
           Cardinality({n \in DOMAIN document.events : e \in document.events[n].members}) = 1

\* Looking a member up by value finds it by identity: an event found in a role
\* is the one that was put there, though other events were observed at the same
\* time or carry the same document (projection/document.go:166-174).
RoleByIdentity ==
    document # None =>
      \A e \in Range(flow.events), r \in Role :
        EventOccupiesRole(e, flow.invocations, r)
          => \E i \in Observed(flow) : flow.invocations[i].members[r] = e
=============================================================================
