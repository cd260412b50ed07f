--------------------------- MODULE FlowAggregate ----------------------------
(***************************************************************************)
(* The correlation aggregate (internal/domain/flow): pure operators on the *)
(* value of one flow.  The rule is the module's constants.  A document is  *)
(* known up to reflect.DeepEqual, and the paths a rule extracts from it    *)
(* are constant functions of it: the slot it takes, whether its type is    *)
(* terminal, its size.  An event is a document, the time it was observed   *)
(* and an identity that no operator looks at.  Times are positive numbers  *)
(* and 0 is the zero time.                                                 *)
(***************************************************************************)
EXTENDS Integers, Sequences, FiniteSets

CONSTANTS
    Document,           \* producer documents
    Invocation,         \* what invocationKey encodes: a stitch and its group values
    Role,               \* role names
    SlotOf,             \* slot of a document, [inv |-> ..., role |-> ...], or None
    Requires,           \* the roles an invocation needs (requiredRoles)
    Terminal,           \* documents whose type is terminal
    Size,               \* encoded size of a document
    Timeout,            \* lifecycle.timeout
    Settle,             \* lifecycle.settle
    CloseWhenComplete,  \* lifecycle.close_when is all_invocations_complete
    MaxEvents, MaxEventBytes, MaxFlowBytes,  \* limits, 0 for none
    None

Slot == [inv : Invocation, role : Role]

ASSUME FlowAssumption ==
    /\ SlotOf \in [Document -> Slot \cup {None}]
    /\ None \notin Slot /\ None \notin Invocation
    /\ Requires \in [Invocation -> (SUBSET Role) \ {{}}]
    /\ Terminal \subseteq Document
    /\ Size \in [Document -> Nat]
    /\ Timeout \in Nat \ {0}
    /\ Settle \in Nat
    /\ CloseWhenComplete \in BOOLEAN
    /\ MaxEvents \in Nat /\ MaxEventBytes \in Nat /\ MaxFlowBytes \in Nat
    /\ IsFiniteSet(Invocation)

MinTime(a, b) == IF a < b THEN a ELSE b
-----------------------------------------------------------------------------
Open(first) ==
    [events      |-> <<>>,
     invocations |-> [i \in Invocation |-> None],
     plain       |-> <<>>,
     firstObservedAt |-> first.observedAt,
     timeoutAt   |-> first.observedAt + Timeout,
     expiresAt   |-> first.observedAt + Timeout,
     settleUntil |-> 0,
     duplicates  |-> 0,
     anomalies   |-> 0,
     terminalSeen  |-> FALSE,
     limitExceeded |-> FALSE,
     bytes       |-> 0,
     nextOrder   |-> 0]

Observed(f) == {i \in Invocation : f.invocations[i] # None}

CompleteInvocations(f) == {i \in Observed(f) : f.invocations[i].complete}

IncompleteInvocations(f) == {i \in Observed(f) : ~f.invocations[i].complete}

StoreEvent(f, e) ==
    LET size  == Size[e.doc]
        bytes == f.bytes + size
    IN  [f EXCEPT
           !.events = Append(@, e),
           !.bytes = bytes,
           !.limitExceeded = \/ @
                             \/ MaxEventBytes > 0 /\ size > MaxEventBytes
                             \/ MaxFlowBytes > 0 /\ bytes > MaxFlowBytes]

AppendPlain(f, e) ==
    [StoreEvent(f, e) EXCEPT
       !.plain = Append(@, [event |-> e, order |-> f.nextOrder]),
       !.nextOrder = @ + 1]

\* The invocation of a slot, made on the first event that names it.
WithInvocation(f, i, e) ==
    IF f.invocations[i] # None THEN f
    ELSE [f EXCEPT
            !.invocations[i] = [members  |-> [r \in Role |-> None],
                                complete |-> FALSE,
                                duplicates |-> 0,
                                firstObservedAt |-> e.observedAt,
                                order    |-> f.nextOrder],
            !.nextOrder = @ + 1]

\* invocationComplete over requiredRoles.
InvocationComplete(i, members) == \A r \in Requires[i] : members[r] # None

Occupy(f, slot, e) ==
    LET members == [f.invocations[slot.inv].members EXCEPT ![slot.role] = e]
    IN  [StoreEvent(f, e) EXCEPT
           !.invocations[slot.inv].members = members,
           !.invocations[slot.inv].complete = @ \/ InvocationComplete(slot.inv, members)]

CountDuplicate(f, slot) ==
    [f EXCEPT !.duplicates = @ + 1,
              !.invocations[slot.inv].duplicates = @ + 1]

Occupant(f, slot) ==
    IF f.invocations[slot.inv] = None THEN None
    ELSE f.invocations[slot.inv].members[slot.role]

\* The event repeats the document that already holds its slot.
IsDuplicate(f, e) ==
    /\ SlotOf[e.doc] # None
    /\ Occupant(f, SlotOf[e.doc]) # None
    /\ Occupant(f, SlotOf[e.doc]).doc = e.doc

\* Faulty variant: an event that finds its slot taken is only noted.
ApplyDroppingConflict(f, e) ==
    LET slot == SlotOf[e.doc]
        g == [f EXCEPT !.terminalSeen = @ \/ e.doc \in Terminal]
        h == WithInvocation(g, slot.inv, e)
    IN  IF slot = None THEN AppendPlain(g, e)
        ELSE IF Occupant(h, slot) = None THEN Occupy(h, slot, e)
        ELSE IF IsDuplicate(h, e) THEN CountDuplicate(h, slot)
        ELSE [h EXCEPT !.anomalies = @ + 1]

Apply(f, e) ==
    LET slot == SlotOf[e.doc]
        g == [f EXCEPT !.terminalSeen = @ \/ e.doc \in Terminal]
        h == WithInvocation(g, slot.inv, e)
    IN  IF slot = None THEN AppendPlain(g, e)
        ELSE IF Occupant(h, slot) = None THEN Occupy(h, slot, e)
        ELSE IF IsDuplicate(h, e) THEN CountDuplicate(h, slot)
        ELSE AppendPlain([h EXCEPT !.anomalies = @ + 1], e)
-----------------------------------------------------------------------------
\* Faulty variant: one complete invocation is enough.
AnyComplete(f) == CloseWhenComplete /\ CompleteInvocations(f) # {}

\* The all_invocations_complete closer's condition.
AllComplete(f) ==
    /\ CloseWhenComplete
    /\ CompleteInvocations(f) # {}
    /\ IncompleteInvocations(f) = {}

LimitReached(f) == f.limitExceeded \/ (MaxEvents > 0 /\ Len(f.events) >= MaxEvents)

\* The reason to close, or None, and the flow with the deadline it is left with.
ShouldClose(f, now) ==
    LET closing(reason) == [flow |-> f, reason |-> reason]
        open(g) == [flow |-> g, reason |-> None]
    IN  IF f.terminalSeen THEN closing("terminal_event")
        ELSE IF LimitReached(f) THEN closing("limit_exceeded")
        ELSE IF ~AllComplete(f) THEN
             open(IF f.settleUntil = 0 THEN f
                  ELSE [f EXCEPT !.settleUntil = 0, !.expiresAt = f.timeoutAt])
        ELSE IF Settle = 0 THEN closing("invocations_complete")
        ELSE IF f.settleUntil = 0 THEN
             open([f EXCEPT !.settleUntil = now + Settle,
                            !.expiresAt = MinTime(f.timeoutAt, now + Settle)])
        ELSE IF now < f.settleUntil THEN open(f)
        ELSE closing("invocations_complete")
-----------------------------------------------------------------------------
\* The entries of a flow, stitched and plain, by observed time and then order.
EntrySet(f) ==
    {[inv     |-> i,
      members |-> {f.invocations[i].members[r] : r \in Role} \ {None},
      observedAt |-> f.invocations[i].firstObservedAt,
      order |-> f.invocations[i].order] : i \in Observed(f)}
    \cup {[inv     |-> None,
           members |-> {f.plain[n].event},
           observedAt |-> f.plain[n].event.observedAt,
           order |-> f.plain[n].order] : n \in DOMAIN f.plain}

Precedes(a, b) ==
    \/ a.observedAt < b.observedAt
    \/ a.observedAt = b.observedAt /\ a.order < b.order

Entries(f) ==
    [n \in 1..Cardinality(EntrySet(f)) |->
        CHOOSE a \in EntrySet(f) :
            Cardinality({b \in EntrySet(f) : Precedes(b, a)}) = n - 1]

Finalize(f, reason, now) ==
    [reason      |-> reason,
     events      |-> f.events,
     entries     |-> Entries(f),
     invocations |-> f.invocations,
     anomalies   |-> f.anomalies,
     incomplete  |-> Cardinality(IncompleteInvocations(f)),
     duplicates  |-> f.duplicates,
     firstObservedAt |-> f.firstObservedAt,
     finalizedAt |-> now]
=============================================================================
