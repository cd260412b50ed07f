---------------------------- MODULE OutboxRecord ----------------------------
(***************************************************************************)
(* The data both state stores keep, and the operations of one transaction  *)
(* on it: src/internal/domain/outbox/record.go, and the Tx port of         *)
(* src/internal/application/ports.go.  Keys and output ids are numbers in  *)
(* the byte order of the real ones; documents and error texts are left     *)
(* out.                                                                    *)
(***************************************************************************)
EXTENDS Integers, FiniteSets, Sequences

CONSTANTS
    Key,     \* flow keys
    Id,      \* output ids
    Type,    \* rejection types
    Time,    \* instants: deadlines, creation and retry times
    Filter,  \* filters an administrator may list or replay with
    Op,      \* the operations transactions are made of
    MaxDLQ,  \* max_dlq_records
    None     \* no value

ASSUME OutboxRecordAssumption ==
    /\ Key \subseteq Nat /\ IsFiniteSet(Key)
    /\ Id \subseteq Nat \ {0} /\ IsFiniteSet(Id)
    /\ Time \subseteq Nat \ {0}
    /\ None \notin Nat
    /\ None \notin Type
    /\ Filter \subseteq [id : Id \cup {None}, type : Type \cup {None}, limit : Nat]
    /\ MaxDLQ \in Nat

\* outbox.Record: type is None unless the record was rejected, and next is 0
\* for a NextAttemptAt that was never set.
Record ==
    [created : Time, attempts : Nat, replays : Nat, type : Type \cup {None},
     next : Time \cup {0}]

\* The record application.Finalize enqueues.
NewRecord(now) ==
    [created |-> now, attempts |-> 0, replays |-> 0, type |-> None, next |-> 0]

Present(f) == {x \in DOMAIN f : f[x] # None}
Keep(f, S) == [x \in DOMAIN f |-> IF x \in S THEN f[x] ELSE None]

\* Record.Ready
Ready(record, now) == record.next = 0 \/ now >= record.next

\* The order of the outbox and of the dead letters: CreatedAt, then id.
Older(f, a, b) ==
    \/ f[a].created < f[b].created
    \/ f[a].created = f[b].created /\ a < b

\* The record a permanent verdict leaves in the dead letters.
Rejected(record, v) ==
    [record EXCEPT !.attempts = IF v.attempts > 0 THEN v.attempts ELSE @,
                   !.type = v.type]

\* The record a retryable verdict leaves in the outbox.
Retried(record, v) ==
    [record EXCEPT !.attempts = IF v.attempts > 0 THEN v.attempts ELSE @ + 1,
                   !.next = v.next]

\* The record a replay puts back into the outbox.
Replayed(record, now) ==
    [record EXCEPT !.attempts = 0, !.replays = @ + 1, !.type = None, !.next = now]

\* DeadLetterFilter.Matches: a zero field does not constrain.
Matches(filter, id, record) ==
    /\ filter.id \in {None, id}
    /\ filter.type \in {None, record.type}

\* The first limit elements of S in the order of numbers; no limit if 0.
First(S, limit) ==
    IF limit = 0 THEN S
    ELSE {x \in S : Cardinality({y \in S : y < x}) < limit}

\* A sort: the elements of S by rank in the strict total order before, a set of
\* pairs.
Sorted(S, before) ==
    [n \in 1..Cardinality(S) |->
        CHOOSE x \in S : Cardinality({y \in S : <<y, x>> \in before}) = n - 1]

\* The order of the outbox, on the ids in S.
ByAge(f, S) == {p \in S \X S : Older(f, p[1], p[2])}

\* A read that stops at its limit; no limit if 0.
FirstOf(s, limit) == IF limit > 0 /\ Len(s) > limit THEN SubSeq(s, 1, limit) ELSE s

\* outbox.Result: the delivery loop's verdict about one record.
Result ==
    [as : {"delivered", "retryable", "permanent"}, attempts : Nat, type : Type,
     next : Time]

\* The operations of a transaction that change state; ResolveOutbox takes a
\* verdict for each of some records.
IsOperation(op) ==
    \/ op \in [kind : {"save"}, key : Key, at : Time]
    \/ op \in [kind : {"delete"}, key : Key]
    \/ op \in [kind : {"enqueue"}, id : Id, now : Time]
    \/ op \in [kind : {"replay"}, filter : Filter, now : Time]
    \/ /\ op.kind = "resolve"
       /\ DOMAIN op.results \subseteq Id
       /\ \A i \in DOMAIN op.results : op.results[i] \in Result

ASSUME OpAssumption == \A op \in Op : IsOperation(op)
=============================================================================
