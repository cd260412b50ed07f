----------------------------- MODULE StateStore -----------------------------
(***************************************************************************)
(* What the application is promised by a state store: the StateStore and   *)
(* Tx ports of src/internal/application/ports.go.  One transaction at a    *)
(* time sees its own writes, is published whole or not at all, and what    *)
(* was published survives a crash up to the last sync.                     *)
(***************************************************************************)
CONSTANTS
    Op,          \* operations of a transaction
    After(_, _), \* the content that an operation makes of a content
    Empty,       \* the content of a new store
    None,        \* no value
    SyncWrites   \* a commit returns only when it is durable

VARIABLES
    committed,  \* the published content
    durable,    \* the content a crash falls back to
    staged      \* the open transaction's view, or None

vars == <<committed, durable, staged>>

Init ==
    /\ committed = Empty
    /\ durable = Empty
    /\ staged = None

Begin ==
    /\ staged = None
    /\ staged' = committed
    /\ UNCHANGED <<committed, durable>>

Do(op) ==
    /\ staged # None
    /\ staged' = After(staged, op)
    /\ UNCHANGED <<committed, durable>>

Commit ==
    /\ staged # None
    /\ committed' = staged
    /\ durable' = IF SyncWrites THEN staged ELSE durable
    /\ staged' = None

Rollback ==
    /\ staged # None
    /\ staged' = None
    /\ UNCHANGED <<committed, durable>>

\* A write-ahead log reaches the disk in the background.
Sync ==
    /\ durable' = committed
    /\ UNCHANGED <<committed, staged>>

Crash ==
    /\ committed' = durable
    /\ staged' = None
    /\ UNCHANGED durable

Next ==
    \/ Begin \/ Commit \/ Rollback \/ Sync \/ Crash
    \/ \E op \in Op : Do(op)

Spec == Init /\ [][Next]_vars
=============================================================================
