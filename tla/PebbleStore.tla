---------------------------- MODULE PebbleStore ----------------------------
(***************************************************************************)
(* The durable store: src/internal/adapters/state/pebble/store.go.  The    *)
(* database is five families of cells, one per key prefix: flows (f/),     *)
(* the expiry index (x/, millisecond and flow key), the outbox (o/), the   *)
(* dead letters (d/) and the drop counter.  A transaction is an indexed    *)
(* batch: cells it did not touch show the database through.                *)
(***************************************************************************)
EXTENDS StorePort

CONSTANTS
    SyncWrites,  \* state.sync_writes
    Milli,       \* instants per millisecond, the grain of the expiry index
    Untouched    \* a cell the batch has no entry for

ASSUME StoreAssumption ==
    /\ SyncWrites \in BOOLEAN
    /\ Milli \in Nat \ {0}
    /\ Untouched # None
    /\ Untouched \notin Nat \cup Record
    /\ None \notin Record

VARIABLES
    db,      \* the database
    synced,  \* the database as a crash would leave it
    batch,   \* the indexed batch of the running WithTx, or None
    report   \* the DeadLetterChange of the last operation

vars == <<db, synced, batch, report>>

\* The expiry cells: the deadline's UnixMilli, then the flow key; a set cell
\* holds no data.
Ms(t) == t \div Milli
NilValue == 0
Cell == {Ms(t) : t \in Time} \X Key

Cells(v) ==
    [flow    |-> [k \in Key |-> v],
     expiry  |-> [c \in Cell |-> v],
     outbox  |-> [i \in Id |-> v],
     dead    |-> [i \in Id |-> v],
     dropped |-> v]

\* What the cells may hold, in the database and in a batch.
Cellular(extra) ==
    [flow : [Key -> Time \cup {None} \cup extra],
     expiry : [Cell -> {NilValue, None} \cup extra],
     outbox : [Id -> Record \cup {None} \cup extra],
     dead : [Id -> Record \cup {None} \cup extra],
     dropped : Nat \cup {None} \cup extra]
Database == Cellular({})
Batch == Cellular({Untouched})

ASSUME NoBatchAssumption == None \notin Batch \cup Contents

\* Reads through an indexed batch.
Over(base, top) == [x \in DOMAIN base |-> IF top[x] = Untouched THEN base[x] ELSE top[x]]
View(d, b) ==
    [flow    |-> Over(d.flow, b.flow),
     expiry  |-> Over(d.expiry, b.expiry),
     outbox  |-> Over(d.outbox, b.outbox),
     dead    |-> Over(d.dead, b.dead),
     dropped |-> IF b.dropped = Untouched THEN d.dropped ELSE b.dropped]
----------------------------------------------------------------------------
(* The operations of tx: each gives the batch it leaves.                   *)

\* SaveFlow replaces the index entry of the flow's previous deadline.
SaveFlow(d, b, key, at) ==
    LET previous == View(d, b).flow[key]
        cleared == [c \in Cell |-> IF previous # None /\ c = <<Ms(previous), key>>
                                   THEN None ELSE b.expiry[c]]
    IN  [b EXCEPT !.expiry = [cleared EXCEPT ![<<Ms(at), key>>] = NilValue], !.flow[key] = at]

DeleteFlow(d, b, key) ==
    LET previous == View(d, b).flow[key]
    IN  [b EXCEPT !.expiry = [c \in Cell |-> IF previous # None /\ c = <<Ms(previous), key>>
                                             THEN None ELSE @[c]],
                  !.flow[key] = None]

EnqueueOutbox(b, id, now) == [b EXCEPT !.outbox[id] = NewRecord(now)]

\* The permanent verdicts about records that are in the outbox.
Losses(outbox, results) ==
    {i \in DOMAIN results : outbox[i] # None /\ results[i].as = "permanent"}

\* The batch after the loop over the results, before the trim.
Settle(d, b, results) ==
    LET outbox == View(d, b).outbox
    IN  [b EXCEPT
            !.outbox = [i \in Id |->
                IF i \notin DOMAIN results \/ outbox[i] = None THEN @[i]
                ELSE IF results[i].as = "retryable" THEN Retried(outbox[i], results[i])
                ELSE None],
            !.dead = [i \in Id |->
                IF i \in Losses(outbox, results) THEN Rejected(outbox[i], results[i])
                ELSE @[i]]]

\* Faulty variant: the records are dropped in the order of the keys.
TrimmedByKey(dead) ==
    LET records == Present(dead)
        excess == Cardinality(records) - MaxDLQ
    IN  {i \in records : Cardinality({j \in records : j < i}) < excess}

\* trimDeadLetters sorts by CreatedAt and id and drops the front.
Trimmed(dead) ==
    LET records == Present(dead)
        excess == Cardinality(records) - MaxDLQ
    IN  {i \in records : Cardinality({j \in records : Older(dead, j, i)}) < excess}

ResolveOutbox(d, b, results) ==
    LET settled == Settle(d, b, results)
        view == View(d, settled)
        gone == Trimmed(view.dead)
    IN  IF Losses(View(d, b).outbox, results) = {} THEN settled
        ELSE [settled EXCEPT
                !.dead = [i \in Id |-> IF i \in gone THEN None ELSE @[i]],
                !.dropped = IF gone = {} THEN @
                            ELSE Cardinality(gone) + IF view.dropped = None THEN 0
                                                     ELSE view.dropped]

\* Faulty variant: a rejection that replaces a dead letter of the same id is
\* not reported as a removal.
ResolveChangeBlind(d, b, results) ==
    LET lost == Losses(View(d, b).outbox, results)
        after == View(d, Settle(d, b, results)).dead
        gone == Trimmed(after)
    IN  IF lost = {} THEN NoChange
        ELSE [changed |-> TRUE,
              records |-> Cardinality(Present(after)) - Cardinality(gone),
              dropped |-> Cardinality(gone),
              net |-> [t \in Type |-> Tally(after, lost)[t] - Tally(after, gone)[t]]]

\* Added: every rejection.  Removed: the dead letter it replaces, the trimmed.
ResolveChange(d, b, results) ==
    LET before == View(d, b)
        lost == Losses(before.outbox, results)
        after == View(d, Settle(d, b, results)).dead
        gone == Trimmed(after)
    IN  IF lost = {} THEN NoChange
        ELSE [changed |-> TRUE,
              records |-> Cardinality(Present(after)) - Cardinality(gone),
              dropped |-> Cardinality(gone),
              net |-> [t \in Type |-> Tally(after, lost)[t] - Tally(after, gone)[t]
                                      - Tally(before.dead, lost \cap Present(before.dead))[t]]]

\* The scan of the d/ family stops at the limit.
Candidates(dead, filter) ==
    First({i \in Present(dead) : Matches(filter, i, dead[i])}, filter.limit)

ReplayDeadLetters(d, b, filter, now) ==
    LET dead == View(d, b).dead
        moved == Candidates(dead, filter)
    IN  [b EXCEPT !.outbox = [i \in Id |-> IF i \in moved THEN Replayed(dead[i], now) ELSE @[i]],
                  !.dead = [i \in Id |-> IF i \in moved THEN None ELSE @[i]]]

ReplayChange(d, b, filter) ==
    LET dead == View(d, b).dead
        moved == Candidates(dead, filter)
    IN  IF moved = {} THEN NoChange
        ELSE [changed |-> TRUE,
              records |-> Cardinality(Present(dead) \ moved),
              dropped |-> 0,
              net |-> [t \in Type |-> -Tally(dead, moved)[t]]]

Dropped(v) == IF v.dropped = None THEN 0 ELSE v.dropped
----------------------------------------------------------------------------
Init ==
    /\ db = Cells(None)
    /\ synced = Cells(None)
    /\ batch = None
    /\ report = NoChange

\* WithTx takes the mutex and opens an indexed batch.
Begin ==
    /\ batch = None
    /\ batch' = Cells(Untouched)
    /\ report' = NoChange
    /\ UNCHANGED <<db, synced>>

Do(op) ==
    /\ batch # None
    /\ batch' = CASE op.kind = "save"    -> SaveFlow(db, batch, op.key, op.at)
                  [] op.kind = "delete"  -> DeleteFlow(db, batch, op.key)
                  [] op.kind = "enqueue" -> EnqueueOutbox(batch, op.id, op.now)
                  [] op.kind = "resolve" -> ResolveOutbox(db, batch, op.results)
                  [] op.kind = "replay"  -> ReplayDeadLetters(db, batch, op.filter, op.now)
    /\ report' = CASE op.kind = "resolve" -> ResolveChange(db, batch, op.results)
                   [] op.kind = "replay"  -> ReplayChange(db, batch, op.filter)
                   [] OTHER               -> NoChange
    /\ UNCHANGED <<db, synced>>

\* fn returned nil: the batch is applied as one write.
Commit ==
    /\ batch # None
    /\ db' = View(db, batch)
    /\ synced' = IF SyncWrites THEN View(db, batch) ELSE synced
    /\ batch' = None
    /\ report' = NoChange

\* fn or the commit returned an error: the batch is closed unused.
Rollback ==
    /\ batch # None
    /\ batch' = None
    /\ report' = NoChange
    /\ UNCHANGED <<db, synced>>

\* Pebble writes its log in the background; Close flushes.
Sync ==
    /\ synced # db
    /\ synced' = db
    /\ UNCHANGED <<db, batch, report>>

Crash ==
    /\ db' = synced
    /\ batch' = None
    /\ report' = NoChange
    /\ UNCHANGED synced

Next ==
    \/ Begin \/ Commit \/ Rollback \/ Sync \/ Crash
    \/ \E op \in Op : Do(op)

Spec == Init /\ [][Next]_vars
----------------------------------------------------------------------------
\* What the families stand for.
Content(v) ==
    [flows |-> v.flow, outbox |-> v.outbox, dead |-> v.dead, dropped |-> Dropped(v)]

Current == IF batch = None THEN db ELSE View(db, batch)

\* store.go:288-329: the index has exactly one entry per open flow, at the
\* millisecond of its deadline, in the database, in every batch and after
\* every crash.
IndexExact ==
    \A v \in {db, synced, Current} :
        \A c \in Cell : v.expiry[c] # None <=> v.flow[c[2]] # None /\ Ms(v.flow[c[2]]) = c[1]

Contract == INSTANCE StateStore WITH
        committed <- Content(db), durable <- Content(synced),
        staged <- IF batch = None THEN None ELSE Content(View(db, batch))

\* ports.go:124-129: the Pebble store keeps the port's promise, with its
\* families, tombstones and batches.
PebbleKeepsContract == Contract!Spec
=============================================================================
