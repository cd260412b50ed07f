---------------------------- MODULE MemoryStore ----------------------------
(***************************************************************************)
(* The store for tests and trials: src/internal/adapters/state/memory/     *)
(* store.go.  Maps behind a mutex; a transaction works on a deep copy that *)
(* WithTx publishes on success.  There is no expiry index and nothing      *)
(* survives a restart.                                                     *)
(***************************************************************************)
EXTENDS StorePort

VARIABLES
    store,    \* the maps flows, records and dead, and the drop counter
    working,  \* the running transaction's clone, or None
    memReport \* the DeadLetterChange of the last operation

memoryVars == <<store, working, memReport>>

MemNew ==
    [flows   |-> [k \in Key |-> None],
     records |-> [i \in Id |-> None],
     dead    |-> [i \in Id |-> None],
     dropped |-> 0]

\* What the maps may hold.
Maps ==
    [flows : [Key -> Time \cup {None}], records : [Id -> Record \cup {None}],
     dead : [Id -> Record \cup {None}], dropped : Nat]
----------------------------------------------------------------------------
(* The operations of tx on a clone w.                                      *)

Oldest(dead, S) == CHOOSE i \in S : \A j \in S \ {i} : Older(dead, i, j)

\* Faulty variant: the loop stops one record early.
MemTrimLate(dead) ==
    LET rest[S \in SUBSET Present(dead)] ==
            IF Cardinality(S) <= MaxDLQ + 1 THEN S ELSE rest[S \ {Oldest(dead, S)}]
    IN  rest[Present(dead)]

\* trimDeadLetters removes the oldest record until the cap holds.
MemTrim(dead) ==
    LET rest[S \in SUBSET Present(dead)] ==
            IF Cardinality(S) <= MaxDLQ THEN S ELSE rest[S \ {Oldest(dead, S)}]
    IN  rest[Present(dead)]

\* The maps after the loop over the results, before the trim.
MemSettle(w, results) ==
    LET hit == {i \in DOMAIN results : w.records[i] # None}
    IN  [w EXCEPT
            !.records = [i \in Id |->
                IF i \notin hit THEN @[i]
                ELSE IF results[i].as = "retryable" THEN Retried(@[i], results[i])
                ELSE None],
            !.dead = [i \in Id |->
                IF i \in hit /\ results[i].as = "permanent"
                THEN Rejected(w.records[i], results[i]) ELSE @[i]]]

MemLosses(w, results) ==
    {i \in DOMAIN results : w.records[i] # None /\ results[i].as = "permanent"}

MemResolveOutbox(w, results) ==
    LET settled == MemSettle(w, results)
        kept == MemTrim(settled.dead)
    IN  IF MemLosses(w, results) = {} THEN settled
        ELSE [settled EXCEPT !.dead = Keep(@, kept),
                             !.dropped = @ + Cardinality(Present(settled.dead) \ kept)]

MemResolveChange(w, results) ==
    LET lost == MemLosses(w, results)
        dead == MemSettle(w, results).dead
        gone == Present(dead) \ MemTrim(dead)
    IN  IF lost = {} THEN NoChange
        ELSE [changed |-> TRUE,
              records |-> Cardinality(MemTrim(dead)),
              dropped |-> Cardinality(gone),
              net |-> [t \in Type |-> Tally(dead, lost)[t] - Tally(dead, gone)[t]
                                      - Tally(w.dead, lost \cap Present(w.dead))[t]]]

\* The matching ids, sorted and cut at the limit.
Chosen(w, filter) ==
    First({i \in Present(w.dead) : Matches(filter, i, w.dead[i])}, filter.limit)

MemReplayDeadLetters(w, filter, now) ==
    LET moved == Chosen(w, filter)
    IN  [w EXCEPT !.records = [i \in Id |-> IF i \in moved THEN Replayed(w.dead[i], now)
                                            ELSE @[i]],
                  !.dead = Keep(@, Present(@) \ moved)]

MemReplayChange(w, filter) ==
    LET moved == Chosen(w, filter)
    IN  IF moved = {} THEN NoChange
        ELSE [changed |-> TRUE,
              records |-> Cardinality(Present(w.dead) \ moved),
              dropped |-> 0,
              net |-> [t \in Type |-> -Tally(w.dead, moved)[t]]]
----------------------------------------------------------------------------
(* The reads.                                                              *)

\* DueFlows sorts the scan of a map by deadline alone, so flows of one
\* deadline come in any order: the set of its possible answers.
MemDueFlows(w, before, limit) ==
    LET due == {k \in Present(w.flows) : w.flows[k] <= before}
        sorted == {s \in [1..Cardinality(due) -> due] :
                      /\ \A i, j \in DOMAIN s : i < j => w.flows[s[i]] <= w.flows[s[j]]
                      /\ \A i, j \in DOMAIN s : s[i] = s[j] => i = j}
    IN  {FirstOf(s, limit) : s \in sorted}

MemPendingOutbox(w, now, limit) ==
    LET ready == {i \in Present(w.records) : Ready(w.records[i], now)}
    IN  FirstOf(Sorted(ready, ByAge(w.records, ready)), limit)

\* The sorted ids after the cursor; there is more if the page cuts them.
MemListDeadLetters(w, filter, cursor) ==
    LET ids == {i \in Present(w.dead) : i > cursor /\ Matches(filter, i, w.dead[i])}
        hasMore == filter.limit > 0 /\ Cardinality(ids) > filter.limit
        page == First(ids, filter.limit)
    IN  [records |-> page, cursor |-> IF hasMore
                                      THEN CHOOSE i \in page : \A j \in page : j <= i
                                      ELSE 0]
----------------------------------------------------------------------------
MemInit ==
    /\ store = MemNew
    /\ working = None
    /\ memReport = NoChange

\* WithTx takes the mutex and clones.
MemBegin ==
    /\ working = None
    /\ working' = store
    /\ memReport' = NoChange
    /\ UNCHANGED store

MemDo(op) ==
    /\ working # None
    /\ working' = CASE op.kind = "save"    -> [working EXCEPT !.flows[op.key] = op.at]
                    [] op.kind = "delete"  -> [working EXCEPT !.flows[op.key] = None]
                    [] op.kind = "enqueue" -> [working EXCEPT !.records[op.id] = NewRecord(op.now)]
                    [] op.kind = "resolve" -> MemResolveOutbox(working, op.results)
                    [] op.kind = "replay"  -> MemReplayDeadLetters(working, op.filter, op.now)
    /\ memReport' = CASE op.kind = "resolve" -> MemResolveChange(working, op.results)
                   [] op.kind = "replay"  -> MemReplayChange(working, op.filter)
                   [] OTHER               -> NoChange
    /\ UNCHANGED store

\* fn returned nil: the clone's maps are published.
MemCommit ==
    /\ working # None
    /\ store' = working
    /\ working' = None
    /\ memReport' = NoChange

MemRollback ==
    /\ working # None
    /\ working' = None
    /\ memReport' = NoChange
    /\ UNCHANGED store

\* The process ends: a new one starts empty.
MemCrash ==
    /\ store' = MemNew
    /\ working' = None
    /\ memReport' = NoChange
----------------------------------------------------------------------------
\* What the maps stand for.
MemContent(w) ==
    [flows |-> w.flows, outbox |-> w.records, dead |-> w.dead, dropped |-> w.dropped]

MemCurrent == IF working = None THEN store ELSE working
=============================================================================
