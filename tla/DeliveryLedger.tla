--------------------------- MODULE DeliveryLedger ---------------------------
(***************************************************************************)
(* The refinement mapping from Delivery to DocumentLedger.                 *)
(***************************************************************************)
EXTENDS Delivery

\* Where a document stands, read off the durable store.
StatusOf(d) ==
    IF d \notin created THEN "none"
    ELSE IF d \in outbox THEN "pending"
    ELSE IF d \in dead THEN "dead"
    ELSE IF d \in evicted THEN "dropped"
    ELSE "indexed"

Ledger == INSTANCE DocumentLedger
            WITH status <- [d \in Doc |-> StatusOf(d)],
                 Fits   <- {S \in SUBSET Doc : Cardinality(S) <= MaxDLQ},
                 Full   <- {S \in SUBSET Doc : Cardinality(S) = MaxDLQ}

\* The outbox, the sink, the dead-letter store and the replay implement the
\* ledger: every step of theirs settles, reopens or writes documents the way
\* the ledger allows, or changes nothing a reader of the ledger can see.
RefinesLedger == Ledger!LedgerSpec
=============================================================================
