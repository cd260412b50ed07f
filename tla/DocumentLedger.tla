--------------------------- MODULE DocumentLedger ---------------------------
(***************************************************************************)
(* What delivery promises about a finalized document, with no process, no  *)
(* batch and no retry in sight.  A document is pending until OpenSearch    *)
(* holds it or it is given up; a document given up stays in the            *)
(* dead-letter store, from which an operator may reopen it, until the      *)
(* store's cap drops it.  Module Delivery implements this.                 *)
(***************************************************************************)
CONSTANTS
    Doc,
    Fits,      \* the sets of dead letters the store has room for
    Full       \* those that leave no room for another

VARIABLES
    status,    \* where every document stands
    index      \* what OpenSearch holds

ledgerVars == <<status, index>>

Status == {"none", "pending", "indexed", "dead", "dropped"}

With(s) == {d \in Doc : status[d] = s}

LedgerInit ==
    /\ status = [d \in Doc |-> "none"]
    /\ index = {}

\* A flow is finalized.
Promise(d) ==
    /\ status[d] = "none"
    /\ status' = [status EXCEPT ![d] = "pending"]
    /\ UNCHANGED index

\* OpenSearch takes pending documents, whether or not anybody hears of it.
Write(S) ==
    /\ S \subseteq With("pending")
    /\ index' = index \cup S
    /\ UNCHANGED status

\* Pending documents are settled: those OpenSearch holds, those given up, and,
\* only if the dead-letter store is then full, dead letters dropped.
Settle(done, refused, lost) ==
    /\ done \subseteq With("pending") \cap index
    /\ refused \subseteq With("pending") \ done
    /\ lost \subseteq With("dead") \cup refused
    /\ status' = [d \in Doc |-> IF d \in done THEN "indexed"
                                ELSE IF d \in lost THEN "dropped"
                                ELSE IF d \in refused THEN "dead" ELSE status[d]]
    /\ {d \in Doc : status'[d] = "dead"} \in Fits
    /\ lost # {} => {d \in Doc : status'[d] = "dead"} \in Full
    /\ UNCHANGED index

\* An operator replays dead letters.
Reopen(R) ==
    /\ R \subseteq With("dead")
    /\ status' = [d \in Doc |-> IF d \in R THEN "pending" ELSE status[d]]
    /\ UNCHANGED index

LedgerNext ==
    \/ \E d \in Doc : Promise(d)
    \/ \E S \in SUBSET Doc : Write(S) \/ Reopen(S)
    \/ \E done, refused, lost \in SUBSET Doc : Settle(done, refused, lost)

LedgerSpec == LedgerInit /\ [][LedgerNext]_ledgerVars
=============================================================================
