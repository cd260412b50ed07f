------------------------------ MODULE MCStore ------------------------------
(* Instances of StoreConformance for TLC.                                  *)
EXTENDS StoreConformance, TLC
CONSTANTS mapping, parse
MCType == {mapping, parse}
MCFilter ==
    {[id |-> None, type |-> None, limit |-> 1],
     [id |-> None, type |-> mapping, limit |-> 1],
     [id |-> None, type |-> None, limit |-> 0],
     [id |-> 2, type |-> None, limit |-> 1]}
Verdict(as, type) ==
    [as |-> as, attempts |-> IF as = "permanent" THEN 2 ELSE 0, type |-> type, next |-> 3]
Reject(S) == [i \in S |-> Verdict("permanent", IF i = 1 THEN parse ELSE mapping)]
ExpiryOps ==
    [kind : {"save"}, key : {1}, at : {1, 2, 3}]
    \cup [kind : {"save"}, key : {2}, at : {2}]
    \cup [kind : {"delete"}, key : {1}]
RejectOps ==
    {[kind |-> "enqueue", id |-> i, now |-> IF i = 2 THEN 1 ELSE 2] : i \in Id}
    \cup {[kind |-> "resolve", results |-> r] : r \in {Reject({2, 3}), Reject(Id)}}
    \cup [kind : {"replay"}, filter : {f \in MCFilter : f.id = None}, now : {2}]
RetryOps ==
    {[kind |-> "enqueue", id |-> i, now |-> 1] : i \in {1, 2}}
    \cup {[kind |-> "resolve", results |-> r] : r \in
            {1 :> Verdict("retryable", parse), Reject({1}),
             (1 :> Verdict("delivered", parse)) @@ (2 :> Verdict("retryable", parse))}}
    \cup [kind : {"replay"}, filter : {f \in MCFilter : f.id = 2}, now : {2}]
FinalizeOps ==
    [kind : {"save"}, key : {1, 2}, at : {2}]
    \cup [kind : {"delete"}, key : {1}]
    \cup [kind : {"enqueue"}, id : {1}, now : {1}]
MCWorkload == {ExpiryOps, RejectOps, RetryOps, FinalizeOps}
MCOp == UNION MCWorkload
MCListFilter == {f \in MCFilter : f.id = None /\ f.limit = 1}
=============================================================================
