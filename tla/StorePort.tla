----------------------------- MODULE StorePort -----------------------------
(***************************************************************************)
(* What the operations and reads of the Tx port mean, on the content of a  *)
(* store: src/internal/application/ports.go.                               *)
(***************************************************************************)
EXTENDS OutboxRecord

Contents ==
    [flows : [Key -> Time \cup {None}], outbox : [Id -> Record \cup {None}],
     dead : [Id -> Record \cup {None}], dropped : Nat]

Empty ==
    [flows   |-> [k \in Key |-> None],
     outbox  |-> [i \in Id |-> None],
     dead    |-> [i \in Id |-> None],
     dropped |-> 0]

\* The MaxDLQ newest dead letters.
Newest(dead) ==
    {i \in Present(dead) :
        Cardinality({j \in Present(dead) : Older(dead, i, j)}) < MaxDLQ}

\* Every verdict about a record that is still in the outbox takes effect; new
\* dead letters push out the oldest ones beyond the cap, and are counted.
Resolve(s, results) ==
    LET hit == {i \in DOMAIN results : s.outbox[i] # None}
        lost == {i \in hit : results[i].as = "permanent"}
        again == {i \in hit : results[i].as = "retryable"}
        dead == [i \in Id |-> IF i \in lost THEN Rejected(s.outbox[i], results[i])
                                            ELSE s.dead[i]]
        kept == IF lost = {} THEN Present(dead) ELSE Newest(dead)
    IN  [s EXCEPT !.outbox = [i \in Id |->
                        IF i \in again THEN Retried(s.outbox[i], results[i])
                        ELSE IF i \in hit THEN None ELSE s.outbox[i]],
                  !.dead = Keep(dead, kept),
                  !.dropped = @ + Cardinality(Present(dead) \ kept)]

\* The first matching dead letters go back to the outbox.
Replay(s, filter, now) ==
    LET moved == First({i \in Present(s.dead) : Matches(filter, i, s.dead[i])},
                       filter.limit)
    IN  [s EXCEPT !.outbox = [i \in Id |-> IF i \in moved THEN Replayed(s.dead[i], now)
                                           ELSE s.outbox[i]],
                  !.dead = Keep(@, Present(@) \ moved)]

\* What an operation makes of the transaction's view.
After(s, op) ==
    CASE op.kind = "save"    -> [s EXCEPT !.flows[op.key] = op.at]
      [] op.kind = "delete"  -> [s EXCEPT !.flows[op.key] = None]
      [] op.kind = "enqueue" -> [s EXCEPT !.outbox[op.id] = NewRecord(op.now)]
      [] op.kind = "resolve" -> Resolve(s, op.results)
      [] op.kind = "replay"  -> Replay(s, op.filter, op.now)

\* A DeadLetterChange: the lists Added and Removed are kept as the difference
\* of their lengths per rejection type.
NoChange == [changed |-> FALSE, records |-> 0, dropped |-> 0, net |-> [t \in Type |-> 0]]
Tally(dead, S) == [t \in Type |-> Cardinality({i \in S : dead[i].type = t})]
----------------------------------------------------------------------------
(* What the reads may answer on content s.                                 *)

\* DueFlows: every due flow once, earliest deadline first, the first limit.
DueFlowsOK(s, before, limit, due) ==
    LET all == {k \in Present(s.flows) : s.flows[k] <= before}
        shown == {due[i] : i \in DOMAIN due}
    IN  /\ shown \subseteq all
        /\ Cardinality(shown) = Len(due)
        /\ Len(due) = IF limit = 0 \/ Cardinality(all) <= limit THEN Cardinality(all)
                      ELSE limit
        /\ \A i, j \in DOMAIN due : i < j => s.flows[due[i]] <= s.flows[due[j]]
        /\ \A k \in all \ shown : \A i \in DOMAIN due : s.flows[due[i]] <= s.flows[k]
=============================================================================
