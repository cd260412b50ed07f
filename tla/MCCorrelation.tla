--------------------------- MODULE MCCorrelation ----------------------------
(* A call stitched from a request and a response, another request that      *)
(* contests the first one's slot, a probe complete with one event, a        *)
(* terminal event and a plain line.                                         *)
EXTENDS Correlation, TLC

CONSTANTS k1, k2, k3, w1, w2

MCWorker == {w1, w2}
Symmetry == Permutations(MCWorker)

\* No step depends on the histories of events and records, or on more of a
\* record than its age.
Age(records) == [id \in DOMAIN records |-> records[id].finalizedAt]
Essence == <<clock, flows, expiry, Age(outbox), Age(dead), replayed, unresolved, received,
             pc, batch, since, up, sweepAt>>

MCDocument   == {"request", "response", "other", "ping", "bye"}
LineDocument == {"line"}
BatchDocument == {"bye"}
MCInvocation == {"call", "probe"}
MCRole       == {"req", "resp"}

Call(r) == [inv |-> "call", role |-> r]

MCSlotOf == [d \in Document |->
    CASE d = "request"  -> Call("req")
      [] d = "response" -> Call("resp")
      [] d = "other"    -> Call("req")
      [] d = "ping"     -> [inv |-> "probe", role |-> "req"]
      [] OTHER          -> None]
MCRequires == [i \in MCInvocation |-> IF i = "probe" THEN {"req"} ELSE {"req", "resp"}]
MCTerminal == {"bye"} \cap Document
MCSize     == [d \in Document |-> IF d \in {"other", "line"} THEN 2 ELSE 1]
=============================================================================
