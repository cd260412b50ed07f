--------------------------- MODULE PebbleQueries ---------------------------
(***************************************************************************)
(* What the durable store answers (src/internal/adapters/state/pebble/     *)
(* store.go), on the database or on the view of a transaction.             *)
(***************************************************************************)
EXTENDS PebbleStore

\* DueFlows scans the index up to the millisecond of before, reads each flow
\* for its exact deadline, and keeps an entry without a flow.
DueFlows(v, before, limit) ==
    LET entry == {c \in Present(v.expiry) : c[1] <= Ms(before)}
        deadline(c) == IF v.flow[c[2]] = None THEN c[1] * Milli ELSE v.flow[c[2]]
        due == {c \in entry : v.flow[c[2]] = None \/ deadline(c) <= before}
        earlier == {p \in due \X due :
                       \/ deadline(p[1]) < deadline(p[2])
                       \/ deadline(p[1]) = deadline(p[2]) /\ p[1][2] < p[2][2]}
        sorted == Sorted(due, earlier)
    IN  FirstOf([i \in DOMAIN sorted |-> sorted[i][2]], limit)

PendingOutbox(v, now, limit) ==
    LET ready == {i \in Present(v.outbox) : Ready(v.outbox[i], now)}
    IN  FirstOf(Sorted(ready, ByAge(v.outbox, ready)), limit)

\* Faulty variant: the record the seek lands on is not skipped.
ListDeadLettersInclusive(v, filter, cursor) ==
    LET match == {i \in Present(v.dead) : i >= cursor /\ Matches(filter, i, v.dead[i])}
        page == First(match, filter.limit)
    IN  [records |-> page, cursor |-> IF page = match THEN 0
                                      ELSE CHOOSE i \in page : \A j \in page : j <= i]

\* ListDeadLetters seeks to the cursor and stops when one more record matches
\* than the page holds; the cursor it then returns is the page's last id.
ListDeadLetters(v, filter, cursor) ==
    LET match == {i \in Present(v.dead) : i > cursor /\ Matches(filter, i, v.dead[i])}
        page == First(match, filter.limit)
    IN  [records |-> page, cursor |-> IF page = match THEN 0
                                      ELSE CHOOSE i \in page : \A j \in page : j <= i]
=============================================================================
