---------------------------- MODULE Correlation -----------------------------
(***************************************************************************)
(* Ingestion and expiry: HTTP handlers (internal/adapters/httpapi) calling *)
(* ingest.Service.Accept, the expiry sweep (internal/application/expire),  *)
(* application.Finalize, and the flow, expiry-index and outbox keys of the *)
(* Pebble store (internal/adapters/state/pebble).                          *)
(*                                                                         *)
(* A handler reads the clock when it has the request, again after the      *)
(* capacity check, and only then waits for the store: both readings may be *)
(* old when its transaction runs, and handlers overtake one another.  A    *)
(* transaction holds the store mutex and commits one batch, so it is one   *)
(* step.  The process may stop anywhere; a restart sweeps before it        *)
(* listens.                                                                *)
(*                                                                         *)
(* Which rule version a flow is pinned to is module RuleRegistry's; here a *)
(* flow found at restart may have lost its version.  How an outbox record  *)
(* is delivered is module Delivery's; here OpenSearch confirms it, or it   *)
(* becomes a dead letter, which an operator may put back into the outbox   *)
(* or the cap on dead letters removes.                                     *)
(***************************************************************************)
EXTENDS FlowAggregate

CONSTANTS
    Key,         \* flow keys: rule ID and correlation key
    Worker,      \* concurrent requests
    MaxBatch,    \* bound: documents in one request
    MaxEventId,  \* bound: events ever received
    MaxTime,     \* bound: the clock
    Arrivals,    \* bound: no request starts after this time
    Milli,       \* clock units per millisecond, the expiry index's granularity
    SweepBatch,  \* flows one sweep may finalize
    MaxOpenFlows, MaxOutboxRecords,  \* limits, 0 for none
    MaxDLQ       \* dead letters the store keeps

ASSUME CorrelationAssumption ==
    /\ MaxBatch \in Nat \ {0}
    /\ Milli \in Nat \ {0}
    /\ SweepBatch \in Nat \ {0}
    /\ MaxOpenFlows \in Nat /\ MaxOutboxRecords \in Nat /\ MaxDLQ \in Nat
    /\ IsFiniteSet(Key) /\ IsFiniteSet(Worker)
    /\ MaxEventId \in Nat /\ MaxTime \in Nat \ {0} /\ Arrivals \in 0..MaxTime

\* Events, invocations (flow.Invocation) and flows (flow.Flow).
Event == [id : 1..MaxEventId, key : Key, doc : Document, observedAt : 1..MaxTime]

Stitched ==
    [members : [Role -> Event \cup {None}], complete : BOOLEAN, duplicates : Nat,
     firstObservedAt : Nat, order : Nat]

Flow ==
    [events : Seq(Event), invocations : [Invocation -> Stitched \cup {None}],
     plain : Seq([event : Event, order : Nat]), firstObservedAt : 1..MaxTime,
     timeoutAt : Nat, expiresAt : Nat, settleUntil : Nat, duplicates : Nat,
     anomalies : Nat, terminalSeen : BOOLEAN, limitExceeded : BOOLEAN,
     bytes : Nat, nextOrder : Nat]

\* flow/finalize.go:13-23
CloseReason ==
    {"terminal_event", "limit_exceeded", "invocations_complete", "timeout", "rule_unavailable"}

ASSUME NoneAssumption == None \notin Event \cup Stitched \cup Flow \cup CloseReason

VARIABLES
    clock,       \* the system clock
    flows,       \* durable: f/ keys
    expiry,      \* durable: x/ keys, pairs of a millisecond and a flow key
    outbox,      \* durable: o/ keys, records by output ID
    dead,        \* durable: d/ keys, dead letters by output ID
    settled,     \* history: records OpenSearch confirmed or the cap removed
    replayed,    \* history: the outbox records a replay put there
    unresolved,  \* open flows whose pinned rule version the registry lacks
    received,    \* number of events received so far
    accepted,    \* history: the events of committed transactions
    pc,          \* progress of every request
    batch,       \* the events it has still to process
    since,       \* the time of its last step before it reads the clock
    up,          \* the server listens
    sweepAt      \* the time the running sweep read, or 0

storeVars    == <<flows, expiry, outbox>>
deliveryVars == <<dead, settled, replayed>>
requestVars  == <<pc, batch, since>>
vars == <<clock, flows, expiry, outbox, dead, settled, replayed, unresolved, received,
          accepted, pc, batch, since, up, sweepAt>>

OpenFlows == {k \in Key : flows[k] # None}
-----------------------------------------------------------------------------
(***************************************************************************)
(* The store.  A transaction's effect is a function of the store's state,  *)
(* so that a sweep can finalize several flows in one.                      *)
(***************************************************************************)
Store == [flows |-> flows, expiry |-> expiry, outbox |-> outbox]

Commit(s) ==
    /\ flows' = s.flows
    /\ expiry' = s.expiry
    /\ outbox' = s.outbox

ExpiryKey(at, k) == <<at \div Milli, k>>

\* Faulty variant: the index entry of the previous deadline is left behind.
SaveFlowStale(s, k, f) ==
    [s EXCEPT !.flows[k] = f,
              !.expiry = @ \cup {ExpiryKey(f.expiresAt, k)}]

\* Faulty variant: the deadline is not indexed.
SaveFlowUnindexed(s, k, f) == [s EXCEPT !.flows[k] = f]

SaveFlow(s, k, f) ==
    LET prior == IF s.flows[k] = None THEN {}
                 ELSE {ExpiryKey(s.flows[k].expiresAt, k)}
    IN  [s EXCEPT !.flows[k] = f,
                  !.expiry = (@ \ prior) \cup {ExpiryKey(f.expiresAt, k)}]

DeleteFlow(s, k) ==
    LET prior == IF s.flows[k] = None THEN {}
                 ELSE {ExpiryKey(s.flows[k].expiresAt, k)}
    IN  [s EXCEPT !.flows[k] = None, !.expiry = @ \ prior]

\* Faulty variant: the index's millisecond decides.
DueFlowsByMilli(s, before) ==
    {k \in Key :
        /\ \E entry \in s.expiry : entry[2] = k /\ entry[1] <= before \div Milli
        /\ s.flows[k] # None}

\* DueFlows: the index is scanned up to the millisecond, the flow decides.
DueFlows(s, before) ==
    {k \in Key :
        /\ \E entry \in s.expiry : entry[2] = k /\ entry[1] <= before \div Milli
        /\ s.flows[k] # None
        /\ s.flows[k].expiresAt <= before}

\* NewOutputID: rule and correlation key, and the time of the first event.
OutputID(k, f) == <<k, f.firstObservedAt>>

\* The outbox key is the output ID: an equal one is overwritten.
EnqueueOutbox(s, id, document) ==
    [s EXCEPT !.outbox = [x \in DOMAIN @ \cup {id} |-> IF x = id THEN document ELSE @[x]]]

\* Faulty variant: the flow stays open.
FinalizeFlowKeeping(s, k, f, reason, now) ==
    EnqueueOutbox(s, OutputID(k, f), Finalize(f, reason, now))

\* application.Finalize: enqueue the document, then delete the flow.
FinalizeFlow(s, k, f, reason, now) ==
    DeleteFlow(EnqueueOutbox(s, OutputID(k, f), Finalize(f, reason, now)), k)
-----------------------------------------------------------------------------
Quiet ==
    /\ pc' = [w \in Worker |-> "idle"]
    /\ batch' = [w \in Worker |-> <<>>]
    /\ since' = [w \in Worker |-> 0]

Init ==
    /\ clock = 1
    /\ flows = [k \in Key |-> None]
    /\ expiry = {}
    /\ outbox = <<>>
    /\ dead = <<>>
    /\ settled = <<>>
    /\ replayed = {}
    /\ unresolved = {}
    /\ received = 0
    /\ accepted = {}
    /\ pc = [w \in Worker |-> "idle"]
    /\ batch = [w \in Worker |-> <<>>]
    /\ since = [w \in Worker |-> 0]
    /\ up = FALSE
    /\ sweepAt = 0

Tick ==
    /\ clock < MaxTime
    /\ clock' = clock + 1
    /\ UNCHANGED <<storeVars, deliveryVars, unresolved, received, accepted, requestVars, up, sweepAt>>

(***************************************************************************)
(* Requests.  No two requests read the same nanosecond, so a request moves *)
(* the clock; the events of one batch share the reading.                   *)
(***************************************************************************)
Receive(w) ==
    /\ up /\ pc[w] = "idle"
    /\ clock < Arrivals
    /\ clock' = clock + 1
    /\ \E n \in 1..MaxBatch :
         /\ received + n <= MaxEventId
         /\ received' = received + n
         /\ \E ks \in [1..n -> Key], ds \in [1..n -> Document] :
              batch' = [batch EXCEPT ![w] =
                          [j \in 1..n |-> [id |-> received + j, key |-> ks[j],
                                           doc |-> ds[j], observedAt |-> clock']]]
    /\ pc' = [pc EXCEPT ![w] = "flows"]
    /\ UNCHANGED <<storeVars, deliveryVars, unresolved, accepted, since, up, sweepAt>>

Respond(w) ==
    /\ pc' = [pc EXCEPT ![w] = "idle"]
    /\ batch' = [batch EXCEPT ![w] = <<>>]
    /\ since' = [since EXCEPT ![w] = 0]

\* Faulty variant: the high-water mark is let pass.
CheckOpenFlowsOffByOne(w) ==
    /\ pc[w] = "flows"
    /\ IF MaxOpenFlows > 0 /\ Cardinality(OpenFlows) > MaxOpenFlows
       THEN Respond(w)
       ELSE pc' = [pc EXCEPT ![w] = "outbox"] /\ UNCHANGED <<batch, since>>
    /\ UNCHANGED <<clock, storeVars, deliveryVars, unresolved, received, accepted, up, sweepAt>>

\* storeCapacity.AcceptingEvents reads two counts, each on its own.
CheckOpenFlows(w) ==
    /\ pc[w] = "flows"
    /\ IF MaxOpenFlows > 0 /\ Cardinality(OpenFlows) >= MaxOpenFlows
       THEN Respond(w)
       ELSE pc' = [pc EXCEPT ![w] = "outbox"] /\ UNCHANGED <<batch, since>>
    /\ UNCHANGED <<clock, storeVars, deliveryVars, unresolved, received, accepted, up, sweepAt>>

CheckOutbox(w) ==
    /\ pc[w] = "outbox"
    /\ IF MaxOutboxRecords > 0 /\ Cardinality(DOMAIN outbox) >= MaxOutboxRecords
       THEN Respond(w)
       ELSE /\ pc' = [pc EXCEPT ![w] = "tx"]
            /\ since' = [since EXCEPT ![w] = clock]
            /\ UNCHANGED batch
    /\ UNCHANGED <<clock, storeVars, deliveryVars, unresolved, received, accepted, up, sweepAt>>

\* The next event of the batch, or the answer.
Proceed(w) ==
    IF Len(batch[w]) = 1 THEN Respond(w)
    ELSE /\ pc' = [pc EXCEPT ![w] = "flows"]
         /\ batch' = [batch EXCEPT ![w] = Tail(@)]
         /\ since' = [since EXCEPT ![w] = 0]

\* The transaction of Accept.  The clock was read at some time since the
\* capacity check.
AcceptTx(w) ==
    /\ pc[w] = "tx"
    /\ \E now \in since[w]..clock :
         LET e == batch[w][1]
             k == e.key
             current == IF flows[k] = None THEN Open(e) ELSE flows[k]
             verdict == ShouldClose(Apply(current, e), now)
         IN  /\ Commit(IF verdict.reason = None
                       THEN SaveFlow(Store, k, verdict.flow)
                       ELSE FinalizeFlow(Store, k, verdict.flow, verdict.reason, now))
             /\ unresolved' = IF verdict.reason = None THEN unresolved ELSE unresolved \ {k}
             /\ accepted' = accepted \cup {e}
    /\ Proceed(w)
    /\ UNCHANGED <<clock, deliveryVars, received, up, sweepAt>>

\* The transaction failed: nothing is committed and the request ends with 503.
AcceptFails(w) ==
    /\ pc[w] = "tx"
    /\ Respond(w)
    /\ UNCHANGED <<clock, storeVars, deliveryVars, unresolved, received, accepted, up, sweepAt>>

Request(w) == CheckOpenFlows(w) \/ CheckOutbox(w) \/ AcceptTx(w) \/ AcceptFails(w)
-----------------------------------------------------------------------------
\* A sweep reads the clock, then waits for the store.
SweepBegin ==
    /\ sweepAt = 0
    /\ sweepAt' = clock
    /\ UNCHANGED <<clock, storeVars, deliveryVars, unresolved, received, accepted, requestVars, up>>

\* Why the sweep ends flow k.
SweepReason(k) ==
    LET verdict == ShouldClose(flows[k], sweepAt)
    IN  IF k \in unresolved THEN "rule_unavailable"
        ELSE IF verdict.reason = None THEN "timeout" ELSE verdict.reason

\* The earliest deadlines first, at most SweepBatch of them.
SweepChoice(due, S) ==
    /\ S \subseteq due
    /\ Cardinality(S) <= SweepBatch
    /\ S # due => Cardinality(S) = SweepBatch
    /\ \A a \in S, b \in due \ S : flows[a].expiresAt <= flows[b].expiresAt

\* All flows of S are finalized in one transaction.
FinalizeAll(S) ==
    LET ids == {OutputID(k, flows[k]) : k \in S}
    IN  [flows  |-> [k \in Key |-> IF k \in S THEN None ELSE flows[k]],
         expiry |-> expiry \ {ExpiryKey(flows[k].expiresAt, k) : k \in S},
         outbox |-> [id \in DOMAIN outbox \cup ids |->
                       IF id \in ids THEN Finalize(flows[id[1]], SweepReason(id[1]), sweepAt)
                       ELSE outbox[id]]]

\* Faulty variant: one startup sweep must do.
SweepTxOnce ==
    /\ sweepAt # 0
    /\ \E S \in SUBSET Key :
         /\ SweepChoice(DueFlows(Store, sweepAt), S)
         /\ Commit(FinalizeAll(S))
         /\ unresolved' = unresolved \ S
    /\ up' = TRUE
    /\ sweepAt' = 0
    /\ UNCHANGED <<clock, deliveryVars, received, accepted, requestVars>>

\* The startup sweep is repeated until it finds fewer than SweepBatch flows;
\* only then does the server listen.
SweepTx ==
    /\ sweepAt # 0
    /\ \E S \in SUBSET Key :
         /\ SweepChoice(DueFlows(Store, sweepAt), S)
         /\ Commit(FinalizeAll(S))
         /\ unresolved' = unresolved \ S
         /\ up' = (up \/ Cardinality(S) < SweepBatch)
    /\ sweepAt' = 0
    /\ UNCHANGED <<clock, deliveryVars, received, accepted, requestVars>>

Sweep == SweepBegin \/ SweepTx

\* Keys set and keys deleted.
Put(records, new)  == [id \in DOMAIN records \cup DOMAIN new |->
                         IF id \in DOMAIN new THEN new[id] ELSE records[id]]
Pick(records, ids) == [id \in ids |-> records[id]]

\* OpenSearch has the document: its record is deleted.
Confirm(id) ==
    /\ settled' = Put(settled, Pick(outbox, {id}))
    /\ UNCHANGED dead

\* The document is refused, or its retries are used up: its record becomes a
\* dead letter, and the newest MaxDLQ of them are kept.
DeadLetter(id) ==
    LET all == Put(dead, Pick(outbox, {id}))
    IN  \E kept \in SUBSET DOMAIN all :
          /\ Cardinality(kept) <= MaxDLQ
          /\ kept # DOMAIN all => Cardinality(kept) = MaxDLQ
          /\ \A a \in kept, b \in DOMAIN all \ kept : all[a].finalizedAt >= all[b].finalizedAt
          /\ dead' = Pick(all, kept)
          /\ settled' = Put(settled, Pick(all, DOMAIN all \ kept))

\* A drain resolves a record: it leaves the outbox one way or the other.
\* (A record that is retried stays as it is.)
Deliver ==
    /\ up
    /\ \E id \in DOMAIN outbox :
         /\ Confirm(id) \/ DeadLetter(id)
         /\ outbox' = Pick(outbox, DOMAIN outbox \ {id})
         /\ replayed' = replayed \ {id}
    /\ UNCHANGED <<clock, flows, expiry, unresolved, received, accepted, requestVars, up, sweepAt>>

\* ReplayDeadLetters: dead letters go back to the outbox, whatever its size.
Replay ==
    /\ up
    /\ \E R \in SUBSET DOMAIN dead \ {{}} :
         /\ outbox' = Put(outbox, Pick(dead, R))
         /\ dead' = Pick(dead, DOMAIN dead \ R)
         /\ replayed' = replayed \cup R
    /\ UNCHANGED <<clock, flows, expiry, settled, unresolved, received, accepted, requestVars,
                   up, sweepAt>>

\* A reload may bring a missing rule version back; it never takes one away
\* from an open flow (module RuleRegistry).
Reload ==
    /\ unresolved # {}
    /\ unresolved' \in SUBSET unresolved
    /\ UNCHANGED <<clock, storeVars, deliveryVars, received, accepted, requestVars, up, sweepAt>>

\* The process stops and starts again, perhaps with a configuration that no
\* longer has the rule version of some open flows.
Restart ==
    /\ up' = FALSE
    /\ sweepAt' = 0
    /\ Quiet
    /\ unresolved' \in SUBSET OpenFlows
    /\ UNCHANGED <<clock, storeVars, deliveryVars, received, accepted>>

Next ==
    \/ Tick
    \/ \E w \in Worker : Receive(w) \/ Request(w)
    \/ Sweep
    \/ Deliver
    \/ Replay
    \/ Reload
    \/ Restart

Spec == Init /\ [][Next]_vars

(***************************************************************************)
(* Time passes, the sweep goroutine keeps sweeping.  Nothing is assumed of *)
(* producers, of requests in flight or of OpenSearch.                      *)
(***************************************************************************)
Fairness == WF_vars(Tick) /\ WF_vars(Sweep)

FairSpec == Spec /\ Fairness
-----------------------------------------------------------------------------
(***************************************************************************)
(* Properties.                                                             *)
(***************************************************************************)

\* Where evidence is: an open flow, an outbox record, a dead letter, or a record
\* that is settled.
Places ==
    {<<"flow", k>> : k \in OpenFlows}
    \cup {<<"outbox", id>> : id \in DOMAIN outbox}
    \cup {<<"dead", id>> : id \in DOMAIN dead}
    \cup {<<"settled", id>> : id \in DOMAIN settled}

Content(p) ==
    IF p[1] = "flow" THEN flows[p[2]]
    ELSE IF p[1] = "outbox" THEN outbox[p[2]]
    ELSE IF p[1] = "dead" THEN dead[p[2]] ELSE settled[p[2]]

Evidence(p) == {Content(p).events[n] : n \in DOMAIN Content(p).events}

\* One element for every event of p, kept or counted.
Tally(p) == {p} \X (1..(Len(Content(p).events) + Content(p).duplicates))

Documents ==
    {outbox[id] : id \in DOMAIN outbox} \cup {dead[id] : id \in DOMAIN dead}
    \cup {settled[id] : id \in DOMAIN settled}

TypeOK ==
    /\ clock \in 1..MaxTime
    /\ flows \in [Key -> Flow \cup {None}]
    /\ DOMAIN outbox \subseteq Key \X (1..MaxTime)
    /\ DOMAIN dead \subseteq Key \X (1..MaxTime)
    /\ DOMAIN settled \subseteq Key \X (1..MaxTime)
    /\ replayed \subseteq DOMAIN outbox
    /\ unresolved \subseteq OpenFlows
    /\ received \in 0..MaxEventId
    /\ accepted \subseteq Event
    /\ pc \in [Worker -> {"idle", "flows", "outbox", "tx"}]
    /\ batch \in [Worker -> Seq(Event)]
    /\ since \in [Worker -> Nat]
    /\ \A w \in Worker : /\ pc[w] = "idle" <=> batch[w] = <<>>
                         /\ pc[w] = "tx" <=> since[w] # 0
    /\ up \in BOOLEAN
    /\ sweepAt \in 0..clock

\* An event a transaction committed is kept in exactly one place, or counted
\* there as a duplicate: restarts, sweeps, overtaking requests, dead-lettering
\* and replays store nothing twice, and nothing is lost but with the dead
\* letters the cap removes (ingest/service.go:104-105, finalize.go:16).
Preserved ==
    /\ \A p, q \in Places : p # q => Evidence(p) \cap Evidence(q) = {}
    /\ \A p \in Places : Cardinality(Evidence(p)) = Len(Content(p).events)
    /\ UNION {Evidence(p) : p \in Places} \subseteq accepted
    /\ Cardinality(accepted) = Cardinality(UNION {Tally(p) : p \in Places})

\* The index has one entry per open flow, at its current deadline: no flow is
\* left without one, none has a stale one (pebble/store.go:288-329).
ExpiryIndexExact == expiry = {ExpiryKey(flows[k].expiresAt, k) : k \in OpenFlows}

\* A stored flow is one no closer applies to, it is settling exactly when all
\* its invocations are complete, and its deadline is the earlier of the settle
\* window's end and the total budget, which nothing extends
\* (flow.go:187-275; ADR-0003, section 1).
DeadlineExact ==
    \A k \in OpenFlows :
        LET f == flows[k]
        IN  /\ ~f.terminalSeen /\ ~LimitReached(f)
            /\ f.settleUntil # 0 <=>
                 /\ CloseWhenComplete
                 /\ Observed(f) # {}
                 /\ \A i \in Observed(f) : \A r \in Requires[i] : f.invocations[i].members[r] # None
            /\ f.timeoutAt = f.firstObservedAt + Timeout
            /\ f.expiresAt = IF f.settleUntil # 0 /\ f.settleUntil < f.timeoutAt
                             THEN f.settleUntil ELSE f.timeoutAt

\* The reason a document gives is true of it (flow/finalize.go:13-23): a
\* timeout had used up its whole budget, a complete flow misses nothing, a
\* terminal event is the last piece of evidence; and max_events is respected.
ReasonHonest ==
    \A d \in Documents :
        /\ d.reason = "timeout" => d.finalizedAt >= d.firstObservedAt + Timeout
        /\ d.reason = "invocations_complete" => d.incomplete = 0
        /\ d.reason = "terminal_event" => d.events[Len(d.events)].doc \in Terminal
        /\ \A n \in 1..(Len(d.events) - 1) : d.events[n].doc \notin Terminal
        /\ MaxEvents > 0 => Len(d.events) <= MaxEvents

\* "Flows already past their deadline finalize before normal ingestion resumes"
\* (main.go:184-186): when the server starts to listen, no open flow was due
\* when the last startup sweep read the clock.
StartupSweepsAll ==
    [][~up /\ up' => \A k \in Key : flows'[k] # None => flows'[k].expiresAt > sweepAt]_vars

\* The high-water marks are checked before the transaction, so concurrent
\* requests overshoot them, by no more than one flow or record each
\* (main.go:293-315).  The records an operator replays come on top: a replay
\* checks no capacity (pebble/store.go:520-585).
CapacityOvershoot ==
    /\ MaxOpenFlows > 0 =>
         Cardinality(OpenFlows) <= MaxOpenFlows + Cardinality(Worker) - 1
    /\ MaxOpenFlows > 0 /\ MaxOutboxRecords > 0 =>
         Cardinality(OpenFlows) + Cardinality(DOMAIN outbox \ replayed)
           <= MaxOpenFlows + MaxOutboxRecords + Cardinality(Worker) - 2

\* Every flow ends, whether or not anything more is heard of it, once the
\* process stays up: its deadline is persisted and swept.
FlowsEnd ==
    <>[][~Restart]_vars => \A k \in Key : flows[k] # None ~> flows[k] = None

\* "The start time is what keeps a second flow for the same key from
\* overwriting the first" (specification.md:321): a record is never enqueued
\* under the identity of another one, pending, dead-lettered or settled.
SecondFlowKept ==
    [][/\ \A id \in DOMAIN outbox \cap DOMAIN outbox' : outbox'[id] = outbox[id]
       /\ (DOMAIN outbox' \ DOMAIN outbox) \cap (DOMAIN settled \cup DOMAIN dead') = {}]_vars
=============================================================================
