------------------------------ MODULE Delivery ------------------------------
(***************************************************************************)
(* Delivery of finalized documents: the durable outbox and dead-letter     *)
(* store (internal/adapters/state/pebble/store.go), the drain loop         *)
(* (internal/application/deliver/service.go), the OpenSearch sink          *)
(* (internal/adapters/sink/opensearch/sink.go) and the administrative      *)
(* replay (internal/application/admin/service.go).                         *)
(*                                                                         *)
(* A store transaction holds the store mutex and commits one batch, so it  *)
(* is one step.  A drain takes two transactions with the sink's bulk       *)
(* request and the quarantine log in between; requests that finalize flows *)
(* and operators who replay dead letters run meanwhile, and the process    *)
(* may stop between any two steps.                                         *)
(*                                                                         *)
(* A document is a number: its rank in the order the store sorts records   *)
(* by, creation time and then output ID.  Creation times are read before   *)
(* the transaction that enqueues, so documents are not enqueued in order.  *)
(* A backoff deadline is a record that waits until its time has come.      *)
(***************************************************************************)
EXTENDS Integers, FiniteSets

CONSTANTS
    Doc,         \* documents, numbered in (CreatedAt, OutputID) order
    Batch,       \* sinks.opensearch.bulk_size
    MaxRetries,  \* sinks.opensearch.max_retries
    MaxDLQ,      \* limits.max_dlq_records
    MaxReplay,   \* bound: replays of one document
    Watched,     \* any one document, whose bulk requests are counted
    MaxCrash     \* bound: drains of Watched cut short after their request

ASSUME DeliveryAssumption ==
    /\ Doc \subseteq Nat
    /\ IsFiniteSet(Doc)
    /\ Batch \in Nat \ {0}
    /\ MaxRetries \in Nat \ {0}
    /\ MaxDLQ \in Nat \ {0}
    /\ MaxReplay \in Nat
    /\ Watched \in Doc
    /\ MaxCrash \in Nat

VARIABLES
    created,     \* history: documents ever enqueued
    outbox,      \* durable: records awaiting delivery
    attempts,    \* durable: Attempts of a record in the outbox or dead-letter store
    waiting,     \* durable: outbox records whose NextAttemptAt is in the future
    dead,        \* durable: the dead-letter store
    replays,     \* durable: ReplayCount of every record
    dropped,     \* durable: the m/dlq-dropped counter
    evicted,     \* history: dead letters dropped by the cap
    sent,        \* history: bulk requests that carried Watched since it entered the outbox
    crashes,     \* history: those of them whose drain stopped before it recorded the outcome
    index,       \* external: documents OpenSearch holds
    dpc,         \* progress of the drain
    taken,       \* the records the drain loaded
    seen,        \* their Attempts as loaded
    verdict,     \* the sink's disposition of every loaded record
    logged       \* permanent records captured in the quarantine log

storeVars == <<created, outbox, attempts, waiting, dead, replays, dropped, evicted>>
drainVars == <<dpc, taken, seen, verdict, logged>>
requestVars == <<sent, crashes>>
vars == <<created, outbox, attempts, waiting, dead, replays, dropped, evicted,
          sent, crashes, index, dpc, taken, seen, verdict, logged>>

Disposition == {"delivered", "retryable", "permanent"}

TypeOK ==
    /\ created \subseteq Doc
    /\ outbox \subseteq created
    /\ waiting \subseteq outbox
    /\ dead \subseteq created
    /\ evicted \subseteq created
    /\ attempts \in [Doc -> 0..(MaxRetries + 1)]
    /\ replays \in [Doc -> 0..MaxReplay]
    /\ dropped \in Nat
    /\ sent \in Nat
    /\ crashes \in 0..MaxCrash
    /\ index \subseteq created
    /\ dpc \in {"idle", "deliver", "resolve"}
    /\ taken \subseteq Doc
    /\ seen \in [Doc -> 0..MaxRetries]
    /\ verdict \in [Doc -> Disposition]
    /\ logged \subseteq taken
-----------------------------------------------------------------------------
\* PendingOutbox's order and limit: the n oldest records of S.
Oldest(S, n) == {d \in S : Cardinality({e \in S : e < d}) < n}

\* Faulty variant: one record too few is kept.
NewestTooFew(S, n) == {d \in S : Cardinality({e \in S : e > d}) < n - 1}

\* trimDeadLetters' order: the n newest records of S are retained.
Newest(S, n) == {d \in S : Cardinality({e \in S : e > d}) < n}

Idle ==
    /\ dpc' = "idle"
    /\ taken' = {}
    /\ seen' = [d \in Doc |-> 0]
    /\ verdict' = [d \in Doc |-> "retryable"]
    /\ logged' = {}

Init ==
    /\ created = {} /\ outbox = {} /\ waiting = {} /\ dead = {} /\ evicted = {}
    /\ attempts = [d \in Doc |-> 0]
    /\ replays = [d \in Doc |-> 0]
    /\ dropped = 0
    /\ sent = 0 /\ crashes = 0
    /\ index = {}
    /\ dpc = "idle" /\ taken = {} /\ logged = {}
    /\ seen = [d \in Doc |-> 0]
    /\ verdict = [d \in Doc |-> "retryable"]

\* application.Finalize enqueues a new document, ready at once.
Enqueue(d) ==
    /\ d \notin created
    /\ created' = created \cup {d}
    /\ outbox' = outbox \cup {d}
    /\ UNCHANGED <<attempts, waiting, dead, replays, dropped, evicted, requestVars, index,
                   drainVars>>

\* Faulty variant: the delay of the last retry overflows, its deadline never comes.
ElapseOverflow(d) ==
    /\ d \in waiting
    /\ attempts[d] < MaxRetries
    /\ waiting' = waiting \ {d}
    /\ UNCHANGED <<created, outbox, attempts, dead, replays, dropped, evicted, requestVars, index,
                   drainVars>>

\* A backoff deadline passes: Ready(now) holds from here on.
Elapse(d) ==
    /\ d \in waiting
    /\ waiting' = waiting \ {d}
    /\ UNCHANGED <<created, outbox, attempts, dead, replays, dropped, evicted, requestVars, index,
                   drainVars>>
-----------------------------------------------------------------------------
(***************************************************************************)
(* deliver.Service.Drain.                                                  *)
(***************************************************************************)

\* Faulty variant: NextAttemptAt is not looked at.
LoadPendingEarly ==
    /\ dpc = "idle"
    /\ outbox # {}
    /\ taken' = Oldest(outbox, Batch)
    /\ seen' = [d \in Doc |-> IF d \in taken' THEN attempts[d] ELSE 0]
    /\ dpc' = "deliver"
    /\ UNCHANGED <<storeVars, requestVars, index, verdict, logged>>

LoadPending ==
    /\ dpc = "idle"
    /\ outbox \ waiting # {}
    /\ taken' = Oldest(outbox \ waiting, Batch)
    /\ seen' = [d \in Doc |-> IF d \in taken' THEN attempts[d] ELSE 0]
    /\ dpc' = "deliver"
    /\ UNCHANGED <<storeVars, requestVars, index, verdict, logged>>

\* Nothing is ready: the drain only refreshes the depth gauges.
DrainEmpty ==
    /\ dpc = "idle"
    /\ outbox \ waiting = {}
    /\ UNCHANGED vars

\* A bulk request carries every record the drain loaded.
Send == sent' = IF Watched \in taken THEN sent + 1 ELSE sent

\* The bulk request failed as a whole before an answer was read: the cluster
\* may have indexed any part of it.
SinkUnanswered ==
    /\ dpc = "deliver"
    /\ \E w \in SUBSET taken : index' = index \cup w
    /\ verdict' = [d \in Doc |-> "retryable"]
    /\ Send
    /\ dpc' = "resolve"
    /\ UNCHANGED <<storeVars, crashes, taken, seen, logged>>

\* A whole-request status outside 2xx: nothing was indexed and every record
\* gets the same disposition.
SinkRefused ==
    /\ dpc = "deliver"
    /\ \E v \in {"retryable", "permanent"} :
          verdict' = [d \in Doc |-> IF d \in taken THEN v ELSE "retryable"]
    /\ Send
    /\ dpc' = "resolve"
    /\ UNCHANGED <<storeVars, crashes, index, taken, seen, logged>>

\* A bulk answer, item by item; an item the answer omits is retryable whether
\* or not it was indexed.
SinkAnswered ==
    /\ dpc = "deliver"
    /\ \E ok \in SUBSET taken : \E bad \in SUBSET (taken \ ok), w \in SUBSET (taken \ ok) :
          /\ w \cap bad = {}
          /\ index' = index \cup ok \cup w
          /\ verdict' = [d \in Doc |-> IF d \in ok THEN "delivered"
                                       ELSE IF d \in bad THEN "permanent" ELSE "retryable"]
    /\ Send
    /\ dpc' = "resolve"
    /\ UNCHANGED <<storeVars, crashes, taken, seen, logged>>

\* The retry limit turns a retryable failure permanent.
Classified(d) ==
    IF verdict[d] = "retryable" /\ seen[d] + 1 > MaxRetries THEN "permanent" ELSE verdict[d]

Permanents == {d \in taken : Classified(d) = "permanent"}

\* CaptureRecord, one permanent record at a time.
Capture(d) ==
    /\ dpc = "resolve"
    /\ d \in Permanents \ logged
    /\ logged' = logged \cup {d}
    /\ UNCHANGED <<storeVars, requestVars, index, dpc, taken, seen, verdict>>

\* Faulty variant: a record the sink did not answer for is forgotten.
ResolveOutboxLosing ==
    LET live  == taken \cap outbox
        retry == {d \in live : Classified(d) = "retryable"}
        perm  == live \cap Permanents
        all   == dead \cup perm
        kept  == IF perm = {} THEN dead ELSE Newest(all, MaxDLQ)
    IN  /\ outbox' = outbox \ live
        /\ waiting' = waiting
        /\ dead' = kept
        /\ evicted' = evicted \cup (all \ kept)
        /\ dropped' = dropped + Cardinality(all \ kept)
        /\ attempts' = [d \in Doc |-> IF d \in retry \cup perm THEN seen[d] + 1 ELSE attempts[d]]
        /\ UNCHANGED <<created, replays>>

\* Faulty variant: the attempt counter is not stored.
ResolveOutboxForgetting ==
    LET live  == taken \cap outbox
        retry == {d \in live : Classified(d) = "retryable"}
        perm  == live \cap Permanents
        all   == dead \cup perm
        kept  == IF perm = {} THEN dead ELSE Newest(all, MaxDLQ)
    IN  /\ outbox' = outbox \ (live \ retry)
        /\ waiting' = (waiting \ live) \cup retry
        /\ dead' = kept
        /\ evicted' = evicted \cup (all \ kept)
        /\ dropped' = dropped + Cardinality(all \ kept)
        /\ UNCHANGED <<created, attempts, replays>>

\* ResolveOutbox: delivered records leave, permanent ones move to the
\* dead-letter store, retryable ones wait for their next attempt; then, if the
\* dead-letter store changed, trimDeadLetters enforces its cap.
ResolveOutbox ==
    LET live  == taken \cap outbox
        retry == {d \in live : Classified(d) = "retryable"}
        perm  == live \cap Permanents
        all   == dead \cup perm
        kept  == IF perm = {} THEN dead ELSE Newest(all, MaxDLQ)
    IN  /\ outbox' = outbox \ (live \ retry)
        /\ waiting' = (waiting \ live) \cup retry
        /\ dead' = kept
        /\ evicted' = evicted \cup (all \ kept)
        /\ dropped' = dropped + Cardinality(all \ kept)
        /\ attempts' = [d \in Doc |-> IF d \in retry \cup perm THEN seen[d] + 1 ELSE attempts[d]]
        /\ UNCHANGED <<created, replays>>

\* The counts are about the records in the outbox.
Forget ==
    IF Watched \in outbox' THEN UNCHANGED requestVars ELSE sent' = 0 /\ crashes' = 0

\* Faulty variant: the transaction does not wait for the quarantine log.
ResolveUncaptured ==
    /\ dpc = "resolve"
    /\ ResolveOutbox
    /\ Forget
    /\ Idle
    /\ UNCHANGED index

Resolve ==
    /\ dpc = "resolve"
    /\ Permanents \subseteq logged
    /\ ResolveOutbox
    /\ Forget
    /\ Idle
    /\ UNCHANGED index

Drain ==
    \/ LoadPending \/ DrainEmpty
    \/ SinkUnanswered \/ SinkRefused \/ SinkAnswered
    \/ \E d \in Doc : Capture(d)
    \/ Resolve
-----------------------------------------------------------------------------
\* admin.Service.Replay: the dead letters a filter selects go back to the
\* outbox, ready at once, with their attempts forgotten.
Replay(R) ==
    /\ \A d \in R : replays[d] < MaxReplay
    /\ outbox' = outbox \cup R
    /\ dead' = dead \ R
    /\ attempts' = [d \in Doc |-> IF d \in R THEN 0 ELSE attempts[d]]
    /\ replays' = [d \in Doc |-> IF d \in R THEN replays[d] + 1 ELSE replays[d]]
    /\ UNCHANGED <<created, waiting, dropped, evicted, requestVars, index, drainVars>>

\* The process stops in the middle of a drain (a crash, SIGTERM, an error of
\* the store or of the quarantine) and starts again: only the store survives.
Crash ==
    /\ dpc # "idle"
    /\ crashes' = IF dpc = "resolve" /\ Watched \in taken THEN crashes + 1 ELSE crashes
    /\ crashes' <= MaxCrash
    /\ Idle
    /\ UNCHANGED <<storeVars, sent, index>>

Next ==
    \/ \E d \in Doc : Enqueue(d) \/ Elapse(d)
    \/ Drain
    \/ \E R \in SUBSET dead : R # {} /\ Replay(R)
    \/ Crash

Spec == Init /\ [][Next]_vars

\* The drain loop keeps draining and time passes.
Fairness ==
    /\ WF_vars(Drain)
    /\ \A d \in Doc : WF_vars(Elapse(d))

FairSpec == Spec /\ Fairness
-----------------------------------------------------------------------------
(***************************************************************************)
(* Properties.                                                             *)
(***************************************************************************)

\* Never a silent drop (specification.md section 9): a document is in the
\* outbox, in the dead-letter store, dropped by the cap, or in OpenSearch, in no
\* two of the first three, and the durable counter says how many the cap cost
\* (store.go:606-659, ADR-0012).
Conserved ==
    /\ outbox \cap dead = {}
    /\ outbox \cap evicted = {}
    /\ dead \cap evicted = {}
    /\ created \ (outbox \cup dead \cup evicted) \subseteq index
    /\ dropped = Cardinality(evicted)

\* While a drain is in flight nobody else touches what it loaded: the records
\* are still in the outbox, not waiting, with the attempts it read, so the
\* verdict it applies is about the record it finds (deliver/service.go:57-137).
InFlightStable ==
    \A d \in taken : d \in outbox \ waiting /\ seen[d] = attempts[d]

\* However requests fail and drains are cut short, a record that is still in the
\* outbox was in at most MaxRetries + 1 bulk requests, and one more for every
\* drain that stopped between the request and the transaction that records its
\* outcome: the durable counter misses exactly those (deliver/service.go:76-127).
AttemptsBounded == Watched \in outbox => sent <= MaxRetries + 1 + crashes

\* Capture first (deliver/service.go:109-110): a document leaves the outbox
\* only when OpenSearch holds it or this drain has logged its rejection.
CaptureFirst ==
    [][\A d \in outbox \ outbox' : d \in index \/ d \in logged]_vars

\* Every record leaves the outbox, whatever the sink answers, unless the process
\* is stopped again and again.  Nothing is assumed of the sink because after
\* MaxRetries + 1 transient failures the record is dead-lettered
\* (deliver/service.go:90-97): a cluster that stays down drains the outbox into
\* the dead-letter store.  That is not what specification.md:324 and ADR-0008
\* say, by which transient failures stay in the outbox.
OutboxDrains ==
    <>[][~Crash]_vars => \A d \in Doc : d \in outbox ~> d \notin outbox
=============================================================================
