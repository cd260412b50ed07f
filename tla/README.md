# FlowStitch in TLA+

FlowStitch receives log events over HTTP, correlates those that share a key
into *flows*, stitches requests and responses inside a flow into *invocations*,
and delivers one document per finished flow to OpenSearch. Events no rule
claims are passed through. This directory holds TLA+ modules of the parts where
order, concurrency and failure matter, and of the string functions that what is
durable depends on, TLC configurations that check them on small instances, and
TLAPS proofs of the central claims for all instances.

Paths below are relative to `src/internal/` unless they start with `src/`.

## The system

| Part | Code | State it owns |
|---|---|---|
| HTTP API | `adapters/httpapi` | none; one goroutine per request |
| Ingestion | `application/ingest` | none; takes a rule reference, then one store transaction |
| Rule registry | `adapters/rules` | current rules, resolvable versions, reference counts |
| Correlation aggregate | `domain/flow`, `domain/rule`, `domain/path` | the value of one flow |
| Expiry sweep | `application/expire` | none; one goroutine, one transaction per sweep |
| Finalization, projection | `application/finalize.go`, `domain/projection`, `domain/indexname` | none |
| State store | `adapters/state/pebble` (and `memory`) | flows, expiry index, outbox, dead letters, drop counter; one mutex around every transaction |
| Delivery loop | `application/deliver` | one goroutine: outbox, then alerts, then pass-through |
| OpenSearch sink | `adapters/sink/opensearch` | none |
| Rejection log | `adapters/quarantine` | none |
| Stuck-document alerts | `application/alerts` | in-memory summary of the dead letters, conditions already announced |
| Administration | `application/admin` | none; replay is one transaction followed by two reports |
| Pass-through | `adapters/passthrough` | bounded buffer in memory |
| Reload, lifecycle | `src/cmd/flowstitch` | the configuration in force |
| Configuration, metrics, health, logging, templates | `adapters/config`, `observability`, `template.go` | gauges and counters |

Requests, the sweep, the delivery loop, replays and reloads run concurrently.
The store mutex makes a transaction atomic; the registry, the alert service and
the buffer have mutexes of their own. What happens *between* two such critical
sections is where the code is exposed, so one step of a model is one critical
section, or one call to the outside, and everything else may happen in between.

## Modules

| Module | Models | Composition |
|---|---|---|
| `RuleRegistry` | the registry and all holders of references | requests, sweep, reload, restart |
| `FlowAggregate` | `flow.go`, `finalize.go` as operators on a flow's value | used by the next two |
| `Correlation` | ingestion, capacity check, flow and expiry keys, sweep, restart | `FlowAggregate` + store + requests + sweep |
| `Projection` | `document.go` | `FlowAggregate` + the output document |
| `Delivery` | outbox, dead letters, drain, sink, replay, crash | |
| `DocumentLedger` | what delivery promises of a document | abstract |
| `DeliveryLedger` | refinement mapping `Delivery` → `DocumentLedger` | |
| `StuckAlerts` | the alert service, its two reporters, the depth gauge | drain + replay + alerts |
| `Passthrough` | the buffer, its drain, the wake-ups of `Run`, bulk answers | buffer + loop + sink |
| `Lifecycle` | `main.go`, `reload.go`, both loops and the requests as far as they use the store, the open-flow gauge | main goroutine + loops + requests + store mutex + operator |
| `OutboxRecord` | `domain/outbox`, the operations of a transaction, ordered lists | used by the next six |
| `StorePort` | the contents of a store and what each operation of `Tx` makes of them (`application/ports.go`) | used by the next five |
| `StateStore` | the transactions of the store port | abstract |
| `PebbleStore`, `PebbleQueries` | `adapters/state/pebble`: writes and crash; reads | implements `StateStore` |
| `MemoryStore` | `adapters/state/memory` | |
| `StoreConformance` | both stores under the same transactions, and a listing of the dead letters page by page | Pebble + memory + administrator |
| `PathLanguage`, `IndexName` | `domain/path`, `domain/indexname` as operators | used by the next |
| `Configuration` | `adapters/config`, `Rule.Validate`, and the pinned key from file to store and back | paths + index names + validation |
| `*Proofs` | theorems about the modules they extend | |
| `MC*` | instances for TLC | |

Definitions whose comment starts with "Faulty variant" are no part of a
specification. Each states a plausible mistake in the definition that follows
it, and some property fails when it is put in its place.

### RuleRegistry

A rule reference is an ID with a content version. `Accept` in
`ingest/service.go` is the sequence `MatchAndRetain` → (`Refuse` | transaction)
→ releases: `OpenFlow`, `JoinFlow`, `FinalizeFlow` and `OpenAndFinalize` are the
outcomes of the transaction, `ReleaseFinalized` and `ReleaseCandidate` the
deferred calls. The sweep stages flows (`SweepFlow`), commits (`SweepCommit`)
and then releases one by one; it holds the store mutex from `SweepBegin` to its
commit, which `StoreFree` expresses. `Publish` is a reload, `Restart` seeds the
counts. A configuration is a set: which of several matching rules comes first
depends on the event, so a request may match any enabled one.

### FlowAggregate and Correlation

A flow is a record with the fields of the Go struct that decide anything. The
rule is a set of constants. A document is known up to `reflect.DeepEqual`; what
the rule's paths find in it (its slot, whether its type is terminal, its size)
are constant functions of it. The durable encoding keeps every field used, so a
stored flow is its value.

In `Correlation` a request reads the clock when received, checks the open flows
and the outbox against their marks in two separate scans (`CheckOpenFlows`,
`CheckOutbox`), and then runs its transaction with its own reading of the clock;
a batch repeats this for each event with one observed time. The sweep reads the
clock before its transaction. `expiry` is the expiry index, kept apart from the
flows as in the store, with keys of millisecond granularity (`Milli` ticks to
the millisecond). `Restart` drops everything in memory; no request is received
until a sweep finds less than a full batch. Each request is assumed to read a
clock value of its own; events of one batch share it. `Deliver` is a drain seen
from the outbox: a record is confirmed and leaves (`Confirm`), or becomes a dead
letter under the cap `MaxDLQ` (`DeadLetter`); `Replay` brings dead letters back
without looking at the marks. `settled` and `replayed` are histories: what left
for good, and which records of the outbox a replay put there.

### Projection

`Project` and its helpers are operators; a small state machine feeds one flow
with any events in any order. Timestamps are numbers, 0 the zero time. Whether a
text coerces to a field's type is a constant.

### Delivery, DocumentLedger, DeliveryLedger

A document is a number, its rank in (CreatedAt, OutputID) order. A drain is
`LoadPending` (transaction), one of three sink outcomes, `Capture` for each
permanent record, `Resolve` (transaction). `Enqueue`, `Replay` and `Crash` may
happen between any two of these. `NextAttemptAt` is abstracted to "waiting"
until `Elapse`. A replay takes any subset of the dead letters, which contains
what any filter selects. Output IDs are taken to be unique; `batch_identity`
shows when they are not. `max_dlq_records` and `max_retries` do not change.
`sent` and `crashes` are histories of one arbitrary document, `Watched`: the bulk
requests it was in and the drains that stopped between such a request and the
transaction that records its outcome, since it entered the outbox. `MaxCrash`
bounds the second.

`DocumentLedger` knows five states of a document (none, pending, indexed, dead,
dropped) and OpenSearch's index. A document is settled as indexed only if the
index holds it, and dropped only if the dead-letter store is full.

### StuckAlerts

A drain and replays commit a change of the dead-letter store, then set the
gauge, then apply the change to the summary: three steps, interleaved with the
other actor's. `Observe` runs at the end of a drain. The age of the outbox is
any value. The history `recent` holds the depths that the last change and those
it overlapped have left.

### Passthrough

A record is its sequence number. `Run` wakes by timer or by the token in the
ready channel, copies a batch, sends it without the mutex, and resolves by
sequence number (`Kept`). `Item` lists what OpenSearch may say of one record;
`SinkAnsweredShort` and `SinkUnanswered` are the ambiguous outcomes.

### Lifecycle

`main` is where the main goroutine of `run` stands: start, seeding, startup
sweep, the `select` loop, the four statements of `Reload` one by one, `Shutdown`
and the deferred calls in their order. A configuration is a model value, one of
them invalid. The operator edits the file and sends signals at any time. The
hup channel holds one signal. A request takes the capacity check and its
transaction as separate uses of the mutex; inside the transaction `OpenFlow` and
`FinalizeFlow` move the gauge at once, as `FlowOpened` and `FlowFinalized` do,
and the transaction may still fail, which the history `failed` records; `MaxDrift`
bounds how far the gauge gets away from the flows. `Close` waits for the mutex,
but nobody waits for the loops. After `Close` a request may find the database closed: the
handler panics, net/http ends the request, and it was never answered 202. A
signal before `Notify` kills the process, which `Kill` covers.

### OutboxRecord, StorePort, StateStore, PebbleStore, MemoryStore, StoreConformance

`StorePort` says what an operation makes of the contents of a store (`After`),
`StateStore` what the port promises of transactions: one sees its own writes, is
published whole or not at all, and a crash falls back to something that was
published. `PebbleStore` keeps the database as five families of cells, one per
key prefix, and a transaction as an indexed batch whose untouched cells show the
database through; every operation is translated on batches. Expiry cells carry
milliseconds. `MemoryStore` works on a clone; its operators have
the names of the Pebble store's with `Mem` before them, so that
`StoreConformance` can extend both and take each of its own steps (`SuiteBegin`,
`SuiteDo`, ...) in both at once. Keys and IDs are numbers in the
order of the real bytes. `Document`, `LastError`, `DeadLetteredAt` and `Index`
are left out, so filters select by ID and type. `DeadLetterChange` keeps the
difference of `Added` and `Removed` per type, which is what the alerts use.

`DueFlows` of the memory store sorts by deadline alone, so its model is the set
of answers it may give. The memory store's `WithTx` does not look at its
context; the Pebble store does before anything else.

### PathLanguage, IndexName, Configuration

Here the data is text, because the properties are about spelling. Paths are
sequences of characters after `$.`. In an index pattern a date name is one
character, and so is what replaces it. An operator types a key or a pattern,
`Load` validates the file, `DomainRules` compiles it, `Pin` stores the canonical
key with a flow and `Restore` compiles it again after a restart. `ToDomain` and
`DecodesRoles` are the paths and roles `toDomain` refuses. An index outside
`MaxInt`, Go's int, is refused. Defaults are taken to be in the file already.

## Runs

Passing runs; the comment of each property says what it states.

| Run | Instance | Safety | Liveness |
|---|---|---|---|
| `registry` | 2 requests, 2 rules, 4 versions (one disabled), 3 configurations | `RefCountExact`, `PinnedResolvable`, `RuleUnavailableOnlyRecovered` | `SupersededReclaimed` |
| `correlation` | 2 requests at a time, 1 key, 5 documents, 3 events, timeout 3, settle 2, 2 ticks to the millisecond | `Preserved`, `ExpiryIndexExact`, `DeadlineExact`, `ReasonHonest` | |
| `capacity` | 2 requests, 3 keys, batches of 2, marks of 1, 1 dead letter, sweep batch 1 | `CapacityOvershoot`, `StartupSweepsAll` | `FlowsEnd` |
| `projection` | 5 events, 5 documents, 3 roles, 2 observed times, 4 promoted fields | `FlowTimesExact`, `ShownOnce`, `RoleByIdentity` | |
| `delivery` | 3 documents, bulk of 2, 1 retry, 1 dead letter, 1 replay each, the second document watched through 1 crash | `Conserved`, `InFlightStable`, `AttemptsBounded`, `CaptureFirst`, `RefinesLedger` | `OutboxDrains` |
| `alerts` | the drain and 1 replay request, 2 rejection types, cap 2, 3 rejections | `NeverUnderReported`, `DepthRecent` | `ClearsSerial` |
| `passthrough` | 3 records, buffers of 3, 2 and (disabled) 1, batches of 2 and 1 | `Accounted`, `BatchIsHead`, `DuplicateOnlyUnacked`, `NoLostWakeup` | `Flushed` |
| `lifecycle` | 2 valid files and an invalid one, 1 request at a time beside both loops, 2 flows, sweep batch 2 | `GaugeExact`, `OnlyLateRequestsTouchClosed`, `NoMixedConfiguration`, `SignalNotLost` | |
| `stopping` | 1 file, 1 request at a time, 1 flow | | `Stops` |
| `store` | 2 keys, 3 IDs, 3 times (2 to the millisecond), cap 2, 5 operations in transactions of any length | `StoresAgree`, `PagingExact`, `ChangeExact`, `PebbleKeepsContract` | |
| `configuration` | up to 5 tokens of 9 behind `a`, `]` or `a["`, up to 5 of 6 in a pattern, an int of 8 bits, files of up to 3 rules | `PathRoundTrip`, `TemplateCovers`, `ConflictsRefused` | |

Type invariants are not run but proved, where a module has proofs: each is part
of the inductive invariant.

Why the bounds are enough: two requests are the fewest that overtake one
another, and every lost update or stale read in this code involves two actors.
Five documents make a slot contested, repeated and left empty, an invocation
complete while another is not, and a flow end by a terminal event. Caps, marks
and batches of one or two are reached and exceeded within the bound on
documents; two flows due at a restart are more than one sweep takes. `capacity`
stops receiving (`Arrivals`) early enough for every deadline to fall within
`MaxTime`; without that `FlowsEnd` would fail for want of time. In `lifecycle`
one request beside two loops contends for the mutex in every phase; the proofs
cover any number. In `store` the operations come from one of four workloads at a
time (expiry, rejection, retry, finalization), chosen so that a deadline moves
within and across a millisecond, one transaction rejects more than the cap holds,
a rejection replaces a dead letter of its own ID, and replays run between the
pages of a listing; a crash ends the behaviour. `SyncWrites` is off there:
with it on, a commit is one with a `Sync` right behind it. In `configuration`
`"]` is one token, so that five behind an opened quote are a body of four
characters, escapes of a quote and of a backslash among them, next to one that
keeps the key from being written bare: the shortest keys `Canonical` has to
escape. Five behind a bare key are up to two more segments. The indexes are all
of three digits around the 8-bit int, and the third rule finds what the first
two left in the tables. In `delivery` one document is watched because
`AttemptsBounded` is about one document and any may be it; the second of three
has one before it and one behind it in the order of the outbox. Only
`correlation` uses symmetry, of its interchangeable requests, and it checks no
liveness. `capacity` uses a view that leaves out the histories of events and
what a record holds beside its age: no step and none of its properties depends on
them. Deadlock is not checked where the end is final: a projected document,
a restored or refused configuration, a store that has done its operations.

### Disagreements between code and documentation

`batch_identity` ends in a counterexample, which `PROJECT.json` explains: two
flows of one key opened by one batch get one output ID, and the second document
overwrites the first.

Three more are findings about what passing runs show; each property states what
is true instead:

- `Classified` (`deliver/service.go:91`): a transient failure beyond
  `max_retries` is dead-lettered, while `docs/specification.md:324` says
  "transient ones stay in the outbox", and ADR-0008 the same. `OutboxDrains` holds
  without any assumption on OpenSearch for that reason.
- `RequestFails`, `LoopFails` (`ingest/service.go:161`, `finalize.go:39`): a
  failed transaction leaves the open-flow gauge moved until the next restart,
  while `metrics.go:63` calls it the flows "currently waiting for more events".
  `GaugeExact` says that nothing else moves it away.
- `ApplyDeadLetterChange` (`alerts/service.go:87`): changes applied in the
  opposite order of their transactions leave a stale depth, and an alert that
  does not clear until the next change, while `docs/specification.md:349` says a
  condition emits "once when it clears". TLC refutes `Clears` as it stands;
  `DepthRecent` and `ClearsSerial` are what remains true.

The others were met while modelling and are visible in the definitions named;
they have no run of their own:

- `Item` (`sink.go:171`): a pass-through record refused by a cluster block is
  dropped, while `docs/specification.md:326` lists it as retryable.
- `InvocationView` (`document.go:223`): an incomplete invocation has a placeholder
  duration of -1 and is therefore reported as clock skew, which `flow.go:28`
  defines as a negative duration.
- `ContentVersion` (`rule.go:233`) sorts `requires`, but `invocationTimes` reads
  it in order: a reload that only reorders it changes the documents of open
  flows, while `docs/specification.md:147` says they keep their definition.
- `Match` (`ports.go:110`) never has to choose between rules, says its comment;
  validation refuses two enabled rules of the same key path only, so an event
  that has values at two paths gets the first rule of the file.
- `StopServing` (`main.go:210`): when a goroutine fails, the process stops and
  its exit status is that of `Shutdown`, which is 0.
- `PublishRules`, `ReconfigurePassthrough` (`reload.go:49`): between the two
  statements an event may be dropped that neither configuration alone would
  drop, one without the rule and with pass-through disabled.
- `Newest` (`store.go:632`): the dead-letter cap drops by creation time, so it
  may drop the record rejected last, while ADR-0012 wants the newest rejections
  kept.
- `Precedes` (`flow.go:217`): an entry sorts by the member applied first, while
  `docs/specification.md:271` says by its earliest member.
- `ApplyDeadLetterChange` (`alerts/service.go:79`): a record added and dropped
  in one transaction stays counted under its reason, because removals are
  applied first and stop at zero. `NeverUnderReported` is what remains true.
- `InvocationTimes` (`document.go:273`): `started_at` of an incomplete
  invocation follows the order of `requires`, while `docs/specification.md:285`
  says the order of arrival.
- `ingest/service.go:36` says a *quarantined* event was durably captured, but an
  unmatched event is only counted and `CaptureEvent` has no caller.

### Fairness

- `RuleRegistry`: a started request finishes and the sweep keeps running (weak
  fairness: goroutines are scheduled, mutexes are granted). A due flow is swept
  eventually although others keep expiring (strong fairness on `SweepFlow`):
  deadlines are persisted and `DueFlows` returns the earliest first.
- `Correlation`: the clock advances, the ticker fires, a started sweep commits.
  Nothing is assumed of producers, of requests or of OpenSearch.
- `Delivery`: the loop keeps draining and every backoff ends; a bulk request ends
  because the HTTP client has a timeout. Nothing is assumed of what OpenSearch
  answers: the retry limit ends every record's stay. `OutboxDrains`
  concerns behaviours in which the process eventually stays up.
- `StuckAlerts`: the loop keeps draining, a replay that committed reports.
- `Passthrough`: the timer fires and a bulk request ends. Pass-through records
  are retried without limit, so here OpenSearch is assumed not to answer
  "retry later" for ever (strong fairness on `SinkSettles`).
- `Lifecycle`: the main goroutine is scheduled and the grace timer fires (weak
  fairness on `MainStep` and `GraceOver`); a case of `select` that is ready
  again and again is taken, because Go chooses at random among the ready ones,
  and `Close` gets the mutex although others ask for it, because a Go mutex
  starves nobody (strong fairness). A transaction that runs ends (`TxEnds`).
  Nothing is assumed of signals, edits, or the rest of a request: the grace ends
  the wait for one.

## Proofs

`tlapm` checks all proofs, for any constants that satisfy the modules' named
assumptions: finite sets of flow keys and documents, and of requests where they
are counted; positive timeouts, batches and retry limits; caps and marks that are
naturals; model values that are none of the data they stand beside.

Where a proof module is about two specifications, or a module of the project is
extended next to another, their definitions have names of their own
(`ProcessSpec`, `BufferSpec`, `AlertsSpec`, `SuiteSpec`, `ProjectionSpec`).

**RuleRegistryProofs.** `RefCountExact` says that the count of a version equals
the number of its holders: requests that retained it, flows pinned to it,
finalized flows whose reference is still to be released. It is not inductive: a
sweep releases after its commit, so the invariant also says which flows a sweep
holds in each phase (`SweepConsistent`). That a pinned version stays resolvable
needs in addition that current rules are resolvable (`ordered \subseteq
versions`) and that a request's candidate is (`CandResolvable`), because the
candidate becomes the pinned version of a flow without another look at the
registry. `IInv` is their conjunction. There is one lemma per action that moves
a reference: one holder leaves or joins a finite set and the count follows. From
it follow `TypeCorrect`, `RefCounts`, `PinnedRules`, `RuleUnavailable`,
`OldVersions`.

**DeliveryProofs.** `NewestBounded` and `NewestFull` say that trimming to the
newest *n* leaves at most *n*, and exactly *n* if it dropped any; both rest on
the least element of a set of naturals. `IInv` is the conjunction of the safety
invariants, of `CapCounted` (the cap holds, the result `CapRespected`) and of
`DrainConsistent`: an idle drain holds no records, a record whose verdict is
*delivered* is in the index, and a document not yet enqueued has no attempts.
Without the second `ResolveOutbox` would not preserve `Conserved`.
`ResolveEffect` computes once what that transaction does; preservation and
refinement both use it. `Refinement` proves `Spec => RefinesLedger`: each step
is a step of the ledger or leaves it unchanged. `CapturedFirst` is an action
property, proved from the same invariant. `AttemptsBounded` compares a history
with a limit and needs the durable counter in between: `RequestsCounted` says that
the requests of the watched record are no more than its stored attempts, the
crashes, and one for a request whose outcome is not recorded yet (`Underway`), and `RetriesLeft`
that stored attempts stay within the limit. The watched document is a constant,
so `RetriesBounded` is about every document.

The alerts come first in the module, being about the same dead letters. A change
carries the depth its own transaction left. It is the current depth only while no other has committed since, so `Messengers` says
that every change in flight carries a depth of `recent`, and that what gauge and
summary show is in `recent` or will be replaced by a change in flight.
`DepthIsRecent` follows. For `NeverUnderReported` the
invariant `Owing` balances each rejection type: the dead letters of the type and
all removals still to be applied are no more than the summary and the additions
still to be applied. It survives a removal that stops at zero, which only makes
the summary larger. The removals in flight are a sum over any number of replays;
as sums are recursive, `Owed` counts numbered tokens instead, a set that grows or
shrinks by one replay's share.

**CorrelationProofs.** `DeadlineExact` speaks of stored flows, but a transaction
takes a flow through values that are never stored. So the first lemmas follow
one event through `Apply` and `ShouldClose`: completion flags and budget are
exact throughout (`FlagsExact`, `Budgeted`), and what stays open can be stored.
The next reduce a request's transaction and a sweep's to their effect on the
store (`AcceptDetail`, `SweepDetail`). The index is exact because a flow's
deadline is always the one it was indexed at. Results: `IndexIsExact`,
`DeadlinesAreExact`, `StartupIsComplete`. The last section is about the reasons
of `ReasonHonest`. That a terminal event comes last in a document depends on the
flow it was made from, so the invariant adds `CalmFlows`: no stored flow has a
terminal event, neither among its events nor among its members, because the
transaction that applies one also ends the flow; and `max_events` ends a flow
before one more could be applied.

**RecordProofs** continues it with what the store and OpenSearch hold.
`CapacityOvershoot` needs the requests past a check counted in (`Headroom`): each
may still add one flow or one record. Records a replay put back are not counted,
because a replay does not look at the marks. `Preserved` is proved by
bookkeeping. The open flows, the outbox, the dead letters and the settled
records together are one book with a page for each output identity (`Ledger`); a page is a list of events and a count of
duplicates. A transaction writes one event that was in no page before
(`AcceptEnters`), as a new entry or as a duplicate. Finalizing moves a page from
a flow to the outbox, a drain or a replay moves it on or back, and none of them
changes it.
In a book that grows only this way each event is on one page and the entries
and duplicates number the accepted events (`BookGrows`). The inductive invariant
also says that no page is in two places (`Separate`) and that a request in
progress carries an event not accepted yet, read at a time no other has
(`Fresh`): this keeps a new flow from the identity of an old one. The theorem
`EvidenceIsPreserved` has the hypothesis `MaxBatch = 1`, and cannot do without:
events of one batch share their observed time, so one batch can open two flows
of one identity, as `batch_identity` shows. Results: `OvershootIsBounded`,
`ReasonsAreHonest`, `EvidenceIsPreserved`. `Counting` collects the facts about
finite sets that the lemmas use; they take it as an assumption, and `Counts`
proves it from the library where that is instantiated, before the theorems.
The other modules do the same (`Counting`, `Tallying`, `LeastOf`).

**ProcessProofs** is about the process and about what it keeps in memory only.
For the process, `ProcessInv` adds to the four invariants who is inside a
transaction (`Mutex`), what `run` has done by each phase (`Phases`) and which
statements of `Reload` are behind (`ReloadProgress`). `ClosedIsLeftAlone` hangs on
one fact of `Phases`: at `close` the context is cancelled, and `WithTx` looks at
it under the mutex. `SignalsAreKept` needs that a signal sent after the file was
read is still in the channel. `GaugeIsExact` and `NeverMixed` are the other
results.

For the buffer, `Pending` copies the head and `Resolve` runs
after a bulk request without the mutex. The batch is still the head then, because
`Accept` appends and a reload leaves the records alone (`BatchIsHead`). To be
inductive, `DuplicateOnlyUnacked` needs `Indexed`: a record that is both in the
buffer and in OpenSearch was indexed by an attempt nobody acknowledged, or it is
in the answered batch and not among those to retry. `KeptIs` establishes what the
loop of `Resolve` leaves: the records of the buffer not settled, in their order.
The loop is a recursive function; the lemma shows that the function exists and
argues by a least counterexample, with the library's well-founded order of the
naturals. Results: `NothingVanishes`, `BatchStaysHead`, `DuplicatesAreUnacked`,
`WakeupIsKept`.

**OperationProofs and StoreProofs.** The first module has the lemmas about one
operation, the second those about reads and the theorems. For each operation of
the Pebble store a lemma computes the view it leaves (`FlowEffect`,
`EnqueueEffect`, `ReplayEffect`, `ResolveEffect`) from facts about reading
through a batch; `OperationEffect` sums up: it is what the port says (`After`).
The port keeps the newest dead letters and the store drops the oldest;
`Complement` shows that these are complements in a finite linear order. The
memory store drops them one at a time, a recursive function of the set that is
left; `TrimIs` argues by the least number of turns at which it would differ.
`MemOperationEffect` is the counterpart for the memory store, so both hold the
port's contents at all times (`Agreed`), and `Reports` and `OperationExactly` show
that both report one change and that it is the difference made.

`KeepsContract` proves that the Pebble store implements `StateStore`; the mapping
takes the view of a batch for the port's transaction. Its invariant gives the
types and `IndexExact`, in the database, in the copy a crash falls back to, and in
the view of a running transaction: `SaveFlow` deletes the entry of the deadline it
finds stored, and finds the right one only because the index was exact before.
`StoresAlwaysAgree` needs in addition what the reads return. They sort; `SortedIs`
and `Ranks` show that a finite linear order has exactly one sorted list, so equal
contents give equal pages. `DueFlows` of the Pebble store walks the index by
milliseconds and stops early; `PebbleDueFlowsOK` shows that what it leaves out is
not due or not among the first. `PagesAreExact` has the invariant `Paged`: the
pages shown so far rise up to the cursor and hold everything up to it that
matched throughout. `ChangesAreExact` is an action property.
`SuiteKeepsContract` is the contract under the suite's transactions, the formula
the run `store` checks.

**ProjectionProofs.** `ShownOnce` is about the timeline that `Entries` sorts. Its
invariant `Filed` says where every stored event is: in the slot its document
names, or aside as a plain entry because it names none or another event holds the
slot; that no two entries have the same order number; and that stored events
and duplicates number the arrivals. One lemma per branch of `Apply` keeps it
(`AppendPlainFiled`, `CountDuplicateFiled`, `OccupyFiled`). Distinct order numbers
make `Precedes` a linear order, so the timeline lists each entry once
(`EntriesList`), and an event is in one entry (`OneEntry`). `RoleByIdentity` follows
from the first part: the event found in a role by value has the slot of its own
document. `FlowTimes` is a loop over the events, a recursive function; `FlowTimesIs`
shows that it exists and argues by the first turn where the bounds would be
wrong. Results: `TimesAreExact`, `EventsAreShownOnce`, `RolesAreIdentities`.

Only model-checked:

- all liveness properties, because fairness and `ENABLED` are out of the
  prover's reach;
- `PathRoundTrip` and `TemplateCovers`: the string functions are `RECURSIVE`
  operators over texts, and what they compute needs induction over data;
  and `ConflictsRefused`, which is about a module that uses them.

## Not modelled

- YAML parsing and defaults, JSON encoding of flows and documents, the mappings
  of index templates, HTTP requests and authentication, log output, health
  probes, counters and histograms, command-line flags: data and I/O without
  order or concurrency of their own.
- What a path finds in a document (`Resolve`) and the coercion of texts to
  types: constants of the models that need them.
- The hash of `ContentVersion`: versions are values.
- The length of a backoff: `Delivery` lets a retry become due at any later time.
  The code's largest shift, one second times 2^30, fits in 63 bits.
- Decoding errors of stored values and other damage to the database; a commit
  that fails is a rollback.
- Pass-through sections with sizes that validation would refuse: it skips a
  disabled section, and the models use sizes an enabled one may have.
- What a forwarder does with a batch that was answered with an error after part
  of it was applied: the code leaves it undecided (`server.go:240`).
