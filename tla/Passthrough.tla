---------------------------- MODULE Passthrough -----------------------------
(***************************************************************************)
(* Pass-through of events no rule claims                                   *)
(* (internal/adapters/passthrough/buffer.go): a bounded buffer in memory,  *)
(* filled by requests, emptied by the delivery loop                        *)
(* (internal/application/deliver/service.go, drainPassthrough and Run) and *)
(* reconfigured by a reload, each under the buffer's mutex.  The bulk      *)
(* request is sent without the mutex.                                      *)
(*                                                                         *)
(* A record is its Sequence: documents and index names play no part.       *)
(***************************************************************************)
EXTENDS Integers, Sequences, Functions, FiniteSetsExt

CONSTANTS
    Settings,  \* configurations: [enabled, size, batch], as Validate admits them
    MaxAccept  \* bound: records accepted

ASSUME PassthroughAssumption ==
    /\ \A s \in Settings :
         /\ s.enabled \in BOOLEAN
         /\ s.size \in Nat \ {0}
         /\ s.batch \in 1..s.size
    /\ MaxAccept \in Nat

VARIABLES
    opts,     \* the settings in force
    records,  \* the buffer
    next,     \* the last Sequence given
    ready,    \* a token is in the ready channel, of capacity one
    stage,    \* the delivery loop: waiting in its select, at the sink, resolving
    pending,  \* the copy of the records it works on
    results,  \* what it makes of the sink's answer
    copies,   \* OpenSearch: how often every record was indexed, up to two
    unacked,  \* history: records indexed by an attempt that was not acknowledged
    dropped,  \* history: records removed as permanently rejected
    lost,     \* history: records in memory when the process stopped
    mark      \* history: next when a token was last taken or settings changed

loopVars == <<stage, pending, results>>
sinkVars == <<copies, unacked>>
bufferVars == <<opts, records, next, ready, loopVars, sinkVars, dropped, lost, mark>>

Record == 1..MaxAccept

-----------------------------------------------------------------------------
Idle == stage' = "select" /\ pending' = << >> /\ results' = << >>

BufferInit ==
    /\ opts \in Settings
    /\ records = << >> /\ next = 0 /\ ready = FALSE
    /\ stage = "select" /\ pending = << >> /\ results = << >>
    /\ copies = [r \in Record |-> 0]
    /\ unacked = {}
    /\ dropped = {} /\ lost = {}
    /\ mark = 0

\* Faulty variant: the token is raised when the batch size is passed.
AcceptSignalsLate ==
    /\ opts.enabled
    /\ next < MaxAccept
    /\ Len(records) < opts.size
    /\ next' = next + 1
    /\ records' = Append(records, next + 1)
    /\ ready' = (ready \/ Len(records) > opts.batch)
    /\ UNCHANGED <<opts, loopVars, sinkVars, dropped, lost, mark>>

\* Accept.  While pass-through is disabled or the buffer is full nothing
\* changes: the event is counted, or the request fails and is retried.
AcceptRecord ==
    /\ opts.enabled
    /\ next < MaxAccept
    /\ Len(records) < opts.size
    /\ next' = next + 1
    /\ records' = Append(records, next + 1)
    /\ ready' = (ready \/ Len(records) + 1 >= opts.batch)
    /\ UNCHANGED <<opts, loopVars, sinkVars, dropped, lost, mark>>

\* Faulty variant: a smaller buffer is cut to its size.
ReconfigureTruncating ==
    /\ \E s \in Settings :
         /\ opts' = s
         /\ records' = SubSeq(records, 1, Min({Len(records), s.size}))
    /\ mark' = next
    /\ UNCHANGED <<next, ready, loopVars, sinkVars, dropped, lost>>

\* Reconfigure: what the buffer holds stays, even beyond a smaller size.
Reconfigure ==
    /\ opts' \in Settings
    /\ mark' = next
    /\ UNCHANGED <<records, next, ready, loopVars, sinkVars, dropped, lost>>

\* Pending: a copy of the oldest records, at most a batch.
Pending == SubSeq(records, 1, Min({Len(records), opts.batch}))

\* drainPassthrough begins; with nothing to send it returns.
DrainBegins ==
    /\ pending' = Pending
    /\ stage' = IF Pending = << >> THEN "select" ELSE "sink"
    /\ results' = << >>
    /\ UNCHANGED <<opts, records, next, sinkVars, dropped, lost>>

\* Faulty variant: the timer waits for a full batch.
TimerFiresFull ==
    /\ stage = "select"
    /\ Len(records) >= opts.batch
    /\ DrainBegins
    /\ UNCHANGED <<ready, mark>>

\* Run wakes by its timer, or takes the token.
TimerFires == stage = "select" /\ DrainBegins /\ UNCHANGED <<ready, mark>>

ReadyFires ==
    /\ stage = "select"
    /\ ready
    /\ ready' = FALSE
    /\ mark' = next
    /\ DrainBegins
-----------------------------------------------------------------------------
Sent == Range(pending)

\* OpenSearch indexed the records of S once more.
Index(S) ==
    copies' = [r \in Record |-> IF r \in S THEN Min({copies[r] + 1, 2}) ELSE copies[r]]

Answer(res) == results' = res /\ stage' = "resolve"

\* retryAll.
All(d) == [r \in Sent |-> d]

\* No usable answer: no address, a connection error, a timeout, a body that
\* does not parse.  OpenSearch may have indexed some of the records.
SinkUnanswered ==
    /\ stage = "sink"
    /\ \E S \in SUBSET Sent : Index(S) /\ unacked' = unacked \cup S
    /\ Answer(All("retryable"))
    /\ UNCHANGED <<opts, records, next, ready, pending, dropped, lost, mark>>

\* The bulk request as a whole is refused: with 429 or 5xx, or with another
\* 4xx, which classifyStatus takes for permanent.
SinkRefused ==
    /\ stage = "sink"
    /\ \E d \in {"retryable", "permanent"} : Answer(All(d))
    /\ UNCHANGED <<opts, records, next, ready, pending, sinkVars, dropped, lost, mark>>

\* What OpenSearch says of one item.
Item == {"created", "throttled", "cluster_block", "invalid"}

\* classifyStatus: a cluster block is HTTP 403.
Classify(item) ==
    CASE item = "created"   -> "delivered"
      [] item = "throttled" -> "retryable"
      [] OTHER              -> "permanent"

\* An answer with an item for every record.
SinkAnswers(items) ==
    /\ stage = "sink"
    /\ Index({r \in Sent : items[r] = "created"})
    /\ Answer([r \in Sent |-> Classify(items[r])])
    /\ UNCHANGED <<opts, records, next, ready, pending, unacked, dropped, lost, mark>>

SinkAnswered == \E items \in [Sent -> Item] : SinkAnswers(items)

\* An answer with items for the first n records only: the others, indexed or
\* not, are retried.
SinkAnsweredShort ==
    /\ stage = "sink"
    /\ \E n \in 0 .. Len(pending) - 1, S \in SUBSET Sent :
         LET named == Range(SubSeq(pending, 1, n))
         IN  /\ Index(S)
             /\ unacked' = unacked \cup (S \ named)
             /\ Answer([r \in Sent |->
                          IF r \in named THEN Classify(IF r \in S THEN "created" ELSE "invalid")
                          ELSE "retryable"])
    /\ UNCHANGED <<opts, records, next, ready, pending, dropped, lost, mark>>

\* The loop of Resolve: the records of s that are not in T, in their order.
Kept(s, T) ==
    LET kept[i \in 0 .. Len(s)] ==
          IF i = 0 THEN << >>
          ELSE IF s[i] \in T THEN kept[i - 1] ELSE Append(kept[i - 1], s[i])
    IN  kept[Len(s)]

\* Faulty variant: the batch is removed whatever its results.
ResolveBatch ==
    /\ stage = "resolve"
    /\ records' = Kept(records, Sent)
    /\ dropped' = dropped \cup {r \in Sent : results[r] = "permanent"}
    /\ Idle
    /\ UNCHANGED <<opts, next, ready, sinkVars, lost, mark>>

\* Faulty variant: one record to retry makes the whole batch stay.
ResolveAllOrNothing ==
    /\ stage = "resolve"
    /\ LET stay == \E r \in Sent : results[r] = "retryable"
       IN  /\ records' = Kept(records, IF stay THEN {} ELSE Sent)
           /\ dropped' = IF stay THEN dropped
                         ELSE dropped \cup {r \in Sent : results[r] = "permanent"}
    /\ Idle
    /\ UNCHANGED <<opts, next, ready, sinkVars, lost, mark>>

\* Resolve: delivered and permanently rejected records leave the buffer, found
\* by their Sequence.
Resolve ==
    /\ stage = "resolve"
    /\ records' = Kept(records, {r \in Sent : results[r] # "retryable"})
    /\ dropped' = dropped \cup {r \in Sent : results[r] = "permanent"}
    /\ Idle
    /\ UNCHANGED <<opts, next, ready, sinkVars, lost, mark>>

\* The process stops; the next one starts with an empty buffer.
RestartEmpty ==
    /\ opts' \in Settings
    /\ records' = << >> /\ ready' = FALSE
    /\ Idle
    /\ lost' = lost \cup Range(records)
    /\ mark' = next
    /\ UNCHANGED <<next, sinkVars, dropped>>

Sink == SinkUnanswered \/ SinkRefused \/ SinkAnswered \/ SinkAnsweredShort

Run == TimerFires \/ ReadyFires \/ Sink \/ Resolve

BufferNext == AcceptRecord \/ Reconfigure \/ Run \/ RestartEmpty

BufferSpec == BufferInit /\ [][BufferNext]_bufferVars

\* An answer that leaves nothing of the batch to retry.
SinkSettles ==
    \E items \in [Sent -> Item \ {"throttled"}] : SinkAnswers(items)

\* The timer is reset after every drain it started, and a bulk request ends by
\* its timeout.  Of OpenSearch it is assumed that it does not answer "later"
\* for ever.
FairBufferSpec ==
    /\ BufferSpec
    /\ WF_bufferVars(TimerFires) /\ WF_bufferVars(Sink) /\ WF_bufferVars(Resolve)
    /\ SF_bufferVars(SinkSettles)
-----------------------------------------------------------------------------
(***************************************************************************)
(* Properties.                                                             *)
(***************************************************************************)

\* Until the process stops, an accepted record is in the buffer, or OpenSearch
\* has indexed it, or it was removed as permanently rejected and counted:
\* neither a reload nor an Accept during the bulk request loses one
\* (passthrough/buffer.go:82-124, deliver/service.go:148-180).
Accounted ==
    \A r \in 1..next :
      \/ r \in Range(records) \cup dropped \cup lost
      \/ copies[r] > 0

\* The buffer is in the order of acceptance, and while the loop works on a
\* batch it is the buffer's head (passthrough/buffer.go:91-97, 82-89): what
\* Resolve removes was there, whatever was accepted or reconfigured since.
BatchIsHead ==
    /\ Len(pending) <= Len(records) /\ pending = SubSeq(records, 1, Len(pending))
    /\ \A i, j \in DOMAIN records : i < j => records[i] < records[j]
    /\ Range(records) \subseteq 1..next

\* A record is indexed twice only if an attempt that indexed it was not
\* acknowledged (specification.md:58-60): acknowledged records of a batch are
\* not sent again with those to retry (passthrough/buffer.go:100-124).
DuplicateOnlyUnacked == \A r \in Record : copies[r] > 1 => r \in unacked

\* A token raised during a drain is not lost: a record accepted since the last
\* one was taken that fills a batch has left a token
\* (passthrough/buffer.go:73-78, deliver/service.go:264).  A reload to a
\* smaller batch size raises none; the timer covers that.
NoLostWakeup == Len(records) >= opts.batch /\ next > mark => ready

\* Every accepted record leaves the buffer, with pass-through disabled or not:
\* the oldest go first, and a partial batch waits for the timer only
\* (passthrough/buffer.go:91-97, deliver/service.go:252-280).
Flushed == \A r \in Record : <>[](r \notin Range(records))
=============================================================================
