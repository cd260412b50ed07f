-------------------------- MODULE StoreConformance --------------------------
(***************************************************************************)
(* Both stores given the same transactions, as the conformance suite       *)
(* src/internal/adapters/state/statetest/suite.go does, next to an         *)
(* administrator who pages through the dead letters while transactions     *)
(* commit (application/admin/service.go, List).                            *)
(***************************************************************************)
EXTENDS PebbleQueries, MemoryStore

CONSTANTS
    Workload,     \* sets of operations: a behaviour draws from one of them
    ListFilter,   \* filters the administrator lists with
    Limit,        \* limits of the reads that are compared
    MaxOps        \* bound: operations in a behaviour

ASSUME ConformanceAssumption ==
    /\ ListFilter \subseteq Filter
    /\ \A f \in ListFilter : f.limit > 0
    /\ UNION Workload \subseteq Op
    /\ Limit \subseteq Nat
    /\ MaxOps \in Nat

VARIABLES
    workload,    \* the operations of this behaviour
    crashed,     \* the process has restarted: the memory store lost its data
    ops,         \* operations so far
    paging,      \* the filter of the listing in progress, or None
    cursor,      \* where the next page starts
    listed,      \* the ids of the pages so far, in the order shown
    throughout,  \* ids that matched at every moment since the listing began
    sometime     \* ids that matched at some moment since then

ASSUME NoCloneAssumption == None \notin Maps

pebbleVars == <<db, synced, batch, report>>
readerVars == <<paging, cursor, listed, throughout, sometime>>
suiteVars == <<pebbleVars, memoryVars, workload, crashed, ops, readerVars>>

Matching(dead, filter) == {i \in Present(dead) : Matches(filter, i, dead[i])}

SuiteInit ==
    /\ Init
    /\ MemInit
    /\ workload \in Workload
    /\ crashed = FALSE
    /\ ops = 0
    /\ paging = None
    /\ cursor = 0
    /\ listed = <<>>
    /\ throughout = {}
    /\ sometime = {}

SuiteBegin ==
    /\ ops < MaxOps
    /\ Begin
    /\ MemBegin
    /\ UNCHANGED <<workload, crashed, ops, readerVars>>

SuiteDo ==
    /\ ops < MaxOps
    /\ ops' = ops + 1
    /\ \E op \in workload : Do(op) /\ MemDo(op)
    /\ UNCHANGED <<workload, crashed, readerVars>>

\* What the listing in progress may and must show, after a change of the
\* published dead letters.
Observe ==
    IF paging = None THEN UNCHANGED readerVars
    ELSE /\ throughout' = throughout \cap Matching(db'.dead, paging)
         /\ sometime' = sometime \cup Matching(db'.dead, paging)
         /\ UNCHANGED <<paging, cursor, listed>>

SuiteCommit ==
    /\ Commit
    /\ MemCommit
    /\ Observe
    /\ UNCHANGED <<workload, crashed, ops>>

SuiteRollback ==
    /\ Rollback
    /\ MemRollback
    /\ UNCHANGED <<workload, crashed, ops, readerVars>>

SuiteSync ==
    /\ Sync
    /\ UNCHANGED <<memoryVars, workload, crashed, ops, readerVars>>

\* The process ends and restarts; a listing starts over, and the behaviour
\* ends with it.
SuiteCrash ==
    /\ ~crashed
    /\ Crash
    /\ MemCrash
    /\ crashed' = TRUE
    /\ paging' = None
    /\ cursor' = 0
    /\ listed' = <<>>
    /\ throughout' = {}
    /\ sometime' = {}
    /\ ops' = MaxOps
    /\ UNCHANGED workload
----------------------------------------------------------------------------
(* The administrator.  A read takes the mutex, so it never runs inside a   *)
(* transaction.                                                            *)

StartListing ==
    /\ paging = None
    /\ batch = None
    /\ \E filter \in ListFilter :
          /\ paging' = filter
          /\ throughout' = Matching(db.dead, filter)
          /\ sometime' = Matching(db.dead, filter)
    /\ UNCHANGED <<pebbleVars, memoryVars, workload, crashed, ops, cursor, listed>>

\* One page is fetched; a cursor of zero ends the listing.
NextPage ==
    /\ paging # None
    /\ batch = None
    /\ cursor # None
    /\ LET page == ListDeadLetters(db, paging, cursor)
           records == page.records
       IN  /\ listed' = listed \o Sorted(records, {p \in records \X records : p[1] < p[2]})
           /\ cursor' = IF page.cursor = 0 THEN None ELSE page.cursor
    /\ UNCHANGED <<pebbleVars, memoryVars, workload, crashed, ops, paging, throughout, sometime>>

SuiteNext ==
    \/ SuiteBegin \/ SuiteDo \/ SuiteCommit \/ SuiteRollback \/ SuiteSync \/ SuiteCrash
    \/ StartListing \/ NextPage

SuiteSpec == SuiteInit /\ [][SuiteNext]_suiteVars
----------------------------------------------------------------------------
\* statetest/suite.go: until a restart tells them apart, the two stores answer
\* every read of the port alike, inside a transaction too, and as the port
\* says; flows of one deadline alone may come in different orders.
StoresAgree ==
    ~crashed =>
        /\ report = memReport
        /\ Content(db) = MemContent(store)
        /\ \A limit \in Limit, t \in Time :
              /\ PendingOutbox(Current, t, limit) = MemPendingOutbox(MemCurrent, t, limit)
              /\ DueFlowsOK(Content(Current), t, limit, DueFlows(Current, t, limit))
              /\ \A due \in MemDueFlows(MemCurrent, t, limit) :
                    DueFlowsOK(MemContent(MemCurrent), t, limit, due)
        /\ \A filter \in Filter, c \in Id \cup {0} :
              ListDeadLetters(db, filter, c) = MemListDeadLetters(store, filter, c)

\* deliver/service.go:132 and alerts/service.go apply the DeadLetterChange to
\* their own counts: it is exactly the difference the operation makes, also
\* when a rejection replaces a dead letter or pushes others out.
ChangeExact ==
    [][LET before == Current.dead
           after == Current'.dead
           count(dead, t) == Cardinality({i \in Present(dead) : dead[i].type = t})
       IN  batch' # None /\ ops' = ops + 1 =>
           /\ \A t \in Type : count(after, t) = count(before, t) + report'.net[t]
           /\ report'.changed => report'.records = Cardinality(Present(after))
           /\ Dropped(Current') = Dropped(Current) + report'.dropped
           /\ ~report'.changed => after = before]_suiteVars

\* ports.go:145 "Cursor is exclusive and supports stable paging": whatever
\* commits between two pages, no record is shown twice, what is shown matched
\* at some time, and at the end every record that was there all along was
\* shown.
PagingExact ==
    paging # None =>
        /\ \A i, j \in DOMAIN listed : i < j => listed[i] < listed[j]
        /\ {listed[i] : i \in DOMAIN listed} \subseteq sometime
        /\ cursor = None => throughout \subseteq {listed[i] : i \in DOMAIN listed}
=============================================================================
