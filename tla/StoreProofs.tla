---------------------------- MODULE StoreProofs -----------------------------
(***************************************************************************)
(* Both stores, for any keys, ids, times, dead-letter cap, workloads and   *)
(* limits: the Pebble store keeps the promise of the store port, the       *)
(* in-memory store answers every read as it does, the changes they report  *)
(* are exact, and so is the paging of the dead letters.                    *)
(***************************************************************************)
EXTENDS StoreConformance, OperationProofs

\* A later instant has no earlier millisecond.
LEMMA MsGrows ==
    ASSUME NEW a \in Nat, NEW b \in Nat, a <= b
    PROVE  Ms(a) <= Ms(b) /\ Ms(a) \in Nat
<1>1. Milli \in Nat \ {0}
  BY StoreAssumption
<1> QED BY <1>1 DEF Ms

PageSize(n, limit) == IF limit = 0 \/ n <= limit THEN n ELSE limit

\* The list q is the first m elements of s.
Fronts(q, s, V, m) ==
    q \in [1..m -> V] /\ Len(q) = m /\ \A i \in 1..m : q[i] = s[i]

\* The elements of a page.
LEMMA FirstOfIs ==
    ASSUME NEW n \in Nat, NEW V, NEW s \in [1..n -> V], NEW limit \in Nat,
           NEW m, m = PageSize(n, limit)
    PROVE  m \in 0..n /\ Fronts(FirstOf(s, limit), s, V, m)
<1>1. m = IF limit = 0 \/ n <= limit THEN n ELSE limit
  BY DEF PageSize
<1>2. s \in Seq(V) /\ Len(s) = n
  OBVIOUS
<1>3. CASE limit = 0 \/ n <= limit
  <2>1. FirstOf(s, limit) = s
    BY <1>2, <1>3 DEF FirstOf
  <2> QED BY <1>1, <1>2, <1>3, <2>1 DEF Fronts
<1>4. CASE ~(limit = 0 \/ n <= limit)
  <2>1. FirstOf(s, limit) = SubSeq(s, 1, limit)
    BY <1>2, <1>4 DEF FirstOf
  <2>2. /\ SubSeq(s, 1, limit) \in [1..limit -> V] /\ Len(SubSeq(s, 1, limit)) = limit
        /\ \A i \in 1..limit : SubSeq(s, 1, limit)[i] = s[i]
    <3>1. limit \in 1..n /\ Len(s) = n
      BY <1>2, <1>4
    <3>2. Len(SubSeq(s, 1, limit)) = limit /\ SubSeq(s, 1, limit) \in Seq(V)
      BY <1>2, <3>1
    <3>3. \A i \in 1..limit : SubSeq(s, 1, limit)[i] = s[i]
      BY <1>2, <3>1
    <3> DEFINE q == SubSeq(s, 1, limit)
    <3>4. q \in Seq(V) /\ Len(q) = limit
      BY <3>2
    <3> HIDE DEF q
    <3>5. q \in [1..limit -> V]
      BY <3>4
    <3> QED BY <3>2, <3>3, <3>5 DEF q
  <2> QED BY <1>1, <1>4, <2>1, <2>2 DEF Fronts
<1> QED BY <1>3, <1>4

\* A list without repetition has as many elements as places.
EachOnce(s, n) == \A i, j \in 1..n : s[i] = s[j] => i = j

Shows(s, n) == Cardinality({s[i] : i \in 1..n}) = n

LEMMA Distinct ==
    ASSUME Counting, NEW n \in Nat, NEW s, EachOnce(s, n)
    PROVE  Shows(s, n)
<1>1. \A q, m : m \in Nat /\ (\A i, j \in 1..m : q[i] = q[j] => i = j)
                => Cardinality({q[i] : i \in 1..m}) = m
  BY Zenon DEF Counting
<1> QED BY <1>1 DEF EachOnce, Shows

\* An image under a one-to-one function is as large.
LEMMA Image ==
    ASSUME Counting, NEW S, IsFiniteSet(S), NEW f, \A x, y \in S : f[x] = f[y] => x = y
    PROVE  IsFiniteSet({f[x] : x \in S}) /\ Cardinality({f[x] : x \in S}) = Cardinality(S)
<1>1. \A T, g : IsFiniteSet(T) /\ (\A x, y \in T : g[x] = g[y] => x = y)
                => /\ IsFiniteSet({g[x] : x \in T})
                   /\ Cardinality({g[x] : x \in T}) = Cardinality(T)
  BY Zenon DEF Counting
<1> QED BY <1>1

\* The flows due at an instant.
Due(flows, before) == {k \in Present(flows) : flows[k] <= before}

\* The flows of a content have deadlines, and finitely many are due.
LEMMA DueFacts ==
    ASSUME Counting, NEW flows \in [Key -> Time \cup {None}], NEW before
    PROVE  /\ Due(flows, before) \subseteq Key
           /\ IsFiniteSet(Due(flows, before)) /\ Cardinality(Due(flows, before)) \in Nat
           /\ \A k \in Due(flows, before) : flows[k] \in Time /\ flows[k] \in Nat /\ k \in Nat
                                            /\ flows[k] # None /\ flows[k] <= before
<1>1. /\ Due(flows, before) \subseteq Key
      /\ \A k \in Due(flows, before) : flows[k] \in Time /\ flows[k] # None /\ flows[k] <= before
  BY DEF Due, Present
<1>2. Key \subseteq Nat /\ IsFiniteSet(Key) /\ Time \subseteq Nat
  BY OutboxRecordAssumption
<1>3. IsFiniteSet(Due(flows, before)) /\ Cardinality(Due(flows, before)) \in Nat
  BY <1>1, <1>2, Part, Zenon
<1> QED BY <1>1, <1>2, <1>3

\* The front of a list of all due flows, earliest first and each once, is what
\* the port says of DueFlows.
LEMMA FrontIsDue ==
    ASSUME Counting, NEW s \in Contents, NEW before \in Time, NEW limit \in Nat, NEW all,
           all = Due(s.flows, before),
           NEW list \in [1..Cardinality(all) -> all],
           \A k \in all : \E i \in 1..Cardinality(all) : list[i] = k,
           \A i, j \in 1..Cardinality(all) : list[i] = list[j] => i = j,
           \A i, j \in 1..Cardinality(all) : i < j => s.flows[list[i]] <= s.flows[list[j]]
    PROVE  DueFlowsOK(s, before, limit, FirstOf(list, limit))
<1> DEFINE n == Cardinality(all)
           m == PageSize(n, limit)
           due == FirstOf(list, limit)
           shown == {due[i] : i \in DOMAIN due}
<1>1. s.flows \in [Key -> Time \cup {None}]
  BY DEF Contents
<1>2. n \in Nat /\ \A k \in all : s.flows[k] \in Nat
  BY <1>1, DueFacts, Zenon
<1>3. m = PageSize(n, limit)
  OBVIOUS
<1>4. /\ m \in 0..n /\ due \in [1..m -> all] /\ Len(due) = m
      /\ \A i \in 1..m : due[i] = list[i]
  <2>1. list \in [1..n -> all]
    OBVIOUS
  <2> HIDE DEF m, n
  <2>2. n \in Nat
    BY <1>2, Zenon
  <2>3. m \in 0..n /\ Fronts(FirstOf(list, limit), list, all, m)
    BY <1>3, <2>1, <2>2, FirstOfIs
  <2> QED BY <2>3, Zenon DEF Fronts
<1>5. /\ \A k \in all : \E i \in 1..n : list[i] = k
      /\ \A i, j \in 1..n : list[i] = list[j] => i = j
      /\ \A i, j \in 1..n : i < j => s.flows[list[i]] <= s.flows[list[j]]
  BY Zenon
<1> HIDE DEF m, due, n
<1>6. DOMAIN due = 1..m /\ m \in Nat /\ \A i \in 1..m : i \in 1..n
  BY <1>2, <1>4
<1>7. shown \subseteq all
  BY <1>4, <1>6
<1>8. Cardinality(shown) = Len(due)
  <2>1. \A i, j \in 1..m : due[i] = due[j] => i = j
    <3> SUFFICES ASSUME NEW i \in 1..m, NEW j \in 1..m, due[i] = due[j] PROVE i = j
      BY Zenon
    <3>1. list[i] = list[j]
      BY <1>4, Zenon
    <3> QED BY <1>5, <1>6, <3>1, Zenon
  <2>2. Cardinality({due[i] : i \in 1..m}) = m
    <3>1. m \in Nat
      BY <1>6, Zenon
    <3>2. EachOnce(due, m)
      BY <2>1, Zenon DEF EachOnce
    <3>3. Shows(due, m)
      BY <3>1, <3>2, Distinct, Zenon
    <3> QED BY <3>3, Zenon DEF Shows
  <2> QED BY <1>4, <1>6, <2>2, Zenon
<1>9. \A i, j \in DOMAIN due : i < j => s.flows[due[i]] <= s.flows[due[j]]
  BY <1>4, <1>5, <1>6, Zenon
<1>10. ASSUME NEW k \in all \ shown, NEW i \in DOMAIN due
       PROVE  s.flows[due[i]] <= s.flows[k]
  <2>1. PICK j \in 1..n : list[j] = k
    BY <1>5, Zenon
  <2>2. j \notin 1..m
    BY <1>4, <1>6, <2>1, Zenon
  <2>3. i \in 1..n /\ i < j
    BY <1>2, <1>6, <2>2
  <2> QED BY <1>4, <1>5, <1>6, <2>1, <2>3, Zenon
<1>11. all = {k \in Present(s.flows) : s.flows[k] <= before}
  BY DEF Due
<1>12. Len(due) = IF limit = 0 \/ Cardinality(all) <= limit THEN Cardinality(all) ELSE limit
  BY <1>3, <1>4, Zenon DEF n, PageSize
<1>13. DueFlowsOK(s, before, limit, due)
  BY <1>7, <1>8, <1>9, <1>10, <1>11, <1>12 DEF DueFlowsOK
<1> QED BY <1>13, Zenon DEF due

\* DueFlows of the in-memory store: any order of the flows of one deadline.
LEMMA MemDueFlowsOK ==
    ASSUME Counting, NEW s \in Contents, NEW before \in Time, NEW limit \in Nat,
           NEW due \in MemDueFlows(MemOf(s), before, limit)
    PROVE  DueFlowsOK(s, before, limit, due)
<1> DEFINE all == Due(s.flows, before)
           n == Cardinality(all)
<1>1. MemOf(s).flows = s.flows
  BY DEF MemOf
<1>2. PICK list \in [1..n -> all] :
         /\ \A i, j \in DOMAIN list : i < j => s.flows[list[i]] <= s.flows[list[j]]
         /\ \A i, j \in DOMAIN list : list[i] = list[j] => i = j
         /\ due = FirstOf(list, limit)
  BY <1>1, Zenon DEF MemDueFlows, Due
<1>3. IsFiniteSet(all) /\ n \in Nat
  <2>1. s.flows \in [Key -> Time \cup {None}]
    BY DEF Contents
  <2> QED BY <2>1, DueFacts, Zenon
<1>4. DOMAIN list = 1..n
  BY <1>2
<1>5. ASSUME NEW k \in all PROVE \E i \in 1..n : list[i] = k
  <2> SUFFICES ASSUME \A i \in 1..n : list[i] # k PROVE FALSE
    BY Zenon
  <2> DEFINE S == {list[i] : i \in 1..n}
  <2>1. S \subseteq all /\ k \notin S
    BY <1>2, Zenon
  <2>2. Cardinality(S) = n
    <3>1. EachOnce(list, n)
      BY <1>2, <1>4, Zenon DEF EachOnce
    <3>2. Shows(list, n)
      BY <1>3, <3>1, Distinct, Zenon
    <3> QED BY <3>2, Zenon DEF Shows
  <2> HIDE DEF S
  <2>3. Cardinality(S) < n
    BY <1>3, <2>1, Smaller, Zenon
  <2> QED BY <1>3, <2>2, <2>3
<1> QED BY <1>2, <1>4, <1>5, FrontIsDue, Zenon

\* DueFlows of the Pebble store reads the exact index.
LEMMA PebbleDueFlowsOK ==
    ASSUME Counting, NEW v \in Database, Exact(v), NEW before \in Time, NEW limit \in Nat
    PROVE  DueFlowsOK(Content(v), before, limit, DueFlows(v, before, limit))
<1> DEFINE s == Content(v)
           all == Due(s.flows, before)
           n == Cardinality(all)
           entry == {c \in Present(v.expiry) : c[1] <= Ms(before)}
           deadline(c) == IF v.flow[c[2]] = None THEN c[1] * Milli ELSE v.flow[c[2]]
           due == {c \in entry : v.flow[c[2]] = None \/ deadline(c) <= before}
           earlier == {p \in due \X due :
                          \/ deadline(p[1]) < deadline(p[2])
                          \/ deadline(p[1]) = deadline(p[2]) /\ p[1][2] < p[2][2]}
           sorted == Sorted(due, earlier)
           list == [i \in DOMAIN sorted |-> sorted[i][2]]
           cell == [k \in Key |-> <<Ms(v.flow[k]), k>>]
<1>1. /\ s \in Contents /\ s.flows = v.flow /\ v.flow \in [Key -> Time \cup {None}]
      /\ v.expiry \in [Cell -> {NilValue, None}]
  BY ContentType, DatabaseFields DEF Content
<1>2. DueFlows(v, before, limit) = FirstOf(list, limit)
  BY Zenon DEF DueFlows
<1>3. /\ all \subseteq Key /\ IsFiniteSet(all) /\ n \in Nat
      /\ \A k \in all : v.flow[k] \in Time /\ v.flow[k] \in Nat /\ k \in Nat
                        /\ v.flow[k] # None /\ v.flow[k] <= before
  BY <1>1, DueFacts, Zenon
<1>4. before \in Nat /\ Time \subseteq Nat
  BY OutboxRecordAssumption
<1>5. \A c \in due : /\ c \in Cell /\ c[2] \in Key /\ c = cell[c[2]] /\ c[2] \in all
                     /\ deadline(c) = v.flow[c[2]]
  <2> SUFFICES ASSUME NEW c \in due
               PROVE  /\ c \in Cell /\ c[2] \in Key /\ c = cell[c[2]] /\ c[2] \in all
                      /\ deadline(c) = v.flow[c[2]]
    BY Zenon
  <2>1. c \in Cell /\ v.expiry[c] # None
    BY <1>1 DEF Present
  <2>2. c[2] \in Key /\ c = <<c[1], c[2]>>
    BY <2>1 DEF Cell
  <2>3. v.flow[c[2]] # None /\ Ms(v.flow[c[2]]) = c[1]
    BY <2>1, Zenon DEF Exact
  <2>4. deadline(c) = v.flow[c[2]] /\ v.flow[c[2]] <= before
    BY <2>3
  <2>5. c[2] \in all
    BY <1>1, <2>2, <2>3, <2>4 DEF Due, Present
  <2> QED BY <2>1, <2>2, <2>3, <2>4, <2>5
<1>6. \A k \in all : cell[k] \in due /\ cell[k][2] = k
  <2> SUFFICES ASSUME NEW k \in all PROVE cell[k] \in due /\ cell[k][2] = k
    BY Zenon
  <2>1. /\ k \in Key /\ v.flow[k] \in Time /\ v.flow[k] # None /\ v.flow[k] <= before
    BY <1>3, Zenon
  <2>2. cell[k] = <<Ms(v.flow[k]), k>> /\ cell[k][1] = Ms(v.flow[k]) /\ cell[k][2] = k
    BY <2>1
  <2>3. cell[k] \in Cell
    BY <2>1, <2>2 DEF Cell
  <2>4. v.expiry[cell[k]] # None
    BY <2>1, <2>2, <2>3 DEF Exact
  <2>5. cell[k][1] <= Ms(before)
    BY <1>4, <2>1, <2>2, MsGrows
  <2> HIDE DEF cell
  <2>6. cell[k] \in entry
    BY <1>1, <2>3, <2>4, <2>5 DEF Present
  <2> QED BY <2>1, <2>2, <2>6
<1> HIDE DEF s, all, entry, deadline, due, cell
<1>7. due = {cell[k] : k \in all}
  BY <1>5, <1>6, Zenon
<1>8. IsFiniteSet(due) /\ Cardinality(due) = n
  <2>1. \A x, y \in all : cell[x] = cell[y] => x = y
    BY <1>6, Zenon
  <2>2. IsFiniteSet({cell[k] : k \in all}) /\ Cardinality({cell[k] : k \in all}) = n
    BY <1>3, <2>1, Image
  <2> QED BY <1>7, <2>2, Zenon
<1>9. \A c, e \in due : <<c, e>> \in earlier <=>
         \/ v.flow[c[2]] < v.flow[e[2]]
         \/ v.flow[c[2]] = v.flow[e[2]] /\ c[2] < e[2]
  BY <1>5
<1> HIDE DEF earlier
<1>10. \A c \in due : v.flow[c[2]] \in Nat /\ c[2] \in Nat
  BY <1>3, <1>5, Zenon
<1>11. \A c, e \in due : c[2] = e[2] => c = e
  BY <1>5, Zenon
<1>12. Orders(earlier, due)
  <2> DEFINE a == [c \in due |-> v.flow[c[2]]]
             b == [c \in due |-> c[2]]
  <2>1. \A c \in due : a[c] = v.flow[c[2]] /\ b[c] = c[2]
    OBVIOUS
  <2> HIDE DEF a, b
  <2>2. \A c \in due : a[c] \in Nat /\ b[c] \in Nat
    BY <1>10, <2>1, Zenon
  <2>3. \A c, e \in due : b[c] = b[e] => c = e
    <3> SUFFICES ASSUME NEW c \in due, NEW e \in due, b[c] = b[e] PROVE c = e
      BY Zenon
    <3>1. c[2] = e[2]
      BY <2>1, Zenon
    <3> QED BY <1>11, <3>1, Zenon
  <2>4. \A c, e \in due : <<c, e>> \in earlier <=> a[c] < a[e] \/ (a[c] = a[e] /\ b[c] < b[e])
    <3> SUFFICES ASSUME NEW c \in due, NEW e \in due
                 PROVE  <<c, e>> \in earlier <=> a[c] < a[e] \/ (a[c] = a[e] /\ b[c] < b[e])
      BY Zenon
    <3>1. /\ a[c] = v.flow[c[2]] /\ b[c] = c[2]
          /\ a[e] = v.flow[e[2]] /\ b[e] = e[2]
      BY <2>1, Zenon
    <3> QED BY <1>9, <3>1, Zenon
  <2> QED BY <2>2, <2>3, <2>4, Lexical
<1>13. /\ sorted \in [1..n -> due]
       /\ \A i, j \in 1..n : i < j <=> <<sorted[i], sorted[j]>> \in earlier
       /\ \A x \in due : \E i \in 1..n : sorted[i] = x
  <2>1. Sorts(sorted, earlier, due)
    BY <1>8, <1>12, SortedIs, Zenon
  <2> HIDE DEF sorted
  <2> QED BY <1>8, <2>1, Zenon DEF Sorts
<1> HIDE DEF sorted
<1>14. list = [i \in 1..n |-> sorted[i][2]] /\ \A i \in 1..n : sorted[i] \in due
  BY <1>13
<1>15. list \in [1..n -> all] /\ \A i \in 1..n : list[i] = sorted[i][2]
  BY <1>5, <1>14
<1> HIDE DEF list
<1>16. \A k \in all : \E i \in 1..n : list[i] = k
  <2> SUFFICES ASSUME NEW k \in all PROVE \E i \in 1..n : list[i] = k
    BY Zenon
  <2>1. cell[k] \in due /\ cell[k][2] = k
    BY <1>6, Zenon
  <2>2. PICK i \in 1..n : sorted[i] = cell[k]
    BY <1>13, <2>1, Zenon
  <2>3. list[i] = k
    BY <1>15, <2>1, <2>2, Zenon
  <2> QED BY <2>3, Zenon
<1>17. \A i, j \in 1..n : list[i] = list[j] => i = j
  <2> SUFFICES ASSUME NEW i \in 1..n, NEW j \in 1..n, list[i] = list[j] PROVE i = j
    BY Zenon
  <2>1. sorted[i] = sorted[j]
    BY <1>11, <1>14, <1>15, Zenon
  <2>2. ~(i < j) /\ ~(j < i)
    BY <1>12, <1>13, <1>14, <2>1, Zenon DEF Orders
  <2> QED BY <1>3, <2>2
<1>18. \A i, j \in 1..n : i < j => s.flows[list[i]] <= s.flows[list[j]]
  <2> SUFFICES ASSUME NEW i \in 1..n, NEW j \in 1..n, i < j
               PROVE  v.flow[list[i]] <= v.flow[list[j]]
    BY <1>1, Zenon
  <2>1. <<sorted[i], sorted[j]>> \in earlier /\ sorted[i] \in due /\ sorted[j] \in due
    BY <1>13, <1>14, Zenon
  <2> DEFINE x == v.flow[sorted[i][2]]
             y == v.flow[sorted[j][2]]
  <2>2. x \in Nat /\ y \in Nat /\ (x < y \/ x = y)
    BY <1>9, <1>10, <2>1, Zenon
  <2>3. v.flow[list[i]] = x /\ v.flow[list[j]] = y
    BY <1>15, Zenon
  <2> HIDE DEF x, y
  <2> QED BY <2>2, <2>3
<1>19. DueFlowsOK(s, before, limit, FirstOf(list, limit))
  BY <1>1, <1>15, <1>16, <1>17, <1>18, FrontIsDue DEF all
<1> QED BY <1>2, <1>19, Zenon DEF s, list, sorted, earlier, due, deadline, entry

\* Both stores list a page alike: the scan stopped early just when there is
\* more than the limit.
LEMMA PagesAlike ==
    ASSUME Counting, NEW v \in Database, NEW filter \in Filter, NEW c
    PROVE  ListDeadLetters(v, filter, c) = MemListDeadLetters(MemOf(Content(v)), filter, c)
<1> DEFINE w == MemOf(Content(v))
           match == {i \in Present(v.dead) : i > c /\ Matches(filter, i, v.dead[i])}
           page == First(match, filter.limit)
           last == CHOOSE i \in page : \A j \in page : j <= i
           more == filter.limit > 0 /\ Cardinality(match) > filter.limit
<1>1. w.dead = v.dead
  BY DEF MemOf, Content
<1>2. filter.limit \in Nat
  BY OutboxRecordAssumption
<1>3. /\ match \subseteq Id /\ Present(v.dead) \subseteq Id
  BY DatabaseFields, Zenon DEF Present
<1>4. match \subseteq Nat /\ IsFiniteSet(match)
  <2> HIDE DEF match
  <2>1. Id \subseteq Nat /\ IsFiniteSet(Id)
    BY OutboxRecordAssumption
  <2> QED BY <1>3, <2>1, Part, Zenon
<1>5. Cardinality(match) \in Nat
  BY <1>4, Zenon DEF Counting
<1>6. ListDeadLetters(v, filter, c) =
          [records |-> page, cursor |-> IF page = match THEN 0 ELSE last]
  BY Zenon DEF ListDeadLetters
<1>7. MemListDeadLetters(w, filter, c) = [records |-> page, cursor |-> IF more THEN last ELSE 0]
  BY <1>1 DEF MemListDeadLetters
<1> HIDE DEF w, match, last
<1>8. page = match <=> filter.limit = 0 \/ Cardinality(match) <= filter.limit
  BY <1>2, <1>4, Firsts, Zenon
<1>9. page = match <=> ~more
  BY <1>2, <1>5, <1>8
<1> HIDE DEF page, more
<1>10. (IF page = match THEN 0 ELSE last) = (IF more THEN last ELSE 0)
  BY <1>9
<1> QED BY <1>6, <1>7, <1>10 DEF w

\* The reads of the outbox.
LEMMA PendingAlike ==
    ASSUME NEW v, NEW now, NEW limit
    PROVE  PendingOutbox(v, now, limit) = MemPendingOutbox(MemOf(Content(v)), now, limit)
<1>1. MemOf(Content(v)).records = v.outbox
  BY DEF MemOf, Content
<1> QED BY <1>1, Zenon DEF PendingOutbox, MemPendingOutbox
-----------------------------------------------------------------------------
\* The two stores hold the same content, inside a transaction too.
Agreed ==
    ~crashed =>
        /\ store = MemOf(Content(db))
        /\ working = IF batch = None THEN None ELSE MemOf(Content(View(db, batch)))
        /\ report = memReport

\* Stores that hold the same content answer alike.
LEMMA AgreedStores ==
    ASSUME Counting, IInv, Agreed
    PROVE  StoresAgree
<1> SUFFICES ASSUME ~crashed PROVE StoresAgree
  BY DEF StoresAgree
<1> DEFINE v == Current
           w == MemCurrent
<1>1. v \in Database /\ Exact(v) /\ db \in Database
  BY ViewFields, Zenon DEF Current, IInv
<1>2. \A s \in Contents : MemOf(s) \in Maps /\ MemContent(MemOf(s)) = s
  BY DEF MemOf, MemContent, Contents, Maps
<1>3. Content(v) \in Contents /\ Content(db) \in Contents
  BY <1>1, ContentType
<1>4. store = MemOf(Content(db)) /\ report = memReport
  BY DEF Agreed
<1>5. w = MemOf(Content(v))
  <2>1. CASE batch = None
    BY <2>1, <1>4 DEF Agreed, Current, MemCurrent
  <2>2. CASE batch # None
    <3>1. working = MemOf(Content(v)) /\ working # None
      BY <1>2, <1>3, <2>2, NoCloneAssumption DEF Agreed, Current
    <3> QED BY <3>1 DEF MemCurrent
  <2> QED BY <2>1, <2>2
<1> HIDE DEF v, w
<1>6. Content(db) = MemContent(store) /\ MemContent(w) = Content(v)
  BY <1>2, <1>3, <1>4, <1>5, Zenon
<1>7. ASSUME NEW limit \in Limit, NEW t \in Time
      PROVE  /\ PendingOutbox(v, t, limit) = MemPendingOutbox(w, t, limit)
             /\ DueFlowsOK(Content(v), t, limit, DueFlows(v, t, limit))
             /\ \A due \in MemDueFlows(w, t, limit) : DueFlowsOK(MemContent(w), t, limit, due)
  <2>1. limit \in Nat
    BY ConformanceAssumption
  <2>2. PendingOutbox(v, t, limit) = MemPendingOutbox(w, t, limit)
    BY <1>5, PendingAlike, Zenon
  <2>3. DueFlowsOK(Content(v), t, limit, DueFlows(v, t, limit))
    BY <1>1, <2>1, PebbleDueFlowsOK, Zenon
  <2>4. \A due \in MemDueFlows(w, t, limit) : DueFlowsOK(MemContent(w), t, limit, due)
    BY <1>3, <1>5, <1>6, <2>1, MemDueFlowsOK, Zenon
  <2> QED BY <2>2, <2>3, <2>4, Zenon
<1>8. \A filter \in Filter, c \in Id \cup {0} :
         ListDeadLetters(db, filter, c) = MemListDeadLetters(store, filter, c)
  BY <1>1, <1>4, PagesAlike, Zenon
<1> QED BY <1>4, <1>6, <1>7, <1>8, Zenon DEF StoresAgree, v, w
-----------------------------------------------------------------------------
(* The administrator's pages.                                              *)

Rising(s) == \A i, j \in DOMAIN s : i < j => s[i] < s[j]
Members(s) == {s[i] : i \in DOMAIN s}

\* A list of n numbers is a sequence.
LEMMA IsSequence ==
    ASSUME NEW P, P \subseteq Nat, NEW n \in Nat, NEW t \in [1..n -> P]
    PROVE  t \in Seq(Nat) /\ Len(t) = n
<1>1. t \in [1..n -> Nat]
  OBVIOUS
<1> QED BY <1>1

\* The elements of a concatenation.
Joins(q, s, t, m, n) ==
    /\ q \in Seq(Nat) /\ DOMAIN q = 1..(m + n) /\ m \in Nat
    /\ \A i \in 1..m : q[i] = s[i]
    /\ \A i \in (m + 1)..(m + n) : q[i] = t[i - m]

LEMMA Concatenated ==
    ASSUME NEW s \in Seq(Nat), NEW t \in Seq(Nat)
    PROVE  Joins(s \o t, s, t, Len(s), Len(t))
<1> DEFINE m == Len(s)
           n == Len(t)
<1>1. m \in Nat /\ n \in Nat
  OBVIOUS
<1>2. s \o t \in Seq(Nat) /\ Len(s \o t) = m + n
  OBVIOUS
<1>3. DOMAIN (s \o t) = 1..(m + n)
  <2> DEFINE q == s \o t
  <2>1. q \in Seq(Nat) /\ Len(q) = m + n
    BY <1>2
  <2> HIDE DEF q
  <2>2. DOMAIN q = 1..Len(q)
    BY <2>1
  <2> QED BY <2>1, <2>2 DEF q
<1>4. ASSUME NEW i \in 1..m PROVE (s \o t)[i] = s[i]
  BY <1>1
<1>5. ASSUME NEW i \in (m + 1)..(m + n) PROVE (s \o t)[i] = t[i - m]
  BY <1>1
<1> QED BY <1>1, <1>2, <1>3, <1>4, <1>5, Zenon DEF Joins

\* A page appended to the list of the earlier ones.
LEMMA Appended ==
    ASSUME Counting, NEW s \in Seq(Nat), Rising(s), NEW c \in Nat, \A x \in Members(s) : x <= c,
           NEW P, P \subseteq Nat, IsFiniteSet(P), \A x \in P : x > c,
           NEW q, q = s \o Sorted(P, {p \in P \X P : p[1] < p[2]})
    PROVE  q \in Seq(Nat) /\ Rising(q) /\ Members(q) = Members(s) \cup P
<1> DEFINE R == Less(P)
           t == Sorted(P, R)
           n == Cardinality(P)
           m == Len(s)
<1>1. q = s \o t
  BY Zenon DEF Less
<1>2. Orders(R, P) /\ \A x, y \in P : <<x, y>> \in R <=> x < y
  BY LessOrders, Zenon
<1> HIDE DEF R
<1>3. Sorts(t, R, P)
  BY <1>2, SortedIs, Zenon
<1> HIDE DEF t
<1>4. n \in Nat
  BY Zenon DEF Counting
<1>5. /\ t \in [1..n -> P]
      /\ \A i, j \in 1..n : i < j <=> <<t[i], t[j]>> \in R
      /\ \A x \in P : \E i \in 1..n : t[i] = x
  BY <1>3, Zenon DEF Sorts
<1> HIDE DEF n
<1>6. t \in Seq(Nat) /\ Len(t) = n
  BY <1>4, <1>5, IsSequence, Zenon
<1>7. /\ q \in Seq(Nat) /\ DOMAIN q = 1..(m + n) /\ m \in Nat
      /\ \A i \in 1..m : q[i] = s[i]
      /\ \A i \in (m + 1)..(m + n) : q[i] = t[i - m]
  <2>1. Joins(q, s, t, m, n)
    BY <1>1, <1>6, Concatenated, Zenon
  <2> QED BY <2>1, Zenon DEF Joins
<1> HIDE DEF m
<1>8. m \in Nat
  BY <1>7
<1>9. DOMAIN s = 1..m /\ \A i \in 1..m : s[i] \in Nat /\ s[i] \in Members(s)
  BY DEF m, Members
<1>10. \A i \in 1..n : t[i] \in P /\ t[i] \in Nat /\ t[i] > c
  BY <1>5
<1>11. \A i \in (m + 1)..(m + n) : i - m \in 1..n
  BY <1>4, <1>8
<1>12. \A i \in 1..(m + n) : i \in 1..m \/ i \in (m + 1)..(m + n)
  BY <1>4, <1>8
<1>13. ASSUME NEW i \in 1..(m + n), NEW j \in 1..(m + n), i < j PROVE q[i] < q[j]
  <2>1. CASE i \in 1..m /\ j \in 1..m
    BY <1>7, <1>9, <1>13, <2>1 DEF Rising
  <2>2. CASE i \in 1..m /\ j \in (m + 1)..(m + n)
    <3>1. q[i] \in Nat /\ q[i] <= c
      BY <1>7, <1>9, <2>2, Zenon
    <3>2. q[j] \in Nat /\ q[j] > c
      BY <1>7, <1>10, <1>11, <2>2, Zenon
    <3> DEFINE a == q[i]
               b == q[j]
    <3>3. a \in Nat /\ a <= c /\ b \in Nat /\ b > c
      BY <3>1, <3>2, Zenon
    <3> HIDE DEF a, b
    <3>4. a < b
      BY <3>3
    <3> QED BY <3>4, Zenon DEF a, b
  <2>3. CASE i \in (m + 1)..(m + n) /\ j \in (m + 1)..(m + n)
    <3> DEFINE k == i - m
               l == j - m
    <3>1. k \in 1..n /\ l \in 1..n /\ q[i] = t[k] /\ q[j] = t[l]
      BY <1>7, <1>11, <2>3, Zenon
    <3>2. k < l
      BY <1>4, <1>8, <1>13, <2>3
    <3> HIDE DEF k, l
    <3>3. <<t[k], t[l]>> \in R
      BY <1>5, <3>1, <3>2, Zenon
    <3> QED BY <1>2, <1>10, <3>1, <3>3, Zenon
  <2>4. ~(i \in (m + 1)..(m + n) /\ j \in 1..m)
    BY <1>4, <1>8, <1>13
  <2> QED BY <1>12, <2>1, <2>2, <2>3, <2>4, Zenon
<1>14. ASSUME NEW x \in Members(q) PROVE x \in Members(s) \cup P
  <2>1. PICK i \in 1..(m + n) : x = q[i]
    BY <1>7, Zenon DEF Members
  <2> QED BY <1>7, <1>9, <1>10, <1>11, <1>12, <2>1, Zenon
<1>15. ASSUME NEW x \in Members(s) PROVE x \in Members(q)
  <2>1. PICK i \in 1..m : x = s[i]
    BY <1>9, Zenon DEF Members
  <2>2. i \in 1..(m + n)
    BY <1>4, <1>8
  <2> QED BY <1>7, <2>1, <2>2, Zenon DEF Members
<1>16. ASSUME NEW x \in P PROVE x \in Members(q)
  <2>1. PICK i \in 1..n : t[i] = x
    BY <1>5, Zenon
  <2> DEFINE k == i + m
  <2>2. k \in (m + 1)..(m + n) /\ k \in 1..(m + n) /\ k - m = i
    BY <1>4, <1>8
  <2> HIDE DEF k
  <2> QED BY <1>7, <2>1, <2>2, Zenon DEF Members
<1>17. Members(q) = Members(s) \cup P
  BY <1>14, <1>15, <1>16, Zenon
<1> QED BY <1>7, <1>13, <1>17, Zenon DEF Rising

\* The cursor separates what was shown from what is to come: every record that
\* was there throughout is shown or lies after it.
Paged ==
    /\ cursor \in Nat \cup {None}
    /\ listed \in Seq(Nat) /\ Rising(listed)
    /\ paging = None => cursor = 0 /\ listed = <<>>
    /\ paging # None =>
          /\ paging \in ListFilter
          /\ throughout \subseteq Matching(db.dead, paging)
          /\ Matching(db.dead, paging) \cup Members(listed) \subseteq sometime
          /\ cursor # None => /\ \A x \in Members(listed) : x <= cursor
                              /\ \A x \in throughout : x <= cursor => x \in Members(listed)
          /\ cursor = None => throughout \subseteq Members(listed)

\* A page carries the cursor past what it shows, and skips nothing.
LEMMA PageStep ==
    ASSUME Counting, IInv, Paged, NextPage
    PROVE  Paged'
<1> DEFINE all == Matching(db.dead, paging)
           match == {i \in Present(db.dead) : i > cursor /\ Matches(paging, i, db.dead[i])}
           page == First(match, paging.limit)
           last == CHOOSE i \in page : \A j \in page : j <= i
           L == Members(listed)
<1>1. /\ paging # None /\ cursor # None /\ paging \in ListFilter
      /\ UNCHANGED <<db, paging, throughout, sometime>>
  BY DEF NextPage, Paged, pebbleVars
<1>2. /\ cursor \in Nat /\ listed \in Seq(Nat) /\ Rising(listed)
      /\ throughout \subseteq all /\ all \subseteq sometime /\ L \subseteq sometime
      /\ \A x \in L : x <= cursor
      /\ \A x \in throughout : x <= cursor => x \in L
  BY <1>1, Zenon DEF Paged
<1>3. paging.limit \in Nat
  <2>1. paging \in Filter
    BY <1>1, ConformanceAssumption
  <2> QED BY <2>1, OutboxRecordAssumption
<1>4. ListDeadLetters(db, paging, cursor) =
         [records |-> page, cursor |-> IF page = match THEN 0 ELSE last]
  BY Zenon DEF ListDeadLetters
<1>5. /\ ListDeadLetters(db, paging, cursor).records = page
      /\ ListDeadLetters(db, paging, cursor).cursor = IF page = match THEN 0 ELSE last
  <2> HIDE DEF page, match, last
  <2> QED BY <1>4
<1>6. /\ listed' = listed \o Sorted(page, {p \in page \X page : p[1] < p[2]})
      /\ cursor' = IF (IF page = match THEN 0 ELSE last) = 0 THEN None
                   ELSE IF page = match THEN 0 ELSE last
  <2> HIDE DEF page, match, last
  <2> QED BY <1>5 DEF NextPage
<1>7. /\ match = {i \in all : i > cursor} /\ match \subseteq all /\ all \subseteq Id
  BY DatabaseFields, Zenon DEF Matching, Present, IInv
<1> HIDE DEF all, match, L
<1>8. Id \subseteq Nat \ {0} /\ IsFiniteSet(Id)
  BY OutboxRecordAssumption
<1>9. match \subseteq Nat /\ IsFiniteSet(match)
  BY <1>7, <1>8, Part, Zenon
<1>10. /\ page \subseteq match
       /\ \A x \in page, y \in match : y < x => y \in page
       /\ page # match => \E m \in page : \A x \in page : x <= m
  BY <1>3, <1>9, Firsts, Zenon
<1>11. page # match => last \in page /\ \A x \in page : x <= last
  BY <1>10, Zenon
<1> HIDE DEF page, last
<1>12. /\ page \subseteq Nat /\ IsFiniteSet(page) /\ 0 \notin page
       /\ \A x \in page : x > cursor
  BY <1>7, <1>8, <1>9, <1>10, Part, Zenon
<1>13. listed' \in Seq(Nat) /\ Rising(listed') /\ Members(listed') = L \cup page
  BY <1>2, <1>6, <1>12, Appended, Zenon DEF L
<1>14. L \cup page \subseteq sometime
  BY <1>2, <1>7, <1>10, Zenon
<1>15. CASE page = match
  <2>1. cursor' = None
    BY <1>6, <1>15
  <2>2. throughout \subseteq L \cup page
    <3> SUFFICES ASSUME NEW x \in throughout, ~(x <= cursor) PROVE x \in page
      BY <1>2, Zenon
    <3>1. x \in all /\ x \in Nat
      BY <1>2, <1>7, <1>8, Zenon
    <3>2. x > cursor
      BY <1>2, <3>1
    <3> QED BY <1>7, <1>15, <3>1, <3>2, Zenon
  <2> QED BY <1>1, <1>2, <1>13, <1>14, <2>1, <2>2, Zenon DEF Paged, all
<1>16. CASE page # match
  <2>1. cursor' = last /\ last \in Nat /\ last > cursor /\ last # 0
    BY <1>6, <1>11, <1>12, <1>16
  <2>2. last # None
    BY <2>1, OutboxRecordAssumption
  <2>3. ASSUME NEW x \in L \cup page PROVE x <= last
    <3>1. CASE x \in page
      BY <1>11, <1>16, <3>1, Zenon
    <3>2. CASE x \in L
      <4>1. x \in Nat /\ x <= cursor
        BY <1>2, <3>2 DEF L, Members
      <4> QED BY <1>2, <2>1, <4>1
    <3> QED BY <2>3, <3>1, <3>2, Zenon
  <2>4. ASSUME NEW x \in throughout, x <= last PROVE x \in L \cup page
    <3>1. x \in all /\ x \in Nat
      BY <1>2, <1>7, <1>8, Zenon
    <3>2. CASE x <= cursor
      BY <1>2, <3>2, Zenon
    <3>3. CASE ~(x <= cursor)
      <4>1. x > cursor
        BY <1>2, <3>1, <3>3
      <4>2. x \in match
        BY <1>7, <3>1, <4>1, Zenon
      <4>3. x = last \/ x < last
        BY <2>1, <2>4, <3>1
      <4> QED BY <1>10, <1>11, <1>16, <4>2, <4>3, Zenon
    <3> QED BY <3>2, <3>3, Zenon
  <2> QED BY <1>1, <1>2, <1>13, <1>14, <2>1, <2>2, <2>3, <2>4, Zenon DEF Paged, all
<1> QED BY <1>15, <1>16, Zenon

\* What the listing must show shrinks, and what it may show grows, with the
\* changes of the dead letters.
LEMMA ObserveStep ==
    ASSUME Paged, Observe
    PROVE  Paged'
<1>1. CASE paging = None
  BY <1>1 DEF Observe, Paged, readerVars
<1>2. CASE paging # None
  <2>1. /\ throughout' = throughout \cap Matching(db'.dead, paging)
        /\ sometime' = sometime \cup Matching(db'.dead, paging)
        /\ UNCHANGED <<paging, cursor, listed>>
    BY <1>2, Zenon DEF Observe
  <2> QED BY <1>2, <2>1, Zenon DEF Paged
<1> QED BY <1>1, <1>2, Zenon
-----------------------------------------------------------------------------
(* The suite.                                                              *)

\* The invariant of both stores and the administrator.  After a restart the
\* behaviour has no operations left.
SInv ==
    /\ IInv /\ Agreed /\ Paged
    /\ workload \in Workload /\ ops \in Nat
    /\ crashed => batch = None /\ ops = MaxOps

\* It holds at the start.
LEMMA SuiteInitInv == ASSUME SuiteInit PROVE SInv
<1>1. IInv
  BY InitInv, Zenon DEF SuiteInit
<1>2. Agreed
  <2>1. Content(Cells(None)) = Empty
    BY DEF Content, Cells, Dropped, Empty
  <2>2. MemNew = MemOf(Empty)
    BY DEF MemNew, MemOf, Empty
  <2> QED BY <2>1, <2>2 DEF SuiteInit, Init, MemInit, Agreed
<1>3. Paged
  <2>1. <<>> \in Seq(Nat) /\ Rising(<<>>)
    BY DEF Rising
  <2> QED BY <2>1, Zenon DEF SuiteInit, Paged
<1> QED BY <1>1, <1>2, <1>3 DEF SuiteInit, Init, SInv

\* A step of the suite is a step of the Pebble store, or leaves it alone.
LEMMA SuiteSteps ==
    ASSUME SInv, [SuiteNext]_suiteVars
    PROVE  [Next]_vars
<1>1. workload \subseteq Op
  BY ConformanceAssumption DEF SInv
<1>2. CASE SuiteBegin
  BY <1>2, Zenon DEF SuiteBegin, Next
<1>3. CASE SuiteDo
  <2>1. PICK op \in workload : Do(op)
    BY <1>3, Zenon DEF SuiteDo
  <2> QED BY <1>1, <2>1, Zenon DEF Next
<1>4. CASE SuiteCommit
  BY <1>4, Zenon DEF SuiteCommit, Next
<1>5. CASE SuiteRollback
  BY <1>5, Zenon DEF SuiteRollback, Next
<1>6. CASE SuiteSync
  BY <1>6, Zenon DEF SuiteSync, Next
<1>7. CASE SuiteCrash
  BY <1>7, Zenon DEF SuiteCrash, Next
<1>8. CASE UNCHANGED pebbleVars
  BY <1>8 DEF pebbleVars, vars
<1>9. StartListing \/ NextPage \/ UNCHANGED suiteVars => UNCHANGED pebbleVars
  BY Zenon DEF StartListing, NextPage, suiteVars
<1> QED BY <1>2, <1>3, <1>4, <1>5, <1>6, <1>7, <1>8, <1>9, Zenon DEF SuiteNext

\* An operation of the suite takes both stores to one content, and both report
\* the difference it made.
LEMMA SuiteDoStep ==
    ASSUME Counting, SInv, SuiteDo
    PROVE  /\ Agreed' /\ ~crashed /\ batch # None /\ batch' # None
           /\ Exactly(Content(View(db, batch)), Content(View(db, batch')), report')
           /\ db' = db
<1> DEFINE s == Content(View(db, batch))
<1>1. PICK op \in workload : Do(op) /\ MemDo(op)
  BY Zenon DEF SuiteDo
<1>2. op \in Op
  BY <1>1, ConformanceAssumption DEF SInv
<1>3. /\ batch # None /\ batch \in Batch /\ db \in Database /\ s \in Contents
      /\ db' = db /\ batch' = Written(db, batch, op)
      /\ report' = CASE op.kind = "resolve" -> ResolveChange(db, batch, op.results)
                     [] op.kind = "replay"  -> ReplayChange(db, batch, op.filter)
                     [] OTHER               -> NoChange
  <2>1. batch # None /\ batch \in Batch /\ db \in Database
    BY <1>1, Zenon DEF Do, SInv, IInv
  <2> QED BY <1>1, <2>1, ViewFields, ContentType, Zenon DEF Do, Written
<1>4. ~crashed /\ crashed' = crashed
  BY <1>3, Zenon DEF SInv, SuiteDo
<1>5. working = MemOf(s) /\ store = MemOf(Content(db))
  BY <1>3, <1>4, Zenon DEF SInv, Agreed
<1>6. /\ store' = store /\ working' = MemWritten(working, op)
      /\ memReport' = CASE op.kind = "resolve" -> MemResolveChange(working, op.results)
                        [] op.kind = "replay"  -> MemReplayChange(working, op.filter)
                        [] OTHER               -> NoChange
  BY <1>1, Zenon DEF MemDo, MemWritten
<1>7. /\ batch' \in Batch /\ batch' # None
      /\ Content(View(db, batch')) = After(s, op)
  BY <1>2, <1>3, OperationEffect, Marked, Zenon
<1>8. working' = MemOf(After(s, op))
  BY <1>2, <1>3, <1>5, <1>6, MemOperationEffect, Zenon
<1>9. report' = Change(s, op)
  BY <1>2, <1>3, Reports, Zenon
<1>10. memReport' = Change(s, op)
  BY <1>2, <1>3, <1>5, <1>6, Reports, Zenon
<1>11. Agreed'
  BY <1>3, <1>5, <1>6, <1>7, <1>8, <1>9, <1>10, Zenon DEF Agreed
<1>12. Exactly(s, After(s, op), report')
  BY <1>2, <1>3, <1>9, OperationExactly, Zenon
<1> QED BY <1>3, <1>4, <1>7, <1>11, <1>12, Zenon

\* The stores agree, and the pages are exact, after every step.
LEMMA SuiteStepInv ==
    ASSUME Counting, SInv, [SuiteNext]_suiteVars
    PROVE  SInv'
<1>1. IInv'
  BY SuiteSteps, StepInv, Zenon DEF SInv
<1>2. /\ IInv /\ Agreed /\ Paged /\ workload \in Workload /\ ops \in Nat /\ MaxOps \in Nat
      /\ crashed => batch = None /\ ops = MaxOps
  BY ConformanceAssumption, Zenon DEF SInv
<1>3. ASSUME UNCHANGED <<db, readerVars>> PROVE Paged'
  BY <1>2, <1>3 DEF Paged, readerVars
<1>4. batch # None => batch \in Batch
  BY <1>2, Zenon DEF IInv
<1>5. CASE SuiteBegin
  <2>1. /\ batch = None /\ batch' = Cells(Untouched) /\ db' = db /\ crashed' = crashed
        /\ report' = NoChange /\ memReport' = NoChange /\ working' = store /\ store' = store
        /\ UNCHANGED readerVars /\ workload' = workload /\ ops' = ops /\ ops < MaxOps
    BY <1>5 DEF SuiteBegin, Begin, MemBegin
  <2>2. ~crashed
    BY <1>2, <2>1
  <2>3. batch' # None /\ View(db, batch') = db
    BY <1>2, <2>1, FreshBatch, Marked, Zenon DEF IInv
  <2>4. Agreed'
    BY <1>2, <2>1, <2>2, <2>3, Zenon DEF Agreed
  <2> QED BY <1>1, <1>2, <1>3, <2>1, <2>2, <2>4 DEF SInv
<1>6. CASE SuiteDo
  <2>1. Agreed' /\ ~crashed /\ db' = db
    BY <1>6, SuiteDoStep, Zenon
  <2>2. UNCHANGED readerVars /\ workload' = workload /\ ops' = ops + 1 /\ crashed' = crashed
    BY <1>6 DEF SuiteDo
  <2> QED BY <1>1, <1>2, <1>3, <2>1, <2>2 DEF SInv
<1>7. CASE SuiteCommit
  <2>1. /\ batch # None /\ batch' = None /\ db' = View(db, batch) /\ crashed' = crashed
        /\ report' = NoChange /\ memReport' = NoChange /\ working' = None /\ store' = working
        /\ Observe /\ workload' = workload /\ ops' = ops
    BY <1>7 DEF SuiteCommit, Commit, MemCommit
  <2>2. Agreed'
    BY <1>2, <2>1, Zenon DEF Agreed
  <2>3. Paged'
    BY <1>2, <2>1, ObserveStep, Zenon
  <2> QED BY <1>1, <1>2, <2>1, <2>2, <2>3 DEF SInv
<1>8. CASE SuiteRollback
  <2>1. /\ batch' = None /\ db' = db /\ crashed' = crashed
        /\ report' = NoChange /\ memReport' = NoChange /\ working' = None /\ store' = store
        /\ UNCHANGED readerVars /\ workload' = workload /\ ops' = ops
    BY <1>8 DEF SuiteRollback, Rollback, MemRollback
  <2>2. Agreed'
    BY <1>2, <2>1, Zenon DEF Agreed
  <2> QED BY <1>1, <1>2, <1>3, <2>1, <2>2 DEF SInv
<1>9. CASE SuiteCrash
  <2>1. /\ batch' = None /\ crashed' = TRUE /\ ops' = MaxOps /\ workload' = workload
        /\ paging' = None /\ cursor' = 0 /\ listed' = <<>>
    BY <1>9 DEF SuiteCrash, Crash
  <2>2. Agreed'
    BY <2>1, Zenon DEF Agreed
  <2>3. <<>> \in Seq(Nat) /\ Rising(<<>>)
    BY DEF Rising
  <2>4. Paged'
    BY <2>1, <2>3, Zenon DEF Paged
  <2> QED BY <1>1, <1>2, <2>1, <2>2, <2>4 DEF SInv
<1>10. ASSUME UNCHANGED <<db, batch, report, memoryVars, workload, crashed, ops>>, Paged'
       PROVE  SInv'
  <2>1. Agreed'
    BY <1>2, <1>10 DEF Agreed, memoryVars
  <2> QED BY <1>1, <1>2, <1>10, <2>1 DEF SInv
<1>11. CASE SuiteSync
  BY <1>3, <1>10, <1>11 DEF SuiteSync, Sync
<1>12. CASE StartListing
  <2>1. PICK filter \in ListFilter :
           /\ paging' = filter
           /\ throughout' = Matching(db.dead, filter)
           /\ sometime' = Matching(db.dead, filter)
    BY <1>12, Zenon DEF StartListing
  <2>2. /\ db' = db /\ cursor' = cursor /\ listed' = listed
        /\ UNCHANGED <<db, batch, report, memoryVars, workload, crashed, ops>>
        /\ cursor = 0 /\ listed = <<>>
    BY <1>2, <1>12 DEF StartListing, pebbleVars, Paged
  <2>3. Paged'
    <3>1. Members(listed) = {}
      BY <2>2 DEF Members
    <3>2. ASSUME NEW x \in Matching(db.dead, filter) PROVE ~(x <= 0)
      <4>1. x \in Id
        BY <1>2, DatabaseFields, Zenon DEF IInv, Matching, Present
      <4> QED BY <4>1, OutboxRecordAssumption
    <3>3. cursor # None
      BY <2>2, OutboxRecordAssumption
    <3> QED BY <1>2, <2>1, <2>2, <3>1, <3>2, <3>3 DEF Paged
  <2> QED BY <1>10, <2>2, <2>3
<1>13. CASE NextPage
  <2>1. UNCHANGED <<db, batch, report, memoryVars, workload, crashed, ops>>
    BY <1>13 DEF NextPage, pebbleVars
  <2> QED BY <1>2, <1>10, <1>13, <2>1, PageStep
<1>14. CASE UNCHANGED suiteVars
  BY <1>3, <1>10, <1>14 DEF suiteVars, pebbleVars
<1> QED BY <1>5, <1>6, <1>7, <1>8, <1>9, <1>11, <1>12, <1>13, <1>14, Zenon DEF SuiteNext
-----------------------------------------------------------------------------
(* The theorems.                                                           *)
INSTANCE FiniteSetTheorems
INSTANCE WellFoundedInduction

\* An injective image is as large as the set.
LEMMA ImageCounts ==
    ASSUME NEW S, NEW f, IsFiniteSet(S), \A x, y \in S : f[x] = f[y] => x = y
    PROVE  /\ IsFiniteSet({f[x] : x \in S})
           /\ Cardinality({f[x] : x \in S}) = Cardinality(S)
<1> DEFINE T == {f[x] : x \in S}
           g == [x \in S |-> f[x]]
<1>1. g \in [S -> T] /\ (\A x, y \in S : g[x] = g[y] => x = y) /\ \A t \in T : \E x \in S : g[x] = t
  BY Zenon
<1> HIDE DEF g, T
<1>2. g \in Bijection(S, T)
  <2>1. g \in Injection(S, T)
    BY <1>1 DEF Injection, IsInjective
  <2>2. g \in Surjection(S, T)
    BY <1>1 DEF Surjection
  <2> QED BY <2>1, <2>2, Zenon DEF Bijection
<1>3. ExistsBijection(S, T)
  BY <1>2, Zenon DEF ExistsBijection
<1> QED BY <1>3, FS_Bijection, Zenon DEF T

\* The library's facts about finite sets and numbers.
LEMMA Countable == Counting
<1>1. IsFiniteSet({}) /\ Cardinality({}) = 0
  BY FS_EmptySet, Zenon
<1>2. \A S : IsFiniteSet(S) => Cardinality(S) \in Nat
  BY FS_CardinalityType, Zenon
<1>3. ASSUME NEW S, NEW T, IsFiniteSet(S), T \subseteq S
      PROVE  /\ IsFiniteSet(T) /\ IsFiniteSet(S \ T)
             /\ Cardinality(S) = Cardinality(T) + Cardinality(S \ T)
  <2> DEFINE U == S \ T
  <2>1. IsFiniteSet(T) /\ IsFiniteSet(U)
    BY <1>3, FS_Subset, Zenon
  <2>2. T \cup U = S /\ T \cap U = {}
    BY <1>3, Zenon
  <2> HIDE DEF U
  <2>3. Cardinality(T \cup U) = Cardinality(T) + Cardinality(U) - Cardinality(T \cap U)
    BY <2>1, FS_Union, Zenon
  <2>4. Cardinality(S) = Cardinality(T) + Cardinality(U) - 0
    BY <1>1, <2>2, <2>3, Zenon
  <2> DEFINE a == Cardinality(T)
             b == Cardinality(U)
  <2>5. a \in Nat /\ b \in Nat /\ Cardinality(S) = a + b - 0
    BY <1>2, <2>1, <2>4, Zenon
  <2> HIDE DEF a, b
  <2>6. a + b - 0 = a + b
    BY <2>5
  <2> QED BY <2>1, <2>5, <2>6, Zenon DEF U, a, b
<1>4. ASSUME NEW S, NEW x, IsFiniteSet(S), x \in S
      PROVE  Cardinality(S \ {x}) = Cardinality(S) - 1
  BY <1>4, FS_RemoveElement, Zenon
<1>5. \A S, f : (/\ IsFiniteSet(S) /\ f \in [S -> 0..(Cardinality(S) - 1)]
                 /\ \A x, y \in S : f[x] = f[y] => x = y)
                => \A n \in 0..(Cardinality(S) - 1) : \E x \in S : f[x] = n
  <2> TAKE S, f
  <2>0. HAVE /\ IsFiniteSet(S) /\ f \in [S -> 0..(Cardinality(S) - 1)]
             /\ \A x, y \in S : f[x] = f[y] => x = y
  <2> DEFINE c == Cardinality(S)
             T == 0..(c - 1)
  <2>1. c \in Nat
    BY <1>2, <2>0, Zenon
  <2> HIDE DEF c
  <2>2. IsFiniteSet(T) /\ Cardinality(T) = IF 0 > c - 1 THEN 0 ELSE c - 1 - 0 + 1
    <3>1. 0 \in Int /\ c - 1 \in Int
      BY <2>1
    <3> QED BY <3>1, FS_Interval, Zenon
  <2> HIDE DEF T
  <2>3. Cardinality(T) = c
    BY <2>1, <2>2
  <2>4. f \in Injection(S, T)
    <3>1. f \in [S -> T]
      BY <2>0, Zenon DEF T, c
    <3> QED BY <2>0, <3>1 DEF Injection, IsInjective
  <2>5. f \in Surjection(S, T)
    BY <2>0, <2>2, <2>3, <2>4, FS_Injection, Zenon DEF c
  <2> QED BY <2>5, Zenon DEF Surjection, T, c
<1>6. \A S, f : IsFiniteSet(S) /\ (\A x, y \in S : f[x] = f[y] => x = y)
                => /\ IsFiniteSet({f[x] : x \in S})
                   /\ Cardinality({f[x] : x \in S}) = Cardinality(S)
  BY ImageCounts, Zenon
<1>7. ASSUME NEW s, NEW n \in Nat, \A i, j \in 1..n : s[i] = s[j] => i = j
      PROVE  Cardinality({s[i] : i \in 1..n}) = n
  <2>1. IsFiniteSet(1..n) /\ Cardinality(1..n) = n
    <3>1. IsFiniteSet(1..n) /\ Cardinality(1..n) = IF 1 > n THEN 0 ELSE n - 1 + 1
      BY FS_Interval
    <3> QED BY <3>1
  <2> DEFINE I == 1..n
  <2>2. IsFiniteSet(I) /\ \A i, j \in I : s[i] = s[j] => i = j
    BY <1>7, <2>1, Zenon
  <2> HIDE DEF I
  <2>3. Cardinality({s[i] : i \in I}) = Cardinality(I)
    BY <1>6, <2>2
  <2> QED BY <2>1, <2>3, Zenon DEF I
<1>8. ASSUME NEW T, T \subseteq Nat, T # {}
      PROVE  \E x \in T : \A y \in T : x <= y
  <2>1. PICK x \in T : \A y \in T : ~(<<y, x>> \in OpToRel(<, Nat))
    BY <1>8, NatLessThanWellFounded, WFMin, Zenon
  <2>2. ASSUME NEW y \in T, y < x
        PROVE  <<y, x>> \in OpToRel(<, Nat)
    BY <1>8, <2>2 DEF OpToRel
  <2>3. \A y \in T : ~(y < x)
    BY <2>1, <2>2, Zenon
  <2> QED BY <1>8, <2>3
<1>9. \A S, T : IsFiniteSet(S) /\ T \subseteq S =>
         /\ IsFiniteSet(T) /\ IsFiniteSet(S \ T)
         /\ Cardinality(S) = Cardinality(T) + Cardinality(S \ T)
  BY <1>3, Zenon
<1>10. \A S, x : IsFiniteSet(S) /\ x \in S => Cardinality(S \ {x}) = Cardinality(S) - 1
  BY <1>4, Zenon
<1>11. \A s, n : n \in Nat /\ (\A i, j \in 1..n : s[i] = s[j] => i = j)
                 => Cardinality({s[i] : i \in 1..n}) = n
  BY <1>7, Zenon
<1>12. \A T : T \subseteq Nat /\ T # {} => \E x \in T : \A y \in T : x <= y
  BY <1>8, Zenon
<1> QED BY <1>1, <1>2, <1>5, <1>6, <1>9, <1>10, <1>11, <1>12, Zenon DEF Counting

\* The invariant holds of every execution.
THEOREM Invariance == Spec => []IInv
<1>1. Init => IInv
  BY InitInv, Zenon
<1>2. IInv /\ [Next]_vars => IInv'
  BY StepInv, Countable, Zenon
<1> QED BY <1>1, <1>2, PTL DEF Spec

\* store.go:288-329: in the database, in every transaction and after every
\* crash, the expiry index has exactly one entry per open flow, at the
\* millisecond of its deadline.
THEOREM IndexIsExact == Spec => []IndexExact
<1>1. IInv => IndexExact
  BY DEF IInv, IndexExact, Exact, Current
<1> QED BY <1>1, Invariance, PTL

\* ports.go:121-155: the Pebble store implements the state store's port.
THEOREM KeepsContract == Spec => PebbleKeepsContract
<1>1. Init => Contract!Init
  <2> SUFFICES ASSUME Init PROVE Contract!Init
    OBVIOUS
  <2>1. Content(Cells(None)) = Empty
    BY DEF Content, Cells, Dropped, Empty
  <2> QED BY <2>1 DEF Init, Contract!Init
<1>2. IInv /\ [Next]_vars => [Contract!Next]_(Contract!vars)
  BY StepInv, Countable, Zenon
<1> QED BY <1>1, <1>2, Invariance, PTL DEF Spec, PebbleKeepsContract, Contract!Spec

\* The invariant of the two stores side by side and of the listing.
THEOREM SuiteInvariance == SuiteSpec => []SInv
<1>1. SuiteInit => SInv
  BY SuiteInitInv, Zenon
<1>2. SInv /\ [SuiteNext]_suiteVars => SInv'
  BY SuiteStepInv, Countable, Zenon
<1> QED BY <1>1, <1>2, PTL DEF SuiteSpec

\* statetest/suite.go: until a restart, the in-memory store and the Pebble
\* store report the same changes and answer every read alike, inside a
\* transaction too, and due flows come complete, once and earliest first.
THEOREM StoresAlwaysAgree == SuiteSpec => []StoresAgree
<1>1. SInv => StoresAgree
  BY AgreedStores, Countable, Zenon DEF SInv
<1> QED BY <1>1, SuiteInvariance, PTL

\* ports.go:145 and admin/service.go List: whatever commits between two pages,
\* no dead letter is shown twice, what is shown matched at some moment, and
\* what matched all along is shown by the end.
THEOREM PagesAreExact == SuiteSpec => []PagingExact
<1>1. SInv => PagingExact
  BY Zenon DEF SInv, Paged, PagingExact, Rising, Members
<1> QED BY <1>1, SuiteInvariance, PTL

\* store.go ResolveOutbox and ReplayDeadLetters: the DeadLetterChange is the
\* difference the operation makes to the dead letters, per rejection type, and
\* to the drop counter.
THEOREM ChangesAreExact == SuiteSpec => ChangeExact
<1> DEFINE count(dead, t) == Cardinality({i \in Present(dead) : dead[i].type = t})
           Reported == batch' # None /\ ops' = ops + 1 =>
               /\ \A t \in Type : count(Current'.dead, t) = count(Current.dead, t) + report'.net[t]
               /\ report'.changed => report'.records = Cardinality(Present(Current'.dead))
               /\ Dropped(Current') = Dropped(Current) + report'.dropped
               /\ ~report'.changed => Current'.dead = Current.dead
<1>1. ASSUME SInv, SuiteDo PROVE Reported
  <2> DEFINE s == Content(View(db, batch))
             a == Content(View(db, batch'))
  <2>1. batch # None /\ batch' # None /\ db' = db /\ Exactly(s, a, report')
    BY <1>1, SuiteDoStep, Countable, Zenon
  <2>2. Current = View(db, batch) /\ Current' = View(db, batch')
    BY <2>1, Zenon DEF Current
  <2>3. /\ s.dead = Current.dead /\ a.dead = Current'.dead
        /\ s.dropped = Dropped(Current) /\ a.dropped = Dropped(Current')
    BY <2>2 DEF Content
  <2> HIDE DEF s, a
  <2> QED BY <2>1, <2>3, Zenon DEF Exactly, OfType
<1>2. ASSUME SInv, [SuiteNext]_suiteVars, ~SuiteDo, batch' # None PROVE ops' # ops + 1
  <2>1. ops \in Nat
    BY <1>2, Zenon DEF SInv
  <2>2. ops' = ops
    BY <1>2 DEF SuiteNext, SuiteBegin, SuiteCommit, SuiteRollback, SuiteSync, SuiteCrash, Crash,
                StartListing, NextPage, suiteVars
  <2> QED BY <2>1, <2>2
<1>3. SInv /\ [SuiteNext]_suiteVars => [Reported]_suiteVars
  BY <1>1, <1>2, Zenon
<1>4. SuiteSpec => [][Reported]_suiteVars
  BY <1>3, SuiteInvariance, PTL DEF SuiteSpec
<1> QED BY <1>4, PTL DEF ChangeExact

\* The Pebble store keeps the port's promise inside the suite as well.
THEOREM SuiteKeepsContract == SuiteSpec => PebbleKeepsContract
<1>1. SuiteInit => Init
  BY Zenon DEF SuiteInit
<1>2. SInv /\ [SuiteNext]_suiteVars => [Next]_vars
  BY SuiteSteps, Zenon
<1>3. SuiteSpec => Spec
  BY <1>1, <1>2, SuiteInvariance, PTL DEF SuiteSpec, Spec
<1> QED BY <1>3, KeepsContract, PTL
=============================================================================
