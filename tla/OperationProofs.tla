-------------------------- MODULE OperationProofs --------------------------
(***************************************************************************)
(* The operations of both stores, for any keys, ids, times and dead-letter *)
(* cap: what each one leaves in the Pebble store's batch, that a step of   *)
(* the Pebble store keeps its expiry index exact and is a step of the      *)
(* store port, that the in-memory store's maps change alike, and that both *)
(* report the difference made.  Module StoreProofs has the reads and the   *)
(* theorems.                                                               *)
(***************************************************************************)
EXTENDS PebbleStore, MemoryStore, TLAPS

\* What the lemmas use of finite sets.  The library proves it (Countable).
Counting ==
    /\ IsFiniteSet({}) /\ Cardinality({}) = 0
    /\ \A S : IsFiniteSet(S) => Cardinality(S) \in Nat
    /\ \A S, T : IsFiniteSet(S) /\ T \subseteq S =>
          /\ IsFiniteSet(T) /\ IsFiniteSet(S \ T)
          /\ Cardinality(S) = Cardinality(T) + Cardinality(S \ T)
    /\ \A S, x : IsFiniteSet(S) /\ x \in S => Cardinality(S \ {x}) = Cardinality(S) - 1
    /\ \A S, f : (/\ IsFiniteSet(S) /\ f \in [S -> 0..(Cardinality(S) - 1)]
                  /\ \A x, y \in S : f[x] = f[y] => x = y)
                 => \A n \in 0..(Cardinality(S) - 1) : \E x \in S : f[x] = n
    /\ \A s, n : n \in Nat /\ (\A i, j \in 1..n : s[i] = s[j] => i = j)
                 => Cardinality({s[i] : i \in 1..n}) = n
    /\ \A S, f : IsFiniteSet(S) /\ (\A x, y \in S : f[x] = f[y] => x = y)
                 => /\ IsFiniteSet({f[x] : x \in S})
                    /\ Cardinality({f[x] : x \in S}) = Cardinality(S)
    /\ \A T : T \subseteq Nat /\ T # {} => \E x \in T : \A y \in T : x <= y

\* A part of a finite set, and the rest of it.
LEMMA Part ==
    ASSUME Counting, NEW S, NEW T, IsFiniteSet(S), T \subseteq S
    PROVE  /\ IsFiniteSet(T) /\ IsFiniteSet(S \ T)
           /\ Cardinality(S) \in Nat /\ Cardinality(T) \in Nat /\ Cardinality(S \ T) \in Nat
           /\ Cardinality(S) = Cardinality(T) + Cardinality(S \ T)
<1>1. /\ IsFiniteSet(T) /\ IsFiniteSet(S \ T)
      /\ Cardinality(S) = Cardinality(T) + Cardinality(S \ T)
  BY Zenon DEF Counting
<1> QED BY <1>1, Zenon DEF Counting

-----------------------------------------------------------------------------
\* R is a strict total order of S.
Orders(R, S) ==
    /\ \A x \in S : <<x, x>> \notin R
    /\ \A x, y \in S : x = y \/ <<x, y>> \in R \/ <<y, x>> \in R
    /\ \A x, y, z \in S : <<x, y>> \in R /\ <<y, z>> \in R => <<x, z>> \in R

\* Newest first.
Younger(f, S) == {p \in S \X S : Older(f, p[2], p[1])}

\* CreatedAt and id order the records of a family.
LEMMA AgeOrders ==
    ASSUME NEW f \in [Id -> Record \cup {None}], NEW S, S \subseteq Present(f)
    PROVE  /\ Orders(ByAge(f, S), S) /\ Orders(Younger(f, S), S)
           /\ \A x, y \in S : <<x, y>> \in ByAge(f, S) <=> Older(f, x, y)
           /\ \A x, y \in S : <<x, y>> \in Younger(f, S) <=> Older(f, y, x)
           /\ S \subseteq Id
<1>1. S \subseteq Id /\ \A x \in S : x \in Nat /\ f[x].created \in Nat
  <2>1. \A x \in S : x \in Id /\ f[x] \in Record
    BY DEF Present
  <2>2. \A x \in S : f[x].created \in Time
    BY <2>1 DEF Record
  <2> QED BY <2>1, <2>2, OutboxRecordAssumption
<1>2. \A x, y \in S : <<x, y>> \in ByAge(f, S) <=> Older(f, x, y)
  BY DEF ByAge
<1>3. \A x, y \in S : <<x, y>> \in Younger(f, S) <=> Older(f, y, x)
  BY DEF Younger
<1>4. \A x \in S : ~Older(f, x, x)
  BY <1>1 DEF Older
<1>5. \A x, y \in S : x = y \/ Older(f, x, y) \/ Older(f, y, x)
  BY <1>1 DEF Older
<1>6. \A x, y, z \in S : Older(f, x, y) /\ Older(f, y, z) => Older(f, x, z)
  BY <1>1 DEF Older
<1>7. Orders(ByAge(f, S), S)
  BY <1>2, <1>4, <1>5, <1>6, Zenon DEF Orders
<1>8. Orders(Younger(f, S), S)
  BY <1>3, <1>4, <1>5, <1>6, Zenon DEF Orders
<1> QED BY <1>1, <1>2, <1>3, <1>7, <1>8, Zenon

\* The MaxDLQ newest of the dead letters in S.
Top(f, S) == {i \in S : Cardinality({j \in S : Older(f, i, j)}) < MaxDLQ}

\* What the trim of the Pebble store leaves is what the port calls the newest.
LEMMA Complement ==
    ASSUME Counting, NEW f \in [Id -> Record \cup {None}]
    PROVE  /\ Newest(f) = Top(f, Present(f))
           /\ Present(f) \ Trimmed(f) = Top(f, Present(f))
           /\ Trimmed(f) \subseteq Present(f)
<1> DEFINE S == Present(f)
           old(i) == {j \in S : Older(f, j, i)}
           new(i) == {j \in S : Older(f, i, j)}
<1>1. Trimmed(f) = {i \in S : Cardinality(old(i)) < Cardinality(S) - MaxDLQ}
  BY DEF Trimmed
<1>2. Top(f, S) = {i \in S : Cardinality(new(i)) < MaxDLQ}
  BY DEF Top
<1>3. Newest(f) = Top(f, S)
  BY DEF Newest, Top
<1>4. Orders(ByAge(f, S), S) /\ \A x, y \in S : <<x, y>> \in ByAge(f, S) <=> Older(f, x, y)
  BY AgeOrders
<1>5. IsFiniteSet(S) /\ Cardinality(S) \in Nat
  <2>1. S \subseteq Id /\ IsFiniteSet(Id)
    BY OutboxRecordAssumption DEF Present
  <2> QED BY <2>1, Part, Zenon
<1> HIDE DEF S
<1>6. /\ \A i \in S : ~Older(f, i, i)
      /\ \A i, j \in S : i = j \/ Older(f, i, j) \/ Older(f, j, i)
      /\ \A i, j \in S : ~(Older(f, i, j) /\ Older(f, j, i))
  BY <1>4, Zenon DEF Orders
<1>7. ASSUME NEW i \in S
      PROVE  /\ Cardinality(old(i)) \in Nat /\ Cardinality(new(i)) \in Nat
             /\ Cardinality(S) = Cardinality(old(i)) + Cardinality(new(i)) + 1
  <2>1. old(i) \subseteq S \ {i} /\ (S \ {i}) \ old(i) = new(i)
    BY <1>6, Zenon
  <2>2. IsFiniteSet(S \ {i}) /\ Cardinality(S \ {i}) = Cardinality(S) - 1
    BY <1>5, Part, Zenon DEF Counting
  <2> HIDE DEF old, new
  <2>3. /\ Cardinality(S \ {i}) = Cardinality(old(i)) + Cardinality(new(i))
        /\ Cardinality(old(i)) \in Nat /\ Cardinality(new(i)) \in Nat
    BY <2>1, <2>2, Part
  <2> QED BY <1>5, <2>2, <2>3
<1> HIDE DEF old, new
<1>8. \A i \in S : Cardinality(old(i)) < Cardinality(S) - MaxDLQ <=> ~(Cardinality(new(i)) < MaxDLQ)
  BY <1>5, <1>7, OutboxRecordAssumption
<1> QED BY <1>1, <1>2, <1>3, <1>8 DEF S
-----------------------------------------------------------------------------
\* A read through the batch finds the batch's cell, or else the database's.
LEMMA OverCells ==
    ASSUME NEW D, NEW V, NEW base \in [D -> V], NEW top \in [D -> V \cup {Untouched}]
    PROVE  /\ Over(base, top) \in [D -> V]
           /\ \A x \in D : Over(base, top)[x] = IF top[x] = Untouched THEN base[x] ELSE top[x]
BY DEF Over

\* The fields of a database, a batch and a view.
LEMMA ViewFields ==
    ASSUME NEW d \in Database, NEW b \in Batch
    PROVE  /\ View(d, b) \in Database
           /\ View(d, b).flow = Over(d.flow, b.flow)
           /\ View(d, b).expiry = Over(d.expiry, b.expiry)
           /\ View(d, b).outbox = Over(d.outbox, b.outbox)
           /\ View(d, b).dead = Over(d.dead, b.dead)
           /\ View(d, b).dropped = IF b.dropped = Untouched THEN d.dropped ELSE b.dropped
<1>1. /\ View(d, b).flow = Over(d.flow, b.flow)
      /\ View(d, b).expiry = Over(d.expiry, b.expiry)
      /\ View(d, b).outbox = Over(d.outbox, b.outbox)
      /\ View(d, b).dead = Over(d.dead, b.dead)
      /\ View(d, b).dropped = IF b.dropped = Untouched THEN d.dropped ELSE b.dropped
  BY DEF View
<1>2. /\ d.flow \in [Key -> Time \cup {None}] /\ d.expiry \in [Cell -> {NilValue, None}]
      /\ d.outbox \in [Id -> Record \cup {None}] /\ d.dead \in [Id -> Record \cup {None}]
      /\ d.dropped \in Nat \cup {None}
  BY DEF Database, Cellular
<1>3. /\ b.flow \in [Key -> Time \cup {None} \cup {Untouched}]
      /\ b.expiry \in [Cell -> {NilValue, None} \cup {Untouched}]
      /\ b.outbox \in [Id -> Record \cup {None} \cup {Untouched}]
      /\ b.dead \in [Id -> Record \cup {None} \cup {Untouched}]
      /\ b.dropped \in Nat \cup {None} \cup {Untouched}
  BY DEF Batch, Cellular
<1>4. /\ Over(d.flow, b.flow) \in [Key -> Time \cup {None}]
      /\ Over(d.expiry, b.expiry) \in [Cell -> {NilValue, None}]
      /\ Over(d.outbox, b.outbox) \in [Id -> Record \cup {None}]
      /\ Over(d.dead, b.dead) \in [Id -> Record \cup {None}]
  BY <1>2, <1>3, OverCells, Zenon
<1>5. View(d, b) \in Database
  BY <1>2, <1>3, <1>4 DEF View, Database, Cellular
<1> QED BY <1>1, <1>5

\* What a view stands for.
LEMMA ContentType ==
    ASSUME NEW v \in Database
    PROVE  Content(v) \in Contents
<1>1. /\ v.flow \in [Key -> Time \cup {None}] /\ v.outbox \in [Id -> Record \cup {None}]
      /\ v.dead \in [Id -> Record \cup {None}] /\ v.dropped \in Nat \cup {None}
  BY DEF Database, Cellular
<1>2. Dropped(v) \in Nat
  BY <1>1 DEF Dropped
<1> QED BY <1>1, <1>2 DEF Content, Contents

\* The records that verdicts and replays leave.
LEMMA RecordTypes ==
    ASSUME NEW r \in Record
    PROVE  /\ \A v \in Result : Rejected(r, v) \in Record /\ Retried(r, v) \in Record
           /\ \A t \in Time : Replayed(r, t) \in Record
<1>1. ASSUME NEW v \in Result PROVE Rejected(r, v) \in Record /\ Retried(r, v) \in Record
  <2> DEFINE n == IF v.attempts > 0 THEN v.attempts ELSE r.attempts
             m == IF v.attempts > 0 THEN v.attempts ELSE r.attempts + 1
  <2>1. n \in Nat /\ m \in Nat /\ v.type \in Type /\ v.next \in Time
    BY DEF Result, Record
  <2>2. Rejected(r, v) = [r EXCEPT !.attempts = n, !.type = v.type]
    BY DEF Rejected
  <2>3. Retried(r, v) = [r EXCEPT !.attempts = m, !.next = v.next]
    BY DEF Retried
  <2> HIDE DEF n, m
  <2>4. Rejected(r, v) \in Record
    BY <2>1, <2>2, Zenon DEF Record
  <2>5. Retried(r, v) \in Record
    BY <2>1, <2>3, Zenon DEF Record
  <2> QED BY <2>4, <2>5
<1>2. ASSUME NEW t \in Time PROVE Replayed(r, t) \in Record
  <2>1. r.replays + 1 \in Nat
    BY DEF Record
  <2> QED BY <2>1, Zenon DEF Replayed, Record
<1> QED BY <1>1, <1>2
-----------------------------------------------------------------------------
\* IndexExact, of one view.
Exact(v) ==
    \A c \in Cell : v.expiry[c] # None <=> v.flow[c[2]] # None /\ Ms(v.flow[c[2]]) = c[1]

\* A batch, by its fields.
LEMMA BatchFields ==
    ASSUME NEW b \in Batch
    PROVE  /\ b = [flow |-> b.flow, expiry |-> b.expiry, outbox |-> b.outbox,
                   dead |-> b.dead, dropped |-> b.dropped]
           /\ b.flow \in [Key -> Time \cup {None} \cup {Untouched}]
           /\ b.expiry \in [Cell -> {NilValue, None} \cup {Untouched}]
           /\ b.outbox \in [Id -> Record \cup {None} \cup {Untouched}]
           /\ b.dead \in [Id -> Record \cup {None} \cup {Untouched}]
           /\ b.dropped \in Nat \cup {None} \cup {Untouched}
BY DEF Batch, Cellular

\* A database, by its fields.
LEMMA DatabaseFields ==
    ASSUME NEW d \in Database
    PROVE  /\ d = [flow |-> d.flow, expiry |-> d.expiry, outbox |-> d.outbox,
                   dead |-> d.dead, dropped |-> d.dropped]
           /\ d.flow \in [Key -> Time \cup {None}]
           /\ d.expiry \in [Cell -> {NilValue, None}]
           /\ d.outbox \in [Id -> Record \cup {None}]
           /\ d.dead \in [Id -> Record \cup {None}]
           /\ d.dropped \in Nat \cup {None}
BY DEF Database, Cellular

\* The marks are no times and not the value of an index entry.
LEMMA Marked ==
    /\ None \notin Time /\ None # NilValue
    /\ Untouched \notin Time /\ Untouched # NilValue /\ Untouched # None
    /\ Untouched \notin Record /\ None \notin Record /\ Untouched \notin Nat
    /\ None \notin Batch /\ None \notin Contents
<1>1. Time \subseteq Nat /\ None \notin Nat /\ NilValue \in Nat
  BY OutboxRecordAssumption DEF NilValue
<1>2. Untouched \notin Nat /\ Untouched # None /\ Untouched \notin Record /\ None \notin Record
  BY StoreAssumption
<1> QED BY <1>1, <1>2, NoBatchAssumption, Zenon

\* SaveFlow and DeleteFlow write one flow, and leave the index exact.
LEMMA FlowEffect ==
    ASSUME NEW d \in Database, NEW b \in Batch, NEW key \in Key, NEW c,
           NEW at \in Time \cup {None},
           \/ at \in Time /\ c = SaveFlow(d, b, key, at)
           \/ at = None /\ c = DeleteFlow(d, b, key)
    PROVE  /\ c \in Batch
           /\ View(d, c).flow = [View(d, b).flow EXCEPT ![key] = at]
           /\ View(d, c).outbox = View(d, b).outbox
           /\ View(d, c).dead = View(d, b).dead
           /\ View(d, c).dropped = View(d, b).dropped
           /\ Exact(View(d, b)) => Exact(View(d, c))
<1> DEFINE v == View(d, b)
           prev == v.flow[key]
           fl == [b.flow EXCEPT ![key] = at]
           old == IF prev # None THEN {<<Ms(prev), key>>} ELSE {}
           set == IF at # None THEN {<<Ms(at), key>>} ELSE {}
           new == [x \in Cell |-> IF x \in set THEN NilValue ELSE None]
           ex == [x \in Cell |-> IF x \in old \cup set THEN new[x] ELSE b.expiry[x]]
<1>1. None \notin Time /\ None # NilValue /\ Untouched \notin Time /\ Untouched # NilValue
  BY Marked
<1>2. /\ v \in Database /\ v.flow \in [Key -> Time \cup {None}]
      /\ v.expiry \in [Cell -> {NilValue, None}] /\ prev \in Time \cup {None}
  BY ViewFields, DatabaseFields
<1>3. set \subseteq Cell /\ old \subseteq Cell
  BY <1>1, <1>2 DEF Cell
<1>4. c = [flow |-> fl, expiry |-> ex, outbox |-> b.outbox, dead |-> b.dead,
           dropped |-> b.dropped]
  <2>1. CASE at \in Time /\ c = SaveFlow(d, b, key, at)
    <3> DEFINE cl == [x \in Cell |-> IF prev # None /\ x = <<Ms(prev), key>>
                                     THEN None ELSE b.expiry[x]]
    <3>1. c = [b EXCEPT !.expiry = [cl EXCEPT ![<<Ms(at), key>>] = NilValue], !.flow = fl]
      BY <2>1 DEF SaveFlow
    <3>2. [cl EXCEPT ![<<Ms(at), key>>] = NilValue] = ex
      BY <1>1, <2>1, Zenon
    <3> HIDE DEF cl, ex, fl
    <3> QED BY <3>1, <3>2, Zenon DEF Batch, Cellular
  <2>2. CASE at = None /\ c = DeleteFlow(d, b, key)
    <3> DEFINE cl == [x \in Cell |-> IF prev # None /\ x = <<Ms(prev), key>>
                                     THEN None ELSE b.expiry[x]]
    <3>1. c = [b EXCEPT !.expiry = cl, !.flow = fl]
      BY <2>2 DEF DeleteFlow
    <3>2. cl = ex
      BY <1>1, <2>2
    <3> HIDE DEF cl, ex, fl
    <3> QED BY <3>1, <3>2, Zenon DEF Batch, Cellular
  <2> QED BY <2>1, <2>2
<1>5. fl \in [Key -> Time \cup {None} \cup {Untouched}]
  BY BatchFields
<1>6. /\ ex \in [Cell -> {NilValue, None} \cup {Untouched}]
      /\ Over(d.expiry, ex) = [x \in Cell |-> IF x \in old \cup set THEN new[x]
                                              ELSE Over(d.expiry, b.expiry)[x]]
  <2>1. \A x \in old \cup set : new[x] \in {NilValue, None} /\ new[x] # Untouched
    BY <1>1, <1>3, Marked
  <2>2. /\ d.expiry \in [Cell -> {NilValue, None}]
        /\ b.expiry \in [Cell -> {NilValue, None} \cup {Untouched}]
    BY BatchFields, DatabaseFields
  <2> HIDE DEF new, old, set
  <2>3. ex \in [Cell -> {NilValue, None} \cup {Untouched}]
    BY <2>1, <2>2
  <2>4. Over(d.expiry, ex) = [x \in Cell |-> IF x \in old \cup set THEN new[x]
                                             ELSE Over(d.expiry, b.expiry)[x]]
    BY <2>1, <2>2 DEF Over
  <2> QED BY <2>3, <2>4
<1> HIDE DEF ex, fl
<1>7. c \in Batch
  BY <1>4, <1>5, <1>6, BatchFields DEF Batch, Cellular
<1>8. /\ c.flow = fl /\ c.expiry = ex /\ c.outbox = b.outbox /\ c.dead = b.dead
      /\ c.dropped = b.dropped
  BY <1>4
<1>9. /\ View(d, c).flow = Over(d.flow, fl) /\ View(d, c).expiry = Over(d.expiry, ex)
      /\ View(d, c).outbox = v.outbox /\ View(d, c).dead = v.dead
      /\ View(d, c).dropped = v.dropped
  BY <1>7, <1>8, ViewFields
<1>10. Over(d.flow, fl) = [v.flow EXCEPT ![key] = at]
  <2>1. v.flow = Over(d.flow, b.flow)
    BY ViewFields
  <2> QED BY <2>1, <1>1, BatchFields, DatabaseFields, Marked DEF Over, fl
<1>11. ASSUME Exact(v) PROVE Exact(View(d, c))
  <2> DEFINE w == View(d, c)
  <2> SUFFICES ASSUME NEW x \in Cell
               PROVE  w.expiry[x] # None <=> w.flow[x[2]] # None /\ Ms(w.flow[x[2]]) = x[1]
    BY DEF Exact
  <2>1. w.expiry[x] = IF x \in old \cup set THEN new[x] ELSE v.expiry[x]
    BY <1>6, <1>9, ViewFields
  <2>2. x[2] \in Key /\ x = <<x[1], x[2]>>
    BY DEF Cell
  <2>3. w.flow[x[2]] = IF x[2] = key THEN at ELSE v.flow[x[2]]
    BY <1>9, <1>10, <1>2, <2>2
  <2>4. v.expiry[x] # None <=> v.flow[x[2]] # None /\ Ms(v.flow[x[2]]) = x[1]
    BY <1>11 DEF Exact
  <2>5. x \in set <=> at # None /\ x[2] = key /\ Ms(at) = x[1]
    BY <2>2
  <2>6. x \in old <=> prev # None /\ x[2] = key /\ Ms(prev) = x[1]
    BY <2>2
  <2>7. new[x] # None <=> x \in set
    BY <1>1
  <2> HIDE DEF w, v, set, old, new
  <2>8. CASE x[2] = key
    BY <2>1, <2>3, <2>4, <2>5, <2>6, <2>7, <2>8
  <2>9. CASE x[2] # key
    BY <2>1, <2>3, <2>4, <2>5, <2>6, <2>7, <2>9
  <2> QED BY <2>8, <2>9
<1> QED BY <1>7, <1>9, <1>10, <1>11

\* Records written to a family show in the view as they are, and every other
\* cell shows what it did.
LEMMA RecordsWritten ==
    ASSUME NEW base \in [Id -> Record \cup {None}],
           NEW top \in [Id -> Record \cup {None} \cup {Untouched}], NEW next,
           next = [i \in Id |-> next[i]],
           \A i \in Id : next[i] \in Record \cup {None} \/ next[i] = top[i]
    PROVE  /\ next \in [Id -> Record \cup {None} \cup {Untouched}]
           /\ Over(base, next) \in [Id -> Record \cup {None}]
           /\ \A i \in Id : next[i] \in Record \cup {None} => Over(base, next)[i] = next[i]
           /\ \A i \in Id : next[i] = top[i] => Over(base, next)[i] = Over(base, top)[i]
<1>1. Untouched \notin Record \cup {None}
  BY Marked
<1>2. \A i \in Id : next[i] \in Record \cup {None} \cup {Untouched}
  OBVIOUS
<1>3. next \in [Id -> Record \cup {None} \cup {Untouched}]
  BY <1>2
<1>4. \A i \in Id : Over(base, next)[i] = IF next[i] = Untouched THEN base[i] ELSE next[i]
  BY DEF Over
<1>5. \A i \in Id : Over(base, top)[i] = IF top[i] = Untouched THEN base[i] ELSE top[i]
  BY DEF Over
<1>6. Over(base, next) \in [Id -> Record \cup {None}]
  BY <1>3, OverCells, Zenon
<1> QED BY <1>1, <1>3, <1>4, <1>5, <1>6

\* A batch that leaves the flow families alone leaves the index exact.
LEMMA FamiliesApart ==
    ASSUME NEW d \in Database, NEW b \in Batch, NEW c \in Batch,
           c.flow = b.flow, c.expiry = b.expiry, Exact(View(d, b))
    PROVE  Exact(View(d, c))
<1>1. View(d, c).flow = View(d, b).flow /\ View(d, c).expiry = View(d, b).expiry
  BY ViewFields
<1> QED BY <1>1 DEF Exact

\* EnqueueOutbox writes one record.
LEMMA EnqueueEffect ==
    ASSUME NEW d \in Database, NEW b \in Batch, NEW id \in Id, NEW now \in Time, NEW c,
           c = EnqueueOutbox(b, id, now)
    PROVE  /\ c \in Batch /\ c.flow = b.flow /\ c.expiry = b.expiry
           /\ Content(View(d, c)) = [Content(View(d, b)) EXCEPT !.outbox[id] = NewRecord(now)]
<1> DEFINE v == View(d, b)
           ob == [b.outbox EXCEPT ![id] = NewRecord(now)]
<1>1. NewRecord(now) \in Record
  BY DEF NewRecord, Record
<1>2. /\ ob = [i \in Id |-> ob[i]] /\ ob[id] \in Record \cup {None}
      /\ \A i \in Id \ {id} : ob[i] = b.outbox[i]
  BY <1>1, BatchFields
<1>3. ob[id] = NewRecord(now)
  BY BatchFields
<1>4. c = [b EXCEPT !.outbox = ob]
  BY DEF EnqueueOutbox
<1> HIDE DEF ob
<1>5. c = [flow |-> b.flow, expiry |-> b.expiry, outbox |-> ob, dead |-> b.dead,
           dropped |-> b.dropped]
  BY <1>4 DEF Batch, Cellular
<1>6. /\ ob \in [Id -> Record \cup {None} \cup {Untouched}]
      /\ Over(d.outbox, ob) \in [Id -> Record \cup {None}]
      /\ Over(d.outbox, ob)[id] = ob[id]
      /\ \A i \in Id \ {id} : Over(d.outbox, ob)[i] = Over(d.outbox, b.outbox)[i]
  <2>1. /\ d.outbox \in [Id -> Record \cup {None}]
        /\ b.outbox \in [Id -> Record \cup {None} \cup {Untouched}]
    BY BatchFields, DatabaseFields
  <2>2. \A i \in Id : ob[i] \in Record \cup {None} \/ ob[i] = b.outbox[i]
    BY <1>2
  <2> QED BY <1>2, <2>1, <2>2, RecordsWritten
<1>7. c \in Batch /\ c.flow = b.flow /\ c.expiry = b.expiry
  BY <1>5, <1>6, BatchFields DEF Batch, Cellular
<1>8. /\ View(d, c).flow = v.flow /\ View(d, c).dead = v.dead /\ View(d, c).dropped = v.dropped
      /\ View(d, c).outbox = Over(d.outbox, ob)
  BY <1>5, <1>7, ViewFields
<1>9. v.outbox \in [Id -> Record \cup {None}] /\ v.outbox = Over(d.outbox, b.outbox)
  BY ViewFields, DatabaseFields
<1>10. Over(d.outbox, ob) = [v.outbox EXCEPT ![id] = NewRecord(now)]
  BY <1>3, <1>6, <1>9
<1> QED BY <1>7, <1>8, <1>10 DEF Content, Dropped

\* ReplayDeadLetters moves the records the port says.
LEMMA ReplayEffect ==
    ASSUME NEW d \in Database, NEW b \in Batch, NEW filter \in Filter, NEW now \in Time,
           NEW c, c = ReplayDeadLetters(d, b, filter, now)
    PROVE  /\ c \in Batch /\ c.flow = b.flow /\ c.expiry = b.expiry
           /\ Content(View(d, c)) = Replay(Content(View(d, b)), filter, now)
<1> DEFINE v == View(d, b)
           moved == Candidates(v.dead, filter)
           ob == [i \in Id |-> IF i \in moved THEN Replayed(v.dead[i], now) ELSE b.outbox[i]]
           dl == [i \in Id |-> IF i \in moved THEN None ELSE b.dead[i]]
<1>1. /\ v \in Database /\ v.outbox \in [Id -> Record \cup {None}]
      /\ v.dead \in [Id -> Record \cup {None}]
      /\ v.outbox = Over(d.outbox, b.outbox) /\ v.dead = Over(d.dead, b.dead)
  BY ViewFields, DatabaseFields
<1>2. moved \subseteq Present(v.dead) /\ Present(v.dead) \subseteq Id
  BY <1>1 DEF Candidates, First, Present
<1>3. \A i \in moved : v.dead[i] \in Record
  BY <1>1, <1>2 DEF Present
<1>4. c = [flow |-> b.flow, expiry |-> b.expiry, outbox |-> ob, dead |-> dl,
           dropped |-> b.dropped]
  <2>1. c = [b EXCEPT !.outbox = ob, !.dead = dl]
    BY DEF ReplayDeadLetters
  <2> HIDE DEF ob, dl
  <2> QED BY <2>1, Zenon DEF Batch, Cellular
<1> HIDE DEF moved
<1>5. /\ ob = [i \in Id |-> ob[i]]
      /\ \A i \in moved : ob[i] \in Record \cup {None}
      /\ \A i \in Id \ moved : ob[i] = b.outbox[i]
  BY <1>2, <1>3, RecordTypes
<1>6. /\ dl = [i \in Id |-> dl[i]]
      /\ \A i \in moved : dl[i] \in Record \cup {None}
      /\ \A i \in Id \ moved : dl[i] = b.dead[i]
  BY <1>2
<1>7. \A i \in moved : ob[i] = Replayed(v.dead[i], now) /\ dl[i] = None
  BY <1>2
<1> HIDE DEF ob, dl
<1>8. /\ ob \in [Id -> Record \cup {None} \cup {Untouched}]
      /\ Over(d.outbox, ob) \in [Id -> Record \cup {None}]
      /\ \A i \in moved : Over(d.outbox, ob)[i] = ob[i]
      /\ \A i \in Id \ moved : Over(d.outbox, ob)[i] = Over(d.outbox, b.outbox)[i]
  <2>1. /\ d.outbox \in [Id -> Record \cup {None}]
        /\ b.outbox \in [Id -> Record \cup {None} \cup {Untouched}]
    BY BatchFields, DatabaseFields
  <2>2. \A i \in Id : ob[i] \in Record \cup {None} \/ ob[i] = b.outbox[i]
    BY <1>5
  <2>3. /\ ob \in [Id -> Record \cup {None} \cup {Untouched}]
        /\ Over(d.outbox, ob) \in [Id -> Record \cup {None}]
        /\ \A i \in Id : ob[i] \in Record \cup {None} => Over(d.outbox, ob)[i] = ob[i]
        /\ \A i \in Id : ob[i] = b.outbox[i] => Over(d.outbox, ob)[i] = Over(d.outbox, b.outbox)[i]
    <3>1. ob = [i \in Id |-> ob[i]]
      BY <1>5, Zenon
    <3> QED BY <2>1, <2>2, <3>1, RecordsWritten, SMTT(30)
  <2> QED BY <1>2, <1>5, <2>3
<1>9. /\ dl \in [Id -> Record \cup {None} \cup {Untouched}]
      /\ Over(d.dead, dl) \in [Id -> Record \cup {None}]
      /\ \A i \in moved : Over(d.dead, dl)[i] = dl[i]
      /\ \A i \in Id \ moved : Over(d.dead, dl)[i] = Over(d.dead, b.dead)[i]
  <2>1. /\ d.dead \in [Id -> Record \cup {None}]
        /\ b.dead \in [Id -> Record \cup {None} \cup {Untouched}]
    BY BatchFields, DatabaseFields
  <2>2. \A i \in Id : dl[i] \in Record \cup {None} \/ dl[i] = b.dead[i]
    BY <1>6
  <2>3. /\ dl \in [Id -> Record \cup {None} \cup {Untouched}]
        /\ Over(d.dead, dl) \in [Id -> Record \cup {None}]
        /\ \A i \in Id : dl[i] \in Record \cup {None} => Over(d.dead, dl)[i] = dl[i]
        /\ \A i \in Id : dl[i] = b.dead[i] => Over(d.dead, dl)[i] = Over(d.dead, b.dead)[i]
    <3>1. dl = [i \in Id |-> dl[i]]
      BY <1>6, Zenon
    <3> QED BY <2>1, <2>2, <3>1, RecordsWritten, SMTT(30)
  <2> QED BY <1>2, <1>6, <2>3
<1>10. c \in Batch /\ c.flow = b.flow /\ c.expiry = b.expiry
  BY <1>4, <1>8, <1>9, BatchFields DEF Batch, Cellular
<1>11. /\ View(d, c).flow = v.flow /\ View(d, c).dropped = v.dropped
       /\ View(d, c).outbox = Over(d.outbox, ob) /\ View(d, c).dead = Over(d.dead, dl)
  BY <1>4, <1>10, ViewFields
<1>12. Over(d.outbox, ob) = [i \in Id |-> IF i \in moved THEN Replayed(v.dead[i], now)
                                          ELSE v.outbox[i]]
  BY <1>1, <1>7, <1>8
<1>13. Over(d.dead, dl) = Keep(v.dead, Present(v.dead) \ moved)
  BY <1>1, <1>7, <1>9 DEF Keep, Present
<1>14. moved = First({i \in Present(v.dead) :
                                  Matches(filter, i, v.dead[i])}, filter.limit)
  BY Zenon DEF moved, Candidates
<1>15. Replay(Content(v), filter, now) =
          [flows |-> v.flow, outbox |-> Over(d.outbox, ob), dead |-> Over(d.dead, dl),
           dropped |-> Dropped(v)]
  <2> DEFINE s == Content(v)
  <2>1. s.flows = v.flow /\ s.outbox = v.outbox /\ s.dead = v.dead /\ s.dropped = Dropped(v)
    BY DEF Content
  <2>2. s \in Contents
    BY <1>1, ContentType
  <2> HIDE DEF s
  <2> DEFINE gone == First({i \in Present(s.dead) :
                         Matches(filter, i, s.dead[i])}, filter.limit)
             X == [i \in Id |-> IF i \in gone THEN Replayed(s.dead[i], now)
                                ELSE s.outbox[i]]
             Y == Keep(s.dead, Present(s.dead) \ gone)
  <2>3. Replay(s, filter, now) = [s EXCEPT !.outbox = X, !.dead = Y]
    BY DEF Replay
  <2>4. gone = moved
    BY <1>14, <2>1
  <2>5. X = Over(d.outbox, ob)
    BY <1>12, <2>1, <2>4, Zenon
  <2>6. Y = Over(d.dead, dl)
    BY <1>13, <2>1, <2>4, Zenon
  <2> HIDE DEF X, Y
  <2> DEFINE e == Replay(s, filter, now)
  <2>7. e = [s EXCEPT !.outbox = X, !.dead = Y]
    BY <2>3
  <2> HIDE DEF e
  <2>8. e = [flows |-> s.flows, outbox |-> X, dead |-> Y, dropped |-> s.dropped]
    BY <2>2, <2>7, Zenon DEF Contents
  <2> QED BY <2>1, <2>5, <2>6, <2>8 DEF s, e
<1> QED BY <1>10, <1>11, <1>15 DEF Content, Dropped

\* The outbox and the dead letters after the loop over the results.
Rest(outbox, results) ==
    [i \in Id |-> IF i \notin DOMAIN results \/ outbox[i] = None THEN outbox[i]
                  ELSE IF results[i].as = "retryable" THEN Retried(outbox[i], results[i])
                  ELSE None]
Letters(outbox, dead, results) ==
    [i \in Id |-> IF i \in Losses(outbox, results) THEN Rejected(outbox[i], results[i])
                  ELSE dead[i]]

Verdicts(results) ==
    DOMAIN results \subseteq Id /\ \A i \in DOMAIN results : results[i] \in Result

\* They are records.
LEMMA SettledTypes ==
    ASSUME NEW outbox \in [Id -> Record \cup {None}], NEW dead \in [Id -> Record \cup {None}],
           NEW results, Verdicts(results)
    PROVE  /\ Rest(outbox, results) \in [Id -> Record \cup {None}]
           /\ Letters(outbox, dead, results) \in [Id -> Record \cup {None}]
           /\ \A i \in Id : ~(i \notin DOMAIN results \/ outbox[i] = None)
                               => Retried(outbox[i], results[i]) \in Record
           /\ Losses(outbox, results) \subseteq Id
           /\ \A i \in Losses(outbox, results) : Rejected(outbox[i], results[i]) \in Record
<1>1. ASSUME NEW i \in Id, ~(i \notin DOMAIN results \/ outbox[i] = None)
      PROVE  /\ Retried(outbox[i], results[i]) \in Record
             /\ Rejected(outbox[i], results[i]) \in Record
  <2>1. outbox[i] \in Record /\ results[i] \in Result
    BY <1>1 DEF Verdicts
  <2> QED BY <2>1, RecordTypes, Zenon
<1>2. Losses(outbox, results) \subseteq Id
      /\ \A i \in Losses(outbox, results) : ~(i \notin DOMAIN results \/ outbox[i] = None)
  BY DEF Losses, Verdicts
<1>3. Rest(outbox, results) \in [Id -> Record \cup {None}]
  BY <1>1 DEF Rest
<1>4. Letters(outbox, dead, results) \in [Id -> Record \cup {None}]
  BY <1>1, <1>2 DEF Letters
<1> QED BY <1>1, <1>2, <1>3, <1>4

\* The loop over the results in the Pebble store.
LEMMA SettleEffect ==
    ASSUME NEW d \in Database, NEW b \in Batch, NEW results, Verdicts(results), NEW c,
           c = Settle(d, b, results)
    PROVE  /\ c \in Batch /\ c.flow = b.flow /\ c.expiry = b.expiry /\ c.dropped = b.dropped
           /\ View(d, c).flow = View(d, b).flow /\ View(d, c).dropped = View(d, b).dropped
           /\ View(d, c).outbox = Rest(View(d, b).outbox, results)
           /\ View(d, c).dead = Letters(View(d, b).outbox, View(d, b).dead, results)
<1> DEFINE v == View(d, b)
           lost == Losses(v.outbox, results)
           ob == [i \in Id |->
                    IF i \notin DOMAIN results \/ v.outbox[i] = None THEN b.outbox[i]
                    ELSE IF results[i].as = "retryable" THEN Retried(v.outbox[i], results[i])
                    ELSE None]
           dl == [i \in Id |-> IF i \in lost THEN Rejected(v.outbox[i], results[i])
                               ELSE b.dead[i]]
<1>1. /\ v \in Database /\ v.outbox \in [Id -> Record \cup {None}]
      /\ v.dead \in [Id -> Record \cup {None}]
      /\ v.outbox = Over(d.outbox, b.outbox) /\ v.dead = Over(d.dead, b.dead)
  BY ViewFields, DatabaseFields
<1>2. c = [flow |-> b.flow, expiry |-> b.expiry, outbox |-> ob, dead |-> dl,
           dropped |-> b.dropped]
  <2>1. c = [b EXCEPT !.outbox = ob, !.dead = dl]
    BY Zenon DEF Settle
  <2> HIDE DEF ob, dl
  <2> QED BY <2>1, Zenon DEF Batch, Cellular
<1>3. /\ d.outbox \in [Id -> Record \cup {None}] /\ d.dead \in [Id -> Record \cup {None}]
      /\ b.outbox \in [Id -> Record \cup {None} \cup {Untouched}]
      /\ b.dead \in [Id -> Record \cup {None} \cup {Untouched}]
  BY BatchFields, DatabaseFields
<1>4. /\ \A i \in Id : ~(i \notin DOMAIN results \/ v.outbox[i] = None)
                          => Retried(v.outbox[i], results[i]) \in Record
      /\ lost \subseteq Id
      /\ \A i \in lost : Rejected(v.outbox[i], results[i]) \in Record
  BY <1>1, SettledTypes, Zenon
<1>5. Untouched \notin Record /\ Untouched # None
  BY Marked, Zenon
<1>6. ob \in [Id -> Record \cup {None} \cup {Untouched}]
  BY <1>3, <1>4, Zenon
<1>7. dl \in [Id -> Record \cup {None} \cup {Untouched}]
  BY <1>3, <1>4, Zenon
<1>8. Over(d.outbox, ob) = Rest(v.outbox, results)
  <2>1. \A i \in Id : ~(i \notin DOMAIN results \/ v.outbox[i] = None) => ob[i] # Untouched
    BY <1>4, <1>5
  <2> QED BY <1>1, <1>3, <2>1, Zenon DEF Over, Rest
<1>9. Over(d.dead, dl) = Letters(v.outbox, v.dead, results)
  <2> DEFINE dd == Letters(v.outbox, v.dead, results)
  <2>1. \A i \in Id : IF i \in lost THEN dl[i] # Untouched /\ dl[i] = dd[i]
                      ELSE dl[i] = b.dead[i] /\ dd[i] = v.dead[i]
    BY <1>4, <1>5, Zenon DEF Letters
  <2>2. \A i \in Id : v.dead[i] = IF b.dead[i] = Untouched THEN d.dead[i] ELSE b.dead[i]
    BY <1>1, <1>3, Zenon DEF Over
  <2>3. Over(d.dead, dl) = [i \in Id |-> IF dl[i] = Untouched THEN d.dead[i] ELSE dl[i]]
    BY <1>3, Zenon DEF Over
  <2>4. dd = [i \in Id |-> dd[i]]
    BY DEF Letters
  <2> HIDE DEF dd, dl
  <2>5. \A i \in Id : dd[i] = IF dl[i] = Untouched THEN d.dead[i] ELSE dl[i]
    BY <2>1, <2>2, Zenon
  <2> QED BY <2>3, <2>4, <2>5 DEF dd
<1> HIDE DEF ob, dl
<1>10. /\ c \in Batch /\ c.flow = b.flow /\ c.expiry = b.expiry /\ c.dropped = b.dropped
       /\ c.outbox = ob /\ c.dead = dl
  BY <1>2, <1>6, <1>7, BatchFields DEF Batch, Cellular
<1> QED BY <1>8, <1>9, <1>10, ViewFields

\* The dead letters that stay after the loop over the results.
Kept(outbox, dead, results) ==
    LET all == Letters(outbox, dead, results)
    IN  IF Losses(outbox, results) = {} THEN Present(all) ELSE Top(all, Present(all))

\* What the port says of ResolveOutbox, in these terms.
LEMMA ResolveIs ==
    ASSUME Counting, NEW s \in Contents, NEW results, Verdicts(results)
    PROVE  LET dd == Letters(s.outbox, s.dead, results)
               kept == Kept(s.outbox, s.dead, results)
           IN  Resolve(s, results) =
                  [flows |-> s.flows, outbox |-> Rest(s.outbox, results),
                   dead |-> Keep(dd, kept),
                   dropped |-> s.dropped + Cardinality(Present(dd) \ kept)]
<1> DEFINE dd == Letters(s.outbox, s.dead, results)
           lost == Losses(s.outbox, results)
           hit == {i \in DOMAIN results : s.outbox[i] # None}
           gave == {i \in hit : results[i].as = "permanent"}
           again == {i \in hit : results[i].as = "retryable"}
           letters == [i \in Id |-> IF i \in gave THEN Rejected(s.outbox[i], results[i])
                                    ELSE s.dead[i]]
           left == IF gave = {} THEN Present(letters) ELSE Newest(letters)
           X == [i \in Id |-> IF i \in again THEN Retried(s.outbox[i], results[i])
                              ELSE IF i \in hit THEN None ELSE s.outbox[i]]
           Y == Keep(letters, left)
           n == s.dropped + Cardinality(Present(letters) \ left)
           e == Resolve(s, results)
<1>1. s.outbox \in [Id -> Record \cup {None}] /\ s.dead \in [Id -> Record \cup {None}]
  BY DEF Contents
<1>2. dd \in [Id -> Record \cup {None}]
  BY <1>1, SettledTypes, Zenon
<1>3. e = [s EXCEPT !.outbox = X, !.dead = Y, !.dropped = n]
  BY DEF Resolve
<1>4. gave = lost
  BY Zenon DEF Losses
<1>5. letters = dd
  BY <1>4, Zenon DEF Letters
<1>6. left = Kept(s.outbox, s.dead, results)
  <2>1. Newest(dd) = Top(dd, Present(dd))
    BY <1>2, Complement, Zenon
  <2> QED BY <1>4, <1>5, <2>1, Zenon DEF Kept
<1>7. X = Rest(s.outbox, results)
  BY Zenon DEF Rest
<1> HIDE DEF e, X, Y, n
<1>8. e = [flows |-> s.flows, outbox |-> X, dead |-> Y, dropped |-> n]
  BY <1>3, Zenon DEF Contents
<1> QED BY <1>5, <1>6, <1>7, <1>8, Zenon DEF e, Y, n

\* ResolveOutbox has the effect the port says, trim and drop counter included.
LEMMA ResolveEffect ==
    ASSUME Counting, NEW d \in Database, NEW b \in Batch, NEW results, Verdicts(results), NEW c,
           c = ResolveOutbox(d, b, results)
    PROVE  /\ c \in Batch /\ c.flow = b.flow /\ c.expiry = b.expiry
           /\ Content(View(d, c)) = Resolve(Content(View(d, b)), results)
<1> DEFINE v == View(d, b)
           s == Content(v)
           lost == Losses(v.outbox, results)
           settled == Settle(d, b, results)
           oo == Rest(v.outbox, results)
           dd == Letters(v.outbox, v.dead, results)
           gone == Trimmed(dd)
           kept == Kept(v.outbox, v.dead, results)
<1>1. /\ v \in Database /\ v.outbox \in [Id -> Record \cup {None}]
      /\ v.dead \in [Id -> Record \cup {None}] /\ v.dropped \in Nat \cup {None}
  BY ViewFields, DatabaseFields
<1>2. dd \in [Id -> Record \cup {None}]
  BY <1>1, SettledTypes, Zenon
<1>3. /\ settled \in Batch /\ settled.flow = b.flow /\ settled.expiry = b.expiry
      /\ settled.dropped = b.dropped
      /\ View(d, settled).flow = v.flow /\ View(d, settled).dropped = v.dropped
      /\ View(d, settled).outbox = oo /\ View(d, settled).dead = dd
  <2>1. settled = Settle(d, b, results)
    OBVIOUS
  <2> HIDE DEF settled
  <2> QED BY <2>1, SettleEffect
<1>4. /\ gone \subseteq Present(dd) /\ Present(dd) \subseteq Id
      /\ Present(dd) \ gone = Top(dd, Present(dd))
  <2>1. Present(dd) \subseteq Id
    BY <1>2 DEF Present
  <2> QED BY <1>2, <2>1, Complement, Zenon
<1>5. IsFiniteSet(gone) /\ Cardinality(gone) \in Nat
  <2>1. gone \subseteq Id /\ IsFiniteSet(Id)
    BY <1>4, OutboxRecordAssumption, Zenon
  <2> HIDE DEF gone
  <2> QED BY <2>1, Part, Zenon
<1>6. Dropped(v) \in Nat
  BY <1>1, Zenon DEF Dropped
<1>7. kept = IF lost = {} THEN Present(dd) ELSE Present(dd) \ gone
  BY <1>4, Zenon DEF Kept
<1>8. c = IF lost = {} THEN settled
          ELSE [settled EXCEPT
                !.dead = [i \in Id |-> IF i \in gone THEN None ELSE @[i]],
                !.dropped = IF gone = {} THEN @
                            ELSE Cardinality(gone) + IF v.dropped = None THEN 0 ELSE v.dropped]
  BY <1>3 DEF ResolveOutbox
<1> HIDE DEF settled, oo, dd, gone, kept, lost
<1>9. /\ c \in Batch /\ c.flow = b.flow /\ c.expiry = b.expiry
      /\ View(d, c).flow = v.flow /\ View(d, c).outbox = oo
      /\ View(d, c).dead = Keep(dd, kept)
      /\ Dropped(View(d, c)) = Dropped(v) + Cardinality(Present(dd) \ kept)
  <2>1. CASE lost = {}
    <3>1. c = settled /\ kept = Present(dd)
      BY <1>7, <1>8, <2>1, Zenon
    <3>2. Keep(dd, Present(dd)) = dd
      BY <1>2 DEF Keep, Present
    <3>3. Cardinality(Present(dd) \ kept) = 0
      <4>1. Present(dd) \ kept = {}
        BY <3>1, Zenon
      <4> QED BY <4>1, Zenon DEF Counting
    <3>4. Dropped(View(d, c)) = Dropped(v)
      BY <1>3, <3>1, Zenon DEF Dropped
    <3> QED BY <1>3, <1>6, <3>1, <3>2, <3>3, <3>4
  <2>2. CASE lost # {}
    <3> DEFINE last == [i \in Id |-> IF i \in gone THEN None ELSE settled.dead[i]]
               n == IF gone = {} THEN b.dropped
                    ELSE Cardinality(gone) + IF v.dropped = None THEN 0 ELSE v.dropped
    <3>1. c = [settled EXCEPT !.dead = last, !.dropped = n]
      BY <1>3, <1>8, <2>2
    <3>2. n \in Nat \cup {None} \cup {Untouched}
      BY <1>1, <1>5, BatchFields
    <3>3. /\ settled.dead \in [Id -> Record \cup {None} \cup {Untouched}]
          /\ d.dead \in [Id -> Record \cup {None}] /\ dd = Over(d.dead, settled.dead)
          /\ oo = Over(d.outbox, settled.outbox)
      BY <1>3, BatchFields, DatabaseFields, ViewFields, Zenon
    <3>4. last \in [Id -> Record \cup {None} \cup {Untouched}]
      BY <3>3
    <3>5. Over(d.dead, last) = [i \in Id |-> IF i \in gone THEN None ELSE dd[i]]
      BY <3>3, <3>4, Marked DEF Over
    <3> HIDE DEF last, n
    <3>6. c = [flow |-> settled.flow, expiry |-> settled.expiry, outbox |-> settled.outbox,
               dead |-> last, dropped |-> n]
      BY <1>3, <3>1, Zenon DEF Batch, Cellular
    <3>7. c \in Batch /\ c.flow = b.flow /\ c.expiry = b.expiry
      BY <1>3, <3>2, <3>4, <3>6, BatchFields DEF Batch, Cellular
    <3>8. /\ View(d, c).flow = v.flow /\ View(d, c).outbox = oo
          /\ View(d, c).dead = Over(d.dead, last)
          /\ View(d, c).dropped = IF n = Untouched THEN d.dropped ELSE n
      <4>1. /\ c.flow = settled.flow /\ c.outbox = settled.outbox /\ c.dead = last /\ c.dropped = n
        BY <3>6
      <4> HIDE DEF v
      <4>2. /\ View(d, c).flow = Over(d.flow, settled.flow) /\ View(d, c).outbox = oo
            /\ View(d, c).dead = Over(d.dead, last)
            /\ View(d, c).dropped = IF n = Untouched THEN d.dropped ELSE n
        BY <3>3, <3>7, <4>1, ViewFields
      <4>3. View(d, settled).flow = Over(d.flow, settled.flow)
        BY <1>3, ViewFields, Zenon
      <4> QED BY <1>3, <4>2, <4>3
    <3>9. kept = Present(dd) \ gone /\ Present(dd) \ kept = gone
      BY <1>4, <1>7, <2>2
    <3>10. Over(d.dead, last) = Keep(dd, kept)
      BY <1>2, <3>5, <3>9 DEF Keep, Present
    <3>11. Dropped(View(d, c)) = Dropped(v) + Cardinality(gone)
      <4>1. CASE gone = {}
        <5>1. n = b.dropped
          BY <4>1, Zenon DEF n
        <5>2. View(d, c).dropped = v.dropped
          BY <3>8, <5>1, ViewFields
        <5>3. Cardinality(gone) = 0
          BY <4>1, Zenon DEF Counting
        <5> QED BY <1>6, <5>2, <5>3 DEF Dropped
      <4>2. CASE gone # {}
        <5>1. n = Cardinality(gone) + Dropped(v)
          BY <4>2 DEF Dropped, n
        <5>2. n \in Nat
          BY <5>1, <1>5, <1>6
        <5>3. n # Untouched /\ n # None
          BY <5>2, OutboxRecordAssumption, Marked
        <5>4. Dropped(View(d, c)) = n
          BY <3>8, <5>3, Zenon DEF Dropped
        <5> QED BY <1>5, <1>6, <5>1, <5>4
      <4> QED BY <4>1, <4>2
    <3> QED BY <3>7, <3>8, <3>9, <3>10, <3>11, Zenon
  <2> QED BY <2>1, <2>2
<1>10. Resolve(s, results) =
          [flows |-> v.flow, outbox |-> oo, dead |-> Keep(dd, kept),
           dropped |-> Dropped(v) + Cardinality(Present(dd) \ kept)]
  <2>1. s.flows = v.flow /\ s.outbox = v.outbox /\ s.dead = v.dead /\ s.dropped = Dropped(v)
    BY DEF Content
  <2>2. s \in Contents
    BY <1>1, ContentType
  <2> HIDE DEF s
  <2> QED BY <2>1, <2>2, ResolveIs, Zenon DEF oo, dd, kept
<1> QED BY <1>9, <1>10 DEF Content
-----------------------------------------------------------------------------
\* The batch an operation leaves, as in Do.
Written(d, b, op) ==
    CASE op.kind = "save"    -> SaveFlow(d, b, op.key, op.at)
      [] op.kind = "delete"  -> DeleteFlow(d, b, op.key)
      [] op.kind = "enqueue" -> EnqueueOutbox(b, op.id, op.now)
      [] op.kind = "resolve" -> ResolveOutbox(d, b, op.results)
      [] op.kind = "replay"  -> ReplayDeadLetters(d, b, op.filter, op.now)

\* Every operation leaves a batch, has the effect the port says, and leaves
\* the index exact.
LEMMA OperationEffect ==
    ASSUME Counting, NEW d \in Database, NEW b \in Batch, NEW op \in Op
    PROVE  /\ Written(d, b, op) \in Batch
           /\ Content(View(d, Written(d, b, op))) = After(Content(View(d, b)), op)
           /\ Exact(View(d, b)) => Exact(View(d, Written(d, b, op)))
<1> DEFINE v == View(d, b)
           s == Content(v)
           c == Written(d, b, op)
<1>1. IsOperation(op)
  BY OpAssumption
<1>2. /\ s.flows = v.flow /\ s.outbox = v.outbox /\ s.dead = v.dead /\ s.dropped = Dropped(v)
      /\ s \in Contents
  BY ViewFields, ContentType, Zenon DEF Content
<1>3. CASE op.kind \in {"save", "delete"}
  <2> DEFINE at == IF op.kind = "save" THEN op.at ELSE None
  <2>1. /\ op.key \in Key /\ at \in Time \cup {None}
        /\ \/ at \in Time /\ c = SaveFlow(d, b, op.key, at)
           \/ at = None /\ c = DeleteFlow(d, b, op.key)
    BY <1>1, <1>3 DEF IsOperation, Written
  <2>2. After(s, op) = [s EXCEPT !.flows[op.key] = at]
    BY <1>3, Zenon DEF After
  <2> HIDE DEF at, c, s
  <2>3. /\ c \in Batch
        /\ View(d, c).flow = [v.flow EXCEPT ![op.key] = at]
        /\ View(d, c).outbox = v.outbox /\ View(d, c).dead = v.dead
        /\ View(d, c).dropped = v.dropped
        /\ Exact(v) => Exact(View(d, c))
    BY <2>1, FlowEffect
  <2>4. [s EXCEPT !.flows[op.key] = at] =
           [flows |-> [s.flows EXCEPT ![op.key] = at], outbox |-> s.outbox,
            dead |-> s.dead, dropped |-> s.dropped]
    BY <1>2 DEF Contents
  <2>5. Content(View(d, c)) = [s EXCEPT !.flows[op.key] = at]
    BY <1>2, <2>3, <2>4 DEF Content, Dropped
  <2> QED BY <2>2, <2>3, <2>5 DEF c, s
<1>4. CASE op.kind = "enqueue"
  <2>1. op.id \in Id /\ op.now \in Time /\ c = EnqueueOutbox(b, op.id, op.now)
    BY <1>1, <1>4 DEF IsOperation, Written
  <2>2. After(s, op) = [s EXCEPT !.outbox[op.id] = NewRecord(op.now)]
    BY <1>4 DEF After
  <2> HIDE DEF c, s
  <2>3. /\ c \in Batch /\ c.flow = b.flow /\ c.expiry = b.expiry
        /\ Content(View(d, c)) = [Content(View(d, b)) EXCEPT !.outbox[op.id] = NewRecord(op.now)]
    BY <2>1, EnqueueEffect
  <2> QED BY <2>2, <2>3, FamiliesApart DEF c, s
<1>5. CASE op.kind = "replay"
  <2>1. op.filter \in Filter /\ op.now \in Time
        /\ c = ReplayDeadLetters(d, b, op.filter, op.now)
    BY <1>1, <1>5 DEF IsOperation, Written
  <2>2. After(s, op) = Replay(s, op.filter, op.now)
    BY <1>5 DEF After
  <2> HIDE DEF c, s
  <2>3. /\ c \in Batch /\ c.flow = b.flow /\ c.expiry = b.expiry
        /\ Content(View(d, c)) = Replay(Content(View(d, b)), op.filter, op.now)
    BY <2>1, ReplayEffect
  <2> QED BY <2>2, <2>3, FamiliesApart DEF c, s
<1>6. CASE op.kind = "resolve"
  <2>1. Verdicts(op.results) /\ c = ResolveOutbox(d, b, op.results)
    BY <1>1, <1>6 DEF IsOperation, Written, Verdicts
  <2>2. After(s, op) = Resolve(s, op.results)
    BY <1>6 DEF After
  <2> HIDE DEF c, s
  <2>3. /\ c \in Batch /\ c.flow = b.flow /\ c.expiry = b.expiry
        /\ Content(View(d, c)) = Resolve(Content(View(d, b)), op.results)
    BY <2>1, ResolveEffect
  <2> QED BY <2>2, <2>3, FamiliesApart DEF c, s
<1>7. op.kind \in {"save", "delete", "enqueue", "replay", "resolve"}
  BY <1>1 DEF IsOperation
<1> QED BY <1>3, <1>4, <1>5, <1>6, <1>7

\* A fresh batch shows the database.
LEMMA FreshBatch ==
    ASSUME NEW d \in Database
    PROVE  Cells(Untouched) \in Batch /\ View(d, Cells(Untouched)) = d
<1>1. Cells(Untouched) \in Batch
  BY DEF Cells, Batch, Cellular
<1>2. /\ Over(d.flow, [k \in Key |-> Untouched]) = d.flow
      /\ Over(d.expiry, [x \in Cell |-> Untouched]) = d.expiry
      /\ Over(d.outbox, [i \in Id |-> Untouched]) = d.outbox
      /\ Over(d.dead, [i \in Id |-> Untouched]) = d.dead
  BY DatabaseFields, Zenon DEF Over
<1>3. View(d, Cells(Untouched)) =
        [flow |-> d.flow, expiry |-> d.expiry, outbox |-> d.outbox, dead |-> d.dead,
         dropped |-> d.dropped]
  BY <1>2 DEF View, Cells
<1> QED BY <1>1, <1>3, DatabaseFields

\* The inductive invariant: the families hold what they may, and the index is
\* exact in the database, on the disk and in the running transaction.
IInv ==
    /\ db \in Database
    /\ synced \in Database
    /\ batch \in Batch \cup {None}
    /\ Exact(db) /\ Exact(synced) /\ (batch # None => Exact(View(db, batch)))

\* A new store satisfies the invariant.
LEMMA InitInv == ASSUME Init PROVE IInv
<1>1. Cells(None) \in Database
  BY DEF Cells, Database, Cellular
<1>2. Exact(Cells(None))
  BY DEF Exact, Cells, Cell
<1> QED BY <1>1, <1>2 DEF Init, IInv

\* A step keeps the invariant and is a step of the port, or changes nothing
\* the port can see.
LEMMA StepInv ==
    ASSUME Counting, IInv, [Next]_vars
    PROVE  IInv' /\ [Contract!Next]_(Contract!vars)
<1> DEFINE stage == IF batch = None THEN None ELSE Content(View(db, batch))
<1> USE DEF IInv
<1>1. None \notin Batch /\ None \notin Contents
  BY Marked
<1>2. batch # None => batch \in Batch /\ Content(View(db, batch)) # None
  BY <1>1, ViewFields, ContentType
<1>3. CASE Begin
  <2>1. batch' \in Batch /\ View(db, batch') = db
    BY <1>3, FreshBatch DEF Begin
  <2>2. IInv'
    BY <1>3, <2>1 DEF Begin
  <2>3. Contract!Begin
    BY <1>1, <1>3, <2>1 DEF Begin, Contract!Begin
  <2> QED BY <2>2, <2>3 DEF Contract!Next
<1>4. ASSUME NEW op \in Op, Do(op) PROVE IInv' /\ [Contract!Next]_(Contract!vars)
  <2>1. batch # None /\ batch' = Written(db, batch, op) /\ UNCHANGED <<db, synced>>
    BY <1>4 DEF Do, Written
  <2>2. /\ batch' \in Batch
        /\ Content(View(db, batch')) = After(Content(View(db, batch)), op)
        /\ Exact(View(db, batch'))
    BY <1>2, <2>1, OperationEffect
  <2>3. IInv'
    BY <2>1, <2>2
  <2>4. Contract!Do(op)
    BY <1>1, <1>2, <2>1, <2>2 DEF Contract!Do
  <2> QED BY <2>3, <2>4 DEF Contract!Next
<1>5. CASE Commit
  <2>1. View(db, batch) \in Database
    BY <1>2, <1>5, ViewFields DEF Commit
  <2>2. IInv'
    BY <1>5, <2>1 DEF Commit
  <2>3. Contract!Commit
    BY <1>2, <1>5 DEF Commit, Contract!Commit
  <2> QED BY <2>2, <2>3 DEF Contract!Next
<1>6. CASE Rollback
  <2>1. IInv'
    BY <1>6 DEF Rollback
  <2>2. Contract!Rollback
    BY <1>2, <1>6 DEF Rollback, Contract!Rollback
  <2> QED BY <2>1, <2>2 DEF Contract!Next
<1>7. CASE Sync
  <2>1. IInv'
    BY <1>7 DEF Sync
  <2>2. Contract!Sync
    BY <1>7 DEF Sync, Contract!Sync
  <2> QED BY <2>1, <2>2 DEF Contract!Next
<1>8. CASE Crash
  <2>1. IInv'
    BY <1>8 DEF Crash
  <2>2. Contract!Crash
    BY <1>8 DEF Crash, Contract!Crash
  <2> QED BY <2>1, <2>2 DEF Contract!Next
<1>9. CASE UNCHANGED vars
  BY <1>9 DEF vars, Contract!vars
<1> QED BY <1>3, <1>4, <1>5, <1>6, <1>7, <1>8, <1>9, SMTT(30) DEF Next
-----------------------------------------------------------------------------
\* A part that leaves out an element is smaller.
LEMMA Smaller ==
    ASSUME Counting, NEW S, NEW T, IsFiniteSet(S), T \subseteq S, NEW x \in S, x \notin T
    PROVE  Cardinality(T) < Cardinality(S)
<1>1. IsFiniteSet(S \ {x}) /\ T \subseteq S \ {x} /\ Cardinality(S) \in Nat
  BY Part, Zenon
<1>2. Cardinality(S \ {x}) = Cardinality(S) - 1
  BY Zenon DEF Counting
<1>3. /\ Cardinality(S \ {x}) = Cardinality(T) + Cardinality((S \ {x}) \ T)
      /\ Cardinality(T) \in Nat /\ Cardinality((S \ {x}) \ T) \in Nat
  BY <1>1, Part, Zenon
<1> QED BY <1>1, <1>2, <1>3
-----------------------------------------------------------------------------
Below(R, S, x) == {y \in S : <<y, x>> \in R}
Rank(R, S, x) == Cardinality(Below(R, S, x))

Ranked(R, S) ==
    /\ \A x \in S : Rank(R, S, x) \in 0..(Cardinality(S) - 1)
    /\ \A x, y \in S : <<x, y>> \in R <=> Rank(R, S, x) < Rank(R, S, y)
    /\ \A n \in 0..(Cardinality(S) - 1) : \E x \in S : Rank(R, S, x) = n

\* The ranks grow with the order, and every rank is taken.
LEMMA Ranks ==
    ASSUME Counting, NEW S, NEW R, IsFiniteSet(S), Orders(R, S)
    PROVE  Ranked(R, S)
<1>1. \A x \in S : Below(R, S, x) \subseteq S /\ x \notin Below(R, S, x)
  BY Zenon DEF Below, Orders
<1>2. \A x \in S : IsFiniteSet(Below(R, S, x)) /\ Rank(R, S, x) \in Nat
  BY <1>1, Part, Zenon DEF Rank
<1>3. \A x \in S : Rank(R, S, x) < Cardinality(S)
  BY <1>1, Smaller, Zenon DEF Rank
<1>4. Cardinality(S) \in Nat
  BY Zenon DEF Counting
<1>5. ASSUME NEW x \in S, NEW y \in S, <<x, y>> \in R
      PROVE  Rank(R, S, x) < Rank(R, S, y)
  <2>1. Below(R, S, x) \subseteq Below(R, S, y)
    BY <1>5, Zenon DEF Below, Orders
  <2>2. x \in Below(R, S, y) /\ x \notin Below(R, S, x)
    BY <1>5, Zenon DEF Below, Orders
  <2> QED BY <1>2, <2>1, <2>2, Smaller, Zenon DEF Rank
<1>6. ASSUME NEW x \in S, NEW y \in S, Rank(R, S, x) < Rank(R, S, y)
      PROVE  <<x, y>> \in R
  <2>1. x # y
    BY <1>2, <1>6
  <2>2. <<y, x>> \notin R
    BY <1>2, <1>5, <1>6
  <2> QED BY <2>1, <2>2, Zenon DEF Orders
<1>7. \A x \in S : Rank(R, S, x) \in 0..(Cardinality(S) - 1)
  BY <1>2, <1>3, <1>4
<1> DEFINE f == [x \in S |-> Rank(R, S, x)]
<1>8. f \in [S -> 0..(Cardinality(S) - 1)]
  BY <1>7
<1>9. ASSUME NEW x \in S, NEW y \in S, f[x] = f[y] PROVE x = y
  <2>1. Rank(R, S, x) = Rank(R, S, y)
    BY <1>9
  <2>2. <<x, y>> \notin R /\ <<y, x>> \notin R
    BY <1>2, <1>5, <2>1
  <2> QED BY <2>2, Zenon DEF Orders
<1>10. \A x \in S : f[x] = Rank(R, S, x)
  OBVIOUS
<1> HIDE DEF f
<1>11. \A n \in 0..(Cardinality(S) - 1) : \E x \in S : f[x] = n
  <2>1. \A x, y \in S : f[x] = f[y] => x = y
    BY <1>9
  <2> QED BY <1>8, <2>1 DEF Counting
<1>12. \A n \in 0..(Cardinality(S) - 1) : \E x \in S : Rank(R, S, x) = n
  BY <1>10, <1>11, Zenon
<1> QED BY <1>5, <1>6, <1>7, <1>12, Zenon DEF Ranked

\* The sequence q has the elements of S, in the order R.
Sorts(q, R, S) ==
    /\ q \in [1..Cardinality(S) -> S]
    /\ \A i, j \in 1..Cardinality(S) : i < j <=> <<q[i], q[j]>> \in R
    /\ \A x \in S : \E i \in 1..Cardinality(S) : q[i] = x

\* A sort lists every element once, in order.
LEMMA SortedIs ==
    ASSUME Counting, NEW S, NEW R, IsFiniteSet(S), Orders(R, S)
    PROVE  Sorts(Sorted(S, R), R, S)
<1> DEFINE n == Cardinality(S)
           s == Sorted(S, R)
<1>1. n \in Nat
  BY Zenon DEF Counting
<1>2. \A i \in 1..n : s[i] = CHOOSE x \in S : Rank(R, S, x) = i - 1
  BY DEF Sorted, Rank, Below
<1>3. s = [i \in 1..n |-> CHOOSE x \in S : Rank(R, S, x) = i - 1]
  BY DEF Sorted, Rank, Below
<1> HIDE DEF n, s
<1>4. \A i \in 1..n : i - 1 \in 0..(n - 1)
  BY <1>1
<1>5. \A i \in 1..n : \E x \in S : Rank(R, S, x) = i - 1
  BY <1>4, Ranks DEF n, Ranked
<1>6. \A i \in 1..n : s[i] \in S /\ Rank(R, S, s[i]) = i - 1
  BY <1>2, <1>5
<1>7. \A i, j \in 1..n : i < j <=> Rank(R, S, s[i]) < Rank(R, S, s[j])
  BY <1>1, <1>6
<1>8. \A i, j \in 1..n : i < j <=> <<s[i], s[j]>> \in R
  BY <1>6, <1>7, Ranks, Zenon DEF Ranked
<1>9. ASSUME NEW x \in S PROVE \E i \in 1..n : s[i] = x
  <2>1. Rank(R, S, x) \in 0..(n - 1)
    BY Ranks, Zenon DEF n, Ranked
  <2> DEFINE i == Rank(R, S, x) + 1
  <2>2. i \in 1..n /\ i - 1 = Rank(R, S, x)
    BY <1>1, <2>1
  <2> HIDE DEF i
  <2>3. s[i] \in S /\ Rank(R, S, s[i]) = Rank(R, S, x)
    BY <1>6, <2>2
  <2>4. Rank(R, S, x) \in Nat
    BY <1>1, <2>1
  <2>5. <<x, s[i]>> \notin R /\ <<s[i], x>> \notin R
    BY <2>3, <2>4, Ranks DEF Ranked
  <2> QED BY <2>2, <2>3, <2>5, Zenon DEF Orders
<1>10. s \in [1..n -> S]
  BY <1>2, <1>3, <1>6
<1> QED BY <1>8, <1>9, <1>10, Zenon DEF n, s, Sorts

\* An order by a first number and, if it is the same, by a second one.
LEMMA Lexical ==
    ASSUME NEW S, NEW R, NEW a, NEW b,
           \A x \in S : a[x] \in Nat /\ b[x] \in Nat,
           \A x, y \in S : b[x] = b[y] => x = y,
           \A x, y \in S : <<x, y>> \in R <=> a[x] < a[y] \/ (a[x] = a[y] /\ b[x] < b[y])
    PROVE  Orders(R, S)
<1>1. \A x \in S : <<x, x>> \notin R
  OBVIOUS
<1>2. ASSUME NEW x \in S, NEW y \in S, x # y
      PROVE  <<x, y>> \in R \/ <<y, x>> \in R
  <2>1. b[x] # b[y] /\ a[x] \in Nat /\ a[y] \in Nat /\ b[x] \in Nat /\ b[y] \in Nat
    BY <1>2
  <2>2. \/ a[x] < a[y] \/ (a[x] = a[y] /\ b[x] < b[y])
        \/ a[y] < a[x] \/ (a[y] = a[x] /\ b[y] < b[x])
    BY <2>1
  <2> QED BY <2>2, Zenon
<1>3. ASSUME NEW x \in S, NEW y \in S, NEW z \in S, <<x, y>> \in R, <<y, z>> \in R
      PROVE  <<x, z>> \in R
  BY <1>3
<1> QED BY <1>1, <1>2, <1>3, Zenon DEF Orders

\* The order of numbers.
Less(S) == {p \in S \X S : p[1] < p[2]}

LEMMA LessOrders ==
    ASSUME NEW S, S \subseteq Nat
    PROVE  /\ Orders(Less(S), S)
           /\ \A x, y \in S : <<x, y>> \in Less(S) <=> x < y
<1>1. \A x, y \in S : <<x, y>> \in Less(S) <=> x < y
  BY DEF Less
<1>2. \A x \in S : x \in Nat
  OBVIOUS
<1> QED BY <1>1, <1>2 DEF Orders

\* A page: the whole set if the limit allows, and else a front with a last
\* element.
LEMMA Firsts ==
    ASSUME Counting, NEW S, S \subseteq Nat, IsFiniteSet(S), NEW limit \in Nat
    PROVE  /\ First(S, limit) \subseteq S
           /\ \A x \in First(S, limit), y \in S : y < x => y \in First(S, limit)
           /\ First(S, limit) = S <=> limit = 0 \/ Cardinality(S) <= limit
           /\ First(S, limit) # S =>
                 \E m \in First(S, limit) : \A x \in First(S, limit) : x <= m
<1> DEFINE R == Less(S)
           F == First(S, limit)
<1>1. CASE limit = 0
  <2>1. F = S
    BY <1>1 DEF First
  <2> QED BY <1>1, <2>1
<1>2. CASE limit # 0
  <2>1. \A x \in S : Below(R, S, x) = {y \in S : y < x}
    BY DEF Below, Less
  <2>2. F = {x \in S : Rank(R, S, x) < limit}
    BY <1>2, <2>1 DEF First, Rank
  <2>3. Orders(R, S)
    BY LessOrders, Zenon
  <2>4. \A x, y \in S : <<x, y>> \in R <=> x < y
    BY LessOrders, Zenon
  <2> HIDE DEF R, F
  <2>5. Ranked(R, S)
    BY <2>3, Ranks
  <2> DEFINE c == Cardinality(S)
             r == [x \in S |-> Rank(R, S, x)]
  <2>6. c \in Nat
    BY Zenon DEF Counting
  <2>7. F = {x \in S : r[x] < limit}
    BY <2>2
  <2>8. /\ \A x \in S : r[x] \in 0..(c - 1)
        /\ \A n \in 0..(c - 1) : \E x \in S : r[x] = n
    BY <2>5 DEF Ranked
  <2>9. \A x, y \in S : x < y <=> r[x] < r[y]
    BY <2>4, <2>5, Zenon DEF Ranked
  <2> HIDE DEF c, r
  <2>10. \A x \in S : r[x] \in Nat /\ r[x] < c /\ x \in Nat
    BY <2>6, <2>8
  <2>11. ASSUME NEW x \in F, NEW y \in S, y < x PROVE y \in F
    <3>1. x \in S /\ r[x] < limit /\ r[y] < r[x]
      BY <2>7, <2>9, <2>11
    <3>2. r[y] < limit
      BY <2>10, <3>1
    <3> QED BY <2>7, <3>2
  <2>12. ASSUME c <= limit PROVE F = S
    <3>1. \A x \in S : r[x] < limit
      BY <2>6, <2>10, <2>12
    <3> QED BY <2>7, <3>1, Zenon
  <2>13. ASSUME ~(c <= limit)
         PROVE  F # S /\ \E m \in F : \A x \in F : x <= m
    <3>1. limit \in 0..(c - 1) /\ limit - 1 \in 0..(c - 1)
      BY <1>2, <2>6, <2>13
    <3>2. PICK x \in S : r[x] = limit
      BY <2>8, <3>1
    <3>3. x \notin F
      BY <2>7, <3>2
    <3>4. PICK m \in S : r[m] = limit - 1
      BY <2>8, <3>1
    <3>5. m \in F
      BY <2>7, <3>4
    <3>6. \A y \in F : y <= m
      BY <2>7, <2>9, <2>10, <3>4
    <3> QED BY <3>3, <3>5, <3>6
  <2>14. F \subseteq S
    BY <2>7
  <2> QED BY <1>2, <2>11, <2>12, <2>13, <2>14 DEF F, c
<1> QED BY <1>1, <1>2
-----------------------------------------------------------------------------
\* One turn of the loop of trimDeadLetters.
TrimTurn(g, f, S) ==
    IF Cardinality(S) <= MaxDLQ THEN S ELSE g[S \ {Oldest(f, S)}]

TrimLoop(g, f) == g = [S \in SUBSET Present(f) |-> TrimTurn(g, f, S)]

\* The oldest record is there to remove, and removing it leaves the newest.
LEMMA TrimStep ==
    ASSUME Counting, NEW f \in [Id -> Record \cup {None}], NEW S, S \subseteq Present(f)
    PROVE  /\ IsFiniteSet(S) /\ Cardinality(S) \in Nat
           /\ Cardinality(S) <= MaxDLQ => Top(f, S) = S
           /\ ~(Cardinality(S) <= MaxDLQ) =>
                 /\ Oldest(f, S) \in S
                 /\ Top(f, S \ {Oldest(f, S)}) = Top(f, S)
<1> DEFINE R == Younger(f, S)
           c == Cardinality(S)
           o == Oldest(f, S)
<1>1. /\ Orders(R, S) /\ S \subseteq Id
      /\ \A x, y \in S : <<x, y>> \in R <=> Older(f, y, x)
  BY AgeOrders, Zenon
<1>2. IsFiniteSet(S) /\ c \in Nat
  BY <1>1, Part, OutboxRecordAssumption, Zenon
<1>3. \A x \in S : Below(R, S, x) = {y \in S : Older(f, x, y)}
  BY <1>1, Zenon DEF Below
<1>4. Top(f, S) = {x \in S : Rank(R, S, x) < MaxDLQ}
  BY <1>3, Zenon DEF Top, Rank
<1> HIDE DEF R
<1>5. Ranked(R, S)
  BY <1>1, <1>2, Ranks, Zenon
<1> DEFINE r == [x \in S |-> Rank(R, S, x)]
<1>6. /\ \A x \in S : r[x] \in 0..(c - 1)
      /\ \A n \in 0..(c - 1) : \E x \in S : r[x] = n
  BY <1>5 DEF Ranked
<1>7. \A x, y \in S : Older(f, y, x) <=> r[x] < r[y]
  BY <1>1, <1>5, Zenon DEF Ranked
<1>8. Top(f, S) = {x \in S : r[x] < MaxDLQ}
  BY <1>4, Zenon
<1> HIDE DEF c, r
<1>9. MaxDLQ \in Nat /\ \A x \in S : r[x] \in Nat /\ r[x] < c
  BY <1>2, <1>6, OutboxRecordAssumption
<1>10. ASSUME c <= MaxDLQ PROVE Top(f, S) = S
  <2>1. \A x \in S : r[x] < MaxDLQ
    BY <1>2, <1>9, <1>10
  <2> QED BY <1>8, <2>1, Zenon
<1>11. ASSUME ~(c <= MaxDLQ)
       PROVE  o \in S /\ Top(f, S \ {o}) = Top(f, S)
  <2>1. PICK m \in S : r[m] = c - 1
    <3>1. c - 1 \in 0..(c - 1)
      BY <1>2, <1>9, <1>11
    <3> QED BY <1>6, <3>1, Zenon
  <2>2. \A x, y \in S : r[x] = r[y] => x = y
    <3>1. \A x, y \in S : x = y \/ Older(f, x, y) \/ Older(f, y, x)
      BY <1>1, Zenon DEF Orders
    <3> QED BY <1>7, <1>9, <3>1
  <2>3. \A x \in S \ {m} : Older(f, m, x)
    BY <1>2, <1>7, <1>9, <2>1, <2>2
  <2>4. o = CHOOSE i \in S : \A j \in S \ {i} : Older(f, i, j)
    BY Zenon DEF Oldest
  <2> HIDE DEF o
  <2>5. o \in S /\ \A j \in S \ {o} : Older(f, o, j)
    BY <2>3, <2>4, Zenon
  <2>6. o = m
    BY <1>7, <1>9, <2>1, <2>3, <2>5
  <2>7. o \notin Top(f, S)
    BY <1>2, <1>8, <1>9, <1>11, <2>1, <2>6
  <2>8. \A x \in S \ {o} : ~Older(f, x, o)
    BY <1>7, <1>9, <2>5
  <2>9. ASSUME NEW x \in S \ {o}
        PROVE  {y \in S \ {o} : Older(f, x, y)} = {y \in S : Older(f, x, y)}
    BY <2>8, Zenon
  <2> QED BY <2>5, <2>7, <2>9 DEF Top
<1> QED BY <1>2, <1>10, <1>11, Zenon DEF c

\* The loop of trimDeadLetters ends with the newest dead letters.
LEMMA TrimIs ==
    ASSUME Counting, NEW f \in [Id -> Record \cup {None}]
    PROVE  MemTrim(f) = Top(f, Present(f))
<1> DEFINE D == SUBSET Present(f)
           w == [S \in D |-> Top(f, S)]
           rest == CHOOSE g : TrimLoop(g, f)
<1>1. /\ SUBSET Present(f) = D
      /\ \A S : Cardinality(S) = Cardinality(S)
  BY Zenon
<1>2. \A S \in D : IsFiniteSet(S) /\ Cardinality(S) \in Nat
  BY TrimStep, Zenon
<1>3. \A S \in D : Cardinality(S) <= MaxDLQ => Top(f, S) = S
  BY TrimStep, Zenon
<1>4. \A S \in D : ~(Cardinality(S) <= MaxDLQ) =>
         /\ Oldest(f, S) \in S /\ S \ {Oldest(f, S)} \in D
         /\ Top(f, S \ {Oldest(f, S)}) = Top(f, S)
  BY TrimStep, Zenon
<1>5. TrimLoop(w, f)
  <2>1. ASSUME NEW S \in D PROVE w[S] = TrimTurn(w, f, S)
    <3>1. CASE Cardinality(S) <= MaxDLQ
      BY <1>1, <1>3, <3>1, Zenon DEF TrimTurn
    <3>2. CASE ~(Cardinality(S) <= MaxDLQ)
      <4>1. w[S \ {Oldest(f, S)}] = Top(f, S)
        BY <1>4, <3>2, Zenon
      <4> QED BY <1>1, <3>2, <4>1, Zenon DEF TrimTurn
    <3> QED BY <3>1, <3>2
  <2>2. w = [S \in D |-> w[S]]
    BY Zenon
  <2> HIDE DEF w, D
  <2> QED BY <1>1, <2>1, <2>2, Zenon DEF TrimLoop
<1>6. TrimLoop(rest, f)
  BY <1>5, Zenon
<1>7. MemTrim(f) = rest[Present(f)]
  BY DEF MemTrim, TrimLoop, TrimTurn
<1> HIDE DEF rest
<1>8. \A S \in D : rest[S] = IF Cardinality(S) <= MaxDLQ THEN S ELSE rest[S \ {Oldest(f, S)}]
  BY <1>1, <1>6, Zenon DEF TrimLoop, TrimTurn
<1> DEFINE Bad == {n \in Nat : \E S \in D : Cardinality(S) = n /\ rest[S] # Top(f, S)}
<1>9. Bad = {}
  <2> SUFFICES ASSUME Bad # {} PROVE FALSE
    OBVIOUS
  <2>1. PICK n \in Bad : \A m \in Bad : n <= m
    BY Zenon DEF Counting
  <2>2. PICK S \in D : Cardinality(S) = n /\ rest[S] # Top(f, S)
    BY <2>1, Zenon
  <2>3. ~(Cardinality(S) <= MaxDLQ)
    BY <1>3, <1>8, <2>2, Zenon
  <2> DEFINE T == S \ {Oldest(f, S)}
  <2>4. T \in D /\ rest[S] = rest[T] /\ Top(f, T) = Top(f, S) /\ Oldest(f, S) \in S
    BY <1>4, <1>8, <2>3, Zenon
  <2>5. Cardinality(T) = Cardinality(S) - 1
    BY <1>2, <2>4, Zenon DEF Counting
  <2>6. Cardinality(T) \in Nat
    BY <1>2, <2>4, Zenon
  <2>7. Cardinality(T) \in Bad
    BY <2>2, <2>4, <2>6, Zenon
  <2> HIDE DEF T, Bad
  <2>8. n <= n - 1 /\ n \in Nat
    BY <2>1, <2>2, <2>5, <2>7, <1>2, Zenon
  <2> QED BY <2>8
<1>10. Present(f) \in D
  OBVIOUS
<1>11. rest[Present(f)] = Top(f, Present(f))
  BY <1>2, <1>9, <1>10, Zenon
<1> QED BY <1>7, <1>11, Zenon
-----------------------------------------------------------------------------
\* The maps that hold a content.
MemOf(s) ==
    [flows |-> s.flows, records |-> s.outbox, dead |-> s.dead, dropped |-> s.dropped]

\* The clone an operation leaves, as in MemDo.
MemWritten(w, op) ==
    CASE op.kind = "save"    -> [w EXCEPT !.flows[op.key] = op.at]
      [] op.kind = "delete"  -> [w EXCEPT !.flows[op.key] = None]
      [] op.kind = "enqueue" -> [w EXCEPT !.records[op.id] = NewRecord(op.now)]
      [] op.kind = "resolve" -> MemResolveOutbox(w, op.results)
      [] op.kind = "replay"  -> MemReplayDeadLetters(w, op.filter, op.now)

\* The loop over the results in the in-memory store.
LEMMA MemSettleIs ==
    ASSUME NEW s, NEW results
    PROVE  /\ MemSettle(MemOf(s), results) =
                 [flows |-> s.flows, records |-> Rest(s.outbox, results),
                  dead |-> Letters(s.outbox, s.dead, results), dropped |-> s.dropped]
           /\ MemLosses(MemOf(s), results) = Losses(s.outbox, results)
<1> DEFINE w == MemOf(s)
           hit == {i \in DOMAIN results : w.records[i] # None}
           X == [i \in Id |-> IF i \notin hit THEN w.records[i]
                              ELSE IF results[i].as = "retryable"
                                   THEN Retried(w.records[i], results[i]) ELSE None]
           Y == [i \in Id |-> IF i \in hit /\ results[i].as = "permanent"
                              THEN Rejected(w.records[i], results[i]) ELSE w.dead[i]]
<1>1. /\ w.flows = s.flows /\ w.records = s.outbox /\ w.dead = s.dead /\ w.dropped = s.dropped
      /\ w = [flows |-> s.flows, records |-> s.outbox, dead |-> s.dead, dropped |-> s.dropped]
  BY DEF MemOf
<1>2. MemSettle(w, results) = [w EXCEPT !.records = X, !.dead = Y]
  BY DEF MemSettle
<1>3. X = Rest(s.outbox, results)
  BY <1>1, Zenon DEF Rest
<1>4. Y = Letters(s.outbox, s.dead, results)
  BY <1>1, Zenon DEF Letters, Losses
<1>5. MemLosses(w, results) = Losses(s.outbox, results)
  BY <1>1, Zenon DEF MemLosses, Losses
<1> HIDE DEF X, Y, w
<1>6. MemSettle(w, results) = [flows |-> s.flows, records |-> X, dead |-> Y, dropped |-> s.dropped]
  BY <1>1, <1>2
<1> QED BY <1>3, <1>4, <1>5, <1>6 DEF w

\* ResolveOutbox of the in-memory store has the effect the port says.
LEMMA MemResolveEffect ==
    ASSUME Counting, NEW s \in Contents, NEW results, Verdicts(results)
    PROVE  MemResolveOutbox(MemOf(s), results) = MemOf(Resolve(s, results))
<1> DEFINE w == MemOf(s)
           lost == Losses(s.outbox, results)
           settled == MemSettle(w, results)
           oo == Rest(s.outbox, results)
           dd == Letters(s.outbox, s.dead, results)
           kept == Kept(s.outbox, s.dead, results)
<1>1. /\ s.outbox \in [Id -> Record \cup {None}] /\ s.dead \in [Id -> Record \cup {None}]
      /\ s.dropped \in Nat
  BY DEF Contents
<1>2. dd \in [Id -> Record \cup {None}]
  BY <1>1, SettledTypes, Zenon
<1>3. /\ settled = [flows |-> s.flows, records |-> oo, dead |-> dd, dropped |-> s.dropped]
      /\ MemLosses(w, results) = lost
  BY MemSettleIs, Zenon
<1>4. MemTrim(dd) = Top(dd, Present(dd))
  BY <1>2, TrimIs, Zenon
<1>5. Resolve(s, results) =
         [flows |-> s.flows, outbox |-> oo, dead |-> Keep(dd, kept),
          dropped |-> s.dropped + Cardinality(Present(dd) \ kept)]
  BY ResolveIs, Zenon
<1>6. kept = IF lost = {} THEN Present(dd) ELSE MemTrim(dd)
  BY <1>4, Zenon DEF Kept
<1>7. MemResolveOutbox(w, results) =
         IF lost = {} THEN settled
         ELSE [settled EXCEPT !.dead = Keep(@, MemTrim(settled.dead)),
                 !.dropped = @ + Cardinality(Present(settled.dead) \ MemTrim(settled.dead))]
  BY <1>3, Zenon DEF MemResolveOutbox
<1> HIDE DEF w, lost, settled, oo, dd, kept
<1>8. CASE lost = {}
  <2>1. Keep(dd, kept) = dd
    BY <1>2, <1>6, <1>8 DEF Keep, Present
  <2>2. Cardinality(Present(dd) \ kept) = 0
    <3>1. Present(dd) \ kept = {}
      BY <1>6, <1>8, Zenon
    <3> QED BY <3>1, Zenon DEF Counting
  <2> QED BY <1>1, <1>3, <1>5, <1>7, <1>8, <2>1, <2>2 DEF MemOf, w
<1>9. CASE lost # {}
  <2>1. MemResolveOutbox(w, results) =
           [flows |-> s.flows, records |-> oo, dead |-> Keep(dd, kept),
            dropped |-> s.dropped + Cardinality(Present(dd) \ kept)]
    <3>1. settled.dead = dd /\ settled.dropped = s.dropped
      BY <1>3
    <3> DEFINE Y == Keep(dd, kept)
               n == s.dropped + Cardinality(Present(dd) \ kept)
    <3>2. MemResolveOutbox(w, results) = [settled EXCEPT !.dead = Y, !.dropped = n]
      BY <1>6, <1>7, <1>9, <3>1
    <3> HIDE DEF Y, n
    <3>3. MemResolveOutbox(w, results) =
             [flows |-> s.flows, records |-> oo, dead |-> Y, dropped |-> n]
      BY <1>3, <3>2
    <3> QED BY <3>3 DEF Y, n
  <2> QED BY <1>5, <2>1 DEF MemOf, w
<1> QED BY <1>8, <1>9

\* Every operation has the effect the port says in the in-memory store too.
LEMMA MemOperationEffect ==
    ASSUME Counting, NEW s \in Contents, NEW op \in Op
    PROVE  MemWritten(MemOf(s), op) = MemOf(After(s, op))
<1> DEFINE w == MemOf(s)
<1>1. IsOperation(op)
  BY OpAssumption
<1>2. /\ w = [flows |-> s.flows, records |-> s.outbox, dead |-> s.dead, dropped |-> s.dropped]
      /\ s = [flows |-> s.flows, outbox |-> s.outbox, dead |-> s.dead, dropped |-> s.dropped]
  BY DEF MemOf, Contents
<1>3. CASE op.kind \in {"save", "delete"}
  <2> DEFINE at == IF op.kind = "save" THEN op.at ELSE None
             X == [s.flows EXCEPT ![op.key] = at]
  <2>1. /\ After(s, op) = [s EXCEPT !.flows[op.key] = at]
        /\ MemWritten(w, op) = [w EXCEPT !.flows[op.key] = at]
    BY <1>3, Zenon DEF After, MemWritten
  <2> HIDE DEF w, at
  <2>2. /\ After(s, op) = [flows |-> X, outbox |-> s.outbox, dead |-> s.dead, dropped |-> s.dropped]
        /\ MemWritten(w, op) = [flows |-> X, records |-> s.outbox, dead |-> s.dead,
                                dropped |-> s.dropped]
    BY <1>2, <2>1
  <2> QED BY <2>2 DEF MemOf, w
<1>4. CASE op.kind = "enqueue"
  <2> DEFINE X == [s.outbox EXCEPT ![op.id] = NewRecord(op.now)]
  <2>1. /\ After(s, op) = [s EXCEPT !.outbox[op.id] = NewRecord(op.now)]
        /\ MemWritten(w, op) = [w EXCEPT !.records[op.id] = NewRecord(op.now)]
    BY <1>4 DEF After, MemWritten
  <2> HIDE DEF w
  <2>2. /\ After(s, op) = [flows |-> s.flows, outbox |-> X, dead |-> s.dead, dropped |-> s.dropped]
        /\ MemWritten(w, op) = [flows |-> s.flows, records |-> X, dead |-> s.dead,
                                dropped |-> s.dropped]
    BY <1>2, <2>1
  <2> QED BY <2>2 DEF MemOf, w
<1>5. CASE op.kind = "replay"
  <2> DEFINE moved == First({i \in Present(s.dead) : Matches(op.filter, i, s.dead[i])},
                            op.filter.limit)
             X == [i \in Id |-> IF i \in moved THEN Replayed(s.dead[i], op.now)
                                ELSE s.outbox[i]]
             Y == Keep(s.dead, Present(s.dead) \ moved)
  <2>1. w.records = s.outbox /\ w.dead = s.dead
    BY <1>2
  <2>2. After(s, op) = Replay(s, op.filter, op.now)
    BY <1>5 DEF After
  <2>3. MemWritten(w, op) = MemReplayDeadLetters(w, op.filter, op.now)
    BY <1>5 DEF MemWritten
  <2> HIDE DEF w
  <2>4. Chosen(w, op.filter) = moved
    BY <2>1, Zenon DEF Chosen
  <2>5. After(s, op) = [s EXCEPT !.outbox = X, !.dead = Y]
    BY <2>2, Zenon DEF Replay
  <2>6. MemWritten(w, op) = [w EXCEPT !.records = X, !.dead = Y]
    BY <2>1, <2>3, <2>4, Zenon DEF MemReplayDeadLetters
  <2> HIDE DEF X, Y
  <2>7. /\ After(s, op) = [flows |-> s.flows, outbox |-> X, dead |-> Y, dropped |-> s.dropped]
        /\ MemWritten(w, op) = [flows |-> s.flows, records |-> X, dead |-> Y,
                                dropped |-> s.dropped]
    BY <1>2, <2>5, <2>6
  <2> QED BY <2>7 DEF MemOf, w
<1>6. CASE op.kind = "resolve"
  <2>1. Verdicts(op.results)
    BY <1>1, <1>6 DEF IsOperation, Verdicts
  <2>2. After(s, op) = Resolve(s, op.results) /\ MemWritten(w, op) = MemResolveOutbox(w, op.results)
    BY <1>6 DEF After, MemWritten
  <2> QED BY <2>1, <2>2, MemResolveEffect, Zenon
<1>7. op.kind \in {"save", "delete", "enqueue", "replay", "resolve"}
  BY <1>1 DEF IsOperation
<1> QED BY <1>3, <1>4, <1>5, <1>6, <1>7
-----------------------------------------------------------------------------
\* The DeadLetterChange of ResolveOutbox and of ReplayDeadLetters.
Resolution(outbox, dead, results) ==
    LET lost == Losses(outbox, results)
        all == Letters(outbox, dead, results)
        kept == Kept(outbox, dead, results)
    IN  IF lost = {} THEN NoChange
        ELSE [changed |-> TRUE,
              records |-> Cardinality(kept),
              dropped |-> Cardinality(Present(all) \ kept),
              net |-> [t \in Type |-> Tally(all, lost)[t] - Tally(all, Present(all) \ kept)[t]
                                      - Tally(dead, lost \cap Present(dead))[t]]]

Redelivery(dead, filter) ==
    LET moved == Candidates(dead, filter)
    IN  IF moved = {} THEN NoChange
        ELSE [changed |-> TRUE,
              records |-> Cardinality(Present(dead) \ moved),
              dropped |-> 0,
              net |-> [t \in Type |-> -Tally(dead, moved)[t]]]

Change(s, op) ==
    CASE op.kind = "resolve" -> Resolution(s.outbox, s.dead, op.results)
      [] op.kind = "replay"  -> Redelivery(s.dead, op.filter)
      [] OTHER               -> NoChange

\* Both stores report this change.
LEMMA ResolveReports ==
    ASSUME Counting, NEW d \in Database, NEW b \in Batch, NEW s \in Contents,
           s = Content(View(d, b)), NEW results, Verdicts(results)
    PROVE  /\ ResolveChange(d, b, results) = Resolution(s.outbox, s.dead, results)
           /\ MemResolveChange(MemOf(s), results) = Resolution(s.outbox, s.dead, results)
<1> DEFINE lost == Losses(s.outbox, results)
           dd == Letters(s.outbox, s.dead, results)
           gone == Trimmed(dd)
           kept == Kept(s.outbox, s.dead, results)
           net == [t \in Type |-> Tally(dd, lost)[t] - Tally(dd, gone)[t]
                                  - Tally(s.dead, lost \cap Present(s.dead))[t]]
<1>1. s.outbox \in [Id -> Record \cup {None}] /\ s.dead \in [Id -> Record \cup {None}]
  BY DEF Contents
<1>2. dd \in [Id -> Record \cup {None}]
  BY <1>1, SettledTypes, Zenon
<1>3. View(d, b).outbox = s.outbox /\ View(d, b).dead = s.dead
  BY DEF Content
<1>4. View(d, Settle(d, b, results)).dead = dd
  <2> DEFINE c == Settle(d, b, results)
  <2>1. c = Settle(d, b, results)
    OBVIOUS
  <2> HIDE DEF c, dd
  <2>2. View(d, c).dead = Letters(View(d, b).outbox, View(d, b).dead, results)
    BY <2>1, SettleEffect
  <2> QED BY <1>3, <2>2 DEF c, dd
<1>5. /\ gone \subseteq Present(dd) /\ Present(dd) \ gone = Top(dd, Present(dd))
      /\ MemTrim(dd) = Top(dd, Present(dd))
  BY <1>2, Complement, TrimIs, Zenon
<1>6. lost # {} => kept = MemTrim(dd) /\ Present(dd) \ kept = gone
  BY <1>5 DEF Kept
<1>7. /\ IsFiniteSet(Present(dd))
      /\ Cardinality(Present(dd)) \in Nat /\ Cardinality(gone) \in Nat
      /\ Cardinality(Present(dd) \ gone) \in Nat
      /\ Cardinality(Present(dd)) = Cardinality(gone) + Cardinality(Present(dd) \ gone)
  <2>1. IsFiniteSet(Present(dd))
    BY <1>2, TrimStep, Zenon
  <2> HIDE DEF gone, dd
  <2> QED BY <1>5, <2>1, Part, Zenon
<1>8. lost # {} => Cardinality(Present(dd)) - Cardinality(gone) = Cardinality(kept)
  <2>1. lost # {} => kept = Present(dd) \ gone
    BY <1>5, <1>6, Zenon
  <2> HIDE DEF gone, dd, lost, kept
  <2>2. Cardinality(Present(dd)) - Cardinality(gone) = Cardinality(Present(dd) \ gone)
    BY <1>7
  <2> QED BY <2>1, <2>2, Zenon
<1>9. Resolution(s.outbox, s.dead, results) =
         IF lost = {} THEN NoChange
         ELSE [changed |-> TRUE, records |-> Cardinality(kept), dropped |-> Cardinality(gone),
               net |-> net]
  <2>1. CASE lost = {}
    BY <2>1, Zenon DEF Resolution
  <2>2. CASE lost # {}
    BY <1>6, <2>2 DEF Resolution
  <2> QED BY <2>1, <2>2, Zenon
<1>10. ResolveChange(d, b, results) =
          IF lost = {} THEN NoChange
          ELSE [changed |-> TRUE, records |-> Cardinality(Present(dd)) - Cardinality(gone),
                dropped |-> Cardinality(gone), net |-> net]
  BY <1>3, <1>4, Zenon DEF ResolveChange
<1>11. MemResolveChange(MemOf(s), results) =
          IF lost = {} THEN NoChange
          ELSE [changed |-> TRUE, records |-> Cardinality(kept), dropped |-> Cardinality(gone),
                net |-> net]
  <2>1. MemLosses(MemOf(s), results) = lost /\ MemSettle(MemOf(s), results).dead = dd
    BY MemSettleIs
  <2>2. MemOf(s).dead = s.dead
    BY DEF MemOf
  <2>3. Present(dd) \ MemTrim(dd) = gone
    BY <1>5
  <2>4. MemResolveChange(MemOf(s), results) =
          IF lost = {} THEN NoChange
          ELSE [changed |-> TRUE, records |-> Cardinality(MemTrim(dd)),
                dropped |-> Cardinality(gone), net |-> net]
    BY <2>1, <2>2, <2>3, Zenon DEF MemResolveChange
  <2> QED BY <1>6, <2>4, Zenon
<1> QED BY <1>8, <1>9, <1>10, <1>11, Zenon

LEMMA Reports ==
    ASSUME Counting, NEW d \in Database, NEW b \in Batch, NEW s \in Contents,
           s = Content(View(d, b)), NEW op \in Op
    PROVE  /\ (CASE op.kind = "resolve" -> ResolveChange(d, b, op.results)
                 [] op.kind = "replay"  -> ReplayChange(d, b, op.filter)
                 [] OTHER               -> NoChange) = Change(s, op)
           /\ (CASE op.kind = "resolve" -> MemResolveChange(MemOf(s), op.results)
                 [] op.kind = "replay"  -> MemReplayChange(MemOf(s), op.filter)
                 [] OTHER               -> NoChange) = Change(s, op)
<1>1. IsOperation(op)
  BY OpAssumption
<1>2. CASE op.kind = "resolve"
  <2>1. Verdicts(op.results)
    BY <1>1, <1>2 DEF IsOperation, Verdicts
  <2>2. /\ ResolveChange(d, b, op.results) = Resolution(s.outbox, s.dead, op.results)
        /\ MemResolveChange(MemOf(s), op.results) = Resolution(s.outbox, s.dead, op.results)
    BY <2>1, ResolveReports, Zenon
  <2> QED BY <1>2, <2>2, Zenon DEF Change
<1>3. CASE op.kind = "replay"
  <2>1. View(d, b).dead = s.dead /\ MemOf(s).dead = s.dead
    BY DEF Content, MemOf
  <2>2. ReplayChange(d, b, op.filter) = Redelivery(s.dead, op.filter)
    BY <2>1, Zenon DEF ReplayChange, Redelivery
  <2>3. MemReplayChange(MemOf(s), op.filter) = Redelivery(s.dead, op.filter)
    BY <2>1, Zenon DEF MemReplayChange, Redelivery, Chosen, Candidates
  <2> QED BY <1>3, <2>2, <2>3 DEF Change
<1>4. CASE op.kind \notin {"resolve", "replay"}
  BY <1>4, Zenon DEF Change
<1> QED BY <1>2, <1>3, <1>4
-----------------------------------------------------------------------------
OfType(dead, S, t) == {i \in S : dead[i].type = t}

\* The change r tells content s from content a.
Exactly(s, a, r) ==
    /\ \A t \in Type : Cardinality(OfType(a.dead, Present(a.dead), t)) =
                       Cardinality(OfType(s.dead, Present(s.dead), t)) + r.net[t]
    /\ r.changed => r.records = Cardinality(Present(a.dead))
    /\ a.dropped = s.dropped + r.dropped
    /\ ~r.changed => a.dead = s.dead

\* No change is exact when the dead letters stay as they are.
LEMMA UnchangedExactly ==
    ASSUME Counting, NEW s \in Contents, NEW a, a.dead = s.dead, a.dropped = s.dropped
    PROVE  Exactly(s, a, NoChange)
<1>1. s.dead \in [Id -> Record \cup {None}] /\ s.dropped \in Nat
  BY DEF Contents
<1>2. /\ NoChange.changed = FALSE /\ NoChange.dropped = 0
      /\ \A t \in Type : NoChange.net[t] = 0
  BY DEF NoChange
<1>3. \A t \in Type : Cardinality(OfType(s.dead, Present(s.dead), t)) \in Nat
  <2>1. IsFiniteSet(Present(s.dead))
    BY <1>1, TrimStep, Zenon
  <2>2. \A t \in Type : OfType(s.dead, Present(s.dead), t) \subseteq Present(s.dead)
    BY Zenon DEF OfType
  <2> QED BY <2>1, <2>2, Part, Zenon
<1> QED BY <1>1, <1>2, <1>3 DEF Exactly

\* Removing the records of S from a family removes those of each type.
LEMMA Removal ==
    ASSUME Counting, NEW f \in [Id -> Record \cup {None}], NEW S, S \subseteq Present(f),
           NEW t \in Type, NEW g, g = Keep(f, Present(f) \ S)
    PROVE  /\ Cardinality(OfType(f, Present(f), t)) \in Nat
           /\ Cardinality(OfType(f, S, t)) \in Nat
           /\ Cardinality(OfType(g, Present(g), t)) =
              Cardinality(OfType(f, Present(f), t)) - Cardinality(OfType(f, S, t))
<1> DEFINE A == OfType(f, Present(f), t)
           B == OfType(f, S, t)
<1>1. DOMAIN f = Id /\ g = [i \in Id |-> IF i \in Present(f) \ S THEN f[i] ELSE None]
  BY Zenon DEF Keep
<1>2. Present(g) = Present(f) \ S
  BY <1>1 DEF Present
<1>3. \A i \in Present(g) : g[i] = f[i]
  BY <1>1, <1>2 DEF Present
<1>4. OfType(g, Present(g), t) = A \ B
  BY <1>2, <1>3, Zenon DEF OfType
<1>5. B \subseteq A
  BY Zenon DEF OfType
<1>6. IsFiniteSet(A)
  <2>1. IsFiniteSet(Present(f))
    BY TrimStep, Zenon
  <2>2. A \subseteq Present(f)
    BY Zenon DEF OfType
  <2> HIDE DEF A
  <2> QED BY <2>1, <2>2, Part, Zenon
<1> HIDE DEF A, B
<1>7. /\ Cardinality(A) \in Nat /\ Cardinality(B) \in Nat /\ Cardinality(A \ B) \in Nat
      /\ Cardinality(A) = Cardinality(B) + Cardinality(A \ B)
  BY <1>5, <1>6, Part, Zenon
<1>8. Cardinality(A \ B) = Cardinality(A) - Cardinality(B)
  BY <1>7
<1> QED BY <1>4, <1>7, <1>8, Zenon DEF A, B

\* What ReplayDeadLetters reports is the difference it makes.
LEMMA ReplayExactly ==
    ASSUME Counting, NEW s \in Contents, NEW filter \in Filter, NEW now \in Time
    PROVE  Exactly(s, Replay(s, filter, now), Redelivery(s.dead, filter))
<1> DEFINE moved == Candidates(s.dead, filter)
           a == Replay(s, filter, now)
           r == Redelivery(s.dead, filter)
           g == Keep(s.dead, Present(s.dead) \ moved)
<1>1. s.dead \in [Id -> Record \cup {None}] /\ s.dropped \in Nat
  BY DEF Contents
<1>2. moved \subseteq Present(s.dead)
  BY DEF Candidates, First
<1>3. a.dead = g /\ a.dropped = s.dropped
  BY Zenon DEF Replay, Candidates, Contents
<1>4. r = IF moved = {} THEN NoChange
          ELSE [changed |-> TRUE, records |-> Cardinality(Present(s.dead) \ moved), dropped |-> 0,
                net |-> [t \in Type |-> -Tally(s.dead, moved)[t]]]
  BY Zenon DEF Redelivery
<1> HIDE DEF moved, a, r, g
<1>5. CASE moved = {}
  <2>1. g = s.dead
    BY <1>1, <1>5 DEF g, Keep, Present
  <2>2. Exactly(s, a, NoChange)
    BY <1>3, <2>1, UnchangedExactly, Zenon
  <2> QED BY <1>4, <1>5, <2>2, Zenon DEF a, r
<1>6. CASE moved # {}
  <2>1. /\ r.changed = TRUE /\ r.records = Cardinality(Present(s.dead) \ moved) /\ r.dropped = 0
        /\ \A t \in Type : r.net[t] = -Cardinality(OfType(s.dead, moved, t))
    <3> DEFINE N == [t \in Type |-> -Tally(s.dead, moved)[t]]
               k == Cardinality(Present(s.dead) \ moved)
    <3>1. r = [changed |-> TRUE, records |-> k, dropped |-> 0, net |-> N]
      BY <1>4, <1>6, Zenon
    <3>2. \A t \in Type : N[t] = -Cardinality(OfType(s.dead, moved, t))
      BY DEF Tally, OfType
    <3> HIDE DEF N, k
    <3>3. r.changed = TRUE /\ r.records = k /\ r.dropped = 0 /\ r.net = N
      BY <3>1
    <3> QED BY <3>2, <3>3, Zenon DEF k
  <2>2. Present(g) = Present(s.dead) \ moved
    BY <1>1, <1>2 DEF g, Present, Keep
  <2>3. ASSUME NEW t \in Type
        PROVE  Cardinality(OfType(g, Present(g), t)) =
               Cardinality(OfType(s.dead, Present(s.dead), t)) + r.net[t]
    <3>1. /\ Cardinality(OfType(s.dead, Present(s.dead), t)) \in Nat
          /\ Cardinality(OfType(s.dead, moved, t)) \in Nat
          /\ Cardinality(OfType(g, Present(g), t)) =
             Cardinality(OfType(s.dead, Present(s.dead), t)) - Cardinality(OfType(s.dead, moved, t))
      BY <1>1, <1>2, Removal, Zenon DEF g
    <3> QED BY <2>1, <3>1
  <2>4. a.dropped = s.dropped + r.dropped
    BY <1>1, <1>3, <2>1
  <2>5. Exactly(s, a, r)
    BY <1>3, <2>1, <2>2, <2>3, <2>4, Zenon DEF Exactly
  <2> QED BY <2>5, Zenon DEF a, r
<1> QED BY <1>5, <1>6

\* What ResolveOutbox reports is the difference it makes: a rejection adds a
\* dead letter, may replace one, and the trim removes some.
LEMMA ResolveExactly ==
    ASSUME Counting, NEW s \in Contents, NEW results, Verdicts(results)
    PROVE  Exactly(s, Resolve(s, results), Resolution(s.outbox, s.dead, results))
<1> DEFINE lost == Losses(s.outbox, results)
           dd == Letters(s.outbox, s.dead, results)
           kept == Kept(s.outbox, s.dead, results)
           gone == Present(dd) \ kept
           a == Resolve(s, results)
           r == Resolution(s.outbox, s.dead, results)
<1>1. /\ s.outbox \in [Id -> Record \cup {None}] /\ s.dead \in [Id -> Record \cup {None}]
      /\ s.dropped \in Nat
  BY DEF Contents
<1>2. /\ dd \in [Id -> Record \cup {None}] /\ lost \subseteq Id
      /\ \A i \in lost : dd[i] \in Record
      /\ \A i \in Id \ lost : dd[i] = s.dead[i]
      /\ lost = {} => dd = s.dead
  <2>1. /\ dd \in [Id -> Record \cup {None}] /\ lost \subseteq Id
        /\ \A i \in lost : Rejected(s.outbox[i], results[i]) \in Record
    BY <1>1, SettledTypes, Zenon
  <2> HIDE DEF lost
  <2>2. dd = [i \in Id |-> IF i \in lost THEN Rejected(s.outbox[i], results[i]) ELSE s.dead[i]]
    BY DEF Letters, lost
  <2> HIDE DEF dd
  <2> QED BY <1>1, <2>1, <2>2
<1>3. a.dead = Keep(dd, kept) /\ a.dropped = s.dropped + Cardinality(gone)
  <2>1. a = [flows |-> s.flows, outbox |-> Rest(s.outbox, results), dead |-> Keep(dd, kept),
             dropped |-> s.dropped + Cardinality(gone)]
    BY ResolveIs, Zenon
  <2> HIDE DEF a, dd, kept, gone
  <2> QED BY <2>1
<1>4. r = IF lost = {} THEN NoChange
          ELSE [changed |-> TRUE, records |-> Cardinality(kept), dropped |-> Cardinality(gone),
                net |-> [t \in Type |-> Tally(dd, lost)[t] - Tally(dd, gone)[t]
                                        - Tally(s.dead, lost \cap Present(s.dead))[t]]]
  BY Zenon DEF Resolution
<1>5. /\ kept \subseteq Present(dd) /\ kept = Present(dd) \ gone
      /\ lost = {} => kept = Present(dd)
  BY DEF Kept, Top
<1> HIDE DEF lost, dd, kept, gone, a, r
<1>6. CASE lost = {}
  <2>1. a.dead = s.dead
    BY <1>1, <1>2, <1>3, <1>5, <1>6 DEF Keep, Present
  <2>2. gone = {}
    BY <1>5, <1>6, Zenon DEF gone
  <2>3. a.dropped = s.dropped
    <3>1. Cardinality(gone) = 0
      BY <2>2, Zenon DEF Counting
    <3>2. a.dropped = s.dropped + 0
      BY <1>3, <3>1, Zenon
    <3>3. s.dropped \in Nat
      BY <1>1, Zenon
    <3>4. \A x \in Nat : x + 0 = x
      OBVIOUS
    <3> QED BY <3>2, <3>3, <3>4, Zenon
  <2>4. Exactly(s, a, NoChange)
    BY <2>1, <2>3, UnchangedExactly, Zenon
  <2> QED BY <1>4, <1>6, <2>4, Zenon DEF a, r
<1>7. CASE lost # {}
  <2>1. /\ r.changed = TRUE /\ r.records = Cardinality(kept) /\ r.dropped = Cardinality(gone)
        /\ \A t \in Type : r.net[t] =
              Cardinality(OfType(dd, lost, t)) - Cardinality(OfType(dd, gone, t))
              - Cardinality(OfType(s.dead, lost \cap Present(s.dead), t))
    <3> DEFINE N == [t \in Type |-> Tally(dd, lost)[t] - Tally(dd, gone)[t]
                                    - Tally(s.dead, lost \cap Present(s.dead))[t]]
    <3>1. r = [changed |-> TRUE, records |-> Cardinality(kept), dropped |-> Cardinality(gone),
               net |-> N]
      BY <1>4, <1>7, Zenon
    <3>2. \A t \in Type : N[t] =
              Cardinality(OfType(dd, lost, t)) - Cardinality(OfType(dd, gone, t))
              - Cardinality(OfType(s.dead, lost \cap Present(s.dead), t))
      BY DEF Tally, OfType
    <3> HIDE DEF N
    <3>3. /\ r.changed = TRUE /\ r.records = Cardinality(kept) /\ r.dropped = Cardinality(gone)
          /\ r.net = N
      BY <3>1
    <3> QED BY <3>2, <3>3, Zenon
  <2>2. Present(a.dead) = kept
    BY <1>2, <1>3, <1>5 DEF Present, Keep
  <2>3. gone \subseteq Present(dd)
    BY DEF gone
  <2>4. ASSUME NEW t \in Type
        PROVE  Cardinality(OfType(a.dead, Present(a.dead), t)) =
               Cardinality(OfType(s.dead, Present(s.dead), t)) + r.net[t]
    <3> DEFINE A == OfType(dd, Present(dd), t)
               L == OfType(dd, lost, t)
               B == OfType(s.dead, Present(s.dead), t)
               R == OfType(s.dead, lost \cap Present(s.dead), t)
               G == OfType(dd, gone, t)
    <3>1. /\ Cardinality(A) \in Nat /\ Cardinality(G) \in Nat
          /\ Cardinality(OfType(a.dead, Present(a.dead), t)) = Cardinality(A) - Cardinality(G)
      <4>1. a.dead = Keep(dd, Present(dd) \ gone)
        BY <1>3, <1>5, Zenon
      <4> QED BY <1>2, <2>3, <4>1, Removal, Zenon
    <3>2. lost \subseteq Present(dd)
      BY <1>2, Marked DEF Present
    <3>3. L \subseteq A
      BY <3>2, Zenon DEF OfType
    <3>4. A \ L = B \ R
      BY <1>1, <1>2 DEF OfType, Present
    <3>5. R \subseteq B
      BY Zenon DEF OfType
    <3>6. IsFiniteSet(A) /\ IsFiniteSet(B)
      <4>1. IsFiniteSet(Present(dd)) /\ IsFiniteSet(Present(s.dead))
        BY <1>1, <1>2, TrimStep, Zenon
      <4>2. A \subseteq Present(dd) /\ B \subseteq Present(s.dead)
        BY Zenon DEF OfType
      <4> HIDE DEF A, B
      <4> QED BY <4>1, <4>2, Part, Zenon
    <3> HIDE DEF A, L, B, R, G
    <3>7. /\ Cardinality(L) \in Nat /\ Cardinality(A \ L) \in Nat
          /\ Cardinality(A) = Cardinality(L) + Cardinality(A \ L)
      BY <3>3, <3>6, Part, Zenon
    <3>8. /\ Cardinality(B) \in Nat /\ Cardinality(R) \in Nat /\ Cardinality(B \ R) \in Nat
          /\ Cardinality(B) = Cardinality(R) + Cardinality(B \ R)
      BY <3>5, <3>6, Part, Zenon
    <3>9. r.net[t] = Cardinality(L) - Cardinality(G) - Cardinality(R)
      BY <2>1, Zenon DEF L, G, R
    <3>10. Cardinality(A) - Cardinality(G) = Cardinality(B) + r.net[t]
      <4> DEFINE ca == Cardinality(A)
                 cb == Cardinality(B)
                 cg == Cardinality(G)
                 cl == Cardinality(L)
                 cr == Cardinality(R)
                 cs == Cardinality(B \ R)
                 n == r.net[t]
      <4>1. /\ ca \in Nat /\ cb \in Nat /\ cg \in Nat /\ cl \in Nat /\ cr \in Nat /\ cs \in Nat
            /\ ca = cl + cs /\ cb = cr + cs /\ n = cl - cg - cr
        BY <3>1, <3>4, <3>7, <3>8, <3>9, Zenon
      <4> HIDE DEF ca, cb, cg, cl, cr, cs, n
      <4>2. ca - cg = cb + n
        BY <4>1
      <4> QED BY <4>2, Zenon DEF ca, cb, cg, n
    <3> QED BY <3>1, <3>10, Zenon DEF B
  <2> QED BY <1>3, <2>1, <2>2, <2>4, Zenon DEF Exactly, a, r
<1> QED BY <1>6, <1>7

\* What an operation reports is the difference it makes.
LEMMA OperationExactly ==
    ASSUME Counting, NEW s \in Contents, NEW op \in Op
    PROVE  Exactly(s, After(s, op), Change(s, op))
<1>1. IsOperation(op)
  BY OpAssumption
<1>2. CASE op.kind = "resolve"
  <2>1. Verdicts(op.results)
    BY <1>1, <1>2 DEF IsOperation, Verdicts
  <2>2. /\ After(s, op) = Resolve(s, op.results)
        /\ Change(s, op) = Resolution(s.outbox, s.dead, op.results)
    BY <1>2 DEF After, Change
  <2> QED BY <2>1, <2>2, ResolveExactly, Zenon
<1>3. CASE op.kind = "replay"
  <2>1. op.filter \in Filter /\ op.now \in Time
    BY <1>1, <1>3 DEF IsOperation
  <2>2. /\ After(s, op) = Replay(s, op.filter, op.now)
        /\ Change(s, op) = Redelivery(s.dead, op.filter)
    BY <1>3 DEF After, Change
  <2> QED BY <2>1, <2>2, ReplayExactly, Zenon
<1>4. CASE op.kind \in {"save", "delete", "enqueue"}
  <2>1. After(s, op).dead = s.dead /\ After(s, op).dropped = s.dropped
    BY <1>4 DEF After, Contents
  <2>2. Change(s, op) = NoChange
    BY <1>4 DEF Change
  <2> QED BY <2>1, <2>2, UnchangedExactly, Zenon
<1>5. op.kind \in {"save", "delete", "enqueue", "replay", "resolve"}
  BY <1>1 DEF IsOperation
<1> QED BY <1>2, <1>3, <1>4, <1>5
=============================================================================
