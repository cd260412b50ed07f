---------------------------- MODULE RecordProofs ----------------------------
(***************************************************************************)
(* What the store holds and has given away, for any constants; what one    *)
(* transaction and one sweep do to the store is CorrelationProofs'         *)
(* AcceptDetail and SweepDetail.                                           *)
(*   - The high-water marks: a request past a check may still add one flow *)
(*     or record, so the invariant counts those requests in (Headroom).    *)
(*   - The evidence: flows, records, dead letters and settled records are  *)
(*     one book, by output identity (Ledger).  A transaction enters one    *)
(*     new event in it (AcceptEnters), sweeps, drains and replays move     *)
(*     pages without changing it, and a book that only grows so accounts for every accepted event *)
(*     exactly once (BookGrows).                                           *)
(*   - The reasons: CorrelationProofs' HonestStep as a theorem.            *)
(***************************************************************************)
EXTENDS CorrelationProofs

\* What the proofs below use of finite sets.  The library proves it (Counts).
Counting ==
    /\ IsFiniteSet({}) /\ Cardinality({}) = 0
    /\ \A S, x : IsFiniteSet(S) =>
         /\ Cardinality(S) \in Nat
         /\ IsFiniteSet(S \cup {x})
         /\ Cardinality(S \cup {x}) = IF x \in S THEN Cardinality(S) ELSE Cardinality(S) + 1
         /\ IsFiniteSet(S \ {x})
         /\ Cardinality(S \ {x}) = IF x \in S THEN Cardinality(S) - 1 ELSE Cardinality(S)
    /\ \A S, T : IsFiniteSet(T) /\ S \subseteq T =>
         IsFiniteSet(S) /\ Cardinality(S) <= Cardinality(T)

\* A book: what is held under every identity, events and duplicates.
Total(s) == Len(s.events) + s.duplicates
Marks(H) == UNION {{j} \X (1..Total(H[j])) : j \in DOMAIN H}
Blank == [events |-> << >>, duplicates |-> 0]

\* A sequence without repetitions, of events of A.
Once(q, A) ==
    /\ q \in Seq(A)
    /\ \A m, n \in 1..Len(q) : q[m] = q[n] => m = n

\* Two sequences without a common element.
Apart(q, r) == \A m \in 1..Len(q), n \in 1..Len(r) : q[m] # r[n]

\* The book is right about the accepted events A: it has each of them at most
\* once, and as many, kept or counted, as there are.
Sound(H, A) ==
    /\ IsFiniteSet(A) /\ IsFiniteSet(Marks(H)) /\ Cardinality(A) = Cardinality(Marks(H))
    /\ \A j \in DOMAIN H : Once(H[j].events, A) /\ H[j].duplicates \in Nat
    /\ \A j, k \in DOMAIN H : j # k => Apart(H[j].events, H[k].events)

\* One event is kept last, or counted.
Adds(s, t, e) ==
    \/ t.events = Append(s.events, e) /\ t.duplicates = s.duplicates
    \/ t.events = s.events /\ t.duplicates = s.duplicates + 1

\* A new event appended.
LEMMA OnceMore ==
    ASSUME NEW A, NEW q, NEW e, e \notin A, Once(q, A)
    PROVE  /\ Once(q, A \cup {e}) /\ Once(Append(q, e), A \cup {e})
           /\ Len(Append(q, e)) = Len(q) + 1 /\ Len(q) \in Nat
           /\ \A r : Once(r, A) /\ Apart(q, r) => Apart(Append(q, e), r) /\ Apart(r, Append(q, e))
<1>1. q \in Seq(A) /\ q \in Seq(A \cup {e})
  BY DEF Once
<1>2. Len(q) \in Nat /\ \A n \in 1..Len(q) : q[n] \in A
  BY <1>1
<1>3. /\ Append(q, e) \in Seq(A \cup {e}) /\ Len(Append(q, e)) = Len(q) + 1
      /\ Append(q, e)[Len(q) + 1] = e
      /\ \A n \in 1..Len(q) : Append(q, e)[n] = q[n]
  BY <1>1
<1> DEFINE p == Append(q, e)
<1> HIDE DEF p
<1>4. \A n \in 1..(Len(q) + 1) : n \in 1..Len(q) \/ n = Len(q) + 1
  BY <1>2
<1>5. ASSUME NEW m \in 1..(Len(q) + 1), NEW n \in 1..(Len(q) + 1), p[m] = p[n]
      PROVE  m = n
  <2>1. m \in 1..Len(q) /\ n \in 1..Len(q) => m = n
    BY <1>3, <1>5, Zenon DEF Once, p
  <2>2. m \in 1..Len(q) /\ n = Len(q) + 1 => FALSE
    BY <1>2, <1>3, <1>5, Zenon DEF p
  <2>3. n \in 1..Len(q) /\ m = Len(q) + 1 => FALSE
    BY <1>2, <1>3, <1>5, Zenon DEF p
  <2> QED BY <1>4, <2>1, <2>2, <2>3, Zenon
<1>6. ASSUME NEW r, Once(r, A), Apart(q, r) PROVE Apart(p, r) /\ Apart(r, p)
  <2>1. \A n \in 1..Len(r) : r[n] \in A
    BY <1>6 DEF Once
  <2>2. ASSUME NEW m \in 1..(Len(q) + 1), NEW n \in 1..Len(r) PROVE p[m] # r[n]
    <3>1. CASE m \in 1..Len(q)
      BY <1>3, <1>6, <3>1, Zenon DEF Apart, p
    <3>2. CASE m = Len(q) + 1
      BY <1>3, <2>1, <3>2, Zenon DEF p
    <3> QED BY <1>4, <3>1, <3>2, Zenon
  <2>3. Len(p) = Len(q) + 1
    BY Zenon, <1>3 DEF p
  <2> QED BY <2>2, <2>3, Zenon DEF Apart
<1>7. Once(q, A \cup {e})
  BY <1>1, Zenon DEF Once
<1>8. Once(p, A \cup {e})
  <2>1. Len(p) = Len(q) + 1 /\ p \in Seq(A \cup {e})
    BY Zenon, <1>3 DEF p
  <2> QED BY <1>5, <2>1, Zenon DEF Once
<1> QED BY <1>2, <1>3, <1>6, <1>7, <1>8, Zenon DEF p

\* The marks of one identity grow by one.
LEMMA MarksGrow ==
    ASSUME Counting, NEW H, NEW G, NEW i, NEW n \in Nat,
           DOMAIN G = DOMAIN H \cup {i},
           \A j \in DOMAIN H \ {i} : Total(G[j]) = Total(H[j]),
           i \in DOMAIN H => Total(H[i]) = n,
           i \notin DOMAIN H => n = 0,
           Total(G[i]) = n + 1, IsFiniteSet(Marks(H))
    PROVE  /\ IsFiniteSet(Marks(G))
           /\ Cardinality(Marks(G)) = Cardinality(Marks(H)) + 1
<1> DEFINE new == <<i, n + 1>>
<1>1. \A x : x \in Marks(G) <=> \E j \in DOMAIN G : x \in {j} \X (1..Total(G[j]))
  BY Zenon DEF Marks
<1>2. \A x : x \in Marks(H) <=> \E j \in DOMAIN H : x \in {j} \X (1..Total(H[j]))
  BY Zenon DEF Marks
<1>3. {i} \X (1..Total(G[i])) = ({i} \X (1..n)) \cup {new}
  BY SMTT(30)
<1>4. i \notin DOMAIN H => {i} \X (1..n) = {}
  OBVIOUS
<1>5. \A x : x \in Marks(G) <=> x \in Marks(H) \/ x = new
  <2> TAKE x
  <2>1. x \in Marks(G) => x \in Marks(H) \/ x = new
    BY Zenon, <1>1, <1>2, <1>3, <1>4
  <2>2. x = new => x \in Marks(G)
    BY <1>1, <1>3, Zenon
  <2>3. x \in Marks(H) => x \in Marks(G)
    <3>1. ASSUME NEW j \in DOMAIN H, x \in {j} \X (1..Total(H[j])) PROVE x \in Marks(G)
      <4>1. CASE j = i
        BY <1>1, <1>3, <3>1, <4>1, Zenon
      <4>2. CASE j # i
        BY <1>1, <3>1, <4>2, Zenon
      <4> QED BY Zenon, <4>1, <4>2
    <3> QED BY <1>2, <3>1, Zenon
  <2> QED BY Zenon, <2>1, <2>2, <2>3
<1>6. new \notin Marks(H)
  <2>1. ASSUME NEW j \in DOMAIN H, new \in {j} \X (1..Total(H[j])) PROVE FALSE
    <3>1. j = i /\ n + 1 \in 1..Total(H[j])
      BY Zenon, <2>1
    <3> QED BY <3>1
  <2> QED BY <1>2, <2>1, Zenon
<1>7. Marks(G) = Marks(H) \cup {new}
  BY <1>5, Zenon
<1> HIDE DEF new
<1> QED BY <1>6, <1>7 DEF Counting

\* An event entered once, where it is not yet, leaves the book right.
LEMMA BookGrows ==
    ASSUME Counting, NEW H, NEW G, NEW A, NEW e, e \notin A, NEW i, NEW s, Sound(H, A),
           DOMAIN G = DOMAIN H \cup {i},
           \A j \in DOMAIN H \ {i} : G[j] = H[j],
           i \in DOMAIN H => s = H[i],
           i \notin DOMAIN H => s = Blank,
           Adds(s, G[i], e)
    PROVE  Sound(G, A \cup {e})
<1> DEFINE t == G[i]
           B == A \cup {e}
<1>a. \A j \in DOMAIN G : j # i => j \in DOMAIN H /\ G[j] = H[j]
  BY Zenon
<1>1. Once(s.events, A) /\ s.duplicates \in Nat
  <2>1. CASE i \in DOMAIN H
    BY <2>1, Zenon DEF Sound
  <2>2. CASE i \notin DOMAIN H
    <3>1. s.events = << >> /\ s.duplicates = 0
      BY <2>2 DEF Blank
    <3>2. Once(<< >>, A)
      BY DEF Once
    <3> QED BY <3>1, <3>2
  <2> QED BY Zenon, <2>1, <2>2
<1>2. \A j \in DOMAIN H \ {i} : Once(H[j].events, A) /\ Apart(s.events, H[j].events)
                                /\ Apart(H[j].events, s.events)
  <2>1. CASE i \in DOMAIN H
    BY <2>1, Zenon DEF Sound
  <2>2. CASE i \notin DOMAIN H
    <3>1. s.events = << >>
      BY <2>2 DEF Blank
    <3>2. \A q : Apart(<< >>, q) /\ Apart(q, << >>)
      BY DEF Apart
    <3> QED BY <3>1, <3>2, Zenon DEF Sound
  <2> QED BY Zenon, <2>1, <2>2
<1>3. /\ Once(t.events, B) /\ t.duplicates \in Nat /\ Total(t) = Total(s) + 1 /\ Total(s) \in Nat
      /\ \A j \in DOMAIN H \ {i} : Apart(t.events, H[j].events) /\ Apart(H[j].events, t.events)
  <2>1. /\ Once(s.events, B) /\ Once(Append(s.events, e), B)
        /\ Len(Append(s.events, e)) = Len(s.events) + 1 /\ Len(s.events) \in Nat
        /\ \A r : Once(r, A) /\ Apart(s.events, r) =>
                    Apart(Append(s.events, e), r) /\ Apart(r, Append(s.events, e))
    BY <1>1, OnceMore, Zenon
  <2> HIDE DEF B, t
  <2>2. CASE t.events = Append(s.events, e) /\ t.duplicates = s.duplicates
    <3>0. /\ Len(t.events) = Len(s.events) + 1 /\ Len(s.events) \in Nat
          /\ t.duplicates = s.duplicates
      BY <2>1, <2>2, Zenon
    <3>1. Total(t) = Total(s) + 1 /\ Total(s) \in Nat
      BY <1>1, <3>0 DEF Total
    <3> QED BY <1>1, <1>2, <2>1, <2>2, <3>1, Zenon
  <2>3. CASE t.events = s.events /\ t.duplicates = s.duplicates + 1
    <3>1. Total(t) = Total(s) + 1 /\ Total(s) \in Nat /\ t.duplicates \in Nat
      BY <1>1, <2>1, <2>3 DEF Total
    <3> QED BY <1>1, <1>2, <2>1, <2>3, <3>1, Zenon
  <2> QED BY <2>2, <2>3, Zenon DEF Adds, t
<1>4. /\ IsFiniteSet(A) /\ IsFiniteSet(Marks(H)) /\ Cardinality(A) = Cardinality(Marks(H))
  BY Zenon DEF Sound
<1>5. /\ IsFiniteSet(Marks(G)) /\ Cardinality(Marks(G)) = Cardinality(Marks(H)) + 1
  <2>1. i \notin DOMAIN H => Total(s) = 0
    BY DEF Blank, Total
  <2>2. \A j \in DOMAIN H \ {i} : Total(G[j]) = Total(H[j])
    BY Zenon
  <2> QED BY <1>3, <1>4, <2>1, <2>2, MarksGrow, Zenon
<1>6. IsFiniteSet(B) /\ Cardinality(B) = Cardinality(A) + 1
  BY Zenon, <1>4 DEF Counting
<1>7. \A j \in DOMAIN H : Once(H[j].events, B)
  BY OnceMore, Zenon DEF Sound
<1> HIDE DEF B
<1>8. \A j \in DOMAIN G : Once(G[j].events, B) /\ G[j].duplicates \in Nat
  BY <1>a, <1>3, <1>7, Zenon DEF Sound
<1>9. \A j, k \in DOMAIN G : j # k => Apart(G[j].events, G[k].events)
  BY <1>a, <1>3, Zenon DEF Sound
<1> QED BY <1>4, <1>5, <1>6, <1>8, <1>9, Zenon DEF Sound, B
-----------------------------------------------------------------------------
\* The records outside the outbox.
Away == DOMAIN dead \cup DOMAIN settled
Filed(id) == IF id \in DOMAIN dead THEN dead[id] ELSE settled[id]

\* The book of everything, by output identity.
Ids == {OutputID(k, flows[k]) : k \in OpenFlows} \cup DOMAIN outbox \cup Away
Sheet(x) == [events |-> x.events, duplicates |-> x.duplicates]
Held(id) ==
    IF id \in DOMAIN outbox THEN Sheet(outbox[id])
    ELSE IF id \in Away THEN Sheet(Filed(id)) ELSE Sheet(flows[id[1]])
Ledger == [id \in Ids |-> Held(id)]

\* An identity is in one place, and an accepted event gave it its time.
Separate ==
    /\ DOMAIN outbox \cap Away = {}
    /\ DOMAIN dead \cap DOMAIN settled = {}
    /\ \A k \in OpenFlows : OutputID(k, flows[k]) \notin DOMAIN outbox \cup Away
    /\ \A id \in Ids : \E a \in accepted : a.observedAt = id[2]

\* No two requests have observed the same time: the event of one in flight is
\* older or younger than any other.
Fresh ==
    /\ \A a \in accepted : a.observedAt <= clock
    /\ \A w \in Worker : pc[w] # "idle" =>
         /\ Len(batch[w]) = 1
         /\ batch[w][1].observedAt <= clock
         /\ \A a \in accepted : a.observedAt # batch[w][1].observedAt
         /\ \A v \in Worker \ {w} : pc[v] # "idle" => batch[v][1].observedAt # batch[w][1].observedAt

\* Finalize keeps events and duplicates.
LEMMA FinalizeSheet ==
    ASSUME NEW f, NEW reason, NEW now
    PROVE  Sheet(Finalize(f, reason, now)) = Sheet(f)
BY Zenon DEF Sheet, Finalize

\* The identity of an open flow leads to it.
LEMMA OpenHeld ==
    ASSUME Separate, NEW k \in OpenFlows
    PROVE  /\ OutputID(k, flows[k]) \in Ids
           /\ Held(OutputID(k, flows[k])) = Sheet(flows[k])
<1>1. OutputID(k, flows[k]) \notin DOMAIN outbox /\ OutputID(k, flows[k]) \notin Away
  BY Zenon DEF Separate
<1>2. OutputID(k, flows[k])[1] = k
  BY Zenon DEF OutputID
<1>3. OutputID(k, flows[k]) \in Ids
  BY Zenon DEF Ids
<1> QED BY Zenon, <1>1, <1>2, <1>3 DEF Held

\* A book with the same identities and the same sheets is the same book.
LEMMA SameLedger ==
    ASSUME Ids' = Ids, \A id \in Ids : Held(id)' = Held(id)
    PROVE  Ledger' = Ledger
BY Zenon DEF Ledger

\* What is outside stays there while dead letters and settled records do.
LEMMA AwayKept ==
    ASSUME dead' = dead, settled' = settled
    PROVE  Away' = Away /\ \A id : Filed(id)' = Filed(id)
BY Zenon DEF Away, Filed

\* A drain moves records.
LEMMA DeliverKeeps ==
    ASSUME TypeOK, Separate, Deliver
    PROVE  Ledger' = Ledger /\ Separate'
<1>1. PICK id \in DOMAIN outbox : Resolves(id)
  BY DeliverEffect, Zenon
<1>2. flows' = flows /\ accepted' = accepted /\ OpenFlows' = OpenFlows
  BY Zenon DEF Deliver, OpenFlows
<1>3. /\ DOMAIN outbox' = DOMAIN outbox \ {id} /\ Away' = Away \cup {id}
      /\ DOMAIN dead' \cap DOMAIN settled' = {}
      /\ \A x \in DOMAIN outbox' : outbox'[x] = outbox[x]
  <2>1. id \notin DOMAIN dead /\ id \notin DOMAIN settled
    BY Zenon, <1>1 DEF Separate, Away
  <2>2. Away' = Away \cup {id}
    BY <1>1, Zenon DEF Resolves, Away
  <2>3. DOMAIN dead' \cap DOMAIN settled' = {}
    <3>1. /\ DOMAIN settled' \cap DOMAIN dead' \subseteq DOMAIN settled
          /\ DOMAIN dead' \subseteq DOMAIN dead \cup {id}
      BY <1>1, <2>1, Zenon DEF Resolves
    <3>2. DOMAIN dead \cap DOMAIN settled = {}
      BY Zenon DEF Separate
    <3> QED BY Zenon, <2>1, <3>1, <3>2
  <2> QED BY <1>1, <2>2, <2>3, Zenon DEF Resolves
<1>4. ASSUME NEW x \in Away'
      PROVE  IF x = id THEN Filed(x)' = outbox[id] ELSE Filed(x)' = Filed(x)
  <2>0. id \notin Away /\ DOMAIN dead \cap DOMAIN settled = {}
    BY Zenon DEF Separate
  <2>1. CASE x \in DOMAIN dead'
    <3>1. Filed(x)' = dead'[x]
      BY <2>1, Zenon DEF Filed
    <3>2. x # id => x \in DOMAIN dead /\ dead'[x] = dead[x]
      BY <1>1, <2>1, Zenon DEF Resolves
    <3>3. x = id => dead'[x] = outbox[id]
      BY <1>1, <2>0, <2>1, Zenon DEF Resolves, Away
    <3> QED BY <3>1, <3>2, <3>3, Zenon DEF Filed
  <2>2. CASE x \notin DOMAIN dead' /\ x \in DOMAIN settled'
    <3>1. Filed(x)' = settled'[x]
      BY <2>2, Zenon DEF Filed
    <3>2. x = id => settled'[x] = outbox[id]
      BY <1>1, <2>0, <2>2, Zenon DEF Resolves, Away
    <3>3. \/ x = id
          \/ x \in DOMAIN settled /\ settled'[x] = settled[x]
          \/ x \in DOMAIN dead /\ settled'[x] = dead[x]
      BY <1>1, <2>2, Zenon DEF Resolves
    <3>4. x \in DOMAIN settled => x \notin DOMAIN dead
      BY Zenon, <2>0
    <3> QED BY <3>1, <3>2, <3>3, <3>4, Zenon DEF Filed
  <2> QED BY <1>4, <2>1, <2>2, Zenon DEF Away
<1>5. Ids' = Ids
  <2>1. Ids' = {OutputID(k, flows[k]) : k \in OpenFlows} \cup (DOMAIN outbox \ {id}) \cup (Away \cup {id})
    BY <1>2, <1>3, Zenon DEF Ids
  <2> QED BY Zenon, <2>1 DEF Ids
<1>6. ASSUME NEW x \in Ids PROVE Held(x)' = Held(x)
  <2>1. CASE x = id
    <3>1. x \notin DOMAIN outbox' /\ x \in Away' /\ x \in DOMAIN outbox
      BY Zenon, <1>3, <2>1
    <3>2. Filed(x)' = outbox[x]
      BY <1>4, <2>1, <3>1, Zenon
    <3> QED BY <3>1, <3>2, Zenon DEF Held, Sheet
  <2>2. CASE x # id
    <3>1. (x \in DOMAIN outbox' <=> x \in DOMAIN outbox) /\ (x \in Away' <=> x \in Away)
      BY Zenon, <1>3, <2>2
    <3>2. x \in Away' => Filed(x)' = Filed(x)
      BY <1>4, <2>2, Zenon
    <3> QED BY <1>2, <1>3, <3>1, <3>2, Zenon DEF Held, Sheet
  <2> QED BY Zenon, <2>1, <2>2
<1>7. Separate'
  <2>1. DOMAIN outbox' \cap Away' = {}
    BY Zenon, <1>3 DEF Separate
  <2>2. \A k \in OpenFlows : OutputID(k, flows[k]) \notin DOMAIN outbox' \cup Away'
    BY Zenon, <1>3 DEF Separate
  <2>3. \A k \in OpenFlows' : OutputID(k, flows'[k]) \notin DOMAIN outbox' \cup Away'
    BY <1>2, <2>2, Zenon
  <2> QED BY <1>2, <1>3, <1>5, <2>1, <2>3, Zenon DEF Separate, OutputID
<1> QED BY Zenon, <1>5, <1>6, <1>7, SameLedger

\* A replay moves them back.
LEMMA ReplayKeeps ==
    ASSUME TypeOK, Separate, Replay
    PROVE  Ledger' = Ledger /\ Separate'
<1>1. PICK R \in SUBSET DOMAIN dead : Replays(R)
  BY ReplayEffect, Zenon
<1>2. flows' = flows /\ accepted' = accepted /\ OpenFlows' = OpenFlows
  BY Zenon DEF Replay, OpenFlows
<1>3. /\ DOMAIN outbox' = DOMAIN outbox \cup R /\ Away' = Away \ R
      /\ DOMAIN dead' \cap DOMAIN settled' = {}
      /\ DOMAIN outbox \cap Away = {} /\ R \subseteq Away
  <2>1. DOMAIN dead \cap DOMAIN settled = {} /\ DOMAIN outbox \cap Away = {}
    BY Zenon DEF Separate
  <2>2. DOMAIN dead' = DOMAIN dead \ R /\ settled' = settled
    BY <1>1, Zenon DEF Replays
  <2>3. Away' = Away \ R /\ DOMAIN dead' \cap DOMAIN settled' = {} /\ R \subseteq Away
    BY Zenon, <2>1, <2>2 DEF Away
  <2> QED BY <1>1, <2>1, <2>3, Zenon DEF Replays
<1>4. \A x \in Away' : Filed(x)' = Filed(x)
  <2>1. ASSUME NEW x \in Away' PROVE Filed(x)' = Filed(x)
    <3>1. x \notin R
      BY Zenon, <1>3, <2>1
    <3>2. x \in DOMAIN dead' <=> x \in DOMAIN dead
      BY <1>1, <3>1, Zenon DEF Replays
    <3> QED BY <1>1, <3>2, Zenon DEF Replays, Filed
  <2> QED BY Zenon, <2>1
<1>5. Ids' = Ids
  <2>1. Ids' = {OutputID(k, flows[k]) : k \in OpenFlows} \cup (DOMAIN outbox \cup R) \cup (Away \ R)
    BY <1>2, <1>3, Zenon DEF Ids
  <2> QED BY Zenon, <1>3, <2>1 DEF Ids
<1>6. ASSUME NEW x \in Ids PROVE Held(x)' = Held(x)
  <2>1. CASE x \in R
    <3>1. x \in DOMAIN outbox' /\ x \notin DOMAIN outbox /\ x \in Away /\ x \in DOMAIN dead
      BY Zenon, <1>3, <2>1
    <3>2. outbox'[x] = Filed(x)
      BY <1>1, <2>1, <3>1, Zenon DEF Replays, Filed
    <3> QED BY <3>1, <3>2, Zenon DEF Held, Sheet
  <2>2. CASE x \notin R
    <3>1. (x \in DOMAIN outbox' <=> x \in DOMAIN outbox) /\ (x \in Away' <=> x \in Away)
      BY Zenon, <1>3, <2>2
    <3>2. x \in DOMAIN outbox' => outbox'[x] = outbox[x]
      BY <1>1, <2>2, Zenon DEF Replays
    <3> QED BY <1>2, <1>4, <3>1, <3>2, Zenon DEF Held, Sheet
  <2> QED BY Zenon, <2>1, <2>2
<1>7. Separate'
  <2>1. DOMAIN outbox' \cap Away' = {}
    BY Zenon, <1>3
  <2>2. DOMAIN outbox' \cup Away' = DOMAIN outbox \cup Away
    BY Zenon, <1>3
  <2>3. \A k \in OpenFlows' : OutputID(k, flows'[k]) \notin DOMAIN outbox' \cup Away'
    BY <1>2, <2>2, Zenon DEF Separate
  <2> QED BY <1>2, <1>3, <1>5, <2>1, <2>3, Zenon DEF Separate, OutputID
<1> QED BY Zenon, <1>5, <1>6, <1>7, SameLedger

\* A sweep turns flows into records of the same events.
LEMMA SweepKeeps ==
    ASSUME IInv, Separate, SweepTx
    PROVE  Ledger' = Ledger /\ Separate'
<1>0. TypeOK /\ ExpiryIndexExact
  BY Zenon DEF IInv
<1>1. PICK S \in SUBSET Key : Sweeps(S) /\ outbox' = FinalizeAll(S).outbox
  BY <1>0, SweepDetail, Zenon
<1>2. /\ Away' = Away /\ \A id : Filed(id)' = Filed(id)
      /\ dead' = dead /\ settled' = settled /\ accepted' = accepted
  BY AwayKept, Zenon DEF SweepTx, deliveryVars
<1> DEFINE ids == {OutputID(k, flows[k]) : k \in S}
<1>3. /\ S \subseteq OpenFlows /\ OpenFlows' = OpenFlows \ S
      /\ \A k \in OpenFlows' : flows'[k] = flows[k]
  BY Zenon, <1>1 DEF Sweeps, OpenFlows
<1>4. /\ DOMAIN outbox' = DOMAIN outbox \cup ids
      /\ \A id \in ids : outbox'[id] = Finalize(flows[id[1]], SweepReason(id[1]), sweepAt)
      /\ \A id \in DOMAIN outbox \ ids : outbox'[id] = outbox[id]
  BY Zenon, <1>1 DEF FinalizeAll
<1>5. \A id \in ids : id[1] \in S /\ id = OutputID(id[1], flows[id[1]])
  BY DEF OutputID
<1>6. Ids' = Ids
  <2>1. {OutputID(k, flows[k]) : k \in OpenFlows}' = {OutputID(k, flows[k]) : k \in OpenFlows'}
    BY Zenon, <1>3 DEF OutputID
  <2>2. {OutputID(k, flows[k]) : k \in OpenFlows} = {OutputID(k, flows[k]) : k \in OpenFlows'} \cup ids
    BY Zenon, <1>3
  <2>3. {OutputID(k, flows[k]) : k \in OpenFlows}' \cup ids = {OutputID(k, flows[k]) : k \in OpenFlows}
    BY <2>1, <2>2, Zenon
  <2> DEFINE O == {OutputID(k, flows[k]) : k \in OpenFlows}
  <2> HIDE DEF ids, O
  <2>4. Ids = O \cup DOMAIN outbox \cup Away /\ Ids' = O' \cup DOMAIN outbox' \cup Away'
    BY Zenon DEF Ids, O
  <2>5. O' \cup ids = O
    BY <2>3, Zenon DEF O
  <2> QED BY Zenon, <1>2, <1>4, <2>4, <2>5
<1>7. \A id \in ids : id \notin DOMAIN outbox /\ id \notin Away
  BY Zenon, <1>3 DEF Separate
<1>8. ASSUME NEW id \in ids PROVE Held(id)' = Held(id)
  <2>1. Held(id) = Sheet(flows[id[1]])
    BY <1>3, <1>5, <1>7, <1>8, Zenon DEF Held
  <2>2. Held(id)' = Sheet(outbox'[id])
    BY Zenon, <1>4, <1>8 DEF Held, Sheet
  <2>3. outbox'[id] = Finalize(flows[id[1]], SweepReason(id[1]), sweepAt)
    BY Zenon, <1>4, <1>8
  <2>4. Sheet(Finalize(flows[id[1]], SweepReason(id[1]), sweepAt)) = Sheet(flows[id[1]])
    BY FinalizeSheet, Zenon
  <2> QED BY Zenon, <2>1, <2>2, <2>3, <2>4
<1> HIDE DEF ids
<1>9. ASSUME NEW id \in Ids \ ids PROVE Held(id)' = Held(id)
  <2>1. CASE id \in DOMAIN outbox
    BY Zenon, <1>4, <1>9, <2>1 DEF Held, Sheet
  <2>2. CASE id \notin DOMAIN outbox /\ id \in Away
    BY Zenon, <1>2, <1>4, <1>9, <2>2 DEF Held, Sheet
  <2>3. CASE id \notin DOMAIN outbox /\ id \notin Away
    <3>1. PICK k \in OpenFlows : id = OutputID(k, flows[k])
      BY Zenon, <2>3 DEF Ids
    <3>2. k \notin S /\ id[1] = k
      BY Zenon, <1>9, <3>1 DEF ids, OutputID
    <3>3. flows'[k] = flows[k]
      BY Zenon, <1>3, <3>2
    <3> QED BY Zenon, <1>2, <1>4, <1>9, <2>3, <3>2, <3>3 DEF Held, Sheet
  <2> QED BY Zenon, <2>1, <2>2, <2>3
<1>10. Separate'
  <2>1. DOMAIN outbox' \cap Away' = {}
    BY Zenon, <1>2, <1>4, <1>7 DEF Separate
  <2>2. ASSUME NEW k \in OpenFlows' PROVE (OutputID(k, flows[k]) \notin DOMAIN outbox \cup Away)'
    <3>1. k \in OpenFlows /\ k \notin S /\ OutputID(k, flows'[k]) = OutputID(k, flows[k])
      BY Zenon, <1>3, <2>2
    <3>2. OutputID(k, flows[k]) \notin ids
      BY Zenon, <3>1 DEF ids, OutputID
    <3> QED BY Zenon, <1>2, <1>4, <3>1, <3>2 DEF Separate
  <2>3. \A id \in Ids' : \E a \in accepted' : a.observedAt = id[2]
    BY <1>2, <1>6, Zenon DEF Separate
  <2>4. DOMAIN dead' \cap DOMAIN settled' = {}
    BY <1>2, Zenon DEF Separate
  <2> QED BY Zenon, <2>1, <2>2, <2>3, <2>4 DEF Separate
<1> QED BY Zenon, <1>6, <1>8, <1>9, <1>10, SameLedger

\* Accept's transaction enters its event, once, under one identity.
LEMMA AcceptEnters ==
    ASSUME IInv, Separate, Fresh, NEW w \in Worker, AcceptTx(w)
    PROVE  LET e == batch[w][1]
           IN  /\ e \notin accepted /\ accepted' = accepted \cup {e}
               /\ Separate'
               /\ \E i, s : /\ DOMAIN Ledger' = DOMAIN Ledger \cup {i}
                            /\ \A j \in DOMAIN Ledger \ {i} : Ledger'[j] = Ledger[j]
                            /\ i \in DOMAIN Ledger => s = Ledger[i]
                            /\ i \notin DOMAIN Ledger => s = Blank
                            /\ Adds(s, Ledger'[i], e)
<1> DEFINE e == batch[w][1]
           k == e.key
           f == Current(e)
           g == Apply(f, e)
<1>0. TypeOK /\ StoredFlows
  BY Zenon DEF IInv
<1>1. /\ e \in Event /\ k \in Key /\ f \in Flow /\ FlagsExact(f) /\ Budgeted(f) /\ g \in Flow
      /\ \/ \E h \in Flow : Saves(k, h) /\ SameBody(h, g)
         \/ Ends(k, g) /\ \E now \in Nat : Closes(k, g, now)
  BY <1>0, AcceptDetail, Zenon
<1>2. /\ accepted' = accepted \cup {e} /\ pc[w] = "tx"
      /\ Away' = Away /\ \A id : Filed(id)' = Filed(id)
      /\ dead' = dead /\ settled' = settled
  BY AwayKept, Zenon DEF AcceptTx, deliveryVars
<1>3. \A a \in accepted : a.observedAt # e.observedAt
  BY Zenon, <1>2 DEF Fresh
<1> HIDE DEF e
<1>4. e \notin accepted
  BY <1>3, Zenon
<1>5. Takes(f, g, e)
  BY Zenon, <1>1, ApplyTakes
<1>6. /\ flows[k] = None => f = Open(e) /\ k \notin OpenFlows
      /\ flows[k] # None => f = flows[k] /\ k \in OpenFlows
  BY Zenon, <1>1 DEF Current, OpenFlows
<1> HIDE DEF f, g, k
<1>i. PICK i : i = OutputID(k, f)
  BY Zenon
<1>7. flows[k] = None => Sheet(f) = Blank /\ i = <<k, e.observedAt>>
  <2>1. Sheet(Open(e)) = Blank /\ Open(e).firstObservedAt = e.observedAt
    BY Zenon DEF Open, Sheet, Blank
  <2> QED BY <1>6, <1>i, <2>1, Zenon DEF OutputID
<1>8. i[1] = k /\ i[2] = f.firstObservedAt
  BY Zenon, <1>i DEF OutputID
<1>9. /\ flows[k] = None => i \notin Ids
      /\ flows[k] # None => i \in Ids /\ Held(i) = Sheet(f)
  <2>1. ASSUME flows[k] = None PROVE i \notin Ids
    <3>1. i[2] = e.observedAt
      BY <1>7, <2>1
    <3> QED BY <1>3, <3>1, Zenon DEF Separate
  <2>2. ASSUME flows[k] # None PROVE i \in Ids /\ Held(i) = Sheet(f)
    BY <1>i, <1>6, <2>2, OpenHeld, Zenon
  <2> QED BY Zenon, <2>1, <2>2
<1>10. i \notin DOMAIN outbox /\ i \notin Away
  <2>1. CASE flows[k] = None
    BY Zenon, <1>9, <2>1 DEF Ids
  <2>2. CASE flows[k] # None
    BY Zenon, <1>i, <1>6, <2>2 DEF Separate
  <2> QED BY Zenon, <2>1, <2>2
<1>11. \A j \in OpenFlows : j # k => OutputID(j, flows[j]) # i
  BY <1>8 DEF OutputID
<1>12. ASSUME NEW x, SameBody(x, g) \/ Sheet(x) = Sheet(g)
       PROVE  Adds(Sheet(f), Sheet(x), e)
  <2>1. Sheet(x) = Sheet(g)
    BY <1>12, Zenon DEF Sheet, SameBody
  <2>2. Adds(Sheet(f), Sheet(g), e)
    BY Zenon, <1>5 DEF Takes, Adds, Sheet
  <2> QED BY <2>1, <2>2, Zenon
<1>13. g.firstObservedAt = f.firstObservedAt
  BY <1>5, Zenon DEF Takes
<1>14. \E a \in accepted' : a.observedAt = i[2]
  <2>1. CASE flows[k] = None
    BY <1>2, <1>7, <2>1
  <2>2. CASE flows[k] # None
    BY <1>2, <1>9, <2>2, Zenon DEF Separate
  <2> QED BY Zenon, <2>1, <2>2
\* In both cases the identities and sheets afterwards are these.
<1>15. ASSUME Ids' = Ids \cup {i}, \A j \in Ids \ {i} : Held(j)' = Held(j),
              Adds(Sheet(f), Held(i)', e)
       PROVE  \E x, s : /\ DOMAIN Ledger' = DOMAIN Ledger \cup {x}
                        /\ \A j \in DOMAIN Ledger \ {x} : Ledger'[j] = Ledger[j]
                        /\ x \in DOMAIN Ledger => s = Ledger[x]
                        /\ x \notin DOMAIN Ledger => s = Blank
                        /\ Adds(s, Ledger'[x], e)
  <2>1. DOMAIN Ledger = Ids /\ DOMAIN Ledger' = Ids'
    BY Zenon DEF Ledger
  <2>2. (\A j \in Ids : Ledger[j] = Held(j)) /\ (\A j \in Ids' : Ledger'[j] = Held(j)')
    BY Zenon DEF Ledger
  <2>3. i \in Ids => Sheet(f) = Ledger[i]
    BY <1>9, <2>2, Zenon
  <2>4. i \notin Ids => Sheet(f) = Blank
    BY <1>7, <1>9, Zenon
  <2>5. i \in Ids' /\ \A j \in Ids \ {i} : j \in Ids'
    BY <1>15, Zenon
  <2>6. Adds(Sheet(f), Ledger'[i], e)
    BY <1>15, <2>2, <2>5, Zenon
  <2>7. \A j \in Ids \ {i} : Ledger'[j] = Ledger[j]
    BY <1>15, <2>2, <2>5, Zenon
  <2> QED BY <1>15, <2>1, <2>3, <2>4, <2>6, <2>7, Zenon
<1>16. ASSUME NEW h \in Flow, Saves(k, h), SameBody(h, g)
       PROVE  /\ Ids' = Ids \cup {i} /\ \A j \in Ids \ {i} : Held(j)' = Held(j)
              /\ Adds(Sheet(f), Held(i)', e) /\ Separate'
  <2>1. /\ h # None /\ flows' = [flows EXCEPT ![k] = h] /\ outbox' = outbox
        /\ OpenFlows' = OpenFlows \cup {k}
    <3>1. h # None
      BY Zenon, <1>16, NoneAssumption
    <3> QED BY <1>0, <1>1, <1>16, <3>1, Zenon DEF Saves, OpenFlows, TypeOK
  <2>2. flows'[k] = h /\ \A j \in Key \ {k} : flows'[j] = flows[j]
    BY Zenon, <1>0, <1>1, <2>1 DEF TypeOK
  <2>3. OutputID(k, flows'[k]) = i
    BY Zenon, <1>i, <1>13, <1>16, <2>2 DEF OutputID, SameBody
  <2>4. \A j \in OpenFlows \ {k} : OutputID(j, flows'[j]) = OutputID(j, flows[j])
    BY Zenon, <2>2 DEF OpenFlows
  <2>5. k \in OpenFlows => OutputID(k, flows[k]) = i
    BY Zenon, <1>i, <1>6 DEF OpenFlows
  <2>6. Ids' = Ids \cup {i}
    <3> DEFINE O == {OutputID(j, flows[j]) : j \in OpenFlows \ {k}}
    <3>1. {OutputID(j, flows[j]) : j \in OpenFlows}' = O \cup {i}
      BY Zenon, <2>1, <2>3, <2>4
    <3>2. {OutputID(j, flows[j]) : j \in OpenFlows} \cup {i} = O \cup {i}
      BY Zenon, <2>5
    <3> QED BY <1>2, <2>1, <3>1, <3>2, Zenon DEF Ids
  <2>7. ASSUME NEW j \in Ids \ {i} PROVE Held(j)' = Held(j)
    <3>1. CASE j \in DOMAIN outbox \cup Away
      BY <1>2, <2>1, <3>1, Zenon DEF Held, Sheet
    <3>2. CASE j \notin DOMAIN outbox \cup Away
      <4>1. PICK m \in OpenFlows : j = OutputID(m, flows[m])
        BY Zenon, <3>2 DEF Ids
      <4>2. m # k /\ j[1] = m /\ m \in Key
        BY Zenon, <2>5, <2>7, <4>1 DEF OutputID, OpenFlows
      <4>3. flows'[m] = flows[m]
        BY <2>2, <4>2, Zenon
      <4> QED BY Zenon, <1>2, <2>1, <3>2, <4>2, <4>3 DEF Held, Sheet
    <3> QED BY Zenon, <3>1, <3>2
  <2>8. Held(i)' = Sheet(h)
    BY Zenon, <1>2, <1>8, <1>10, <2>1, <2>2 DEF Held, Sheet
  <2>9. Separate'
    <3>1. \A j \in OpenFlows' : OutputID(j, flows'[j]) \notin DOMAIN outbox' \cup Away'
      BY <1>2, <1>10, <2>1, <2>3, <2>4 DEF Separate
    <3>2. \A id \in Ids' : \E a \in accepted' : a.observedAt = id[2]
      BY <1>2, <1>14, <2>6, Zenon DEF Separate
    <3> QED BY <1>2, <2>1, <3>1, <3>2, Zenon DEF Separate
  <2> QED BY <1>12, <1>16, <2>6, <2>7, <2>8, <2>9, Zenon
<1>17. ASSUME Ends(k, g), NEW now \in Nat, Closes(k, g, now)
       PROVE  /\ Ids' = Ids \cup {i} /\ \A j \in Ids \ {i} : Held(j)' = Held(j)
              /\ Adds(Sheet(f), Held(i)', e) /\ Separate'
  <2> DEFINE d == Finalize(g, ShouldClose(g, now).reason, now)
  <2>1. /\ flows' = [flows EXCEPT ![k] = None]
        /\ OpenFlows' = OpenFlows \ {k}
    BY <1>0, <1>1, <1>17, Zenon DEF Ends, OpenFlows, TypeOK
  <2>2. \A j \in Key \ {k} : flows'[j] = flows[j]
    BY Zenon, <1>0, <1>1, <2>1 DEF TypeOK
  <2>3. OutputID(k, g) = i
    BY Zenon, <1>i, <1>13 DEF OutputID
  <2>4. k \in OpenFlows => OutputID(k, flows[k]) = i
    BY Zenon, <1>i, <1>6 DEF OpenFlows
  <2> HIDE DEF d
  <2>5. /\ DOMAIN outbox' = DOMAIN outbox \cup {i} /\ outbox'[i] = d
        /\ \A x \in DOMAIN outbox : x # i => outbox'[x] = outbox[x]
    BY Zenon, <1>17, <2>3 DEF Closes, d
  <2>6. \A j \in OpenFlows \ {k} : OutputID(j, flows'[j]) = OutputID(j, flows[j])
    BY Zenon, <2>2 DEF OpenFlows
  <2>7. Ids' = Ids \cup {i}
    <3> DEFINE O == {OutputID(j, flows[j]) : j \in OpenFlows \ {k}}
    <3>1. {OutputID(j, flows[j]) : j \in OpenFlows}' = O
      BY Zenon, <2>1, <2>6
    <3>2. {OutputID(j, flows[j]) : j \in OpenFlows} \cup {i} = O \cup {i}
      BY Zenon, <2>4
    <3> QED BY <1>2, <2>5, <3>1, <3>2, Zenon DEF Ids
  <2>8. ASSUME NEW j \in Ids \ {i} PROVE Held(j)' = Held(j)
    <3>1. CASE j \in DOMAIN outbox \cup Away
      BY Zenon, <1>2, <2>5, <2>8, <3>1 DEF Held, Sheet
    <3>2. CASE j \notin DOMAIN outbox \cup Away
      <4>1. PICK m \in OpenFlows : j = OutputID(m, flows[m])
        BY Zenon, <3>2 DEF Ids
      <4>2. m # k /\ j[1] = m /\ m \in Key
        BY Zenon, <2>4, <2>8, <4>1 DEF OutputID, OpenFlows
      <4>3. flows'[m] = flows[m]
        BY Zenon, <2>2, <4>2
      <4> QED BY Zenon, <1>2, <2>5, <2>8, <3>2, <4>2, <4>3 DEF Held, Sheet
    <3> QED BY Zenon, <3>1, <3>2
  <2>9. Held(i)' = Sheet(d) /\ Sheet(d) = Sheet(g)
    <3>1. Held(i)' = Sheet(d)
      BY Zenon, <2>5 DEF Held, Sheet
    <3> QED BY <3>1, FinalizeSheet, Zenon DEF d
  <2>10. Separate'
    <3>1. \A j \in OpenFlows' : OutputID(j, flows'[j]) \notin DOMAIN outbox' \cup Away'
      <4>1. ASSUME NEW j \in OpenFlows'
            PROVE  OutputID(j, flows'[j]) \notin DOMAIN outbox' \cup Away'
        <5>1. j \in OpenFlows \ {k} /\ OutputID(j, flows'[j]) = OutputID(j, flows[j])
          BY <2>1, <2>6, <4>1, Zenon
        <5>2. /\ OutputID(j, flows[j]) # i
              /\ OutputID(j, flows[j]) \notin DOMAIN outbox \cup Away
          BY <1>11, <5>1, Zenon DEF Separate
        <5> QED BY <1>2, <2>5, <5>1, <5>2, Zenon
      <4> QED BY Zenon, <4>1
    <3>2. \A id \in Ids' : \E a \in accepted' : a.observedAt = id[2]
      BY <1>2, <1>14, <2>7, Zenon DEF Separate
    <3>3. DOMAIN outbox' \cap Away' = {}
      BY Zenon, <1>2, <1>10, <2>5 DEF Separate
    <3>4. DOMAIN dead' \cap DOMAIN settled' = {}
      BY <1>2, Zenon DEF Separate
    <3> QED BY <3>1, <3>2, <3>3, <3>4, Zenon DEF Separate
  <2> QED BY <1>12, <2>7, <2>8, <2>9, <2>10, Zenon
<1>18. /\ Ids' = Ids \cup {i} /\ \A j \in Ids \ {i} : Held(j)' = Held(j)
       /\ Adds(Sheet(f), Held(i)', e) /\ Separate'
  BY <1>1, <1>16, <1>17, Zenon
<1> QED BY <1>2, <1>4, <1>15, <1>18, Zenon DEF e

\* Requests of one event each never share an observed time: receiving one moves
\* the clock, and no step brings an answered one back.
LEMMA FreshStep ==
    ASSUME MaxBatch = 1, TypeOK, Fresh, [Next]_vars
    PROVE  Fresh'
<1>0. /\ clock \in Nat /\ \A a \in accepted : a.observedAt \in Nat
      /\ \A w \in Worker : pc[w] # "idle" => batch[w][1].observedAt \in Nat
  <2>1. clock \in Nat /\ \A a \in accepted : a.observedAt \in Nat
    BY CorrelationAssumption DEF TypeOK, Event
  <2>2. ASSUME NEW w \in Worker, pc[w] # "idle" PROVE batch[w][1].observedAt \in Nat
    <3>1. batch[w] \in Seq(Event) /\ Len(batch[w]) = 1
      BY Zenon, <2>2 DEF TypeOK, Fresh
    <3>2. batch[w][1] \in Event
      BY <3>1
    <3> QED BY <3>2, CorrelationAssumption DEF Event
  <2> QED BY Zenon, <2>1, <2>2
<1>1. ASSUME NEW w \in Worker, Receive(w) PROVE Fresh'
  <2>1. PICK n \in 1..MaxBatch :
          \E ks \in [1..n -> Key], ds \in [1..n -> Document] :
             batch' = [batch EXCEPT ![w] =
                         [j \in 1..n |-> [id |-> received + j, key |-> ks[j],
                                          doc |-> ds[j], observedAt |-> clock']]]
    BY <1>1, Zenon DEF Receive
  <2>2. n = 1
    BY <2>1
  <2>3. PICK ks \in [1..n -> Key], ds \in [1..n -> Document] :
          batch' = [batch EXCEPT ![w] =
                      [j \in 1..n |-> [id |-> received + j, key |-> ks[j],
                                       doc |-> ds[j], observedAt |-> clock']]]
    BY <2>1, Zenon
  <2> DEFINE new == [j \in 1..n |-> [id |-> received + j, key |-> ks[j],
                                     doc |-> ds[j], observedAt |-> clock']]
  <2>4. Len(new) = 1 /\ new[1].observedAt = clock'
    BY <2>2
  <2> HIDE DEF new
  <2>5. batch'[w] = new /\ \A v \in Worker \ {w} : batch'[v] = batch[v]
    BY <2>3, Zenon DEF new, TypeOK
  <2>6. /\ clock' = clock + 1 /\ accepted' = accepted
        /\ \A v \in Worker \ {w} : pc'[v] = pc[v]
    BY Zenon, <1>1 DEF Receive, TypeOK
  <2>7. \A a \in accepted : a.observedAt <= clock' /\ a.observedAt # clock'
    BY <1>0, <2>6 DEF Fresh
  <2>8. \A v \in Worker : pc[v] # "idle" =>
          batch[v][1].observedAt <= clock' /\ batch[v][1].observedAt # clock'
    BY <1>0, <2>6 DEF Fresh
  <2>9. clock' \in Nat
    BY <1>0, <2>6
  <2>10. ASSUME NEW v \in Worker, pc'[v] # "idle"
         PROVE  /\ Len(batch'[v]) = 1
                /\ batch'[v][1].observedAt <= clock'
                /\ \A a \in accepted' : a.observedAt # batch'[v][1].observedAt
                /\ \A u \in Worker \ {v} : pc'[u] # "idle" =>
                     batch'[u][1].observedAt # batch'[v][1].observedAt
    <3>1. CASE v = w
      BY <2>4, <2>5, <2>6, <2>7, <2>8, <2>9, <3>1
    <3>2. CASE v # w
      BY <2>4, <2>5, <2>6, <2>7, <2>8, <2>10, <3>2 DEF Fresh
    <3> QED BY Zenon, <3>1, <3>2
  <2> QED BY Zenon, <2>6, <2>7, <2>10 DEF Fresh
<1>2. ASSUME NEW w \in Worker, Respond(w), UNCHANGED clock,
             \/ UNCHANGED accepted
             \/ pc[w] # "idle" /\ accepted' = accepted \cup {batch[w][1]}
      PROVE  Fresh'
  <2>1. /\ pc'[w] = "idle"
        /\ \A v \in Worker \ {w} : pc'[v] = pc[v] /\ batch'[v] = batch[v]
    BY <1>2, Zenon DEF Respond, TypeOK
  <2>2. \A a \in accepted' : a.observedAt <= clock'
    BY <1>2, Zenon DEF Fresh
  <2>3. ASSUME NEW v \in Worker, pc'[v] # "idle"
        PROVE  /\ Len(batch'[v]) = 1
               /\ batch'[v][1].observedAt <= clock'
               /\ \A a \in accepted' : a.observedAt # batch'[v][1].observedAt
               /\ \A u \in Worker \ {v} : pc'[u] # "idle" =>
                    batch'[u][1].observedAt # batch'[v][1].observedAt
    <3>1. v # w /\ pc[v] # "idle" /\ batch'[v] = batch[v]
      BY Zenon, <2>1, <2>3
    <3> QED BY <1>2, <2>1, <3>1 DEF Fresh
  <2> QED BY Zenon, <2>2, <2>3 DEF Fresh
<1>3. ASSUME NEW w \in Worker, AcceptTx(w) PROVE Fresh'
  <2>1. pc[w] = "tx" /\ UNCHANGED clock /\ accepted' = accepted \cup {batch[w][1]} /\ Proceed(w)
    BY <1>3, Zenon DEF AcceptTx
  <2>2. Len(batch[w]) = 1
    BY <2>1, Zenon DEF Fresh
  <2> QED BY Zenon, <1>2, <2>1, <2>2 DEF Proceed
<1>4. ASSUME UNCHANGED <<accepted, batch>>, clock' \in Nat, clock <= clock',
             \A w \in Worker : pc'[w] # "idle" => pc[w] # "idle"
      PROVE  Fresh'
  BY <1>0, <1>4 DEF Fresh
<1>5. ASSUME NEW w \in Worker, CheckOpenFlows(w) \/ CheckOutbox(w) \/ AcceptFails(w) PROVE Fresh'
  <2>1. UNCHANGED <<clock, accepted>>
    BY Zenon, <1>5 DEF CheckOpenFlows, CheckOutbox, AcceptFails
  <2>2. CASE Respond(w)
    BY <1>2, <2>1, <2>2, Zenon
  <2>3. CASE ~Respond(w)
    <3>1. UNCHANGED batch /\ \A v \in Worker : pc'[v] # "idle" => pc[v] # "idle"
      BY <1>5, <2>3, Zenon DEF CheckOpenFlows, CheckOutbox, AcceptFails, TypeOK
    <3> QED BY <1>0, <1>4, <2>1, <3>1
  <2> QED BY Zenon, <2>2, <2>3
<1>6. CASE Restart
  <2>1. \A w \in Worker : pc'[w] = "idle"
    BY Zenon, <1>6 DEF Restart, Quiet
  <2> QED BY <1>6, <2>1, Zenon DEF Restart, Fresh
<1>7. CASE Tick
  <2>1. clock' \in Nat /\ clock <= clock'
    BY <1>0, <1>7 DEF Tick
  <2>2. UNCHANGED <<accepted, batch, pc>>
    BY <1>7, Zenon DEF Tick, requestVars
  <2> QED BY <1>4, <2>1, <2>2, Zenon
<1>8. CASE UNCHANGED <<clock, accepted, pc, batch>>
  BY <1>0, <1>4, <1>8
<1> QED
  BY <1>1, <1>3, <1>5, <1>6, <1>7, <1>8, Zenon DEF Next, vars, requestVars, Request, Sweep, SweepBegin,
     SweepTx, Deliver, Replay, Reload

\* No step makes the book wrong.
LEMMA BookStep ==
    ASSUME Counting, IInv, Separate, Fresh, Sound(Ledger, accepted), [Next]_vars
    PROVE  Separate' /\ Sound(Ledger', accepted')
<1>1. ASSUME NEW w \in Worker, AcceptTx(w) PROVE Separate' /\ Sound(Ledger', accepted')
  <2> DEFINE e == batch[w][1]
  <2>1. /\ e \notin accepted /\ accepted' = accepted \cup {e} /\ Separate'
        /\ \E i, s : /\ DOMAIN Ledger' = DOMAIN Ledger \cup {i}
                     /\ \A j \in DOMAIN Ledger \ {i} : Ledger'[j] = Ledger[j]
                     /\ i \in DOMAIN Ledger => s = Ledger[i]
                     /\ i \notin DOMAIN Ledger => s = Blank
                     /\ Adds(s, Ledger'[i], e)
    BY <1>1, AcceptEnters, Zenon
  <2> HIDE DEF e
  <2>2. Sound(Ledger', accepted \cup {e})
    BY <2>1, BookGrows, Zenon
  <2> QED BY <2>1, <2>2, Zenon
<1>2. ASSUME Ledger' = Ledger, accepted' = accepted PROVE Sound(Ledger', accepted')
  BY <1>2, Zenon
<1>3. CASE SweepTx
  BY <1>2, <1>3, SweepKeeps, Zenon DEF SweepTx
<1>4. CASE Deliver
  BY <1>2, <1>4, DeliverKeeps, Zenon DEF Deliver, IInv
<1>6. CASE Replay
  BY <1>2, <1>6, ReplayKeeps, Zenon DEF Replay, IInv
<1>5. CASE UNCHANGED <<flows, outbox, dead, settled, accepted>>
  <2>1. OpenFlows' = OpenFlows
    BY <1>5, Zenon DEF OpenFlows
  <2>2. Ids' = Ids /\ Ledger' = Ledger
    BY <1>5, <2>1, Zenon DEF Ids, Ledger, Held, Sheet, Away, Filed
  <2>3. Separate'
    BY <1>5, <2>1, <2>2, Zenon DEF Separate, Away
  <2> QED BY Zenon, <1>2, <1>5, <2>2, <2>3
<1> QED
  BY <1>1, <1>3, <1>4, <1>5, <1>6, Zenon DEF Next, vars, storeVars, deliveryVars, requestVars,
     Tick, Receive, Request, CheckOpenFlows, CheckOutbox, AcceptFails, Sweep, SweepBegin, Reload,
     Restart
-----------------------------------------------------------------------------
\* The identity under which the book has what is at place p.
Identity(p) == IF p[1] = "flow" THEN OutputID(p[2], flows[p[2]]) ELSE p[2]

\* Places and identities correspond, and the book has what the places have.
LEMMA PlacesAreIds ==
    ASSUME Separate
    PROVE  /\ \A p \in Places : /\ Identity(p) \in Ids
                                /\ Ledger[Identity(p)] = Sheet(Content(p))
           /\ \A p, q \in Places : Identity(p) = Identity(q) => p = q
           /\ \A id \in Ids : \E p \in Places : Identity(p) = id
<1>1. ASSUME NEW p \in Places
      PROVE  /\ p = <<p[1], p[2]>>
             /\ \/ p[1] = "flow" /\ p[2] \in OpenFlows
                \/ p[1] = "outbox" /\ p[2] \in DOMAIN outbox
                \/ p[1] = "dead" /\ p[2] \in DOMAIN dead
                \/ p[1] = "settled" /\ p[2] \in DOMAIN settled
  BY DEF Places
<1>2. \A id \in Ids : Ledger[id] = Held(id)
  BY Zenon DEF Ledger
<1>3. ASSUME NEW p \in Places
      PROVE  Identity(p) \in Ids /\ Held(Identity(p)) = Sheet(Content(p))
  <2>1. CASE p[1] = "flow" /\ p[2] \in OpenFlows
    BY <2>1, OpenHeld, Zenon DEF Identity, Content
  <2>2. CASE p[1] = "outbox" /\ p[2] \in DOMAIN outbox
    <3>1. Identity(p) = p[2] /\ Content(p) = outbox[p[2]]
      BY <2>2, Zenon DEF Identity, Content
    <3> QED BY Zenon, <2>2, <3>1 DEF Held, Ids
  <2>3. CASE \/ p[1] = "dead" /\ p[2] \in DOMAIN dead
             \/ p[1] = "settled" /\ p[2] \in DOMAIN settled
    <3>1. Identity(p) = p[2]
      BY Zenon, <2>3 DEF Identity
    <3>2. Content(p) = Filed(p[2])
      BY Zenon, <2>3 DEF Content, Filed, Separate
    <3>3. p[2] \in Away /\ p[2] \notin DOMAIN outbox
      BY Zenon, <2>3 DEF Separate, Away
    <3> QED BY Zenon, <3>1, <3>2, <3>3 DEF Held, Ids
  <2> QED BY <1>1, <2>1, <2>2, <2>3, Zenon
<1>4. ASSUME NEW p \in Places, NEW q \in Places, Identity(p) = Identity(q)
      PROVE  p = q
  <2>1. \A k \in OpenFlows : OutputID(k, flows[k])[1] = k
    BY Zenon DEF OutputID
  <2>2. p[1] = q[1] /\ p[2] = q[2]
    <3>1. CASE p[1] = "flow" /\ p[2] \in OpenFlows
      BY <1>1, <1>4, <2>1, <3>1 DEF Identity, Separate, Away
    <3>2. CASE p[1] = "outbox" /\ p[2] \in DOMAIN outbox
      BY Zenon, <1>1, <1>4, <3>2 DEF Identity, Separate, Away
    <3>3. CASE p[1] = "dead" /\ p[2] \in DOMAIN dead
      BY Zenon, <1>1, <1>4, <3>3 DEF Identity, Separate, Away
    <3>4. CASE p[1] = "settled" /\ p[2] \in DOMAIN settled
      BY Zenon, <1>1, <1>4, <3>4 DEF Identity, Separate, Away
    <3> QED BY <1>1, <3>1, <3>2, <3>3, <3>4, Zenon
  <2> QED BY Zenon, <1>1, <2>2
<1>5. ASSUME NEW id \in Ids PROVE \E p \in Places : Identity(p) = id
  <2>1. CASE \E k \in OpenFlows : id = OutputID(k, flows[k])
    <3>1. PICK k \in OpenFlows : id = OutputID(k, flows[k])
      BY Zenon, <2>1
    <3>2. <<"flow", k>> \in Places /\ Identity(<<"flow", k>>) = id
      BY Zenon, <3>1 DEF Places, Identity
    <3> QED BY Zenon, <3>2
  <2>2. CASE id \in DOMAIN outbox
    <3>1. <<"outbox", id>> \in Places /\ Identity(<<"outbox", id>>) = id
      BY Zenon, <2>2 DEF Places, Identity
    <3> QED BY Zenon, <3>1
  <2>3. CASE id \in DOMAIN dead
    <3>1. <<"dead", id>> \in Places /\ Identity(<<"dead", id>>) = id
      BY Zenon, <2>3 DEF Places, Identity
    <3> QED BY Zenon, <3>1
  <2>4. CASE id \in DOMAIN settled
    <3>1. <<"settled", id>> \in Places /\ Identity(<<"settled", id>>) = id
      BY Zenon, <2>4 DEF Places, Identity
    <3> QED BY Zenon, <3>1
  <2> QED BY Zenon, <2>1, <2>2, <2>3, <2>4 DEF Ids, Away
<1> QED BY <1>2, <1>3, <1>4, <1>5, Zenon
-----------------------------------------------------------------------------
\* Requests past the first check, and past both.
Past == {w \in Worker : pc[w] \in {"outbox", "tx"}}
Committing == {w \in Worker : pc[w] = "tx"}

\* The outbox records that no replay put there.
Pending == DOMAIN outbox \ replayed

\* Every request past a check may still add one flow or record: with those
\* requests counted in, the high-water marks bound what the store holds.
Room(open, pending, past, committing, all) ==
    /\ MaxOpenFlows > 0 => open + past <= MaxOpenFlows + all - 1
    /\ MaxOpenFlows > 0 /\ MaxOutboxRecords > 0 =>
         open + pending + committing <= MaxOpenFlows + MaxOutboxRecords + all - 2
Headroom ==
    Room(Cardinality(OpenFlows), Cardinality(Pending), Cardinality(Past),
         Cardinality(Committing), Cardinality(Worker))

\* What is counted is finite.
Counted ==
    /\ IsFiniteSet(OpenFlows) /\ Cardinality(OpenFlows) \in Nat
    /\ Cardinality(DOMAIN outbox) \in Nat
    /\ IsFiniteSet(Pending) /\ Cardinality(Pending) \in Nat
    /\ Cardinality(Pending) <= Cardinality(DOMAIN outbox)
    /\ IsFiniteSet(Past) /\ Cardinality(Past) \in Nat
    /\ IsFiniteSet(Committing) /\ Cardinality(Committing) \in Nat
    /\ Cardinality(Worker) \in Nat
    /\ Cardinality(Past) <= Cardinality(Worker)
    /\ Cardinality(Committing) <= Cardinality(Past)

\* What a sweep does to the counts.
Swept ==
    /\ Cardinality(OpenFlows') <= Cardinality(OpenFlows)
    /\ Cardinality(OpenFlows') + Cardinality(Pending')
         <= Cardinality(OpenFlows) + Cardinality(Pending)

\* Room is left when nothing grows, when a request leaves with what it added,
\* and when one passes a check below the mark.
LEMMA RoomLeft ==
    ASSUME NEW a \in Nat, NEW b \in Nat, NEW p \in Nat, NEW q \in Nat, NEW n \in Nat,
           NEW c \in Nat, NEW d \in Nat, NEW r \in Nat, NEW s \in Nat,
           Room(a, b, p, q, n), r <= n, s <= r,
           \/ c <= a /\ c + d <= a + b /\ r <= p /\ s <= q
           \/ c <= a + 1 /\ c + d <= a + b + 1 /\ r = p - 1 /\ s = q - 1
           \/ c = a /\ d = b /\ s = q /\ (MaxOpenFlows > 0 => a < MaxOpenFlows)
           \/ c = a /\ d = b /\ r = p /\ (MaxOutboxRecords > 0 => b < MaxOutboxRecords)
    PROVE  Room(c, d, r, s, n)
<1>1. MaxOpenFlows \in Nat /\ MaxOutboxRecords \in Nat
  BY Zenon, CorrelationAssumption
<1>2. CASE c <= a /\ c + d <= a + b /\ r <= p /\ s <= q
  BY <1>1, <1>2 DEF Room
<1>3. CASE c <= a + 1 /\ c + d <= a + b + 1 /\ r = p - 1 /\ s = q - 1
  BY <1>1, <1>3 DEF Room
<1>4. CASE c = a /\ d = b /\ s = q /\ (MaxOpenFlows > 0 => a < MaxOpenFlows)
  BY <1>1, <1>4 DEF Room
<1>5. CASE c = a /\ d = b /\ r = p /\ (MaxOutboxRecords > 0 => b < MaxOutboxRecords)
  BY <1>1, <1>5 DEF Room
<1> QED BY <1>2, <1>3, <1>4, <1>5, Zenon

\* One element more.
LEMMA Added ==
    ASSUME Counting, NEW S, NEW T, NEW x, IsFiniteSet(S), T = S \cup {x}
    PROVE  /\ Cardinality(S) \in Nat /\ Cardinality(T) \in Nat
           /\ Cardinality(T) <= Cardinality(S) + 1
<1>1. Cardinality(S) \in Nat
  BY Zenon DEF Counting
<1>2. Cardinality(T) = IF x \in S THEN Cardinality(S) ELSE Cardinality(S) + 1
  BY Zenon DEF Counting
<1> QED BY <1>1, <1>2

\* One element less.
LEMMA Removed ==
    ASSUME Counting, NEW S, NEW T, NEW x, IsFiniteSet(S), T = S \ {x}
    PROVE  /\ Cardinality(S) \in Nat /\ Cardinality(T) \in Nat
           /\ Cardinality(T) <= Cardinality(S)
           /\ x \in S => Cardinality(T) = Cardinality(S) - 1
<1>1. Cardinality(S) \in Nat /\ Cardinality(T) \in Nat
  BY Zenon DEF Counting
<1>2. Cardinality(T) = IF x \in S THEN Cardinality(S) - 1 ELSE Cardinality(S)
  BY Zenon DEF Counting
<1> QED BY <1>1, <1>2

\* A request that leaves its transaction is counted out.
LEMMA Leaves ==
    ASSUME Counting, TypeOK, Counted, NEW w \in Worker, NEW s \in {"idle", "flows"},
           pc' = [pc EXCEPT ![w] = s]
    PROVE  /\ Cardinality(Past') <= Cardinality(Past)
           /\ Cardinality(Committing') <= Cardinality(Committing)
           /\ pc[w] = "tx" => /\ Cardinality(Past') = Cardinality(Past) - 1
                              /\ Cardinality(Committing') = Cardinality(Committing) - 1
<1>1. Past' = Past \ {w} /\ Committing' = Committing \ {w}
  BY Zenon DEF Past, Committing, TypeOK
<1>2. pc[w] = "tx" => w \in Past /\ w \in Committing
  BY Zenon DEF Past, Committing
<1>3. IsFiniteSet(Past) /\ IsFiniteSet(Committing)
  BY Zenon DEF Counted
<1> QED BY <1>1, <1>2, <1>3, Removed, Zenon

\* Accept's transaction adds at most one flow, and at most one flow or record.
LEMMA AcceptAdds ==
    ASSUME Counting, TypeOK, TypeOK', Counted, StoredFlows, NEW w \in Worker, AcceptTx(w)
    PROVE  /\ Cardinality(OpenFlows') <= Cardinality(OpenFlows) + 1
           /\ Cardinality(OpenFlows') + Cardinality(Pending')
                <= Cardinality(OpenFlows) + Cardinality(Pending) + 1
<1>0. IsFiniteSet(OpenFlows) /\ IsFiniteSet(Pending)
  BY Zenon DEF Counted
<1>4. replayed' = replayed
  BY Zenon DEF AcceptTx, deliveryVars
<1>1. PICK k \in Key, f \in Flow : Saves(k, f) \/ Ends(k, f)
  BY Zenon, AcceptEffect
<1>2. CASE Saves(k, f)
  <2>1. OpenFlows' = OpenFlows \cup {k}
    <3>1. f # None /\ flows \in [Key -> Flow \cup {None}] /\ flows' = [flows EXCEPT ![k] = f]
      BY Zenon, <1>2, NoneAssumption DEF Saves, TypeOK
    <3> QED BY <3>1, Zenon DEF OpenFlows
  <2>2. Pending' = Pending
    BY Zenon, <1>2, <1>4 DEF Saves, Pending
  <2>3. /\ Cardinality(OpenFlows) \in Nat /\ Cardinality(OpenFlows') \in Nat
        /\ Cardinality(OpenFlows') <= Cardinality(OpenFlows) + 1
    BY <1>0, <2>1, Added, Zenon
  <2>4. Cardinality(Pending) \in Nat
    BY Zenon DEF Counted
  <2> QED BY <2>2, <2>3, <2>4
<1>3. CASE Ends(k, f)
  <2>1. OpenFlows' = OpenFlows \ {k}
    BY <1>3, Zenon DEF Ends, OpenFlows, TypeOK
  <2>2. Pending' \subseteq Pending \cup {OutputID(k, f)}
    BY Zenon, <1>3, <1>4 DEF Ends, Pending
  <2>3. /\ Cardinality(OpenFlows) \in Nat /\ Cardinality(OpenFlows') \in Nat
        /\ Cardinality(OpenFlows') <= Cardinality(OpenFlows)
    BY <1>0, <2>1, Removed, Zenon
  <2> DEFINE more == Pending \cup {OutputID(k, f)}
  <2>4. /\ Cardinality(Pending) \in Nat /\ Cardinality(more) \in Nat
        /\ Cardinality(more) <= Cardinality(Pending) + 1
    BY <1>0, Added, Zenon
  <2>5. /\ Cardinality(Pending') \in Nat
        /\ Cardinality(Pending') <= Cardinality(more)
    <3>1. IsFiniteSet(more)
      BY <1>0, Zenon DEF Counting
    <3>2. IsFiniteSet(Pending') /\ Cardinality(Pending') <= Cardinality(more)
      BY <2>2, <3>1, Zenon DEF Counting
    <3> QED BY <3>2, Zenon DEF Counting
  <2> HIDE DEF more
  <2> QED BY <2>3, <2>4, <2>5
<1> QED BY Zenon, <1>1, <1>2, <1>3

\* No step uses more than the headroom.
LEMMA HeadroomStep ==
    ASSUME Counting, TypeOK, TypeOK', Counted, Counted', StoredFlows, ExpiryIndexExact,
           Headroom, [Next]_vars, SweepTx => Swept
    PROVE  Headroom'
<1> DEFINE A == Cardinality(OpenFlows)
           B == Cardinality(Pending)
           P == Cardinality(Past)
           Q == Cardinality(Committing)
           N == Cardinality(Worker)
<1>0. A \in Nat /\ B \in Nat /\ P \in Nat /\ Q \in Nat /\ N \in Nat /\ P <= N /\ Q <= P
  BY Zenon DEF Counted
<1>00. A' \in Nat /\ B' \in Nat /\ P' \in Nat /\ Q' \in Nat /\ P' <= N /\ Q' <= P'
  BY Zenon DEF Counted
<1>1. ASSUME A' <= A, A' + B' <= A + B, P' <= P, Q' <= Q PROVE Headroom'
  BY <1>0, <1>00, <1>1, RoomLeft, ZenonT(60) DEF Headroom
<1>2. ASSUME NEW w \in Worker, AcceptTx(w) PROVE Headroom'
  <2>1. P' = P - 1 /\ Q' = Q - 1
    BY <1>2, Leaves, Zenon DEF AcceptTx, Proceed, Respond
  <2>2. A' <= A + 1 /\ A' + B' <= A + B + 1
    BY <1>2, AcceptAdds, Zenon
  <2> QED BY <1>0, <1>00, <2>1, <2>2, RoomLeft, ZenonT(60) DEF Headroom
<1>3. CASE SweepTx
  <2>1. Past' = Past /\ Committing' = Committing
    BY <1>3, Zenon DEF SweepTx, requestVars, Past, Committing
  <2> QED BY <1>0, <1>1, <1>3, <2>1 DEF Swept
<1>4. ASSUME NEW w \in Worker, AcceptFails(w) PROVE Headroom'
  <2>1. P' <= P /\ Q' <= Q
    BY <1>4, Leaves, Zenon DEF AcceptFails, Respond
  <2>2. A' = A /\ B' = B
    BY Zenon, <1>4 DEF AcceptFails, storeVars, deliveryVars, OpenFlows, Pending
  <2> QED BY <1>0, <1>1, <2>1, <2>2
<1>5. ASSUME NEW w \in Worker, CheckOpenFlows(w) PROVE Headroom'
  <2>1. A' = A /\ B' = B
    BY <1>5, Zenon DEF CheckOpenFlows, storeVars, deliveryVars, OpenFlows, Pending
  <2>2. CASE Respond(w)
    <3>1. P' <= P /\ Q' <= Q
      BY <2>2, Leaves, Zenon DEF Respond
    <3> QED BY <1>0, <1>1, <2>1, <3>1
  <2>3. CASE ~Respond(w)
    <3>1. (MaxOpenFlows > 0 => A < MaxOpenFlows) /\ pc' = [pc EXCEPT ![w] = "outbox"] /\ pc[w] = "flows"
      BY <1>5, <2>3, <1>0, CorrelationAssumption DEF CheckOpenFlows
    <3>2. Committing' = Committing
      BY Zenon, <3>1 DEF Committing, TypeOK
    <3>3. Q' = Q
      BY <3>2, Zenon
    <3> QED BY <1>0, <1>00, <2>1, <3>1, <3>3, RoomLeft, ZenonT(60) DEF Headroom
  <2> QED BY <2>2, <2>3, Zenon
<1>6. ASSUME NEW w \in Worker, CheckOutbox(w) PROVE Headroom'
  <2>1. A' = A /\ B' = B
    BY <1>6, Zenon DEF CheckOutbox, storeVars, deliveryVars, OpenFlows, Pending
  <2>2. CASE Respond(w)
    <3>1. P' <= P /\ Q' <= Q
      BY <2>2, Leaves, Zenon DEF Respond
    <3> QED BY <1>0, <1>1, <2>1, <3>1
  <2>3. CASE ~Respond(w)
    <3>1. (MaxOutboxRecords > 0 => B < MaxOutboxRecords) /\ pc' = [pc EXCEPT ![w] = "tx"] /\ pc[w] = "outbox"
      <4>1. /\ ~(MaxOutboxRecords > 0 /\ Cardinality(DOMAIN outbox) >= MaxOutboxRecords)
            /\ pc' = [pc EXCEPT ![w] = "tx"] /\ pc[w] = "outbox"
        BY <1>6, <2>3, Zenon DEF CheckOutbox
      <4>2. Cardinality(DOMAIN outbox) \in Nat /\ B <= Cardinality(DOMAIN outbox)
        BY Zenon DEF Counted
      <4>3. MaxOutboxRecords > 0 => B < MaxOutboxRecords
        BY <1>0, <4>1, <4>2, CorrelationAssumption
      <4> QED BY <4>1, <4>3, Zenon
    <3>2. Past' = Past
      BY Zenon, <3>1 DEF Past, TypeOK
    <3>3. P' = P
      BY Zenon, <3>2
    <3> QED BY <1>0, <1>00, <2>1, <3>1, <3>3, RoomLeft, ZenonT(60) DEF Headroom
  <2> QED BY Zenon, <2>2, <2>3
<1>7. ASSUME NEW w \in Worker, Receive(w) PROVE Headroom'
  <2>1. P' <= P /\ Q' <= Q
    BY <1>7, Leaves, Zenon DEF Receive
  <2>2. A' = A /\ B' = B
    BY <1>7, Zenon DEF Receive, storeVars, deliveryVars, OpenFlows, Pending
  <2> QED BY <1>0, <1>1, <2>1, <2>2
<1>8. CASE Restart
  <2>1. Past' = {} /\ Committing' = {}
    BY <1>8, Zenon DEF Restart, Quiet, Past, Committing
  <2>2. A' = A /\ B' = B
    BY <1>8, Zenon DEF Restart, storeVars, deliveryVars, OpenFlows, Pending
  <2>3. P' = 0 /\ Q' = 0
    BY <2>1, Zenon DEF Counting
  <2> QED BY <1>0, <1>1, <2>2, <2>3
<1>9. CASE Deliver \/ Replay
  <2>1. A' = A /\ P' = P /\ Q' = Q
    BY <1>9, Zenon DEF Deliver, Replay, OpenFlows, requestVars, Past, Committing
  <2>2. Pending' \subseteq Pending
    <3>1. CASE Deliver
      <4>1. PICK id \in DOMAIN outbox : Resolves(id)
        BY <3>1, DeliverEffect, Zenon
      <4> QED BY Zenon, <4>1 DEF Resolves, Pending
    <3>2. CASE Replay
      <4>1. PICK R \in SUBSET DOMAIN dead : Replays(R)
        BY <3>2, ReplayEffect, Zenon
      <4> QED BY Zenon, <4>1 DEF Replays, Pending
    <3> QED BY Zenon, <1>9, <3>1, <3>2
  <2>3. B' <= B
    BY <2>2, Zenon DEF Counting, Counted
  <2>4. A' + B' <= A + B
    BY <1>0, <1>00, <2>1, <2>3
  <2> QED BY <1>0, <1>1, <2>1, <2>4
<1>10. CASE UNCHANGED <<storeVars, deliveryVars, requestVars>>
  <2>1. A' = A /\ B' = B /\ P' = P /\ Q' = Q
    BY Zenon, <1>10 DEF storeVars, deliveryVars, requestVars, OpenFlows, Pending, Past, Committing
  <2> QED BY <1>0, <1>1, <2>1
<1> QED
  BY <1>2, <1>3, <1>4, <1>5, <1>6, <1>7, <1>8, <1>9, <1>10, Zenon DEF Next, vars, storeVars,
     deliveryVars, requestVars, Tick, Request, Sweep, SweepBegin, Reload
-----------------------------------------------------------------------------
\* The library's theorems come in here: the lemmas above do without them.
INSTANCE FiniteSetTheorems

\* The facts of finite sets that were assumed.
LEMMA Counts == Counting
<1>1. IsFiniteSet({}) /\ Cardinality({}) = 0
  BY FS_EmptySet, Zenon
<1>2. ASSUME NEW S, NEW x, IsFiniteSet(S)
      PROVE  /\ Cardinality(S) \in Nat
             /\ IsFiniteSet(S \cup {x})
             /\ Cardinality(S \cup {x}) = IF x \in S THEN Cardinality(S) ELSE Cardinality(S) + 1
             /\ IsFiniteSet(S \ {x})
             /\ Cardinality(S \ {x}) = IF x \in S THEN Cardinality(S) - 1 ELSE Cardinality(S)
  BY <1>2, FS_CardinalityType, FS_AddElement, FS_RemoveElement, Zenon
<1>3. ASSUME NEW S, NEW T, IsFiniteSet(T), S \subseteq T
      PROVE  IsFiniteSet(S) /\ Cardinality(S) <= Cardinality(T)
  BY Zenon, <1>3, FS_Subset
<1> QED BY <1>1, <1>2, <1>3, Zenon DEF Counting

\* As many elements as places in a sequence without repetitions.
LEMMA OnceCounts ==
    ASSUME NEW A, NEW q, Once(q, A)
    PROVE  /\ Cardinality({q[n] : n \in DOMAIN q}) = Len(q)
           /\ {q[n] : n \in DOMAIN q} \subseteq A
           /\ DOMAIN q = 1..Len(q) /\ Len(q) \in Nat
<1>1. q \in Seq(A) /\ DOMAIN q = 1..Len(q) /\ Len(q) \in Nat
  BY DEF Once
<1>2. \A n \in 1..Len(q) : q[n] \in A
  BY <1>1
<1> DEFINE S == {q[n] : n \in DOMAIN q}
           f == [n \in 1..Len(q) |-> q[n]]
<1>3. f \in Bijection(1..Len(q), S)
  <2>1. f \in [1..Len(q) -> S]
    BY Zenon, <1>1
  <2>2. \A m, n \in 1..Len(q) : f[m] = f[n] => m = n
    BY Zenon DEF Once
  <2>3. \A y \in S : \E n \in 1..Len(q) : f[n] = y
    BY Zenon, <1>1
  <2> HIDE DEF f, S
  <2> QED BY Zenon, <2>1, <2>2, <2>3 DEF Bijection, Injection, IsInjective, Surjection
<1>4. ExistsBijection(1..Len(q), S)
  BY <1>3, Zenon DEF ExistsBijection
<1>5. Cardinality(S) = Len(q)
  <2> HIDE DEF S
  <2> QED BY Zenon, <1>1, <1>4, FS_CountingElements
<1> QED BY <1>1, <1>2, <1>5, Zenon

\* What the places have is what the book has.
LEMMA BookPreserves ==
    ASSUME Separate, Sound(Ledger, accepted)
    PROVE  Preserved
<1>0. DOMAIN Ledger = Ids
  BY Zenon DEF Ledger
<1>1. ASSUME NEW p \in Places
      PROVE  /\ Identity(p) \in DOMAIN Ledger
             /\ Content(p).events = Ledger[Identity(p)].events
             /\ Content(p).duplicates = Ledger[Identity(p)].duplicates
             /\ Once(Content(p).events, accepted)
  <2>1. Identity(p) \in DOMAIN Ledger /\ Ledger[Identity(p)] = Sheet(Content(p))
    BY <1>0, PlacesAreIds, Zenon
  <2>2. /\ Content(p).events = Ledger[Identity(p)].events
        /\ Content(p).duplicates = Ledger[Identity(p)].duplicates
    BY <2>1 DEF Sheet
  <2> QED BY <2>1, <2>2, Zenon DEF Sound
<1>2. ASSUME NEW p \in Places
      PROVE  /\ Cardinality(Evidence(p)) = Len(Content(p).events)
             /\ Evidence(p) \subseteq accepted
             /\ DOMAIN Content(p).events = 1..Len(Content(p).events)
  BY <1>1, OnceCounts, Zenon DEF Evidence
<1>3. ASSUME NEW p \in Places, NEW q \in Places, p # q
      PROVE  Evidence(p) \cap Evidence(q) = {}
  <2>1. Identity(p) # Identity(q)
    BY <1>3, PlacesAreIds, Zenon
  <2>2. Apart(Content(p).events, Content(q).events)
    BY <1>1, <2>1, Zenon DEF Sound
  <2> QED BY <1>2, <2>2, Zenon DEF Evidence, Apart
<1> DEFINE T == UNION {Tally(p) : p \in Places}
           M == Marks(Ledger)
           f == [t \in T |-> <<Identity(t[1]), t[2]>>]
<1>4. ASSUME NEW p \in Places
      PROVE  Tally(p) = {p} \X (1..Total(Ledger[Identity(p)]))
  BY <1>1, Zenon DEF Tally, Total
<1>5. \A t \in T : /\ t[1] \in Places /\ t[2] \in 1..Total(Ledger[Identity(t[1])])
                   /\ t = <<t[1], t[2]>>
  BY <1>4
<1>6. \A p \in Places : \A n : n \in 1..Total(Ledger[Identity(p)]) => <<p, n>> \in T
  BY Zenon, <1>4
<1>7. \A m \in M : /\ m[1] \in DOMAIN Ledger /\ m[2] \in 1..Total(Ledger[m[1]])
                   /\ m = <<m[1], m[2]>>
  BY DEF Marks
<1>8. \A j \in DOMAIN Ledger : \A n : n \in 1..Total(Ledger[j]) => <<j, n>> \in M
  BY DEF Marks
<1> HIDE DEF T, M
<1>9. f \in [T -> M]
  <2>1. \A t \in T : <<Identity(t[1]), t[2]>> \in M
    BY <1>1, <1>5, <1>8, Zenon
  <2> QED BY Zenon, <2>1
<1>10. ASSUME NEW t \in T, NEW u \in T, f[t] = f[u] PROVE t = u
  <2>1. Identity(t[1]) = Identity(u[1]) /\ t[2] = u[2]
    BY Zenon, <1>10
  <2> QED BY <1>5, <2>1, PlacesAreIds, Zenon
<1>11. ASSUME NEW m \in M PROVE \E t \in T : f[t] = m
  <2>1. PICK p \in Places : Identity(p) = m[1]
    BY <1>0, <1>7, PlacesAreIds, Zenon
  <2>2. <<p, m[2]>> \in T
    BY <1>6, <1>7, <2>1, Zenon
  <2>3. f[<<p, m[2]>>] = <<m[1], m[2]>>
    BY <2>1, <2>2, Zenon
  <2> QED BY <1>7, <2>2, <2>3, Zenon
<1> HIDE DEF f
<1>12. f \in Injection(T, M) /\ f \in Surjection(T, M)
  BY <1>9, <1>10, <1>11, Zenon DEF Injection, IsInjective, Surjection
<1>13. Cardinality(T) = Cardinality(M)
  <2>1. IsFiniteSet(M)
    BY Zenon DEF Sound, M
  <2> QED BY Zenon, <1>12, <2>1, FS_Injection
<1>14. Cardinality(accepted) = Cardinality(T)
  BY <1>13, Zenon DEF Sound, M
<1>15. UNION {Evidence(p) : p \in Places} \subseteq accepted
  BY Zenon, <1>2
<1> QED BY <1>2, <1>3, <1>14, <1>15, Zenon DEF Preserved, T

\* An event a transaction committed is kept in exactly one place, or counted
\* there as a duplicate, in every run whose requests carry one event each.
\* (With larger requests two flows may get one output identity and the second
\* record replaces the first: see SecondFlowKept of the batch run.)
THEOREM EvidenceIsPreserved ==
    ASSUME MaxBatch = 1
    PROVE  Spec => []Preserved
<1> DEFINE B == Separate /\ Fresh /\ Sound(Ledger, accepted)
<1>1. Init => B
  <2> SUFFICES ASSUME Init PROVE B
    BY Zenon
  <2>1. /\ OpenFlows = {} /\ DOMAIN outbox = {} /\ DOMAIN dead = {} /\ DOMAIN settled = {}
        /\ accepted = {}
        /\ \A w \in Worker : pc[w] = "idle"
    BY DEF Init, OpenFlows
  <2>2. Ids = {}
    BY Zenon, <2>1 DEF Ids, Away
  <2>3. DOMAIN Ledger = {}
    BY <2>2, Zenon DEF Ledger
  <2>4. Marks(Ledger) = {}
    BY <2>3, Zenon DEF Marks
  <2>5. Sound(Ledger, accepted)
    BY <2>1, <2>3, <2>4, FS_EmptySet, Zenon DEF Sound
  <2>6. DOMAIN outbox \cap Away = {} /\ DOMAIN dead \cap DOMAIN settled = {}
    BY Zenon, <2>1
  <2> QED BY <2>1, <2>2, <2>5, <2>6, Zenon DEF Separate, Fresh
<1>2. IInv /\ B /\ [Next]_vars => B'
  <2> SUFFICES ASSUME IInv, B, [Next]_vars PROVE B'
    BY Zenon
  <2>1. Fresh'
    BY Zenon, FreshStep DEF IInv
  <2>2. Separate' /\ Sound(Ledger', accepted')
    BY Counts, BookStep, Zenon
  <2> QED BY <2>1, <2>2, Zenon
<1>3. B => Preserved
  BY BookPreserves, Zenon
<1> HIDE DEF B
<1> QED BY <1>1, <1>2, <1>3, Invariance, PTL DEF Spec
-----------------------------------------------------------------------------
\* The types make it so.
LEMMA Finite == TypeOK => Counted
<1> SUFFICES ASSUME TypeOK PROVE Counted
  BY Zenon
<1>1. OpenFlows \subseteq Key /\ Past \subseteq Worker /\ Committing \subseteq Past
  BY Zenon DEF OpenFlows, Past, Committing
<1>2. IsFiniteSet(Key \X (1..MaxTime))
  <2>1. IsFiniteSet(1..MaxTime)
    BY FS_Interval, CorrelationAssumption
  <2>2. IsFiniteSet(Key)
    BY CorrelationAssumption, Zenon
  <2> QED BY <2>1, <2>2, FS_Product, Zenon
<1>3. /\ IsFiniteSet(DOMAIN outbox)
      /\ IsFiniteSet(Pending) /\ Cardinality(Pending) <= Cardinality(DOMAIN outbox)
  <2>1. IsFiniteSet(DOMAIN outbox)
    BY <1>2, FS_Subset, Zenon DEF TypeOK
  <2>2. Pending \subseteq DOMAIN outbox
    BY Zenon DEF Pending
  <2> QED BY <2>1, <2>2, FS_Subset, Zenon
<1>4. IsFiniteSet(OpenFlows) /\ IsFiniteSet(Past) /\ Cardinality(Past) <= Cardinality(Worker)
  BY <1>1, FS_Subset, CorrelationAssumption, Zenon
<1>5. IsFiniteSet(Committing) /\ Cardinality(Committing) <= Cardinality(Past)
  BY <1>1, <1>4, FS_Subset, Zenon
<1> QED BY <1>3, <1>4, <1>5, FS_CardinalityType, CorrelationAssumption, Zenon DEF Counted

\* A sweep turns flows into at most as many records.
LEMMA SweepAdds ==
    ASSUME TypeOK, ExpiryIndexExact, SweepTx
    PROVE  Swept
<1>1. PICK S \in SUBSET Key : Sweeps(S)
  BY SweepEffect, Zenon
<1> DEFINE ids == {OutputID(k, flows[k]) : k \in S}
           f == [k \in S |-> OutputID(k, flows[k])]
<1>2. OpenFlows' = OpenFlows \ S /\ S \subseteq OpenFlows
  BY <1>1, Zenon DEF Sweeps, OpenFlows
<1>0. Counted
  BY Finite, Zenon
<1>3. IsFiniteSet(S) /\ Cardinality(S) \in Nat
  BY <1>0, <1>2, FS_Subset, FS_CardinalityType, Zenon DEF Counted
<1>4. OpenFlows \cap S = S
  BY Zenon, <1>2
<1>5. Cardinality(OpenFlows') = Cardinality(OpenFlows) - Cardinality(S)
  <2>1. Cardinality(OpenFlows \ S) = Cardinality(OpenFlows) - Cardinality(OpenFlows \cap S)
    BY <1>0, FS_Difference, Zenon DEF Counted
  <2> QED BY <2>1, <1>2, <1>4, Zenon
<1>6. f \in Surjection(S, ids)
  BY Zenon DEF Surjection
<1>7. IsFiniteSet(ids) /\ Cardinality(ids) <= Cardinality(S)
  BY <1>3, <1>6, FS_Surjection, Zenon
<1>8. Pending' \subseteq Pending \cup ids
  <2>1. DOMAIN outbox' = DOMAIN outbox \cup ids /\ replayed' = replayed
    BY <1>1, Zenon DEF Sweeps, SweepTx, deliveryVars
  <2> QED BY <2>1, Zenon DEF Pending
<1> HIDE DEF ids, f
<1>9. /\ IsFiniteSet(Pending \cup ids)
      /\ Cardinality(Pending \cup ids) = Cardinality(Pending) + Cardinality(ids)
                                          - Cardinality(Pending \cap ids)
      /\ Cardinality(Pending \cap ids) \in Nat
      /\ Cardinality(ids) \in Nat
  BY <1>0, <1>7, FS_Union, FS_Intersection, FS_CardinalityType, Zenon DEF Counted
<1>10. Cardinality(Pending') <= Cardinality(Pending \cup ids) /\ Cardinality(Pending') \in Nat
  BY <1>8, <1>9, FS_Subset, FS_CardinalityType, Zenon
<1>11. /\ Cardinality(OpenFlows) \in Nat /\ Cardinality(Pending) \in Nat
       /\ Cardinality(ids) <= Cardinality(S)
  BY <1>0, <1>7, Zenon DEF Counted
<1>12. Cardinality(OpenFlows') <= Cardinality(OpenFlows)
  BY <1>3, <1>5, <1>11
<1>13. Cardinality(OpenFlows') + Cardinality(Pending')
         <= Cardinality(OpenFlows) + Cardinality(Pending)
  BY <1>3, <1>5, <1>9, <1>10, <1>11
<1> QED BY <1>12, <1>13, Zenon DEF Swept

\* A new store has all its headroom.
LEMMA HeadroomInit == Init => Headroom
<1> SUFFICES ASSUME Init PROVE Headroom
  BY Zenon
<1>1. OpenFlows = {} /\ Past = {} /\ Committing = {} /\ Pending = {}
  BY DEF Init, OpenFlows, Past, Committing, Pending
<1>2. Cardinality(Worker) \in Nat
  BY FS_CardinalityType, CorrelationAssumption, Zenon
<1>3. Cardinality(OpenFlows) = 0 /\ Cardinality(Past) = 0 /\ Cardinality(Committing) = 0
      /\ Cardinality(Pending) = 0
  BY Zenon, <1>1, FS_EmptySet
<1> QED BY <1>2, <1>3, CorrelationAssumption DEF Headroom, Room

\* The headroom is never used up: no interleaving of checks and transactions
\* goes past it.
THEOREM HeadroomHolds == Spec => [](IInv /\ Headroom)
<1>1. IInv => Counted
  BY Zenon, Finite DEF IInv
<1>2. IInv /\ IInv' /\ Headroom /\ [Next]_vars => Headroom'
  <2>1. IInv /\ SweepTx => Swept
    BY Zenon, SweepAdds DEF IInv
  <2>2. IInv /\ IInv' => Counted /\ Counted'
    BY <1>1, PTL
  <2> QED BY <2>1, <2>2, Counts, HeadroomStep, Zenon DEF IInv
<1> QED BY <1>2, HeadroomInit, Invariance, PTL DEF Spec

\* The high-water marks are overshot by at most one flow or record per
\* concurrent request (main.go:293-315), replayed records not counted, for any
\* marks, any concurrency and any number of replays.
THEOREM OvershootIsBounded == Spec => []CapacityOvershoot
<1>1. IInv /\ Headroom => CapacityOvershoot
  <2> SUFFICES ASSUME IInv, Headroom PROVE CapacityOvershoot
    BY Zenon
  <2>1. Counted
    BY Zenon, Finite DEF IInv
  <2> QED BY <2>1, CorrelationAssumption DEF Headroom, Room, CapacityOvershoot, Counted, Pending
<1> QED BY <1>1, HeadroomHolds, PTL
-----------------------------------------------------------------------------
\* The reason of every document is true of it (flow/finalize.go:13-23), for any
\* rule, any limits, any interleaving of requests and sweeps and any restart.
THEOREM ReasonsAreHonest == Spec => []ReasonHonest
<1>1. Init => CalmFlows /\ HonestRecords
  <2> SUFFICES ASSUME Init PROVE CalmFlows /\ HonestRecords
    BY Zenon
  <2>1. OpenFlows = {} /\ DOMAIN outbox = {} /\ DOMAIN dead = {} /\ DOMAIN settled = {}
    BY DEF Init, OpenFlows
  <2> QED BY Zenon, <2>1 DEF CalmFlows, HonestRecords
<1>2. IInv /\ CalmFlows /\ HonestRecords /\ [Next]_vars => CalmFlows' /\ HonestRecords'
  BY Zenon, HonestStep
<1>3. HonestRecords => ReasonHonest
  <2>1. HonestRecords => \A d \in Documents : Honest(d)
    BY Zenon DEF HonestRecords, Documents
  <2>2. Cardinality({}) = 0
    BY Zenon, FS_EmptySet
  <2> QED BY <2>1, <2>2, Zenon DEF Honest, ReasonHonest
<1> QED BY <1>1, <1>2, <1>3, Invariance, PTL DEF Spec
=============================================================================
