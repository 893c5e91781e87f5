--------------------------- MODULE SchedulerProofs ---------------------------
(***************************************************************************)
(* Proofs about Scheduler, for any requests, prompts, priorities, limits   *)
(* and pressure readings: one running entry per request; a request is lost *)
(* only where the token budget breaks the loop; and, as long as nothing is *)
(* swapped back in, chunks resume at their offset, only finished prefills  *)
(* decode and, if no prompt is split, a paused request stays out; a        *)
(* finished one is scheduled again only if finish found it waiting; and    *)
(* prefills start in the order of priority and arrival unless a pass       *)
(* defers a request or gives several back last first.                      *)
(***************************************************************************)
EXTENDS Scheduler, FiniteSetTheorems, FunctionTheorems, WellFoundedInduction, TLAPS

\* An entry of a queue: a request that has consumed no more than its prompt.
Item == {e \in Entry : e.consumed <= Prompt[e.id]}

Phases == {"idle", "admit", "preempt", "fill"}

\* The locals of a pass; its numbers are left open (the backlog is a sum over a
\* queue), and no result here depends on them.
IsPass(p) ==
  p = [phase |-> p.phase, admitted |-> p.admitted, pressure |-> p.pressure, crowded |-> p.crowded,
       backlog |-> p.backlog, base |-> p.base, total |-> p.total]

\* The types the proofs need.
Typed ==
  /\ waiting \in Seq(Item) /\ running \in Seq(Item) /\ swapped \in Seq(Item) /\ paused \in Seq(Item)
  /\ IsPass(pass)
  /\ pass.phase \in Phases /\ pass.admitted \in Seq(Item)
  /\ pass.phase \in {"idle", "admit"} => pass.admitted = <<>>
  /\ out \in [prefill : Seq(Req), decode : Seq(Req)]
  /\ arrived \in Seq(Req) /\ finished \subseteq Range(arrived) /\ caught \subseteq finished
  /\ reached \in [Req -> Nat]

\* No request has two entries in q.
Distinct(q) == \A i, j \in DOMAIN q : q[i].id = q[j].id => i = j

\* Everything the scheduler holds of the requests, during a pass too.
Tracked ==
  Live \subseteq Ids(waiting) \cup Ids(running) \cup Ids(swapped) \cup Ids(paused) \cup Ids(pass.admitted)

\* The requests that still wait for their first or next chunk: once each, at
\* the offset their last chunk ended at, and never with nothing left to prefill.
Queued ==
  /\ Distinct(waiting) /\ Distinct(pass.admitted)
  /\ Ids(waiting) \cap Ids(pass.admitted) = {}
  /\ \A e \in Range(waiting) \cup Range(pass.admitted) :
       e.id \in Range(arrived) /\ e.consumed = reached[e.id] /\ e.consumed < Prompt[e.id]

\* What runs or is paused is not ahead of what was scheduled, and what decodes
\* was scheduled to the end of its prompt.
Behind ==
  /\ \A r \in Req : reached[r] <= Prompt[r] /\ (r \notin Range(arrived) => reached[r] = 0)
  /\ \A e \in Range(running) \cup Range(paused) :
       e.id \in Range(arrived) /\ e.consumed <= reached[e.id]
  /\ pass.phase # "idle" => out.decode = <<>>
  /\ \A r \in Range(out.decode) : r \in Range(arrived) /\ reached[r] = Prompt[r]

\* What the queues and the pass hold entries of.
Holds == Ids(waiting) \cup Ids(pass.admitted) \cup Ids(running) \cup Ids(paused) \cup Ids(swapped)

\* A finished request has left the scheduler, unless finish found it waiting.
Off == finished \ caught

Over ==
  /\ Off \cap Holds = {}
  /\ pass.phase # "idle" => Off \cap Range(out.prefill) = {}

\* A request waits, runs or is paused.
OnePlace ==
  /\ Distinct(running) /\ Distinct(paused)
  /\ Ids(running) \cap Ids(paused) = {}
  /\ (Ids(waiting) \cup Ids(pass.admitted)) \cap (Ids(running) \cup Ids(paused)) = {}
  /\ pass.phase # "idle" => Range(out.prefill) \subseteq Ids(running)
  /\ pass.phase \in {"admit", "preempt"} => Range(out.prefill) = {}

\* The budget break that leaves other admitted requests behind.
Drops == FillOverBudget /\ Tail(pass.admitted) # <<>>

\* A pass that begins by putting swapped requests back in front of the queue.
SwapsBack == (\E kv \in KvPressure : BeginPass(kv)) /\ swapped' # swapped

\* A chunk that is not the last of its prompt.
Splits == FillChunk /\ Remainder # <<>>

-----------------------------------------------------------------------------
(* Queues: what sorting, filtering and moving entries does to them.        *)

\* Along a linear order, given by what comes up to each member, the members of
\* a finite set are numbered from one.
LEMMA RankBijection ==
  ASSUME NEW K, IsFiniteSet(K), NEW up \in [K -> SUBSET K],
         \A i, j \in K : i \in up[j] \/ j \in up[i],
         \A i, j \in K : i \in up[j] /\ j \in up[i] => i = j,
         \A i, j \in K : i \in up[j] => up[i] \subseteq up[j]
  PROVE  /\ Cardinality(K) \in Nat
         /\ \A n \in 1..Cardinality(K) : \E i \in K : Cardinality(up[i]) = n
         /\ \A i \in K : Cardinality(up[i]) \in 1..Cardinality(K)
         /\ \A i, j \in K : Cardinality(up[i]) = Cardinality(up[j]) => i = j
<1> DEFINE rank == [i \in K |-> Cardinality(up[i])]
<1>1. Cardinality(K) \in Nat
  BY FS_CardinalityType
<1>2. ASSUME NEW i \in K PROVE IsFiniteSet(up[i]) /\ Cardinality(up[i]) \in 1..Cardinality(K)
  <2>1. up[i] \in SUBSET K /\ up[i] # {}
    OBVIOUS
  <2>2. IsFiniteSet(up[i]) /\ Cardinality(up[i]) <= Cardinality(K)
    BY <2>1, FS_Subset
  <2>3. Cardinality(up[i]) \in Nat /\ Cardinality(up[i]) # 0
    BY <2>1, <2>2, FS_CardinalityType, FS_EmptySet
  <2> QED
    BY <1>1, <2>2, <2>3
<1>3. ASSUME NEW i \in K, NEW j \in K, i # j, i \in up[j]
      PROVE  Cardinality(up[i]) # Cardinality(up[j])
  <2>1. up[i] \in SUBSET up[j] /\ j \in up[j] /\ j \notin up[i]
    BY <1>3
  <2> QED
    BY <1>2, <2>1, FS_Subset
<1>4. \A i, j \in K : Cardinality(up[i]) = Cardinality(up[j]) => i = j
  BY <1>3
<1>5. rank \in Injection(K, 1..Cardinality(K))
  BY <1>2, <1>4, Fun_IsInj
<1>6. IsFiniteSet(1..Cardinality(K)) /\ Cardinality(1..Cardinality(K)) = Cardinality(K)
  BY <1>1, FS_Interval
<1>7. rank \in Surjection(K, 1..Cardinality(K))
  BY <1>5, <1>6, FS_Injection
<1>8. \A i \in K : rank[i] = Cardinality(up[i])
  OBVIOUS
<1> HIDE DEF rank
<1>9. \A n \in 1..Cardinality(K) : \E i \in K : rank[i] = n
  BY <1>7 DEF Surjection
<1> QED
  BY <1>1, <1>2, <1>4, <1>8, <1>9

\* A queue p that lists the entries of q at the positions K, each once.
Lists(p, q, K) ==
  /\ p \in Seq(Item)
  /\ Range(p) = {q[i] : i \in K}
  /\ Distinct(q) => Distinct(p)

\* The order of the positions K of a queue by a key and then by position.
Ordered(K, key, up) ==
  /\ key \in [K -> Int] /\ up \in [K -> SUBSET K]
  /\ \A i, k \in K : k \in up[i] <=> key[k] < key[i] \/ (key[k] = key[i] /\ k <= i)

\* In this order the positions are numbered from one.
LEMMA RankedByKey ==
  ASSUME NEW q \in Seq(Item), NEW K \in SUBSET DOMAIN q, NEW key, NEW up, Ordered(K, key, up)
  PROVE  /\ Cardinality(K) \in Nat
         /\ K = DOMAIN q => 1..Cardinality(K) = DOMAIN q
         /\ \A n \in 1..Cardinality(K) : \E i \in K : Cardinality(up[i]) = n
         /\ \A i \in K : Cardinality(up[i]) \in 1..Cardinality(K)
         /\ \A i, j \in K : Cardinality(up[i]) = Cardinality(up[j]) => i = j
<1>1. IsFiniteSet(K) /\ (\A i \in K : i \in Int) /\ (K = DOMAIN q => 1..Cardinality(K) = DOMAIN q)
  <2>1. PICK n \in Nat : DOMAIN q = 1..n
    OBVIOUS
  <2>2. IsFiniteSet(1..n) /\ Cardinality(1..n) = n
    BY FS_Interval
  <2>3. IsFiniteSet(K) /\ \A i \in K : i \in Int
    BY <2>1, <2>2, FS_Subset
  <2> QED
    BY <2>1, <2>2, <2>3
<1>2. /\ up \in [K -> SUBSET K]
      /\ \A i, j \in K : i \in up[j] \/ j \in up[i]
      /\ \A i, j \in K : i \in up[j] /\ j \in up[i] => i = j
      /\ \A i, j \in K : i \in up[j] => up[i] \subseteq up[j]
  <2>1. \A i \in K : i \in Int /\ key[i] \in Int
    BY <1>1 DEF Ordered
  <2>2. \A i, j \in K : i \in up[j] \/ j \in up[i]
    BY <2>1 DEF Ordered
  <2>3. \A i, j \in K : i \in up[j] /\ j \in up[i] => i = j
    BY <2>1 DEF Ordered
  <2>4. ASSUME NEW i \in K, NEW j \in K, i \in up[j], NEW k \in up[i] PROVE k \in up[j]
    <3>1. k \in K
      BY DEF Ordered
    <3> QED
      BY <2>1, <2>4, <3>1, SMTT(30) DEF Ordered
  <2> QED
    BY <2>2, <2>3, <2>4 DEF Ordered
<1> QED
  BY <1>1, <1>2, RankBijection

\* What is listed in this order is listed once.
LEMMA ListedByKey ==
  ASSUME NEW q \in Seq(Item), NEW K \in SUBSET DOMAIN q, NEW key, NEW up, Ordered(K, key, up),
         NEW m \in Nat, m = Cardinality(K), NEW p, p = [n \in 1..m |-> p[n]],
         \A n \in 1..m : \E i \in K : Cardinality(up[i]) = n /\ p[n] = q[i]
  PROVE  Lists(p, q, K)
<1>1. /\ \A i \in K : Cardinality(up[i]) \in 1..m
      /\ \A i, j \in K : Cardinality(up[i]) = Cardinality(up[j]) => i = j
  BY RankedByKey
<1>2. \A i \in K : q[i] \in Item
  OBVIOUS
<1>3. p \in [1..m -> Item] /\ DOMAIN p = 1..m
  BY <1>2
<1>4. p \in Seq(Item)
  BY <1>3
<1>5. \A i \in K : p[Cardinality(up[i])] = q[i]
  BY <1>1
<1>6. Range(p) = {q[i] : i \in K}
  <2>1. ASSUME NEW e \in Range(p) PROVE e \in {q[i] : i \in K}
    BY <1>3 DEF Range
  <2>2. ASSUME NEW i \in K PROVE q[i] \in Range(p)
    BY <1>1, <1>3, <1>5 DEF Range
  <2> QED
    BY <2>1, <2>2
<1>7. ASSUME Distinct(q), NEW k \in DOMAIN p, NEW l \in DOMAIN p, p[k].id = p[l].id PROVE k = l
  <2>1. PICK i \in K : Cardinality(up[i]) = k /\ p[k] = q[i]
    BY <1>3
  <2>2. PICK j \in K : Cardinality(up[j]) = l /\ p[l] = q[j]
    BY <1>3
  <2> QED
    BY <1>7, <2>1, <2>2 DEF Distinct
<1> QED
  BY <1>4, <1>6, <1>7 DEF Lists, Distinct

\* retain and filter.
LEMMA KeptLists ==
  ASSUME NEW q \in Seq(Item), NEW K \in SUBSET DOMAIN q
  PROVE  Lists(Kept(q, K), q, K)
<1> DEFINE Upto(i) == {j \in K : j <= i}
           up == [i \in K |-> Upto(i)]
           key == [i \in K |-> 0]
           nth(k) == CHOOSE i \in K : Cardinality(Upto(i)) = k
<1>1. Ordered(K, key, up) /\ \A i \in K : up[i] = Upto(i)
  BY DEF Ordered
<1> HIDE DEF key, up
<1>2. PICK m \in Nat : m = Cardinality(K)
  BY <1>1, RankedByKey
<1>3. PICK p : p = Kept(q, K)
  OBVIOUS
<1>4. p = [k \in 1..m |-> q[nth(k)]]
  BY <1>2, <1>3 DEF Kept
<1> HIDE DEF Upto
<1>5. \A k \in 1..m : \E i \in K : Cardinality(Upto(i)) = k
  <2>1. \A k \in 1..m : \E i \in K : Cardinality(up[i]) = k
    BY <1>1, <1>2, RankedByKey
  <2> QED
    BY <1>1, <2>1
<1>6. \A k \in 1..m : nth(k) \in K /\ Cardinality(Upto(nth(k))) = k
  BY <1>5
<1> HIDE DEF nth
<1>7. p = [k \in 1..m |-> p[k]]
  BY <1>4
<1>8. \A k \in 1..m : \E i \in K : Cardinality(up[i]) = k /\ p[k] = q[i]
  BY <1>1, <1>4, <1>6
<1>9. Lists(p, q, K)
  BY <1>1, <1>2, <1>7, <1>8, ListedByKey
<1> QED
  BY <1>3, <1>9

\* sort_by_key lists every entry once.
LEMMA SortLists ==
  ASSUME NEW q \in Seq(Item), NEW by \in [Req -> Int]
  PROVE  Lists(StableSort(q, by), q, DOMAIN q)
<1> DEFINE D == DOMAIN q
           Upto(i) == {k \in D : \/ by[q[k].id] < by[q[i].id]
                                 \/ by[q[k].id] = by[q[i].id] /\ k <= i}
           up == [i \in D |-> Upto(i)]
           key == [i \in D |-> by[q[i].id]]
           nth(k) == CHOOSE i \in D : Cardinality(Upto(i)) = k
<1>1. \A i \in D : q[i].id \in Req
  <2>1. \A i \in D : q[i] \in Item
    OBVIOUS
  <2> QED
    BY <2>1 DEF Item, Entry
<1>2. Ordered(D, key, up) /\ \A i \in D : up[i] = Upto(i)
  BY <1>1 DEF Ordered
<1> HIDE DEF key, up
<1>3. PICK m \in Nat : m = Cardinality(D) /\ 1..m = D
  BY <1>2, RankedByKey
<1>4. PICK p : p = StableSort(q, by)
  OBVIOUS
<1>5. p = [k \in D |-> q[nth(k)]]
  BY <1>4 DEF StableSort
<1> HIDE DEF Upto
<1>6. \A k \in 1..m : \E i \in D : Cardinality(Upto(i)) = k
  <2>1. \A k \in 1..m : \E i \in D : Cardinality(up[i]) = k
    BY <1>2, <1>3, RankedByKey
  <2> QED
    BY <1>2, <2>1
<1>7. \A k \in 1..m : nth(k) \in D /\ Cardinality(Upto(nth(k))) = k
  BY <1>6
<1> HIDE DEF nth
<1>8. p = [k \in 1..m |-> p[k]]
  BY <1>3, <1>5
<1>9. \A k \in 1..m : \E i \in D : Cardinality(up[i]) = k /\ p[k] = q[i]
  BY <1>2, <1>3, <1>5, <1>7
<1>10. Lists(p, q, D)
  BY <1>2, <1>3, <1>8, <1>9, ListedByKey
<1> QED
  BY <1>4, <1>10

\* The ids of a queue are those of its entries.
LEMMA IdsOf ==
  ASSUME NEW q
  PROVE  Ids(q) = {e.id : e \in Range(q)}
BY DEF Ids, Range

\* The first entry of a queue, and the others.
LEMMA TailLists ==
  ASSUME NEW q \in Seq(Item), q # <<>>
  PROVE  /\ Head(q) \in Item /\ Tail(q) \in Seq(Item)
         /\ Range(q) = Range(Tail(q)) \cup {Head(q)}
         /\ Distinct(q) => Distinct(Tail(q)) /\ Head(q).id \notin Ids(Tail(q))
<1>1. /\ Head(q) = q[1] /\ 1 \in DOMAIN q /\ Tail(q) \in Seq(Item) /\ Head(q) \in Item
      /\ DOMAIN Tail(q) = 1..(Len(q) - 1) /\ DOMAIN q = 1..Len(q) /\ Len(q) \in Nat
      /\ \A i \in DOMAIN Tail(q) : i + 1 \in DOMAIN q /\ Tail(q)[i] = q[i + 1]
  OBVIOUS
<1>2. \A i \in DOMAIN q : i = 1 \/ (i - 1 \in DOMAIN Tail(q) /\ Tail(q)[i - 1] = q[i])
  BY <1>1
<1>3. PICK t : t = Tail(q)
  OBVIOUS
<1>4. Range(q) = Range(t) \cup {Head(q)}
  BY <1>1, <1>2, <1>3 DEF Range
<1>5. ASSUME Distinct(q) PROVE Distinct(t) /\ Head(q).id \notin Ids(t)
  <2>1. ASSUME NEW i \in DOMAIN t, NEW j \in DOMAIN t, t[i].id = t[j].id PROVE i = j
    <3>1. i + 1 = j + 1 /\ i \in Int /\ j \in Int
      BY <1>1, <1>3, <1>5, <2>1 DEF Distinct
    <3> QED
      BY <3>1
  <2>2. ASSUME NEW i \in DOMAIN t PROVE t[i].id # Head(q).id
    <3>1. i + 1 # 1 /\ i + 1 \in DOMAIN q /\ t[i] = q[i + 1]
      BY <1>1, <1>3
    <3> QED
      BY <1>1, <1>5, <3>1 DEF Distinct
  <2> QED
    BY <2>1, <2>2 DEF Distinct, Ids
<1> QED
  BY <1>1, <1>3, <1>4, <1>5

\* An entry put at the end.
LEMMA AppendLists ==
  ASSUME NEW q \in Seq(Item), NEW e \in Item
  PROVE  /\ Append(q, e) \in Seq(Item) /\ Range(Append(q, e)) = Range(q) \cup {e}
         /\ Distinct(q) /\ e.id \notin Ids(q) => Distinct(Append(q, e))
<1>1. PICK p : p = Append(q, e)
  OBVIOUS
<1>2. /\ p \in Seq(Item) /\ DOMAIN p = DOMAIN q \cup {Len(q) + 1} /\ p[Len(q) + 1] = e
      /\ \A i \in DOMAIN q : p[i] = q[i]
  BY <1>1
<1>3. Range(p) = Range(q) \cup {e}
  BY <1>2 DEF Range
<1>4. Distinct(q) /\ e.id \notin Ids(q) => Distinct(p)
  BY <1>2 DEF Distinct, Ids
<1> QED
  BY <1>1, <1>2, <1>3, <1>4

\* Two queues, one after the other.
LEMMA ConcatLists ==
  ASSUME NEW a \in Seq(Item), NEW b \in Seq(Item)
  PROVE  /\ a \o b \in Seq(Item) /\ Range(a \o b) = Range(a) \cup Range(b)
         /\ Distinct(a) /\ Distinct(b) /\ Ids(a) \cap Ids(b) = {} => Distinct(a \o b)
<1>1. PICK p : p = a \o b
  OBVIOUS
<1>2. PICK m \in Nat, n \in Nat : m = Len(a) /\ n = Len(b) /\ DOMAIN a = 1..m /\ DOMAIN b = 1..n
  OBVIOUS
<1>3. /\ p \in Seq(Item) /\ DOMAIN p = 1..(m + n)
      /\ \A i \in DOMAIN a : i \in DOMAIN p /\ p[i] = a[i]
      /\ \A i \in DOMAIN b : m + i \in DOMAIN p /\ p[m + i] = b[i]
  BY <1>1, <1>2
<1>4. \A i \in DOMAIN p : i \in DOMAIN a \/ (i \in Int /\ i - m \in DOMAIN b /\ i = m + (i - m))
  BY <1>2, <1>3
<1>5. Range(p) = Range(a) \cup Range(b)
  <2>1. ASSUME NEW i \in DOMAIN p PROVE p[i] \in Range(a) \cup Range(b)
    BY <1>3, <1>4 DEF Range
  <2>2. \A i \in DOMAIN a : a[i] \in Range(p)
    BY <1>3 DEF Range
  <2>3. \A i \in DOMAIN b : b[i] \in Range(p)
    BY <1>3 DEF Range
  <2> QED
    BY <2>1, <2>2, <2>3 DEF Range
<1>6. ASSUME Distinct(a), Distinct(b), Ids(a) \cap Ids(b) = {},
             NEW i \in DOMAIN p, NEW j \in DOMAIN p, p[i].id = p[j].id
      PROVE  i = j
  <2>1. \A k \in DOMAIN a, l \in DOMAIN b : a[k].id # b[l].id
    BY <1>6 DEF Ids
  <2>2. CASE i \in DOMAIN a /\ j \in DOMAIN a
    BY <1>3, <1>6, <2>2 DEF Distinct
  <2>3. CASE i \in DOMAIN a /\ j \notin DOMAIN a
    BY <1>3, <1>4, <1>6, <2>1, <2>3
  <2>4. CASE i \notin DOMAIN a /\ j \in DOMAIN a
    BY <1>3, <1>4, <1>6, <2>1, <2>4
  <2>5. CASE i \notin DOMAIN a /\ j \notin DOMAIN a
    <3>1. p[i] = b[i - m] /\ p[j] = b[j - m] /\ i - m \in DOMAIN b /\ j - m \in DOMAIN b
          /\ i \in Int /\ j \in Int
      BY <1>3, <1>4, <2>5
    <3>2. i - m = j - m
      BY <1>6, <3>1 DEF Distinct
    <3> QED
      BY <3>1, <3>2
  <2> QED
    BY <2>2, <2>3, <2>4, <2>5
<1> QED
  BY <1>1, <1>3, <1>5, <1>6 DEF Distinct

\* A part of a queue.
LEMMA SubLists ==
  ASSUME NEW q \in Seq(Item), NEW a \in 1..(Len(q) + 2), NEW b \in 0..Len(q)
  PROVE  Lists(SubSeq(q, a, b), q, a..b)
<1>1. PICK s : s = SubSeq(q, a, b)
  OBVIOUS
<1>2. PICK n \in Nat : n = Len(q) /\ DOMAIN q = 1..n
  OBVIOUS
<1>3. PICK m \in Nat : m = (IF a <= b THEN b - a + 1 ELSE 0)
  <2>1. a \in Nat /\ b \in Nat
    BY <1>2
  <2>2. (IF a <= b THEN b - a + 1 ELSE 0) \in Nat
    BY <2>1
  <2> QED
    BY <2>2
<1>4. s \in Seq(Item) /\ DOMAIN s = 1..m /\ \A i \in 1..m : s[i] = q[a + i - 1] /\ a + i - 1 \in a..b
  BY <1>1, <1>2, <1>3
<1>5. \A i \in a..b : i - a + 1 \in 1..m /\ s[i - a + 1] = q[i] /\ i \in DOMAIN q
  BY <1>2, <1>3, <1>4
<1>6. Range(s) = {q[i] : i \in a..b}
  <2>1. \A i \in DOMAIN s : s[i] \in {q[k] : k \in a..b}
    BY <1>4
  <2>2. \A i \in a..b : q[i] \in Range(s)
    BY <1>4, <1>5 DEF Range
  <2> QED
    BY <2>1, <2>2 DEF Range
<1>7. ASSUME Distinct(q), NEW i \in DOMAIN s, NEW j \in DOMAIN s, s[i].id = s[j].id PROVE i = j
  <2>1. s[i] = q[a + i - 1] /\ s[j] = q[a + j - 1] /\ a + i - 1 \in DOMAIN q /\ a + j - 1 \in DOMAIN q
    BY <1>2, <1>4, <1>5
  <2>2. a + i - 1 = a + j - 1
    BY <1>7, <2>1 DEF Distinct
  <2>3. i \in Int /\ j \in Int /\ a \in Int
    BY <1>2, <1>4
  <2> QED
    BY <2>2, <2>3
<1> QED
  BY <1>1, <1>4, <1>6, <1>7 DEF Lists, Distinct

\* Different positions of a queue without duplicates hold different requests.
LEMMA ListsApart ==
  ASSUME NEW q \in Seq(Item), Distinct(q), NEW K \in SUBSET DOMAIN q, NEW L \in SUBSET DOMAIN q,
         K \cap L = {}, NEW p, Lists(p, q, K), NEW s, Lists(s, q, L)
  PROVE  Ids(p) \cap Ids(s) = {}
<1> SUFFICES ASSUME NEW r \in Ids(p), r \in Ids(s) PROVE FALSE
  OBVIOUS
<1>1. PICK i \in K : q[i].id = r
  BY IdsOf DEF Lists
<1>2. PICK j \in L : q[j].id = r
  BY IdsOf DEF Lists
<1> QED
  BY <1>1, <1>2 DEF Distinct

\* Admission: the first n requests, and the others with the deferred one last.
Split(q, n, taken, rest) ==
  /\ n \in 0..Len(q)
  /\ taken = SubSeq(q, 1, n)
  /\ rest = IF n = Len(q) THEN <<>> ELSE Append(SubSeq(q, n + 2, Len(q)), q[n + 1])

LEMMA SplitLists ==
  ASSUME NEW q \in Seq(Item), NEW n, NEW taken, NEW rest, Split(q, n, taken, rest)
  PROVE  /\ taken \in Seq(Item) /\ rest \in Seq(Item)
         /\ Range(q) = Range(taken) \cup Range(rest)
         /\ Distinct(q) => Distinct(taken) /\ Distinct(rest) /\ Ids(taken) \cap Ids(rest) = {}
<1> USE DEF Split
<1>1. PICK m \in Nat : m = Len(q) /\ DOMAIN q = 1..m
  OBVIOUS
<1>2. Lists(taken, q, 1..n)
  BY <1>1, SubLists
<1>3. Lists(rest, q, (n + 1)..m)
  <2>1. CASE n = m
    <3>1. rest = <<>> /\ (n + 1)..m = {}
      BY <1>1, <2>1
    <3>2. rest \in Seq(Item) /\ Range(rest) = {} /\ Distinct(rest)
      BY <3>1 DEF Range, Distinct
    <3>3. {q[i] : i \in (n + 1)..m} = {}
      BY <3>1
    <3> QED
      BY <3>2, <3>3 DEF Lists
  <2>2. CASE n # m
    <3>1. PICK s : s = SubSeq(q, n + 2, m)
      OBVIOUS
    <3>2. Lists(s, q, (n + 2)..m)
      BY <1>1, <2>2, <3>1, SubLists, SMTT(30)
    <3>3. n + 1 \in DOMAIN q /\ q[n + 1] \in Item /\ rest = Append(s, q[n + 1]) /\ s \in Seq(Item)
      <4>1. n + 1 \in DOMAIN q /\ q[n + 1] \in Item
        BY <1>1, <2>2
      <4>2. rest = Append(s, q[n + 1]) /\ s \in Seq(Item)
        BY <1>1, <2>2, <3>1, <3>2 DEF Lists
      <4> QED
        BY <4>1, <4>2
    <3>4. (n + 1)..m = ((n + 2)..m) \cup {n + 1} /\ n + 1 \notin (n + 2)..m
      BY <1>1, <2>2
    <3>5. Range(rest) = {q[i] : i \in (n + 1)..m} /\ rest \in Seq(Item)
      <4>1. Range(rest) = Range(s) \cup {q[n + 1]} /\ rest \in Seq(Item)
        BY <3>3, AppendLists
      <4> QED
        BY <3>2, <3>4, <4>1 DEF Lists
    <3>6. ASSUME Distinct(q) PROVE Distinct(rest)
      <4>1. \A i \in (n + 2)..m : i \in DOMAIN q /\ i # n + 1
        BY <1>1
      <4>2. \A i \in (n + 2)..m : q[i].id # q[n + 1].id
        BY <3>3, <3>6, <4>1 DEF Distinct
      <4>3. q[n + 1].id \notin Ids(s)
        BY <3>2, <4>2, IdsOf DEF Lists
      <4> QED
        <5>1. Distinct(s)
          BY <3>2, <3>6 DEF Lists
        <5> QED
          BY <3>3, <4>3, <5>1, AppendLists
    <3> QED
      BY <3>5, <3>6 DEF Lists
  <2> QED
    BY <2>1, <2>2
<1>4. /\ 1..n \in SUBSET DOMAIN q /\ (n + 1)..m \in SUBSET DOMAIN q
      /\ (1..n) \cap ((n + 1)..m) = {} /\ DOMAIN q = (1..n) \cup ((n + 1)..m)
  BY <1>1
<1>5. Range(q) = Range(taken) \cup Range(rest)
  <2>1. Range(q) = {q[i] : i \in 1..n} \cup {q[i] : i \in (n + 1)..m}
    BY <1>4 DEF Range
  <2> QED
    BY <1>2, <1>3, <2>1 DEF Lists
<1>6. Distinct(q) => Ids(taken) \cap Ids(rest) = {}
  BY <1>2, <1>3, <1>4, ListsApart
<1> QED
  BY <1>2, <1>3, <1>5, <1>6 DEF Lists

\* One entry taken out, wherever it is.
LEMMA RemovedLists ==
  ASSUME NEW q \in Seq(Item), NEW i \in DOMAIN q
  PROVE  /\ Removed(q, i) \in Seq(Item) /\ q[i] \in Item
         /\ Range(q) = Range(Removed(q, i)) \cup {q[i]}
         /\ Distinct(q) => Distinct(Removed(q, i)) /\ q[i].id \notin Ids(Removed(q, i))
<1>1. PICK m \in Nat : m = Len(q) /\ DOMAIN q = 1..m
  OBVIOUS
<1>2. PICK a, b : a = SubSeq(q, 1, i - 1) /\ b = SubSeq(q, i + 1, m)
  OBVIOUS
<1>3. Lists(a, q, 1..(i - 1)) /\ Lists(b, q, (i + 1)..m)
  BY <1>1, <1>2, SubLists
<1>4. /\ 1..(i - 1) \in SUBSET DOMAIN q /\ (i + 1)..m \in SUBSET DOMAIN q
      /\ (1..(i - 1)) \cap ((i + 1)..m) = {}
      /\ DOMAIN q = (1..(i - 1)) \cup ((i + 1)..m) \cup {i}
      /\ i \notin (1..(i - 1)) \cup ((i + 1)..m)
  BY <1>1
<1>5. PICK p : p = Removed(q, i) /\ p = a \o b
  BY <1>1, <1>2 DEF Removed
<1>6. p \in Seq(Item) /\ Range(p) = Range(a) \cup Range(b)
  BY <1>3, <1>5, ConcatLists DEF Lists
<1>7. Range(q) = Range(p) \cup {q[i]}
  <2>1. Range(q) = {q[k] : k \in 1..(i - 1)} \cup {q[k] : k \in (i + 1)..m} \cup {q[i]}
    BY <1>4 DEF Range
  <2> QED
    BY <1>3, <1>6, <2>1 DEF Lists
<1>8. ASSUME Distinct(q) PROVE Distinct(p) /\ q[i].id \notin Ids(p)
  <2>1. Ids(a) \cap Ids(b) = {}
    BY <1>3, <1>4, <1>8, ListsApart
  <2>2. Distinct(p)
    BY <1>3, <1>5, <1>8, <2>1, ConcatLists DEF Lists
  <2>3. \A k \in (1..(i - 1)) \cup ((i + 1)..m) : q[k].id # q[i].id
    BY <1>4, <1>8 DEF Distinct
  <2>4. \A e \in Range(p) : e.id # q[i].id
    BY <1>3, <1>6, <2>3 DEF Lists
  <2> QED
    BY <2>2, <2>4, IdsOf
<1> QED
  BY <1>5, <1>6, <1>7, <1>8

\* A queue from its end to its front.
LEMMA ReversedLists ==
  ASSUME NEW q \in Seq(Item)
  PROVE  Lists(Reversed(q), q, DOMAIN q)
<1>1. PICK m \in Nat : m = Len(q) /\ DOMAIN q = 1..m
  OBVIOUS
<1>2. PICK p : p = Reversed(q) /\ p = [i \in 1..m |-> q[m + 1 - i]]
  BY <1>1 DEF Reversed
<1>3. \A i \in 1..m : m + 1 - i \in 1..m /\ q[i] \in Item
  BY <1>1
<1>4. p \in Seq(Item) /\ DOMAIN p = 1..m
  BY <1>2, <1>3
<1>5. Range(p) = {q[i] : i \in 1..m}
  <2>1. \A i \in 1..m : p[i] \in {q[k] : k \in 1..m}
    BY <1>2, <1>3
  <2>2. \A i \in 1..m : q[i] = p[m + 1 - i] /\ m + 1 - i \in DOMAIN p
    BY <1>2, <1>3, <1>4
  <2> QED
    BY <1>4, <2>1, <2>2 DEF Range
<1>6. ASSUME Distinct(q), NEW i \in DOMAIN p, NEW j \in DOMAIN p, p[i].id = p[j].id PROVE i = j
  <2>1. /\ p[i] = q[m + 1 - i] /\ m + 1 - i \in DOMAIN q
        /\ p[j] = q[m + 1 - j] /\ m + 1 - j \in DOMAIN q
    BY <1>1, <1>2, <1>3, <1>4
  <2>2. m + 1 - i = m + 1 - j
    BY <1>6, <2>1 DEF Distinct
  <2> QED
    BY <1>4, <2>2
<1> QED
  BY <1>1, <1>2, <1>4, <1>5, <1>6 DEF Lists, Distinct

\* A queue of at most one entry.
LEMMA ShortLists ==
  /\ <<>> \in Seq(Item) /\ Range(<<>>) = {} /\ Ids(<<>>) = {} /\ Distinct(<<>>)
  /\ \A e \in Item : <<e>> \in Seq(Item) /\ Range(<<e>>) = {e} /\ Ids(<<e>>) = {e.id} /\ Distinct(<<e>>)
BY DEF Range, Ids, Distinct

\* A request that is in a queue has a first entry there.
LEMMA FirstExists ==
  ASSUME NEW q \in Seq(Item), NEW r \in Ids(q)
  PROVE  \E i \in DOMAIN q : q[i].id = r /\ \A j \in DOMAIN q : q[j].id = r => i <= j
<1> DEFINE S == {i \in DOMAIN q : q[i].id = r}
<1>1. S \in SUBSET Nat /\ S # {}
  BY DEF Ids
<1>2. PICK x \in S : \A y \in S : ~ (<<y, x>> \in OpToRel(<, Nat))
  BY <1>1, NatLessThanWellFounded, WFMin
<1>3. \A y \in S : ~ (y < x) /\ y \in Nat /\ x \in Nat
  BY <1>1, <1>2 DEF OpToRel
<1> QED
  BY <1>3

\* The running entry of a request is replaced, or appended if it has none.
LEMMA PutLists ==
  ASSUME NEW e \in Item, running \in Seq(Item)
  PROVE  /\ PutRunning(e) \in Seq(Item)
         /\ Range(PutRunning(e)) \subseteq Range(running) \cup {e}
         /\ Ids(PutRunning(e)) = Ids(running) \cup {e.id}
         /\ Distinct(running) => Distinct(PutRunning(e))
<1>1. CASE e.id \notin Ids(running)
  <2>1. PutRunning(e) = Append(running, e)
    BY <1>1 DEF PutRunning
  <2>2. PICK p : p = Append(running, e)
    OBVIOUS
  <2>3. p \in Seq(Item) /\ Range(p) = Range(running) \cup {e} /\ (Distinct(running) => Distinct(p))
    BY <1>1, <2>2, AppendLists
  <2>4. Ids(p) = Ids(running) \cup {e.id}
    BY <2>3, IdsOf
  <2> QED
    BY <2>1, <2>2, <2>3, <2>4
<1>2. CASE e.id \in Ids(running)
  <2> DEFINE First(i) == /\ running[i].id = e.id
                         /\ \A j \in DOMAIN running : running[j].id = e.id => i <= j
  <2>1. \E i \in DOMAIN running : First(i)
    BY <1>2, FirstExists
  <2>2. PICK at \in DOMAIN running : running[at].id = e.id /\ PutRunning(e) = [running EXCEPT ![at] = e]
    <3>1. PICK at : at = CHOOSE i \in DOMAIN running : First(i)
      OBVIOUS
    <3>2. at \in DOMAIN running /\ First(at)
      BY <2>1, <3>1
    <3>3. PutRunning(e) = [running EXCEPT ![at] = e]
      BY <1>2, <3>1 DEF PutRunning
    <3> QED
      BY <3>2, <3>3
  <2>3. PICK p : p = PutRunning(e)
    OBVIOUS
  <2>4. /\ p \in Seq(Item) /\ DOMAIN p = DOMAIN running /\ p[at] = e
        /\ \A i \in DOMAIN running : i # at => p[i] = running[i]
    BY <2>2, <2>3
  <2>5. Range(p) \subseteq Range(running) \cup {e}
    BY <2>4 DEF Range
  <2>6. Ids(p) = Ids(running) \cup {e.id}
    BY <2>2, <2>4 DEF Ids
  <2>7. Distinct(running) => Distinct(p)
    BY <2>2, <2>4 DEF Distinct
  <2> QED
    BY <2>3, <2>4, <2>5, <2>6, <2>7
<1> QED
  BY <1>1, <1>2

-----------------------------------------------------------------------------
(* What the operations do to the queues.                                   *)

\* The keys the queues are sorted by are integers.
LEMMA Keys == ById \in [Req -> Int] /\ ByPriority \in [Req -> Int] /\ HighestFirst \in [Req -> Int]
BY ReqAssumption, RequestAssumption DEF ById, ByPriority, HighestFirst

\* A sorted queue has the same entries.
LEMMA Sorted ==
  ASSUME NEW q \in Seq(Item), NEW by \in [Req -> Int]
  PROVE  /\ StableSort(q, by) \in Seq(Item)
         /\ Range(StableSort(q, by)) = Range(q)
         /\ Distinct(q) => Distinct(StableSort(q, by))
         /\ q # <<>> => StableSort(q, by) # <<>>
<1>1. Lists(StableSort(q, by), q, DOMAIN q)
  BY SortLists
<1>2. Range(q) = {q[i] : i \in DOMAIN q}
  BY DEF Range
<1>3. q # <<>> => StableSort(q, by) # <<>>
  <2>1. DOMAIN StableSort(q, by) = DOMAIN q
    BY DEF StableSort
  <2>2. q # <<>> => 1 \in DOMAIN q
    OBVIOUS
  <2> QED
    BY <2>1, <2>2
<1> QED
  BY <1>1, <1>2, <1>3 DEF Lists

\* The beginning of a pass sorts, and may put swapped requests in front.
LEMMA BeginPassDoes ==
  ASSUME Typed, NEW kv, BeginPass(kv)
  PROVE  /\ pass.phase = "idle" /\ pass'.phase = "admit" /\ pass'.admitted = <<>> /\ IsPass(pass')
         /\ out' = Nothing /\ UNCHANGED <<paused, history>>
         /\ running' \in Seq(Item) /\ Range(running') = Range(running)
         /\ Distinct(running) => Distinct(running')
         /\ waiting' \in Seq(Item) /\ swapped' \in Seq(Item)
         /\ Range(waiting) \subseteq Range(waiting')
         /\ Ids(swapped) \subseteq Ids(waiting') \cup Ids(running') \cup Ids(swapped')
         /\ Range(waiting') \cup Range(swapped') \subseteq Range(waiting) \cup Range(swapped)
         /\ swapped' = swapped => /\ Range(waiting') = Range(waiting)
                                  /\ Distinct(waiting) => Distinct(waiting')
<1>1. PICK w : w = IF Strict THEN StableSort(waiting, ById) ELSE StableSort(waiting, HighestFirst)
  OBVIOUS
<1>2. PICK r : r = IF Strict THEN StableSort(running, ById) ELSE running
  OBVIOUS
<1>3. PICK K : K = {i \in DOMAIN swapped : swapped[i].id \notin Ids(w) \cup Ids(r)}
  OBVIOUS
<1>4. PICK back : back = Kept(swapped, K)
  OBVIOUS
<1>5. /\ \/ waiting' = w /\ swapped' = swapped
         \/ waiting' = back \o w /\ swapped' = <<>>
      /\ running' = r /\ out' = Nothing /\ UNCHANGED <<paused, history>>
  BY <1>1, <1>2, <1>3, <1>4 DEF BeginPass
<1>6. pass.phase = "idle" /\ pass'.phase = "admit" /\ pass'.admitted = <<>> /\ IsPass(pass')
  BY DEF BeginPass, Done, IsPass
<1>7. w \in Seq(Item) /\ Range(w) = Range(waiting) /\ (Distinct(waiting) => Distinct(w))
  BY <1>1, Keys, Sorted DEF Typed
<1>8. r \in Seq(Item) /\ Range(r) = Range(running) /\ (Distinct(running) => Distinct(r))
  BY <1>2, Keys, Sorted DEF Typed
<1>9. Lists(back, swapped, K)
  BY <1>3, <1>4, KeptLists DEF Typed
<1>10. PICK both : both = back \o w
  OBVIOUS
<1>11. /\ both \in Seq(Item) /\ Range(both) = Range(back) \cup Range(w)
       /\ Distinct(back) /\ Distinct(w) /\ Ids(back) \cap Ids(w) = {} => Distinct(both)
  BY <1>7, <1>9, <1>10, ConcatLists DEF Lists
<1>12. Ids(swapped) \subseteq Ids(both) \cup Ids(r)
  <2>1. ASSUME NEW i \in DOMAIN swapped PROVE swapped[i].id \in Ids(both) \cup Ids(r)
    <3>1. CASE i \in K
      <4>1. swapped[i] \in Range(both)
        BY <1>9, <1>11, <3>1 DEF Lists
      <4> QED
        BY <4>1, IdsOf
    <3>2. CASE i \notin K
      <4>1. swapped[i].id \in Ids(w) \cup Ids(r)
        BY <1>3, <3>2
      <4> QED
        BY <1>11, <4>1, IdsOf
    <3> QED
      BY <3>1, <3>2
  <2> QED
    BY <2>1 DEF Ids
<1>13. swapped = <<>> => Range(both) = Range(w) /\ (Distinct(w) => Distinct(both))
  <2>1. ASSUME swapped = <<>> PROVE Range(back) = {} /\ Ids(back) = {} /\ Distinct(back)
    <3>1. K = {} /\ Distinct(swapped)
      BY <1>3, <2>1 DEF Distinct
    <3>2. Range(back) = {} /\ Distinct(back)
      BY <1>9, <3>1 DEF Lists
    <3> QED
      BY <3>2, IdsOf
  <2> QED
    BY <1>11, <2>1
<1>14. swapped \in Seq(Item) /\ <<>> \in Seq(Item)
  BY DEF Typed
<1>15. CASE waiting' = w /\ swapped' = swapped
  BY <1>5, <1>6, <1>7, <1>8, <1>14, <1>15
<1>16. CASE waiting' = both /\ swapped' = <<>>
  <2>1. Ids(swapped) \subseteq Ids(waiting') \cup Ids(running')
    BY <1>5, <1>12, <1>16
  <2>2. waiting' \in Seq(Item) /\ swapped' \in Seq(Item) /\ Range(waiting) \subseteq Range(waiting')
    BY <1>7, <1>11, <1>14, <1>16
  <2>3. swapped' = swapped => /\ Range(waiting') = Range(waiting)
                              /\ Distinct(waiting) => Distinct(waiting')
    BY <1>7, <1>13, <1>16
  <2>4. Range(waiting') \cup Range(swapped') \subseteq Range(waiting) \cup Range(swapped)
    <3>1. Range(back) \subseteq Range(swapped)
      BY <1>3, <1>9 DEF Lists, Range
    <3>2. Range(swapped') = {}
      BY <1>16, ShortLists
    <3> QED
      BY <1>7, <1>11, <1>16, <3>1, <3>2
  <2> QED
    BY <1>5, <1>6, <1>8, <2>1, <2>2, <2>3, <2>4
<1> QED
  BY <1>5, <1>10, <1>15, <1>16

\* Admission splits the waiting queue.
LEMMA AdmitDoes ==
  ASSUME Typed, AdmitWaiting
  PROVE  /\ pass.phase = "admit" /\ pass'.phase = "preempt" /\ IsPass(pass')
         /\ pass'.pressure = pass.pressure
         /\ UNCHANGED <<running, swapped, paused, history, out>>
         /\ waiting' \in Seq(Item) /\ pass'.admitted \in Seq(Item)
         /\ Range(waiting) = Range(waiting') \cup Range(pass'.admitted)
         /\ Distinct(waiting) => /\ Distinct(waiting') /\ Distinct(pass'.admitted)
                                 /\ Ids(waiting') \cap Ids(pass'.admitted) = {}
<1> DEFINE T == {i \in DOMAIN waiting : \A j \in 1..i : Admits(waiting[j], pass.backlog)}
<1>1. PICK m \in Nat : m = Len(waiting) /\ DOMAIN waiting = 1..m
  BY DEF Typed
<1>2. IsFiniteSet(1..m) /\ Cardinality(1..m) = m /\ T \in SUBSET (1..m)
  <2>1. T \in SUBSET (1..m)
    BY <1>1
  <2>2. IsFiniteSet(1..m) /\ Cardinality(1..m) = m
    BY FS_Interval
  <2> QED
    BY <2>1, <2>2
<1>3. PICK n \in 0..Len(waiting) : n = Cardinality(T)
  <2>1. IsFiniteSet(T) /\ Cardinality(T) <= m
    BY <1>2, FS_Subset
  <2> HIDE DEF T
  <2>2. Cardinality(T) \in 0..Len(waiting)
    BY <1>1, <2>1, FS_CardinalityType
  <2> QED
    BY <2>2
<1>4. PICK taken, rest : /\ taken = SubSeq(waiting, 1, n)
                         /\ rest = IF n = Len(waiting) THEN <<>>
                                   ELSE Append(SubSeq(waiting, n + 2, Len(waiting)), waiting[n + 1])
  OBVIOUS
<1>5. /\ taken \in Seq(Item) /\ rest \in Seq(Item)
      /\ Range(waiting) = Range(taken) \cup Range(rest)
      /\ Distinct(waiting) => Distinct(taken) /\ Distinct(rest) /\ Ids(taken) \cap Ids(rest) = {}
  <2>1. waiting \in Seq(Item) /\ Split(waiting, n, taken, rest)
    BY <1>3, <1>4 DEF Typed, Split
  <2> QED
    BY <2>1, SplitLists
<1>6. /\ pass.phase = "admit" /\ pass' = [pass EXCEPT !.phase = "preempt", !.admitted = taken]
      /\ waiting' = rest /\ UNCHANGED <<running, swapped, paused, history, out>>
  BY <1>3, <1>4 DEF AdmitWaiting
<1>7. /\ pass'.phase = "preempt" /\ pass'.admitted = taken /\ IsPass(pass')
      /\ pass'.pressure = pass.pressure
  BY <1>6 DEF Typed, IsPass
<1> QED
  BY <1>5, <1>6, <1>7

\* Preemption takes one entry from running to swapped, or does nothing.
LEMMA PreemptDoes ==
  ASSUME Typed, Preempt
  PROVE  /\ pass.phase = "preempt" /\ pass'.phase = "fill" /\ IsPass(pass')
         /\ pass'.admitted = pass.admitted /\ pass'.pressure = pass.pressure
         /\ UNCHANGED <<waiting, paused, history, out>>
         /\ running' \in Seq(Item) /\ swapped' \in Seq(Item)
         /\ Range(running') \subseteq Range(running)
         /\ Range(swapped') \subseteq Range(swapped) \cup Range(running)
         /\ Distinct(running) => Distinct(running')
         /\ Ids(running) \cup Ids(swapped) \subseteq Ids(running') \cup Ids(swapped')
         /\ swapped' = <<>> \/ ~ pass.pressure => running' = running /\ swapped' = swapped
<1>1. /\ pass.phase = "preempt" /\ pass'.phase = "fill" /\ pass'.admitted = pass.admitted
      /\ pass'.pressure = pass.pressure /\ IsPass(pass')
      /\ UNCHANGED <<waiting, paused, history, out>>
  BY DEF Preempt, Typed, IsPass
<1>2. PICK s : s = StableSort(running, ByPriority)
  OBVIOUS
<1>3. \/ running' = running /\ swapped' = swapped
      \/ /\ running # <<>> /\ running' = Tail(s) /\ swapped' = Append(swapped, Head(s))
         /\ pass.pressure
  BY <1>2 DEF Preempt
<1>4. CASE running' = running /\ swapped' = swapped
  BY <1>1, <1>4 DEF Typed
<1>5. CASE /\ running # <<>> /\ running' = Tail(s) /\ swapped' = Append(swapped, Head(s))
           /\ pass.pressure
  <2>1. /\ s \in Seq(Item) /\ Range(s) = Range(running) /\ (Distinct(running) => Distinct(s))
        /\ s # <<>>
    BY <1>2, <1>5, Keys, Sorted DEF Typed
  <2>2. /\ Head(s) \in Item /\ running' \in Seq(Item) /\ Range(s) = Range(running') \cup {Head(s)}
        /\ Distinct(s) => Distinct(running')
    BY <1>5, <2>1, TailLists
  <2>3. PICK e \in Item : e = Head(s)
    BY <2>2
  <2>4. swapped' \in Seq(Item) /\ Range(swapped') = Range(swapped) \cup {e}
    BY <1>5, <2>3, AppendLists DEF Typed
  <2>5. Range(running) = Range(running') \cup {e}
    BY <2>1, <2>2, <2>3
  <2>6. swapped' # <<>>
    BY <2>4, ShortLists
  <2>7. Ids(running) \cup Ids(swapped) \subseteq Ids(running') \cup Ids(swapped')
    <3>1. Ids(running) = {x.id : x \in Range(running)} /\ Ids(swapped) = {x.id : x \in Range(swapped)}
      BY IdsOf
    <3>2. /\ Ids(running)' = {x.id : x \in Range(running')}
          /\ Ids(swapped)' = {x.id : x \in Range(swapped')}
      BY DEF Ids, Range
    <3> QED
      BY <2>4, <2>5, <3>1, <3>2 DEF Ids
  <2>8. Range(running') \subseteq Range(running) /\ Range(swapped') \subseteq Range(swapped) \cup Range(running)
    BY <2>4, <2>5
  <2> QED
    BY <1>1, <1>5, <2>1, <2>2, <2>4, <2>6, <2>7, <2>8
<1> QED
  BY <1>3, <1>4, <1>5

\* An entry.
LEMMA ItemFacts ==
  ASSUME NEW e \in Item
  PROVE  /\ e.id \in Req /\ e.consumed \in Nat /\ e.consumed <= Prompt[e.id]
         /\ Prompt[e.id] \in Nat \ {0} /\ Remaining(e) \in Nat
         /\ Remaining(e) = 0 <=> e.consumed = Prompt[e.id]
<1>1. e.id \in Req /\ e.consumed \in Nat /\ e.consumed <= Prompt[e.id]
  BY DEF Item, Entry
<1>2. Prompt[e.id] \in Nat \ {0}
  BY <1>1, RequestAssumption
<1> QED
  BY <1>1, <1>2 DEF Remaining

\* The request the loop of schedule() is at.
LEMMA FillingDoes ==
  ASSUME Typed, Filling
  PROVE  /\ pass.phase = "fill"
         /\ Next1 \in Item /\ Tail(pass.admitted) \in Seq(Item)
         /\ Range(pass.admitted) = Range(Tail(pass.admitted)) \cup {Next1}
         /\ Distinct(pass.admitted) =>
              Distinct(Tail(pass.admitted)) /\ Next1.id \notin Ids(Tail(pass.admitted))
<1>1. pass.admitted \in Seq(Item) /\ pass.admitted # <<>> /\ pass.phase = "fill"
  BY DEF Typed, Filling
<1> QED
  BY <1>1, TailLists DEF Next1

\* Its next chunk, and what is left of its prompt after it.
LEMMA ChunkDoes ==
  ASSUME Typed, Filling, Remaining(Next1) > 0
  PROVE  /\ Advanced \in Item /\ Advanced.id = Next1.id
         /\ Next1.consumed < Advanced.consumed /\ Next1.consumed < Prompt[Next1.id]
         /\ \/ Remainder = <<>> /\ Advanced.consumed = Prompt[Next1.id]
            \/ Remainder = <<Advanced>> /\ Advanced.consumed < Prompt[Next1.id] /\ pass.pressure
<1>1. Next1 \in Item /\ Next1.id \in Req /\ Next1.consumed \in Nat /\ Prompt[Next1.id] \in Nat
  BY FillingDoes, ItemFacts
<1>2. PICK c : c = Chunk
  OBVIOUS
<1>3. /\ c \in Nat \ {0} /\ c <= Prompt[Next1.id] - Next1.consumed
      /\ c = Prompt[Next1.id] - Next1.consumed \/ pass.pressure
  BY <1>1, <1>2, LimitAssumption DEF Chunk, Remaining
<1>4. PICK a : a = Advanced
  OBVIOUS
<1>5. a = [Next1 EXCEPT !.consumed = Next1.consumed + c]
  BY <1>2, <1>4 DEF Advanced
<1>6. a.id = Next1.id /\ a.consumed = Next1.consumed + c /\ a \in Entry
  BY <1>1, <1>3, <1>5 DEF Item, Entry
<1>7. a.consumed <= Prompt[a.id]
  BY <1>1, <1>3, <1>6
<1>8. a \in Item
  BY <1>6, <1>7 DEF Item
<1>9. Remainder = IF Prompt[a.id] - a.consumed > 0 THEN <<a>> ELSE <<>>
  BY <1>4 DEF Remainder, Remaining
<1> QED
  BY <1>1, <1>3, <1>4, <1>6, <1>7, <1>8, <1>9

\* The three ways the loop passes over a request.
LEMMA PassOverDoes ==
  ASSUME Typed, FillNoSlot \/ FillReenter \/ FillOverBudget
  PROVE  /\ Filling /\ pass'.phase = "fill" /\ IsPass(pass') /\ pass'.pressure = pass.pressure
         /\ UNCHANGED <<swapped, paused, history, out>>
         /\ waiting' \in Seq(Item) /\ running' \in Seq(Item) /\ pass'.admitted \in Seq(Item)
         /\ FillReenter => /\ Remaining(Next1) = 0 /\ running' = PutRunning(Next1)
                           /\ waiting' = waiting /\ pass'.admitted = Tail(pass.admitted)
         /\ ~ FillReenter => waiting' = Append(waiting, Next1) /\ running' = running
         /\ FillNoSlot => pass'.admitted = Tail(pass.admitted)
         /\ FillOverBudget => pass'.admitted = <<>>
<1>1. Filling /\ Next1 \in Item /\ Tail(pass.admitted) \in Seq(Item) /\ <<>> \in Seq(Item)
      /\ pass.phase = "fill"
  BY FillingDoes DEF FillNoSlot, FillReenter, FillOverBudget
<1>2. waiting \in Seq(Item) /\ running \in Seq(Item) /\ IsPass(pass)
  BY DEF Typed
<1>3. Append(waiting, Next1) \in Seq(Item) /\ PutRunning(Next1) \in Seq(Item)
  BY <1>1, <1>2, AppendLists, PutLists
<1>4. CASE FillNoSlot
  <2>1. /\ waiting' = Append(waiting, Next1) /\ running' = running
        /\ pass' = [pass EXCEPT !.admitted = Tail(pass.admitted)] /\ ~ FillReenter
        /\ ~ FillOverBudget /\ UNCHANGED <<swapped, paused, history, out>>
    BY <1>4 DEF FillNoSlot, FillReenter, FillOverBudget
  <2>2. /\ pass'.phase = "fill" /\ IsPass(pass') /\ pass'.pressure = pass.pressure
        /\ pass'.admitted = Tail(pass.admitted)
    BY <1>1, <1>2, <2>1 DEF IsPass
  <2> QED
    BY <1>1, <1>2, <1>3, <2>1, <2>2
<1>5. CASE FillReenter
  <2>1. /\ running' = PutRunning(Next1) /\ waiting' = waiting /\ Remaining(Next1) = 0
        /\ pass' = [pass EXCEPT !.admitted = Tail(pass.admitted)] /\ ~ FillNoSlot
        /\ ~ FillOverBudget /\ UNCHANGED <<swapped, paused, history, out>>
    BY <1>5 DEF FillNoSlot, FillReenter, FillOverBudget
  <2>2. /\ pass'.phase = "fill" /\ IsPass(pass') /\ pass'.pressure = pass.pressure
        /\ pass'.admitted = Tail(pass.admitted)
    BY <1>1, <1>2, <2>1 DEF IsPass
  <2> QED
    BY <1>1, <1>2, <1>3, <1>5, <2>1, <2>2
<1>6. CASE FillOverBudget
  <2>1. /\ waiting' = Append(waiting, Next1) /\ running' = running
        /\ pass' = [pass EXCEPT !.admitted = <<>>] /\ ~ FillReenter
        /\ ~ FillNoSlot /\ UNCHANGED <<swapped, paused, history, out>>
    <3>1. Remaining(Next1) > 0 /\ Remaining(Next1) \in Nat
      BY <1>1, <1>6, ItemFacts DEF FillOverBudget
    <3> QED
      BY <1>6, <3>1 DEF FillNoSlot, FillReenter, FillOverBudget
  <2>2. /\ pass'.phase = "fill" /\ IsPass(pass') /\ pass'.pressure = pass.pressure
        /\ pass'.admitted = <<>>
    BY <1>1, <1>2, <2>1 DEF IsPass
  <2> QED
    BY <1>1, <1>2, <1>3, <2>1, <2>2
<1> QED
  BY <1>4, <1>5, <1>6

\* A chunk is scheduled: what waits afterwards is what waited before, without
\* the request itself but for its remainder.
LEMMA FillChunkDoes ==
  ASSUME Typed, FillChunk
  PROVE  /\ Filling /\ Remaining(Next1) > 0
         /\ pass'.phase = "fill" /\ IsPass(pass') /\ pass'.pressure = pass.pressure
         /\ UNCHANGED <<swapped, paused, arrived, finished, caught>>
         /\ running' = PutRunning(Advanced) /\ running' \in Seq(Item)
         /\ waiting' \in Seq(Item) /\ pass'.admitted \in Seq(Item)
         /\ out' = [out EXCEPT !.prefill = Append(@, Next1.id)]
         /\ reached' = [reached EXCEPT ![Next1.id] = Advanced.consumed]
         /\ Range(waiting') \cup Range(pass'.admitted) =
              Range(waiting) \cup Range(Tail(pass.admitted)) \cup Range(Remainder)
         /\ Distinct(waiting) /\ Distinct(pass.admitted) /\ Ids(waiting) \cap Ids(pass.admitted) = {} =>
              /\ Distinct(waiting') /\ Distinct(pass'.admitted)
              /\ Ids(waiting') \cap Ids(pass'.admitted) = {}
<1>1. PICK t : t = Tail(pass.admitted)
  OBVIOUS
<1>2. PICK back, rest : /\ back = IF pass.pressure THEN Reversed(t) ELSE <<>>
                        /\ rest = IF pass.pressure THEN <<>> ELSE t
  OBVIOUS
<1>3. /\ Filling /\ Remaining(Next1) > 0 /\ running' = PutRunning(Advanced)
      /\ waiting' = (waiting \o back) \o Remainder
      /\ out' = [out EXCEPT !.prefill = Append(@, Next1.id)]
      /\ pass' = [pass EXCEPT !.total = @ + Chunk, !.admitted = rest]
      /\ reached' = [reached EXCEPT ![Next1.id] = Advanced.consumed]
      /\ UNCHANGED <<swapped, paused, arrived, finished, caught>>
  BY <1>1, <1>2 DEF FillChunk
<1>4. pass'.phase = "fill" /\ IsPass(pass') /\ pass'.pressure = pass.pressure /\ pass'.admitted = rest
  BY <1>3, FillingDoes DEF Typed, IsPass
<1>5. /\ t \in Seq(Item) /\ Range(pass.admitted) = Range(t) \cup {Next1} /\ Next1 \in Item
      /\ Distinct(pass.admitted) => Distinct(t) /\ Next1.id \notin Ids(t)
  BY <1>1, <1>3, FillingDoes
<1>6. /\ back \in Seq(Item) /\ rest \in Seq(Item) /\ Range(back) \cup Range(rest) = Range(t)
      /\ Distinct(t) => Distinct(back) /\ Distinct(rest)
      /\ Ids(back) \cap Ids(rest) = {} /\ Ids(back) \cup Ids(rest) = Ids(t)
  <2>1. /\ Reversed(t) \in Seq(Item) /\ Range(Reversed(t)) = Range(t)
        /\ Distinct(t) => Distinct(Reversed(t))
    BY <1>5, ReversedLists DEF Lists, Range
  <2>2. Ids(Reversed(t)) = Ids(t)
    BY <2>1, IdsOf
  <2>3. <<>> \in Seq(Item) /\ Range(<<>>) = {} /\ Ids(<<>>) = {} /\ Distinct(<<>>)
    BY ShortLists
  <2> QED
    BY <1>2, <1>5, <2>1, <2>2, <2>3
<1>7. Advanced \in Item /\ Advanced.id = Next1.id /\ (Remainder = <<>> \/ Remainder = <<Advanced>>)
  BY <1>3, ChunkDoes
<1>8. PICK m \in Seq(Item) : m = Remainder /\ Ids(m) \subseteq {Next1.id} /\ Distinct(m)
  BY <1>7, ShortLists
<1>9. waiting \in Seq(Item) /\ running \in Seq(Item)
  BY DEF Typed
<1>10. PICK wb : wb = waiting \o back
  OBVIOUS
<1>11. /\ wb \in Seq(Item) /\ Range(wb) = Range(waiting) \cup Range(back)
       /\ Distinct(waiting) /\ Distinct(back) /\ Ids(waiting) \cap Ids(back) = {} => Distinct(wb)
  BY <1>6, <1>9, <1>10, ConcatLists
<1>12. PICK w : w = wb \o m
  OBVIOUS
<1>13. /\ w \in Seq(Item) /\ Range(w) = Range(wb) \cup Range(m)
       /\ Distinct(wb) /\ Distinct(m) /\ Ids(wb) \cap Ids(m) = {} => Distinct(w)
  BY <1>8, <1>11, <1>12, ConcatLists
<1>14. waiting' = w
  BY <1>3, <1>8, <1>10, <1>12
<1>15. Ids(wb) = Ids(waiting) \cup Ids(back) /\ Ids(w) = Ids(wb) \cup Ids(m)
       /\ Ids(pass.admitted) = Ids(t) \cup {Next1.id}
  BY <1>5, <1>11, <1>13, IdsOf
<1>16. ASSUME Distinct(waiting), Distinct(pass.admitted), Ids(waiting) \cap Ids(pass.admitted) = {}
       PROVE  Distinct(w) /\ Distinct(rest) /\ Ids(w) \cap Ids(rest) = {}
  <2>1. Distinct(t) /\ Next1.id \notin Ids(t)
    BY <1>5, <1>16
  <2>2. Distinct(wb)
    BY <1>6, <1>11, <1>15, <1>16, <2>1
  <2>3. Distinct(w)
    BY <1>6, <1>8, <1>13, <1>15, <1>16, <2>1, <2>2
  <2>4. Ids(w) \cap Ids(rest) = {}
    BY <1>6, <1>8, <1>15, <1>16, <2>1
  <2> QED
    BY <1>6, <2>1, <2>3, <2>4
<1>17. Range(w) \cup Range(rest) = Range(waiting) \cup Range(t) \cup Range(Remainder)
  BY <1>6, <1>8, <1>11, <1>13
<1>18. running' \in Seq(Item)
  BY <1>3, <1>7, <1>9, PutLists
<1>19. /\ waiting' \in Seq(Item) /\ pass'.admitted \in Seq(Item)
       /\ Range(waiting') \cup Range(pass'.admitted) =
              Range(waiting) \cup Range(Tail(pass.admitted)) \cup Range(Remainder)
  BY <1>1, <1>4, <1>6, <1>13, <1>14, <1>17
<1>20. Distinct(waiting) /\ Distinct(pass.admitted) /\ Ids(waiting) \cap Ids(pass.admitted) = {} =>
              /\ Distinct(waiting') /\ Distinct(pass'.admitted)
              /\ Ids(waiting') \cap Ids(pass'.admitted) = {}
  BY <1>4, <1>14, <1>16
<1> QED
  BY <1>3, <1>4, <1>18, <1>19, <1>20

\* retain(|r| r.id != id).
LEMMA WithoutDoes ==
  ASSUME NEW q \in Seq(Item), NEW r
  PROVE  /\ Without(q, r) \in Seq(Item) /\ Range(Without(q, r)) = {e \in Range(q) : e.id # r}
         /\ Distinct(q) => Distinct(Without(q, r))
<1>1. PICK K \in SUBSET DOMAIN q : K = {i \in DOMAIN q : q[i].id # r}
  OBVIOUS
<1>2. Lists(Without(q, r), q, K)
  BY <1>1, KeptLists DEF Without
<1>3. {q[i] : i \in K} = {e \in Range(q) : e.id # r}
  BY <1>1 DEF Range
<1> QED
  BY <1>2, <1>3 DEF Lists

\* The end of a pass: fully prefilled running requests decode.
LEMMA EndPassDoes ==
  ASSUME Typed, EndPass
  PROVE  /\ pass.phase = "fill" /\ pass.admitted = <<>> /\ pass' = Done
         /\ UNCHANGED <<queues, history>>
         /\ out' \in [prefill : Seq(Req), decode : Seq(Req)]
         /\ \A r \in Range(out'.decode) : \E e \in Range(running) : e.id = r /\ Remaining(e) = 0
<1>1. PICK K : K = {i \in DOMAIN running : /\ running[i].id \notin Range(out.prefill)
                                           /\ Remaining(running[i]) <= 0}
  OBVIOUS
<1>2. PICK ready : ready = Kept(running, K)
  OBVIOUS
<1>3. /\ pass.phase = "fill" /\ pass.admitted = <<>> /\ pass' = Done
      /\ UNCHANGED <<queues, history>>
      /\ out' = [out EXCEPT !.decode = [i \in DOMAIN ready |-> ready[i].id]]
  BY <1>1, <1>2 DEF EndPass
<1>4. running \in Seq(Item) /\ out \in [prefill : Seq(Req), decode : Seq(Req)]
  BY DEF Typed
<1>5. Lists(ready, running, K)
  BY <1>1, <1>2, <1>4, KeptLists
<1>6. ready \in Seq(Item) /\ Range(ready) = {running[i] : i \in K}
  BY <1>5 DEF Lists
<1>7. PICK ids : ids = [i \in DOMAIN ready |-> ready[i].id]
  OBVIOUS
<1>8. ids \in Seq(Req)
  <2>1. \A i \in DOMAIN ready : ready[i] \in Item
    BY <1>6
  <2>2. \A i \in DOMAIN ready : ready[i].id \in Req
    BY <2>1, ItemFacts
  <2>3. PICK n \in Nat : DOMAIN ready = 1..n
    BY <1>6
  <2> QED
    BY <1>7, <2>2, <2>3
<1>9. out' \in [prefill : Seq(Req), decode : Seq(Req)] /\ out'.decode = ids
  BY <1>3, <1>4, <1>7, <1>8
<1>10. ASSUME NEW r \in Range(ids) PROVE \E e \in Range(running) : e.id = r /\ Remaining(e) = 0
  <2>1. PICK k \in DOMAIN ready : r = ready[k].id
    BY <1>7 DEF Range
  <2>2. PICK i \in K : ready[k] = running[i]
    BY <1>6, <2>1 DEF Range
  <2>3. i \in DOMAIN running /\ Remaining(running[i]) <= 0 /\ running[i] \in Item
    BY <1>1, <1>4
  <2>4. Remaining(running[i]) = 0
    BY <2>3, ItemFacts
  <2> QED
    BY <2>1, <2>2, <2>3, <2>4 DEF Range
<1> QED
  BY <1>3, <1>9, <1>10

\* finish, for a completed or a cancelled request.
LEMMA FinishDoes ==
  ASSUME Typed, NEW r, Finish(r)
  PROVE  /\ pass.phase = "idle" /\ r \in Range(arrived) /\ finished' = finished \cup {r}
         /\ caught' = caught \cup ({r} \cap Ids(waiting))
         /\ UNCHANGED <<waiting, arrived, reached, pass, out>>
         /\ running' \in Seq(Item) /\ Range(running') = {e \in Range(running) : e.id # r}
         /\ swapped' \in Seq(Item) /\ Range(swapped') = {e \in Range(swapped) : e.id # r}
         /\ paused' \in Seq(Item) /\ Range(paused') = {e \in Range(paused) : e.id # r}
         /\ Distinct(running) => Distinct(running')
         /\ Distinct(paused) => Distinct(paused')
<1>1. running \in Seq(Item) /\ swapped \in Seq(Item) /\ paused \in Seq(Item)
  BY DEF Typed
<1>2. running' = Without(running, r) /\ swapped' = Without(swapped, r) /\ paused' = Without(paused, r)
  BY DEF Finish
<1> QED
  BY <1>1, <1>2, WithoutDoes DEF Finish

\* A request moves from one queue to the end of another.
Moved(r, q, s, q1, s1) ==
  r \in Ids(q) /\ q1 = Removed(q, PosOf(r, q)) /\ s1 = Append(s, q[PosOf(r, q)])

LEMMA MoveDoes ==
  ASSUME NEW q \in Seq(Item), NEW s \in Seq(Item), NEW r, NEW q1, NEW s1, Moved(r, q, s, q1, s1)
  PROVE  /\ q1 \in Seq(Item) /\ s1 \in Seq(Item)
         /\ \E e \in Range(q) : /\ e.id = r /\ Range(q) = Range(q1) \cup {e}
                                /\ Range(s1) = Range(s) \cup {e}
         /\ Distinct(q) => Distinct(q1) /\ r \notin Ids(q1)
         /\ Distinct(s) /\ r \notin Ids(s) => Distinct(s1)
<1>1. PICK i : i = PosOf(r, q)
  OBVIOUS
<1>2. i \in DOMAIN q /\ q[i].id = r
  BY <1>1, FirstExists DEF PosOf, Moved
<1>3. q1 = Removed(q, i) /\ s1 = Append(s, q[i])
  BY <1>1 DEF Moved
<1>4. /\ q1 \in Seq(Item) /\ q[i] \in Item /\ Range(q) = Range(q1) \cup {q[i]}
      /\ Distinct(q) => Distinct(q1) /\ q[i].id \notin Ids(q1)
  BY <1>2, <1>3, RemovedLists
<1>5. PICK e \in Item : e = q[i]
  BY <1>4
<1>6. /\ s1 \in Seq(Item) /\ Range(s1) = Range(s) \cup {e}
      /\ Distinct(s) /\ e.id \notin Ids(s) => Distinct(s1)
  BY <1>3, <1>5, AppendLists
<1>7. e \in Range(q)
  BY <1>4, <1>5
<1> QED
  BY <1>2, <1>4, <1>5, <1>6, <1>7

\* A request that arrives.
LEMMA EnqueueDoes ==
  ASSUME Typed, NEW r \in Req, Enqueue(r)
  PROVE  /\ pass.phase = "idle" /\ r \notin Range(arrived)
         /\ UNCHANGED <<running, swapped, paused, finished, caught, reached, pass, out>>
         /\ arrived' \in Seq(Req) /\ Range(arrived') = Range(arrived) \cup {r}
         /\ \E e \in Item : /\ e.id = r /\ e.consumed = 0 /\ waiting' = Append(waiting, e)
                            /\ waiting' \in Seq(Item) /\ Range(waiting') = Range(waiting) \cup {e}
<1>1. PICK e : e = [id |-> r, consumed |-> 0]
  OBVIOUS
<1>2. e \in Item /\ e.id = r /\ e.consumed = 0
  BY <1>1, RequestAssumption DEF Item, Entry
<1>3. waiting' \in Seq(Item) /\ Range(waiting') = Range(waiting) \cup {e} /\ waiting' = Append(waiting, e)
  BY <1>1, <1>2, AppendLists DEF Enqueue, Typed
<1>4. arrived' \in Seq(Req) /\ Range(arrived') = Range(arrived) \cup {r}
  <2>1. PICK a \in Seq(Req) : a = arrived
    BY DEF Typed
  <2>2. PICK b : b = Append(a, r)
    OBVIOUS
  <2>3. /\ b \in Seq(Req) /\ DOMAIN b = DOMAIN a \cup {Len(a) + 1} /\ b[Len(a) + 1] = r
        /\ \A i \in DOMAIN a : b[i] = a[i]
    BY <2>2
  <2>4. Range(b) = Range(a) \cup {r}
    BY <2>3 DEF Range
  <2> QED
    BY <2>1, <2>2, <2>3, <2>4 DEF Enqueue
<1> QED
  BY <1>2, <1>3, <1>4 DEF Enqueue

\* Every step keeps the types.
LEMMA TypedStep == Typed /\ [Next]_vars => Typed'
<1> SUFFICES ASSUME Typed, [Next]_vars PROVE Typed'
    OBVIOUS
<1> USE DEF Phases
<1>1. ASSUME NEW kv, BeginPass(kv) PROVE Typed'
  <2>1. out' \in [prefill : Seq(Req), decode : Seq(Req)]
    <3>1. Nothing \in [prefill : Seq(Req), decode : Seq(Req)]
      BY DEF Nothing
    <3> QED
      BY <1>1, <3>1, BeginPassDoes
  <2> QED
    BY <1>1, <2>1, BeginPassDoes, ShortLists DEF Typed, history
<1>2. CASE AdmitWaiting
  BY <1>2, AdmitDoes DEF Typed, history
<1>3. CASE Preempt
  BY <1>3, PreemptDoes DEF Typed, history
<1>4. CASE FillNoSlot \/ FillReenter \/ FillOverBudget
  BY <1>4, PassOverDoes DEF Typed, history
<1>5. CASE FillChunk
  <2>1. Next1.id \in Req /\ Advanced.consumed \in Nat
    BY <1>5, FillChunkDoes, FillingDoes, ChunkDoes, ItemFacts
  <2>2. reached' \in [Req -> Nat]
    BY <1>5, <2>1, FillChunkDoes DEF Typed
  <2>3. out' \in [prefill : Seq(Req), decode : Seq(Req)]
    <3>1. out \in [prefill : Seq(Req), decode : Seq(Req)]
      BY DEF Typed
    <3>2. out' = [out EXCEPT !.prefill = Append(out.prefill, Next1.id)]
      BY <1>5, FillChunkDoes
    <3>3. Append(out.prefill, Next1.id) \in Seq(Req)
      BY <2>1, <3>1
    <3> QED
      BY <3>1, <3>2, <3>3
  <2> QED
    BY <1>5, <2>2, <2>3, FillChunkDoes DEF Typed
<1>6. CASE EndPass
  <2>1. pass'.phase = "idle" /\ pass'.admitted = <<>> /\ IsPass(pass')
    BY <1>6, EndPassDoes DEF Done, IsPass
  <2> QED
    BY <1>6, <2>1, EndPassDoes, ShortLists DEF Typed, queues, history
<1>7. ASSUME NEW r \in Req, Enqueue(r) PROVE Typed'
  BY <1>7, EnqueueDoes DEF Typed
<1>8. ASSUME NEW r \in Req, Finish(r) PROVE Typed'
  <2>1. finished' \subseteq Range(arrived) /\ caught' \subseteq finished'
    BY <1>8, FinishDoes DEF Typed
  <2> QED
    BY <1>8, <2>1, FinishDoes DEF Typed
<1>9. ASSUME NEW r \in Req, Pause(r) PROVE Typed'
  <2>1. running' \in Seq(Item) /\ paused' \in Seq(Item)
    <3>1. Moved(r, running, paused, running', paused')
      BY <1>9 DEF Pause, Moved
    <3> QED
      BY <3>1, MoveDoes DEF Typed
  <2> QED
    BY <1>9, <2>1 DEF Pause, Typed, history
<1>10. ASSUME NEW r \in Req, Resume(r) PROVE Typed'
  <2>1. running' \in Seq(Item) /\ paused' \in Seq(Item)
    <3>1. Moved(r, paused, running, paused', running')
      BY <1>10 DEF Resume, Moved
    <3> QED
      BY <3>1, MoveDoes DEF Typed
  <2> QED
    BY <1>10, <2>1 DEF Resume, Typed, history
<1>11. CASE UNCHANGED vars
  BY <1>11 DEF vars, queues, history, Typed
<1> QED
  BY <1>1, <1>2, <1>3, <1>4, <1>5, <1>6, <1>7, <1>8, <1>9, <1>10, <1>11
     DEF Next, Schedule

\* The initial state.
LEMMA TypedInit == Init => Typed
<1> SUFFICES ASSUME Init PROVE Typed
    OBVIOUS
<1>1. IsPass(pass) /\ pass.phase = "idle" /\ pass.admitted = <<>>
  BY DEF Init, Done, IsPass
<1>2. out \in [prefill : Seq(Req), decode : Seq(Req)]
  BY DEF Init, Nothing
<1> QED
  BY <1>1, <1>2, ShortLists DEF Init, Typed, Phases, Range

-----------------------------------------------------------------------------
(* One running entry.                                                      *)

\* Without pausing, every step keeps the running queue free of duplicates.
LEMMA DistinctStep ==
  ASSUME CanPause = FALSE, Typed, Distinct(running), [Next]_vars
  PROVE  Distinct(running)'
<1>1. ASSUME NEW kv, BeginPass(kv) PROVE Distinct(running')
  BY <1>1, BeginPassDoes
<1>2. ASSUME AdmitWaiting \/ Preempt PROVE Distinct(running')
  BY <1>2, AdmitDoes, PreemptDoes
<1>3. running \in Seq(Item)
  BY DEF Typed
<1>4. ASSUME FillNoSlot \/ FillReenter \/ FillOverBudget PROVE Distinct(running')
  <2>1. Next1 \in Item
    BY <1>4, PassOverDoes, FillingDoes
  <2> QED
    BY <1>3, <1>4, <2>1, PassOverDoes, PutLists
<1>5. ASSUME FillChunk PROVE Distinct(running')
  <2>1. Advanced \in Item
    BY <1>5, FillChunkDoes, ChunkDoes
  <2> QED
    BY <1>3, <1>5, <2>1, FillChunkDoes, PutLists
<1>6. ASSUME EndPass PROVE Distinct(running')
  BY <1>6, EndPassDoes DEF queues
<1>7. ASSUME NEW r \in Req, Enqueue(r) \/ Finish(r) PROVE Distinct(running')
  BY <1>7, EnqueueDoes, FinishDoes
<1>8. ASSUME UNCHANGED vars PROVE Distinct(running')
  BY <1>8 DEF vars, queues
<1> QED
  BY <1>1, <1>2, <1>4, <1>5, <1>6, <1>7, <1>8 DEF Next, Schedule, Pause, Resume

\* For any requests, priorities, limits and readings of the pressure: a request
\* that comes back through the waiting queue for its next chunk, is swapped out
\* and in, or is sorted into another place, never runs twice - as long as
\* nobody pauses.
THEOREM OneEntry ==
  ASSUME CanPause = FALSE
  PROVE  Spec => []OneRunningEntry
<1>1. Init => Typed /\ Distinct(running)
  BY TypedInit DEF Init, Distinct
<1>2. Typed /\ Distinct(running) /\ [Next]_vars => Typed' /\ Distinct(running)'
  BY TypedStep, DistinctStep
<1>3. Typed /\ Distinct(running) => OneRunningEntry
  <2> SUFFICES ASSUME Distinct(running), NEW r \in Req PROVE Entries(r, running) <= 1
    BY DEF OneRunningEntry
  <2>1. PICK S : S = {i \in DOMAIN running : running[i].id = r}
    OBVIOUS
  <2>2. S = {} \/ \E i : S = {i}
    BY <2>1 DEF Distinct
  <2>3. Cardinality(S) <= 1
    <3>1. CASE S = {}
      <4>1. Cardinality(S) = 0
        BY <3>1, FS_EmptySet
      <4> QED
        BY <4>1
    <3>2. CASE \E i : S = {i}
      <4>1. Cardinality(S) = 1
        BY <3>2, FS_Singleton
      <4> QED
        BY <4>1
    <3> QED
      BY <2>2, <3>1, <3>2
  <2> QED
    BY <2>1, <2>3 DEF Entries
<1> QED
  BY <1>1, <1>2, <1>3, PTL DEF Spec

-----------------------------------------------------------------------------
(* Nobody is lost.                                                         *)

\* All ids the scheduler holds.
Held == Ids(waiting) \cup Ids(running) \cup Ids(swapped) \cup Ids(paused) \cup Ids(pass.admitted)

\* Every step but the dropping break keeps track of every live request.
LEMMA TrackedStep ==
  ASSUME Typed, Tracked, [Next]_vars, ~ Drops
  PROVE  Tracked'
<1> USE IdsOf
<1>1. Live \subseteq Held
  BY DEF Tracked, Held
<1>2. /\ waiting \in Seq(Item) /\ running \in Seq(Item) /\ paused \in Seq(Item)
      /\ pass.phase \in {"idle", "admit"} => pass.admitted = <<>>
      /\ Ids(<<>>) = {} /\ Range(<<>>) = {}
  BY ShortLists DEF Typed
<1>3. ASSUME NEW kv, BeginPass(kv) PROVE Tracked'
  <2>1. /\ Live' = Live /\ pass'.admitted = <<>> /\ pass.admitted = <<>> /\ paused' = paused
        /\ Ids(waiting) \subseteq Ids(waiting') /\ Ids(running') = Ids(running)
        /\ Ids(swapped) \subseteq Ids(waiting') \cup Ids(running') \cup Ids(swapped')
    BY <1>2, <1>3, BeginPassDoes DEF Live, history
  <2> QED
    BY <1>1, <1>2, <2>1 DEF Held, Tracked
<1>4. ASSUME AdmitWaiting PROVE Tracked'
  <2>1. /\ Live' = Live /\ UNCHANGED <<running, swapped, paused>>
        /\ Ids(waiting) = Ids(waiting') \cup Ids(pass'.admitted) /\ pass.admitted = <<>>
    BY <1>2, <1>4, AdmitDoes DEF Live, history
  <2> QED
    BY <1>1, <1>2, <2>1 DEF Held, Tracked
<1>5. ASSUME Preempt PROVE Tracked'
  <2>1. /\ Live' = Live /\ UNCHANGED <<waiting, paused>> /\ pass'.admitted = pass.admitted
        /\ Ids(running) \cup Ids(swapped) \subseteq Ids(running') \cup Ids(swapped')
    BY <1>5, PreemptDoes DEF Live, history
  <2> QED
    BY <1>1, <2>1 DEF Held, Tracked
<1>6. ASSUME FillNoSlot \/ FillReenter \/ FillOverBudget PROVE Tracked'
  <2>1. /\ Live' = Live /\ UNCHANGED <<swapped, paused>> /\ Next1 \in Item
        /\ Range(pass.admitted) = Range(Tail(pass.admitted)) \cup {Next1}
    BY <1>6, PassOverDoes, FillingDoes DEF Live, history
  <2>2. pass'.admitted = Tail(pass.admitted)
    BY <1>6, PassOverDoes DEF Drops
  <2>3. \/ running' = PutRunning(Next1) /\ waiting' = waiting
        \/ waiting' = Append(waiting, Next1) /\ running' = running
    BY <1>6, PassOverDoes
  <2>4. Ids(waiting) \cup Ids(running) \cup {Next1.id} \subseteq Ids(waiting') \cup Ids(running')
    <3>1. CASE running' = PutRunning(Next1) /\ waiting' = waiting
      BY <1>2, <2>1, <3>1, PutLists
    <3>2. CASE waiting' = Append(waiting, Next1) /\ running' = running
      <4>1. Range(waiting') = Range(waiting) \cup {Next1}
        BY <1>2, <2>1, <3>2, AppendLists
      <4> QED
        BY <3>2, <4>1
    <3> QED
      BY <2>3, <3>1, <3>2
  <2>5. Ids(pass.admitted) = Ids(pass'.admitted) \cup {Next1.id}
    BY <2>1, <2>2
  <2> QED
    BY <1>1, <2>1, <2>4, <2>5 DEF Held, Tracked
<1>7. ASSUME FillChunk PROVE Tracked'
  <2>1. /\ Live' = Live /\ UNCHANGED <<swapped, paused>> /\ Next1 \in Item /\ Advanced \in Item
        /\ Advanced.id = Next1.id /\ running' = PutRunning(Advanced)
        /\ Range(pass.admitted) = Range(Tail(pass.admitted)) \cup {Next1}
        /\ Range(waiting') \cup Range(pass'.admitted) =
              Range(waiting) \cup Range(Tail(pass.admitted)) \cup Range(Remainder)
    BY <1>7, FillChunkDoes, FillingDoes, ChunkDoes DEF Live
  <2>2. Ids(running') = Ids(running) \cup {Next1.id}
    BY <1>2, <2>1, PutLists
  <2>3. Ids(waiting) \cup Ids(pass.admitted) \subseteq Ids(waiting') \cup Ids(pass'.admitted) \cup {Next1.id}
    BY <2>1
  <2> QED
    BY <1>1, <2>1, <2>2, <2>3 DEF Held, Tracked
<1>8. ASSUME EndPass PROVE Tracked'
  BY <1>1, <1>2, <1>8, EndPassDoes DEF Held, Tracked, queues, history, Live, Done
<1>9. ASSUME NEW r \in Req, Enqueue(r) PROVE Tracked'
  <2>1. /\ UNCHANGED <<running, swapped, paused, finished, pass>>
        /\ Range(arrived') = Range(arrived) \cup {r}
        /\ \E e \in Item : e.id = r /\ Range(waiting') = Range(waiting) \cup {e}
    BY <1>9, EnqueueDoes
  <2>2. Ids(waiting') = Ids(waiting) \cup {r}
    BY <2>1
  <2> QED
    BY <1>1, <2>1, <2>2 DEF Held, Tracked, Live
<1>10. ASSUME NEW r \in Req, Finish(r) PROVE Tracked'
  <2>1. /\ UNCHANGED <<waiting, arrived, pass>> /\ finished' = finished \cup {r}
        /\ Ids(running) \subseteq Ids(running') \cup {r}
        /\ Ids(swapped) \subseteq Ids(swapped') \cup {r}
        /\ Ids(paused) \subseteq Ids(paused') \cup {r}
    BY <1>10, FinishDoes
  <2> QED
    BY <1>1, <2>1 DEF Held, Tracked, Live
<1>11. ASSUME NEW r \in Req, Pause(r) \/ Resume(r) PROVE Tracked'
  <2>1. Moved(r, running, paused, running', paused') \/ Moved(r, paused, running, paused', running')
    BY <1>11 DEF Pause, Resume, Moved
  <2>2. ASSUME Moved(r, running, paused, running', paused')
        PROVE  Ids(running) \cup Ids(paused) \subseteq Ids(running') \cup Ids(paused')
    <3>1. PICK e \in Range(running) : /\ Range(running) = Range(running') \cup {e}
                                      /\ Range(paused') = Range(paused) \cup {e}
      BY <1>2, <2>2, MoveDoes
    <3> QED
      BY <3>1
  <2>3. ASSUME Moved(r, paused, running, paused', running')
        PROVE  Ids(running) \cup Ids(paused) \subseteq Ids(running') \cup Ids(paused')
    <3>1. PICK e \in Range(paused) : /\ Range(paused) = Range(paused') \cup {e}
                                     /\ Range(running') = Range(running) \cup {e}
      BY <1>2, <2>3, MoveDoes
    <3> QED
      BY <3>1
  <2>4. UNCHANGED <<waiting, swapped, history, pass>>
    BY <1>11 DEF Pause, Resume
  <2> QED
    BY <1>1, <2>1, <2>2, <2>3, <2>4 DEF Held, Tracked, Live, history
<1>12. ASSUME UNCHANGED vars PROVE Tracked'
  BY <1>12 DEF vars, queues, history, Tracked, Live
<1> QED
  BY <1>3, <1>4, <1>5, <1>6, <1>7, <1>8, <1>9, <1>10, <1>11, <1>12
     DEF Next, Schedule

\* For any requests, limits, pauses and cancellations: between two passes a
\* live request is in one of the queues, unless the token budget ended the loop
\* of some pass while other admitted requests were left.  Preemption, swapping,
\* deferral, chunking, pausing and sorting lose nobody.
THEOREM LostOnlyOverBudget == Spec /\ [][~ Drops]_vars => []NoneLost
<1>1. Init => Typed /\ Tracked
  BY TypedInit DEF Init, Tracked, Live, Range
<1>2. Typed /\ Tracked /\ [Next]_vars /\ [~ Drops]_vars => Typed' /\ Tracked'
  <2>1. CASE UNCHANGED vars
    <3>1. Typed /\ Tracked /\ UNCHANGED vars => Tracked'
      BY DEF vars, queues, history, Tracked, Live
    <3> QED
      BY <2>1, <3>1, TypedStep
  <2>2. CASE ~ UNCHANGED vars
    BY <2>2, TypedStep, TrackedStep
  <2> QED
    BY <2>1, <2>2
<1>3. Typed /\ Tracked => NoneLost
  BY ShortLists DEF Typed, Tracked, NoneLost
<1> QED
  BY <1>1, <1>2, <1>3, PTL DEF Spec

-----------------------------------------------------------------------------
(* Offsets.                                                                *)

\* The waiting requests keep their true offset in every step that swaps
\* nothing back in.
LEMMA QueuedStep ==
  ASSUME Typed, Queued, Behind, [Next]_vars, ~ SwapsBack
  PROVE  Queued'
<1> DEFINE Fresh(e, a, at) == e.id \in Range(a) /\ e.consumed = at[e.id] /\ e.consumed < Prompt[e.id]
<1>1. /\ Distinct(waiting) /\ Distinct(pass.admitted) /\ Ids(waiting) \cap Ids(pass.admitted) = {}
      /\ \A e \in Range(waiting) \cup Range(pass.admitted) : Fresh(e, arrived, reached)
  BY DEF Queued
<1>2. /\ waiting \in Seq(Item) /\ pass.admitted \in Seq(Item) /\ reached \in [Req -> Nat]
      /\ pass.phase \in {"idle", "admit"} => pass.admitted = <<>>
      /\ Ids(<<>>) = {} /\ Range(<<>>) = {} /\ Distinct(<<>>)
  BY ShortLists DEF Typed
<1>3. SUFFICES /\ Distinct(waiting') /\ Distinct(pass'.admitted) /\ Ids(waiting') \cap Ids(pass'.admitted) = {}
               /\ \A e \in Range(waiting') \cup Range(pass'.admitted) : Fresh(e, arrived', reached')
  BY DEF Queued
<1> DEFINE Good == /\ Distinct(waiting') /\ Distinct(pass'.admitted)
                   /\ Ids(waiting') \cap Ids(pass'.admitted) = {}
                   /\ \A e \in Range(waiting') \cup Range(pass'.admitted) : Fresh(e, arrived', reached')
<1> HIDE DEF Fresh
<1>4. ASSUME NEW kv \in KvPressure, BeginPass(kv) PROVE Good
  <2>1. swapped' = swapped
    BY <1>4 DEF SwapsBack
  <2> QED
    BY <1>1, <1>2, <1>4, <2>1, BeginPassDoes DEF history
<1>5. ASSUME AdmitWaiting PROVE Good
  BY <1>1, <1>5, AdmitDoes DEF history
<1>6. ASSUME Preempt PROVE Good
  BY <1>1, <1>6, PreemptDoes DEF history
<1>7. ASSUME FillNoSlot \/ FillReenter \/ FillOverBudget PROVE Good
  <2>1. /\ Next1 \in Item /\ UNCHANGED history /\ Tail(pass.admitted) \in Seq(Item)
        /\ Range(pass.admitted) = Range(Tail(pass.admitted)) \cup {Next1}
        /\ Distinct(Tail(pass.admitted)) /\ Next1.id \notin Ids(Tail(pass.admitted))
    BY <1>1, <1>7, PassOverDoes, FillingDoes
  <2>2. Fresh(Next1, arrived, reached) /\ Ids(pass.admitted) = Ids(Tail(pass.admitted)) \cup {Next1.id}
    BY <1>1, <2>1, IdsOf
  <2>3. ~ FillReenter
    BY <1>7, <2>1, <2>2, PassOverDoes, ItemFacts DEF Fresh
  <2>4. waiting' = Append(waiting, Next1) /\ (pass'.admitted = Tail(pass.admitted) \/ pass'.admitted = <<>>)
    BY <1>7, <2>3, PassOverDoes
  <2>5. Range(waiting') = Range(waiting) \cup {Next1} /\ Distinct(waiting')
    BY <1>1, <1>2, <2>1, <2>2, <2>4, AppendLists
  <2>6. Ids(waiting') = Ids(waiting) \cup {Next1.id}
    BY <2>5, IdsOf
  <2>7. Distinct(pass'.admitted) /\ Ids(waiting') \cap Ids(pass'.admitted) = {}
    BY <1>1, <1>2, <2>1, <2>2, <2>4, <2>6
  <2>8. Range(waiting') \cup Range(pass'.admitted) \subseteq Range(waiting) \cup Range(pass.admitted)
    BY <1>2, <2>1, <2>4, <2>5
  <2> QED
    BY <1>1, <2>1, <2>5, <2>7, <2>8 DEF history
<1>8. ASSUME FillChunk PROVE Good
  <2>1. /\ Next1 \in Item /\ Advanced \in Item /\ Advanced.id = Next1.id /\ arrived' = arrived
        /\ Range(pass.admitted) = Range(Tail(pass.admitted)) \cup {Next1}
        /\ Next1.id \notin Ids(Tail(pass.admitted))
        /\ Range(waiting') \cup Range(pass'.admitted) =
              Range(waiting) \cup Range(Tail(pass.admitted)) \cup Range(Remainder)
        /\ reached' = [reached EXCEPT ![Next1.id] = Advanced.consumed]
    BY <1>1, <1>8, FillChunkDoes, FillingDoes, ChunkDoes
  <2>2. Distinct(waiting') /\ Distinct(pass'.admitted) /\ Ids(waiting') \cap Ids(pass'.admitted) = {}
    BY <1>1, <1>8, FillChunkDoes
  <2>3. Range(Remainder) = {} \/ (Range(Remainder) = {Advanced} /\ Advanced.consumed < Prompt[Next1.id])
    BY <1>8, <2>1, FillChunkDoes, ChunkDoes, ShortLists
  <2>4. Next1.id \notin Ids(waiting) /\ Next1.id \in Range(arrived) /\ Next1.id \in Req
    BY <1>1, <2>1, IdsOf, ItemFacts DEF Fresh
  <2>5. ASSUME NEW e \in Range(waiting) \cup Range(Tail(pass.admitted))
        PROVE  Fresh(e, arrived', reached')
    <3>1. e.id # Next1.id /\ Fresh(e, arrived, reached)
      BY <1>1, <2>1, <2>4, IdsOf
    <3>2. reached'[e.id] = reached[e.id]
      <4>1. e \in Item
        BY <1>2, <2>1, <2>5 DEF Range
      <4> QED
        BY <1>2, <2>1, <3>1, <4>1, ItemFacts
    <3> QED
      BY <2>1, <3>1, <3>2 DEF Fresh
  <2>6. ASSUME NEW e \in Range(Remainder) PROVE Fresh(e, arrived', reached')
    <3>1. e = Advanced /\ Advanced.consumed < Prompt[Next1.id]
      BY <2>3, <2>6
    <3>2. reached'[Next1.id] = Advanced.consumed
      BY <1>2, <2>1, <2>4
    <3> QED
      BY <2>1, <2>4, <3>1, <3>2 DEF Fresh
  <2> QED
    BY <2>1, <2>2, <2>5, <2>6
<1>9. ASSUME EndPass PROVE Good
  BY <1>1, <1>2, <1>9, EndPassDoes DEF queues, history, Done
<1>10. ASSUME NEW r \in Req, Enqueue(r) PROVE Good
  <2>1. /\ pass.admitted = <<>> /\ pass' = pass /\ reached' = reached /\ r \notin Range(arrived)
        /\ Range(arrived') = Range(arrived) \cup {r}
    BY <1>2, <1>10, EnqueueDoes
  <2>2. PICK e \in Item : /\ e.id = r /\ e.consumed = 0 /\ waiting' = Append(waiting, e)
                          /\ Range(waiting') = Range(waiting) \cup {e}
    BY <1>10, EnqueueDoes
  <2>3. r \notin Ids(waiting)
    BY <1>1, <2>1, IdsOf DEF Fresh
  <2>4. Distinct(waiting')
    BY <1>1, <1>2, <2>2, <2>3, AppendLists
  <2>5. Fresh(e, arrived', reached')
    <3>1. reached[r] = 0 /\ 0 < Prompt[r]
      BY <2>1, <2>2, ItemFacts DEF Behind
    <3> QED
      BY <2>1, <2>2, <3>1 DEF Fresh
  <2>6. ASSUME NEW d \in Range(waiting) PROVE Fresh(d, arrived', reached')
    BY <1>1, <2>1 DEF Fresh
  <2> QED
    BY <1>2, <2>1, <2>2, <2>4, <2>5, <2>6
<1>11. ASSUME NEW r, Finish(r) PROVE Good
  BY <1>1, <1>11, FinishDoes
<1>12. ASSUME NEW r, Pause(r) \/ Resume(r) PROVE Good
  BY <1>1, <1>12 DEF Pause, Resume, history
<1>13. ASSUME UNCHANGED vars PROVE Good
  BY <1>1, <1>13 DEF vars, queues, history
<1> QED
  BY <1>4, <1>5, <1>6, <1>7, <1>8, <1>9, <1>10, <1>11, <1>12, <1>13 DEF Next, Schedule

\* While the waiting requests have their true offsets, no step puts the batch or
\* the paused requests ahead of what was scheduled, or lets a request decode early.
LEMMA BehindStep ==
  ASSUME Typed, Queued, Behind, [Next]_vars
  PROVE  Behind'
<1> DEFINE Follows(e, a, at) == e.id \in Range(a) /\ e.consumed <= at[e.id]
           Bound(a, at) == \A r \in Req : at[r] <= Prompt[r] /\ (r \notin Range(a) => at[r] = 0)
           Whole(r, a, at) == r \in Range(a) /\ at[r] = Prompt[r]
<1>1. /\ Bound(arrived, reached)
      /\ \A e \in Range(running) \cup Range(paused) : Follows(e, arrived, reached)
      /\ pass.phase # "idle" => out.decode = <<>>
      /\ \A r \in Range(out.decode) : Whole(r, arrived, reached)
  BY DEF Behind
<1>2. /\ running \in Seq(Item) /\ paused \in Seq(Item) /\ reached \in [Req -> Nat]
      /\ Range(<<>>) = {} /\ out \in [prefill : Seq(Req), decode : Seq(Req)]
  BY ShortLists DEF Typed
<1> DEFINE Good == /\ Bound(arrived', reached')
                   /\ \A e \in Range(running') \cup Range(paused') : Follows(e, arrived', reached')
                   /\ pass'.phase # "idle" => out'.decode = <<>>
                   /\ \A r \in Range(out'.decode) : Whole(r, arrived', reached')
<1>3. SUFFICES Good
  BY DEF Behind
<1> HIDE DEF Follows, Bound, Whole
<1>4. ASSUME NEW kv, BeginPass(kv) PROVE Good
  <2>1. out'.decode = <<>>
    BY <1>4, BeginPassDoes DEF Nothing
  <2> QED
    BY <1>1, <1>2, <1>4, <2>1, BeginPassDoes DEF history
<1>5. ASSUME AdmitWaiting PROVE Good
  BY <1>1, <1>5, AdmitDoes DEF history
<1>6. ASSUME Preempt PROVE Good
  BY <1>1, <1>6, PreemptDoes DEF history
<1>7. ASSUME FillNoSlot \/ FillReenter \/ FillOverBudget PROVE Good
  <2>1. /\ Next1 \in Item /\ UNCHANGED <<paused, history, out>> /\ pass.phase = "fill"
        /\ Next1 \in Range(pass.admitted)
    BY <1>7, PassOverDoes, FillingDoes
  <2>2. Follows(Next1, arrived, reached)
    BY <1>2, <2>1, ItemFacts DEF Queued, Follows
  <2>3. Range(running') \subseteq Range(running) \cup {Next1}
    BY <1>2, <1>7, <2>1, PassOverDoes, PutLists
  <2> QED
    BY <1>1, <2>1, <2>2, <2>3 DEF history
<1>8. ASSUME FillChunk PROVE Good
  <2>1. /\ Next1 \in Item /\ Advanced \in Item /\ Advanced.id = Next1.id
        /\ UNCHANGED <<arrived, paused>> /\ Next1 \in Range(pass.admitted)
        /\ running' = PutRunning(Advanced) /\ pass.phase = "fill"
        /\ reached' = [reached EXCEPT ![Next1.id] = Advanced.consumed]
        /\ Next1.consumed < Advanced.consumed
    BY <1>8, FillChunkDoes, FillingDoes, ChunkDoes
  <2>2. Next1.id \in Req /\ Next1.id \in Range(arrived) /\ Next1.consumed = reached[Next1.id]
    BY <2>1, ItemFacts DEF Queued
  <2>3. /\ reached'[Next1.id] = Advanced.consumed
        /\ \A r \in Req : r # Next1.id => reached'[r] = reached[r]
    BY <1>2, <2>1, <2>2
  <2>4. out'.decode = <<>>
    <3>1. out' = [out EXCEPT !.prefill = Append(out.prefill, Next1.id)]
      BY <1>8, FillChunkDoes
    <3>2. out'.decode = out.decode
      BY <1>2, <3>1
    <3> QED
      BY <1>1, <2>1, <3>2
  <2>5. Bound(arrived', reached')
    <3>1. Advanced.consumed <= Prompt[Next1.id]
      BY <2>1, ItemFacts
    <3> QED
      BY <1>1, <2>1, <2>2, <2>3, <3>1 DEF Bound
  <2>6. ASSUME NEW e \in Range(running) \cup Range(paused) PROVE Follows(e, arrived', reached')
    <3>1. e \in Item
      BY <1>2 DEF Range
    <3>2. e.id \in Req /\ e.consumed \in Nat /\ Advanced.consumed \in Nat /\ Next1.consumed \in Nat
      BY <2>1, <3>1, ItemFacts
    <3>3. e.id \in Range(arrived) /\ e.consumed <= reached[e.id]
      BY <1>1, <2>6 DEF Follows
    <3>4. e.consumed <= reached'[e.id]
      <4>1. CASE e.id = Next1.id
        <5>1. e.consumed <= Next1.consumed
          BY <2>2, <3>3, <4>1
        <5>2. e.consumed <= Advanced.consumed
          BY <2>1, <3>2, <5>1
        <5> QED
          BY <2>3, <4>1, <5>2
      <4>2. CASE e.id # Next1.id
        BY <2>3, <3>2, <3>3, <4>2
      <4> QED
        BY <4>1, <4>2
    <3> QED
      BY <2>1, <3>3, <3>4 DEF Follows
  <2>7. Follows(Advanced, arrived', reached')
    BY <2>1, <2>2, <2>3, ItemFacts DEF Follows
  <2>8. Range(running') \subseteq Range(running) \cup {Advanced}
    BY <1>2, <2>1, PutLists
  <2> QED
    BY <1>2, <2>1, <2>4, <2>5, <2>6, <2>7, <2>8
<1>9. ASSUME EndPass PROVE Good
  <2>1. UNCHANGED <<queues, history>> /\ pass'.phase = "idle"
    BY <1>9, EndPassDoes DEF Done
  <2>2. ASSUME NEW r \in Range(out'.decode) PROVE Whole(r, arrived, reached)
    <3>1. PICK e \in Range(running) : e.id = r /\ Remaining(e) = 0
      BY <1>9, EndPassDoes
    <3>2. e \in Item
      BY <1>2 DEF Range
    <3>3. r \in Req /\ e.consumed = Prompt[r] /\ Prompt[r] \in Nat
      BY <3>1, <3>2, ItemFacts
    <3>4. r \in Range(arrived) /\ Prompt[r] <= reached[r]
      BY <1>1, <3>1, <3>3 DEF Follows
    <3>5. reached[r] <= Prompt[r] /\ reached[r] \in Nat
      BY <1>1, <1>2, <3>3 DEF Bound
    <3> QED
      BY <3>3, <3>4, <3>5 DEF Whole
  <2> QED
    BY <1>1, <2>1, <2>2 DEF queues, history
<1>10. ASSUME NEW r \in Req, Enqueue(r) PROVE Good
  <2>1. /\ UNCHANGED <<running, paused, reached, pass, out>>
        /\ Range(arrived') = Range(arrived) \cup {r}
    BY <1>10, EnqueueDoes
  <2>2. Bound(arrived', reached')
    BY <1>1, <2>1 DEF Bound
  <2>3. \A e \in Range(running) \cup Range(paused) : Follows(e, arrived', reached')
    BY <1>1, <2>1 DEF Follows
  <2>4. \A s \in Range(out.decode) : Whole(s, arrived', reached')
    BY <1>1, <2>1 DEF Whole
  <2> QED
    BY <1>1, <2>1, <2>2, <2>3, <2>4
<1>11. ASSUME NEW r, Finish(r) PROVE Good
  BY <1>1, <1>11, FinishDoes
<1>12. ASSUME NEW r, Pause(r) \/ Resume(r) PROVE Good
  <2>1. Moved(r, running, paused, running', paused') \/ Moved(r, paused, running, paused', running')
    BY <1>12 DEF Pause, Resume, Moved
  <2>2. ASSUME Moved(r, running, paused, running', paused')
        PROVE  Range(running') \cup Range(paused') \subseteq Range(running) \cup Range(paused)
    BY <1>2, <2>2, MoveDoes
  <2>3. ASSUME Moved(r, paused, running, paused', running')
        PROVE  Range(running') \cup Range(paused') \subseteq Range(running) \cup Range(paused)
    BY <1>2, <2>3, MoveDoes
  <2>4. UNCHANGED <<history, pass, out>>
    BY <1>12 DEF Pause, Resume
  <2> QED
    BY <1>1, <2>1, <2>2, <2>3, <2>4 DEF history
<1>13. ASSUME UNCHANGED vars PROVE Good
  BY <1>1, <1>13 DEF vars, queues, history
<1> QED
  BY <1>4, <1>5, <1>6, <1>7, <1>8, <1>9, <1>10, <1>11, <1>12, <1>13 DEF Next, Schedule

\* The invariant of a scheduler that swaps nothing back in.
Resumes == Typed /\ Queued /\ Behind

LEMMA ResumesInit == Init => Resumes
<1> SUFFICES ASSUME Init PROVE Resumes
    OBVIOUS
<1>1. waiting = <<>> /\ running = <<>> /\ paused = <<>> /\ arrived = <<>> /\ reached = [r \in Req |-> 0]
  BY DEF Init
<1>2. pass.admitted = <<>> /\ pass.phase = "idle" /\ out.decode = <<>>
  BY DEF Init, Done, Nothing
<1>3. Queued
  BY <1>1, <1>2, ShortLists DEF Queued
<1>4. Behind
  <2>1. \A r \in Req : reached[r] = 0 /\ 0 <= Prompt[r]
    BY <1>1, RequestAssumption
  <2> QED
    BY <1>1, <1>2, <2>1, ShortLists DEF Behind
<1> QED
  BY <1>3, <1>4, TypedInit DEF Resumes

LEMMA ResumesStep == Resumes /\ [Next]_vars /\ [~ SwapsBack]_vars => Resumes'
<1> SUFFICES ASSUME Resumes, [Next]_vars, [~ SwapsBack]_vars PROVE Resumes'
    OBVIOUS
<1>1. CASE UNCHANGED vars
  BY <1>1 DEF vars, queues, history, Resumes, Typed, Queued, Behind
<1>2. CASE ~ UNCHANGED vars
  <2>1. ~ SwapsBack
    BY <1>2
  <2> QED
    BY <2>1, TypedStep, QueuedStep, BehindStep DEF Resumes
<1> QED
  BY <1>1, <1>2

\* For any requests, limits, chunk sizes, pauses and cancellations: as long as no
\* pass swaps a request back in, a request decodes only when nothing of its
\* prompt is left to schedule, whatever chunks it was prefilled in.
THEOREM DecodesPrefilled == Spec /\ [][~ SwapsBack]_vars => []DecodeAfterPrefill
<1>1. Resumes => DecodeAfterPrefill
  <2> SUFFICES ASSUME Resumes, NEW r \in Range(out.decode), NEW i \in DOMAIN waiting, waiting[i].id = r
               PROVE  FALSE
    BY DEF DecodeAfterPrefill
  <2>1. waiting[i] \in Range(waiting) /\ waiting[i] \in Item
    BY DEF Resumes, Typed, Range
  <2>2. PICK e \in Item : e = waiting[i]
    BY <2>1
  <2>3. e.consumed = reached[r] /\ e.consumed < Prompt[r]
    BY <2>1, <2>2 DEF Resumes, Queued
  <2>4. reached[r] = Prompt[r] /\ Prompt[r] \in Nat
    BY <2>2, ItemFacts DEF Resumes, Behind
  <2> QED
    BY <2>3, <2>4
<1> QED
  BY <1>1, ResumesInit, ResumesStep, PTL DEF Spec

\* "Chunked prefill resumes at the true offset", for any requests, limits, chunk
\* sizes, pauses and cancellations, as long as no pass swaps a request back in.
THEOREM ResumesAtOffset == Spec /\ [][~ SwapsBack]_vars => TrueOffset
<1>1. Resumes => [FillChunk => Next1.consumed = reached[Next1.id]]_vars
  <2> SUFFICES ASSUME Resumes, FillChunk PROVE Next1.consumed = reached[Next1.id]
    OBVIOUS
  <2>1. Next1 \in Range(pass.admitted)
    BY FillChunkDoes, FillingDoes DEF Resumes
  <2> QED
    BY <2>1 DEF Resumes, Queued
<1> QED
  BY <1>1, ResumesInit, ResumesStep, PTL DEF Spec, TrueOffset

-----------------------------------------------------------------------------
(* Finished and paused requests stay out.                                  *)

\* A chunk adds its request to the pass's output.
LEMMA PrefillGrows ==
  ASSUME Typed, FillChunk
  PROVE  /\ Range(out'.prefill) = Range(out.prefill) \cup {Next1.id}
         /\ pass.phase = "fill"
<1>1. PICK p \in Seq(Req) : p = out.prefill
  BY DEF Typed
<1>2. Next1.id \in Req /\ pass.phase = "fill"
  BY FillChunkDoes, FillingDoes, ItemFacts
<1>3. PICK b : b = Append(p, Next1.id)
  OBVIOUS
<1>4. out'.prefill = b
  <2>1. out' = [out EXCEPT !.prefill = b]
    BY <1>1, <1>3, FillChunkDoes
  <2>2. out \in [prefill : Seq(Req), decode : Seq(Req)]
    BY DEF Typed
  <2> QED
    BY <2>1, <2>2
<1>5. /\ DOMAIN b = DOMAIN p \cup {Len(p) + 1} /\ b[Len(p) + 1] = Next1.id
      /\ \A i \in DOMAIN p : b[i] = p[i]
  BY <1>2, <1>3
<1>6. Range(b) = Range(p) \cup {Next1.id}
  BY <1>5 DEF Range
<1> QED
  BY <1>1, <1>2, <1>4, <1>6

\* Every step keeps a finished request that was not caught out of the queues.
LEMMA OverStep ==
  ASSUME Typed, Over, [Next]_vars
  PROVE  Over'
<1> USE IdsOf
<1>1. /\ Off \cap Holds = {}
      /\ pass.phase # "idle" => Off \cap Range(out.prefill) = {}
      /\ Ids(waiting) \subseteq Holds /\ Ids(pass.admitted) \subseteq Holds
      /\ Ids(running) \subseteq Holds /\ Ids(paused) \subseteq Holds /\ Ids(swapped) \subseteq Holds
  BY DEF Over, Holds
<1>2. /\ running \in Seq(Item) /\ waiting \in Seq(Item) /\ paused \in Seq(Item)
      /\ pass.phase \in {"idle", "admit"} => pass.admitted = <<>>
      /\ Range(<<>>) = {} /\ Ids(<<>>) = {} /\ finished \subseteq Range(arrived)
  BY ShortLists DEF Typed
\* A step of a pass that brings in no request and no output keeps Over.
<1>3. ASSUME finished' = finished, caught' = caught, Holds' \subseteq Holds,
             pass'.phase # "idle" =>
               Range(out'.prefill) \subseteq Holds \/ (pass.phase # "idle" /\ out' = out)
      PROVE  Over'
  <2>1. Off' = Off
    BY <1>3 DEF Off
  <2>2. Off' \cap Holds' = {}
    BY <1>1, <1>3, <2>1
  <2>3. pass'.phase # "idle" => Off' \cap Range(out'.prefill) = {}
    BY <1>1, <1>3, <2>1
  <2> QED
    BY <2>2, <2>3 DEF Over
<1>4. ASSUME NEW kv \in KvPressure, BeginPass(kv) PROVE Over'
  <2>1. /\ out'.prefill = <<>> /\ paused' = paused /\ pass'.admitted = <<>>
        /\ finished' = finished /\ caught' = caught
        /\ Range(waiting') \cup Range(swapped') \subseteq Range(waiting) \cup Range(swapped)
        /\ Range(running') = Range(running)
    BY <1>4, BeginPassDoes DEF Nothing, history
  <2>2. Ids(waiting') \cup Ids(swapped') \subseteq Ids(waiting) \cup Ids(swapped) /\ Ids(running') = Ids(running)
    BY <2>1
  <2>3. Holds' \subseteq Holds
    BY <1>2, <2>1, <2>2 DEF Holds
  <2>4. Range(out'.prefill) \subseteq Holds
    BY <1>2, <2>1
  <2> QED
    BY <1>3, <2>1, <2>3, <2>4
<1>5. ASSUME AdmitWaiting PROVE Over'
  <2>1. /\ UNCHANGED <<running, swapped, paused, out, finished, caught>> /\ pass.phase # "idle"
        /\ Ids(waiting) = Ids(waiting') \cup Ids(pass'.admitted)
    BY <1>5, AdmitDoes DEF history
  <2>2. Holds' \subseteq Holds
    BY <2>1 DEF Holds
  <2> QED
    BY <1>3, <2>1, <2>2
<1>6. ASSUME Preempt PROVE Over'
  <2>1. /\ UNCHANGED <<waiting, paused, out, finished, caught>> /\ pass.phase # "idle"
        /\ pass'.admitted = pass.admitted /\ Ids(running') \subseteq Ids(running)
        /\ Ids(swapped') \subseteq Ids(swapped) \cup Ids(running)
    BY <1>6, PreemptDoes DEF history
  <2>2. Holds' \subseteq Holds
    BY <2>1 DEF Holds
  <2> QED
    BY <1>3, <2>1, <2>2
<1>7. ASSUME FillNoSlot \/ FillReenter \/ FillOverBudget PROVE Over'
  <2>1. /\ Next1 \in Item /\ UNCHANGED <<swapped, paused, out, finished, caught>> /\ pass.phase # "idle"
        /\ Range(pass.admitted) = Range(Tail(pass.admitted)) \cup {Next1}
    BY <1>7, PassOverDoes, FillingDoes DEF history
  <2>2. Ids(running') \subseteq Ids(running) \cup {Next1.id}
    BY <1>2, <1>7, <2>1, PassOverDoes, PutLists
  <2>3. Range(waiting') \subseteq Range(waiting) \cup {Next1}
    BY <1>2, <1>7, <2>1, PassOverDoes, AppendLists
  <2>4. Range(pass'.admitted) \subseteq Range(pass.admitted)
    BY <1>2, <1>7, <2>1, PassOverDoes
  <2>5. Next1.id \in Ids(pass.admitted)
    BY <2>1
  <2>6. Ids(waiting') \subseteq Ids(waiting) \cup {Next1.id} /\ Ids(pass'.admitted) \subseteq Ids(pass.admitted)
    BY <2>3, <2>4
  <2>7. Holds' \subseteq Holds
    BY <2>1, <2>2, <2>5, <2>6 DEF Holds
  <2> QED
    BY <1>3, <2>1, <2>7
<1>8. ASSUME FillChunk PROVE Over'
  <2>1. /\ Next1 \in Item /\ Advanced \in Item /\ Advanced.id = Next1.id
        /\ UNCHANGED <<swapped, paused, finished, caught>> /\ running' = PutRunning(Advanced)
        /\ Range(pass.admitted) = Range(Tail(pass.admitted)) \cup {Next1}
        /\ Range(waiting') \cup Range(pass'.admitted) =
              Range(waiting) \cup Range(Tail(pass.admitted)) \cup Range(Remainder)
        /\ Remainder = <<>> \/ Remainder = <<Advanced>>
    BY <1>8, FillChunkDoes, FillingDoes, ChunkDoes
  <2>2. Range(Remainder) \subseteq {Advanced}
    BY <1>2, <2>1, ShortLists
  <2>3. Ids(running') = Ids(running) \cup {Next1.id}
    BY <1>2, <2>1, PutLists
  <2>4. Ids(waiting') \cup Ids(pass'.admitted) \subseteq Ids(waiting) \cup Ids(pass.admitted)
    BY <2>1, <2>2
  <2>5. Next1.id \in Ids(pass.admitted)
    BY <2>1
  <2>6. Range(out'.prefill) = Range(out.prefill) \cup {Next1.id} /\ pass.phase = "fill"
    BY <1>8, PrefillGrows
  <2>7. Holds' \subseteq Holds
    BY <2>1, <2>3, <2>4, <2>5 DEF Holds
  <2>8. Off' = Off /\ Off \cap Range(out'.prefill) = {}
    BY <1>1, <2>1, <2>5, <2>6 DEF Off
  <2> QED
    BY <1>1, <2>7, <2>8 DEF Over
<1>9. ASSUME EndPass PROVE Over'
  <2>1. UNCHANGED <<waiting, running, swapped, paused, finished, caught>> /\ pass.admitted = <<>> /\ pass' = Done
    BY <1>9, EndPassDoes DEF queues, history
  <2>2. Holds' \subseteq Holds /\ pass'.phase = "idle"
    BY <1>2, <2>1 DEF Holds, Done
  <2> QED
    BY <1>3, <2>1, <2>2
<1>10. ASSUME NEW r \in Req, Enqueue(r) PROVE Over'
  <2>1. /\ UNCHANGED <<running, swapped, paused, finished, caught, pass, out>> /\ pass.phase = "idle"
        /\ r \notin Range(arrived)
        /\ \E e \in Item : e.id = r /\ Range(waiting') = Range(waiting) \cup {e}
    BY <1>10, EnqueueDoes
  <2>2. Ids(waiting') = Ids(waiting) \cup {r}
    BY <2>1
  <2>3. Holds' \subseteq Holds \cup {r}
    BY <2>1, <2>2 DEF Holds
  <2>4. Off' = Off /\ r \notin Off
    BY <1>2, <2>1 DEF Off
  <2> QED
    BY <1>1, <2>1, <2>3, <2>4 DEF Over
<1>11. ASSUME NEW r \in Req, Finish(r) PROVE Over'
  <2>1. /\ UNCHANGED <<waiting, pass, out>> /\ pass.phase = "idle"
        /\ finished' = finished \cup {r} /\ caught' = caught \cup ({r} \cap Ids(waiting))
        /\ Ids(running') = Ids(running) \ {r} /\ Ids(paused') = Ids(paused) \ {r}
        /\ Ids(swapped') = Ids(swapped) \ {r}
    BY <1>11, FinishDoes
  <2>2. Off' \subseteq Off \cup ({r} \ Ids(waiting))
    BY <2>1 DEF Off
  <2>3. Holds' = (Holds \ {r}) \cup ({r} \cap Ids(waiting))
    BY <1>2, <2>1 DEF Holds
  <2>4. Off' \cap Holds' = {}
    BY <1>1, <2>2, <2>3
  <2> QED
    BY <2>1, <2>4 DEF Over
<1>12. ASSUME NEW r, Pause(r) \/ Resume(r) PROVE Over'
  <2>1. Moved(r, running, paused, running', paused') \/ Moved(r, paused, running, paused', running')
    BY <1>12 DEF Pause, Resume, Moved
  <2>2. ASSUME Moved(r, running, paused, running', paused')
        PROVE  Range(running') \cup Range(paused') \subseteq Range(running) \cup Range(paused)
    BY <1>2, <2>2, MoveDoes
  <2>3. ASSUME Moved(r, paused, running, paused', running')
        PROVE  Range(running') \cup Range(paused') \subseteq Range(running) \cup Range(paused)
    BY <1>2, <2>3, MoveDoes
  <2>4. UNCHANGED <<waiting, swapped, finished, caught, pass, out>> /\ pass.phase = "idle"
    BY <1>12 DEF Pause, Resume, history
  <2>5. Ids(running') \cup Ids(paused') \subseteq Ids(running) \cup Ids(paused)
    BY <2>1, <2>2, <2>3
  <2>6. Holds' \subseteq Holds
    BY <2>4, <2>5 DEF Holds
  <2> QED
    BY <1>3, <2>4, <2>6
<1>13. ASSUME UNCHANGED vars PROVE Over'
  BY <1>13 DEF vars, queues, history, Over, Off, Holds
<1> QED
  BY <1>4, <1>5, <1>6, <1>7, <1>8, <1>9, <1>10, <1>11, <1>12, <1>13 DEF Next, Schedule

\* For any requests, limits, pressure, chunks, preemptions and pauses, and for
\* requests finished at any time and more than once: one that is prefilled or
\* decoded again was waiting when it was finished (finish leaves `waiting` alone).
THEOREM OnlyCaughtReturn == Spec => FinishedStaysOut
<1>1. Init => Over
  BY DEF Init, Over, Off, Done
<1>2. Typed /\ Over /\ [Next]_vars => Over'
  BY OverStep
<1>3. Typed /\ Over => [EndPass => finished \cap Range(out.prefill \o out'.decode) \subseteq caught]_vars
  <2> SUFFICES ASSUME Typed, Over, EndPass
               PROVE  finished \cap Range(out.prefill \o out'.decode) \subseteq caught
    OBVIOUS
  <2>1. PICK a \in Seq(Req) : a = out.prefill
    BY DEF Typed
  <2>2. PICK b \in Seq(Req) : b = out'.decode
    BY EndPassDoes
  <2>3. Range(a \o b) \subseteq Range(a) \cup Range(b)
    <3> SUFFICES ASSUME NEW i \in 1..(Len(a) + Len(b)) PROVE (a \o b)[i] \in Range(a) \cup Range(b)
      BY DEF Range
    <3>1. CASE i <= Len(a)
      BY <3>1 DEF Range
    <3>2. CASE i > Len(a)
      <4>1. i - Len(a) \in DOMAIN b /\ (a \o b)[i] = b[i - Len(a)]
        BY <3>2
      <4> QED
        BY <4>1 DEF Range
    <3> QED
      BY <3>1, <3>2
  <2>4. Range(b) \subseteq Ids(running)
    BY <2>2, EndPassDoes, IdsOf
  <2>5. (finished \ caught) \cap Range(a) = {} /\ (finished \ caught) \cap Ids(running) = {}
    BY <2>1, EndPassDoes DEF Over, Off, Holds
  <2> QED
    BY <2>1, <2>2, <2>3, <2>4, <2>5
<1> QED
  BY <1>1, <1>2, <1>3, TypedInit, TypedStep, PTL DEF Spec, FinishedStaysOut

\* Without a swap-in or a split prompt, every step keeps a request in one place.
LEMMA OnePlaceStep ==
  ASSUME Resumes, OnePlace, [Next]_vars, ~ SwapsBack, ~ Splits
  PROVE  OnePlace'
<1> USE IdsOf
<1>1. /\ Typed /\ Queued /\ Behind /\ Distinct(running) /\ Distinct(paused)
      /\ Ids(running) \cap Ids(paused) = {}
      /\ (Ids(waiting) \cup Ids(pass.admitted)) \cap (Ids(running) \cup Ids(paused)) = {}
      /\ pass.phase # "idle" => Range(out.prefill) \subseteq Ids(running)
      /\ pass.phase \in {"admit", "preempt"} => Range(out.prefill) = {}
  BY DEF OnePlace, Resumes
<1>2. /\ running \in Seq(Item) /\ waiting \in Seq(Item) /\ paused \in Seq(Item)
      /\ pass.phase \in {"idle", "admit"} => pass.admitted = <<>>
      /\ Range(<<>>) = {} /\ Ids(<<>>) = {}
  BY <1>1, ShortLists DEF Typed
<1>3. ASSUME NEW kv \in KvPressure, BeginPass(kv) PROVE OnePlace'
  <2>1. swapped' = swapped
    BY <1>3 DEF SwapsBack
  <2>2. out'.prefill = <<>> /\ paused' = paused /\ pass'.admitted = <<>> /\ Distinct(running')
    BY <1>1, <1>3, BeginPassDoes DEF Nothing
  <2>3. Ids(waiting') = Ids(waiting) /\ Ids(running') = Ids(running)
    BY <1>1, <1>3, <2>1, BeginPassDoes
  <2> QED
    BY <1>1, <1>2, <2>2, <2>3 DEF OnePlace
<1>4. ASSUME AdmitWaiting PROVE OnePlace'
  <2>1. /\ UNCHANGED <<running, paused, out>> /\ pass.phase = "admit"
        /\ Ids(waiting) = Ids(waiting') \cup Ids(pass'.admitted)
    BY <1>1, <1>4, AdmitDoes
  <2> QED
    BY <1>1, <2>1 DEF OnePlace
<1>5. ASSUME Preempt PROVE OnePlace'
  <2>1. /\ UNCHANGED <<waiting, paused, out>> /\ pass.phase = "preempt" /\ Distinct(running')
        /\ pass'.admitted = pass.admitted /\ Ids(running') \subseteq Ids(running)
    BY <1>1, <1>5, PreemptDoes
  <2> QED
    BY <1>1, <2>1 DEF OnePlace
<1>6. ASSUME FillNoSlot \/ FillReenter \/ FillOverBudget PROVE OnePlace'
  <2>1. /\ Next1 \in Item /\ UNCHANGED <<paused, out>> /\ pass.phase = "fill" /\ pass'.phase = "fill"
        /\ Range(pass.admitted) = Range(Tail(pass.admitted)) \cup {Next1}
    BY <1>1, <1>6, PassOverDoes, FillingDoes
  <2>2. Next1.consumed < Prompt[Next1.id]
    BY <1>1, <2>1 DEF Queued
  <2>3. ~ FillReenter
    BY <1>1, <1>6, <2>1, <2>2, PassOverDoes, ItemFacts
  <2>4. running' = running /\ waiting' = Append(waiting, Next1)
    BY <1>1, <1>6, <2>3, PassOverDoes
  <2>5. Range(waiting') = Range(waiting) \cup {Next1}
    BY <1>2, <2>1, <2>4, AppendLists
  <2>6. Range(pass'.admitted) \subseteq Range(pass.admitted)
    BY <1>1, <1>2, <1>6, <2>1, PassOverDoes
  <2>7. Ids(waiting') \cup Ids(pass'.admitted) \subseteq Ids(waiting) \cup Ids(pass.admitted)
    BY <2>1, <2>5, <2>6
  <2> QED
    BY <1>1, <2>1, <2>4, <2>7 DEF OnePlace
<1>7. ASSUME FillChunk PROVE OnePlace'
  <2>1. /\ Next1 \in Item /\ Advanced \in Item /\ Advanced.id = Next1.id
        /\ paused' = paused /\ running' = PutRunning(Advanced) /\ pass'.phase = "fill"
        /\ Range(pass.admitted) = Range(Tail(pass.admitted)) \cup {Next1}
        /\ Next1.id \notin Ids(Tail(pass.admitted))
        /\ Range(waiting') \cup Range(pass'.admitted) =
              Range(waiting) \cup Range(Tail(pass.admitted)) \cup Range(Remainder)
    BY <1>1, <1>7, FillChunkDoes, FillingDoes, ChunkDoes DEF Queued
  <2>2. Range(Remainder) = {}
    BY <1>2, <1>7 DEF Splits
  <2>3. Ids(running') = Ids(running) \cup {Next1.id} /\ Distinct(running')
    BY <1>1, <1>2, <2>1, PutLists
  <2>4. Ids(waiting') \cup Ids(pass'.admitted) = Ids(waiting) \cup Ids(Tail(pass.admitted))
    BY <2>1, <2>2
  <2>5. Ids(pass.admitted) = Ids(Tail(pass.admitted)) \cup {Next1.id}
    BY <2>1
  <2>6. Next1.id \notin Ids(waiting)
    BY <1>1, <2>5 DEF Queued
  <2>7. Range(out'.prefill) = Range(out.prefill) \cup {Next1.id} /\ pass.phase = "fill"
    BY <1>1, <1>7, PrefillGrows
  <2> QED
    BY <1>1, <2>1, <2>3, <2>4, <2>5, <2>6, <2>7 DEF OnePlace
<1>8. ASSUME EndPass PROVE OnePlace'
  BY <1>1, <1>2, <1>8, EndPassDoes DEF OnePlace, queues, Done
<1>9. ASSUME NEW r \in Req, Enqueue(r) PROVE OnePlace'
  <2>1. /\ UNCHANGED <<running, paused, pass, out>> /\ pass.phase = "idle"
        /\ r \notin Range(arrived)
        /\ \E e \in Item : e.id = r /\ Range(waiting') = Range(waiting) \cup {e}
    BY <1>1, <1>9, EnqueueDoes
  <2>2. Ids(waiting') = Ids(waiting) \cup {r}
    BY <2>1
  <2>3. r \notin Ids(running) \cup Ids(paused)
    BY <1>1, <2>1 DEF Behind
  <2> QED
    BY <1>1, <2>1, <2>2, <2>3 DEF OnePlace
<1>10. ASSUME NEW r, Finish(r) PROVE OnePlace'
  <2>1. /\ UNCHANGED <<waiting, pass, out>> /\ pass.phase = "idle"
        /\ Ids(running') \subseteq Ids(running) /\ Ids(paused') \subseteq Ids(paused)
        /\ Distinct(running') /\ Distinct(paused')
    BY <1>1, <1>10, FinishDoes
  <2> QED
    BY <1>1, <2>1 DEF OnePlace
<1>11. ASSUME NEW r, Pause(r) \/ Resume(r) PROVE OnePlace'
  <2>1. Moved(r, running, paused, running', paused') \/ Moved(r, paused, running, paused', running')
    BY <1>11 DEF Pause, Resume, Moved
  <2> DEFINE Apart == /\ Distinct(running') /\ Distinct(paused') /\ Ids(running') \cap Ids(paused') = {}
                      /\ Ids(running') \cup Ids(paused') \subseteq Ids(running) \cup Ids(paused)
  <2>2. ASSUME Moved(r, running, paused, running', paused') PROVE Apart
    <3>1. /\ Distinct(running') /\ r \notin Ids(running')
          /\ r \notin Ids(paused) => Distinct(paused')
      BY <1>1, <1>2, <2>2, MoveDoes
    <3>2. PICK e \in Range(running) : /\ e.id = r /\ Range(running) = Range(running') \cup {e}
                                      /\ Range(paused') = Range(paused) \cup {e}
      BY <1>2, <2>2, MoveDoes
    <3>3. Ids(running) = Ids(running') \cup {r} /\ Ids(paused') = Ids(paused) \cup {r}
      BY <3>2
    <3> QED
      BY <1>1, <3>1, <3>3
  <2>3. ASSUME Moved(r, paused, running, paused', running') PROVE Apart
    <3>1. /\ Distinct(paused') /\ r \notin Ids(paused')
          /\ r \notin Ids(running) => Distinct(running')
      BY <1>1, <1>2, <2>3, MoveDoes
    <3>2. PICK e \in Range(paused) : /\ e.id = r /\ Range(paused) = Range(paused') \cup {e}
                                     /\ Range(running') = Range(running) \cup {e}
      BY <1>2, <2>3, MoveDoes
    <3>3. Ids(paused) = Ids(paused') \cup {r} /\ Ids(running') = Ids(running) \cup {r}
      BY <3>2
    <3> QED
      BY <1>1, <3>1, <3>3
  <2>4. UNCHANGED <<waiting, pass, out>> /\ pass.phase = "idle"
    BY <1>11 DEF Pause, Resume
  <2>5. Apart
    BY <2>1, <2>2, <2>3
  <2> QED
    BY <1>1, <2>4, <2>5 DEF OnePlace
<1>12. ASSUME UNCHANGED vars PROVE OnePlace'
  BY <1>12 DEF vars, queues, OnePlace
<1> QED
  BY <1>3, <1>4, <1>5, <1>6, <1>7, <1>8, <1>9, <1>10, <1>11, <1>12 DEF Next, Schedule

\* A paused request "will not be selected for the running batch until resume is
\* called", for any requests, limits and cancellations, as long as no prompt is
\* split into chunks and no pass swaps a request back in: an entry in the waiting
\* queue as well is what breaks the promise.
THEOREM PausedStays == Spec /\ [][~ SwapsBack /\ ~ Splits]_vars => PausedStaysOut
<1>1. Init => OnePlace
  BY ShortLists DEF Init, OnePlace, Done
<1>2. Resumes /\ OnePlace /\ [Next]_vars /\ [~ SwapsBack /\ ~ Splits]_vars => Resumes' /\ OnePlace'
  <2> SUFFICES ASSUME Resumes, OnePlace, [Next]_vars, [~ SwapsBack /\ ~ Splits]_vars
               PROVE  Resumes' /\ OnePlace'
    OBVIOUS
  <2>1. CASE UNCHANGED vars
    <3>1. OnePlace'
      BY <2>1 DEF vars, queues, OnePlace
    <3> QED
      BY <2>1, <3>1, ResumesStep
  <2>2. CASE ~ UNCHANGED vars
    BY <2>2, ResumesStep, OnePlaceStep
  <2> QED
    BY <2>1, <2>2
<1>3. Resumes /\ OnePlace =>
        [EndPass => Ids(paused) \cap (Range(out.prefill) \cup Ids(running)) = {}]_vars
  <2> SUFFICES ASSUME Resumes, OnePlace, EndPass
               PROVE  Ids(paused) \cap (Range(out.prefill) \cup Ids(running)) = {}
    OBVIOUS
  <2>1. pass.phase = "fill"
    BY EndPassDoes DEF Resumes
  <2> QED
    BY <2>1 DEF OnePlace
<1> QED
  BY <1>1, <1>2, <1>3, ResumesInit, PTL DEF Spec, PausedStaysOut

-----------------------------------------------------------------------------

\* The queues, the pass and its output are well typed for any requests and
\* limits, and no entry has consumed more than its prompt.
THEOREM SchedulerTypeOK == Spec => []TypeOK
<1>1. Typed => TypeOK
  <2> SUFFICES ASSUME Typed PROVE TypeOK
    OBVIOUS
  <2>1. \A q \in Seq(Item) : \A i \in DOMAIN q : q[i] \in Entry /\ q[i].consumed <= Prompt[q[i].id]
    <3>1. \A q \in Seq(Item) : \A i \in DOMAIN q : q[i] \in Item
      OBVIOUS
    <3> QED
      BY <3>1 DEF Item
  <2>2. \A q \in {waiting, running, swapped, paused, pass.admitted} : q \in Seq(Item)
    BY DEF Typed
  <2>3. \A a \in Seq(Req) : Range(a) \subseteq Req
    BY DEF Range
  <2>4. Range(out.prefill) \subseteq Req /\ Range(out.decode) \subseteq Req /\ Range(arrived) \subseteq Req
    BY <2>3 DEF Typed
  <2> QED
    BY <2>1, <2>2, <2>4 DEF Typed, TypeOK, Phases
<1> QED
  BY <1>1, TypedInit, TypedStep, PTL DEF Spec

-----------------------------------------------------------------------------
(* Who is admitted first.                                                  *)

\* A deferred request goes to the back of the queue.
Defers == AdmitWaiting /\ waiting' # <<>>

\* Under pressure the admitted requests behind the chunk go back last first.
Reverses == FillChunk /\ pass.pressure /\ Len(pass.admitted) > 2

\* A request none of whose prompt was scheduled.
Unstarted(e) == e.consumed = 0

\* The pairs the queue must not hold the wrong way round.
Tied == {x \in Req \X Req : Priority[x[1]] = Priority[x[2]] /\ Arrival(x[1]) < Arrival(x[2])}
Better == {x \in Req \X Req : Before(x[1], x[2])}

\* No unstarted entry of q, and none of b after one of a, is in front of one it
\* should come after.
Line(q, R) ==
  \A i, j \in DOMAIN q : i < j /\ Unstarted(q[i]) /\ Unstarted(q[j]) => <<q[j].id, q[i].id>> \notin R
Follows(a, b, R) ==
  \A x \in Range(a) : \A y \in Range(b) : Unstarted(x) /\ Unstarted(y) => <<y.id, x.id>> \notin R

\* What runs, is swapped out or is paused has started.
Started == \A e \in Range(running) \cup Range(swapped) \cup Range(paused) : ~ Unstarted(e)

\* Every request arrives once, and what waits to start has arrived.
Arrivals ==
  /\ \A i, j \in DOMAIN arrived : arrived[i] = arrived[j] => i = j
  /\ \A e \in Range(waiting) \cup Range(pass.admitted) : Unstarted(e) => e.id \in Range(arrived)

\* Between two passes ties are in the order of arrival; in a pass the unstarted
\* requests are in the full order, and while the loop can still schedule one of
\* them none is behind it.
Orderly ==
  /\ pass.phase = "idle" => Line(waiting, Tied)
  /\ pass.phase # "idle" => /\ Line(waiting, Better) /\ Line(pass.admitted, Better)
                            /\ Follows(waiting, pass.admitted, Better)
  /\ pass.phase = "preempt" => waiting = <<>>
  /\ pass.phase = "fill" /\ pass.admitted # <<>> /\ ~ SeqsFull => \A e \in Range(waiting) : ~ Unstarted(e)

QueueInv == Typed /\ Started /\ Arrivals /\ Orderly

\* Queues in line: put together, and taken apart.
LEMMA LineConcat ==
  ASSUME NEW a \in Seq(Item), NEW b \in Seq(Item), NEW R, Line(a, R), Line(b, R), Follows(a, b, R)
  PROVE  Line(a \o b, R)
<1>1. PICK c : c = a \o b
  OBVIOUS
<1>2. PICK m \in Nat, n \in Nat : m = Len(a) /\ n = Len(b) /\ DOMAIN a = 1..m /\ DOMAIN b = 1..n
  OBVIOUS
<1>3. /\ DOMAIN c = 1..(m + n)
      /\ \A i \in 1..m : c[i] = a[i]
      /\ \A i \in (m + 1)..(m + n) : i - m \in 1..n /\ c[i] = b[i - m]
  BY <1>1, <1>2
<1>4. ASSUME NEW i \in 1..(m + n), NEW j \in 1..(m + n), i < j, Unstarted(c[i]), Unstarted(c[j])
      PROVE  <<c[j].id, c[i].id>> \notin R
  <2>1. CASE j <= m
    <3>1. i \in 1..m /\ j \in 1..m
      BY <1>4, <2>1
    <3> QED
      BY <1>2, <1>3, <1>4, <3>1 DEF Line
  <2>2. CASE i > m
    <3>1. /\ i - m \in 1..n /\ j - m \in 1..n /\ i - m < j - m
          /\ c[i] = b[i - m] /\ c[j] = b[j - m]
      <4>1. i \in (m + 1)..(m + n) /\ j \in (m + 1)..(m + n)
        BY <1>2, <1>4, <2>2
      <4>2. i \in Int /\ j \in Int
        OBVIOUS
      <4> QED
        BY <1>3, <1>4, <4>1, <4>2
    <3> QED
      BY <1>2, <1>4, <3>1 DEF Line
  <2>3. CASE i <= m /\ j > m
    <3>1. i \in 1..m /\ j - m \in 1..n /\ c[i] = a[i] /\ c[j] = b[j - m]
      BY <1>3, <2>3
    <3>2. c[i] \in Range(a) /\ c[j] \in Range(b)
      BY <1>2, <3>1 DEF Range
    <3> QED
      BY <1>4, <3>2 DEF Follows
  <2> QED
    BY <2>1, <2>2, <2>3
<1> QED
  BY <1>1, <1>3, <1>4 DEF Line

LEMMA LineShort ==
  ASSUME NEW R
  PROVE  /\ Line(<<>>, R) /\ \A q : Follows(<<>>, q, R) /\ Follows(q, <<>>, R)
         /\ \A e : Line(<<e>>, R)
<1>1. Line(<<>>, R)
  BY DEF Line
<1>2. \A q : Follows(<<>>, q, R) /\ Follows(q, <<>>, R)
  BY DEF Follows, Range
<1>3. ASSUME NEW e PROVE Line(<<e>>, R)
  <2>1. DOMAIN <<e>> = {1}
    OBVIOUS
  <2> QED
    BY <2>1 DEF Line
<1> QED
  BY <1>1, <1>2, <1>3

LEMMA LineTail ==
  ASSUME NEW q \in Seq(Item), q # <<>>, NEW R, Line(q, R)
  PROVE  /\ Line(Tail(q), R)
         /\ Follows(<<Head(q)>>, Tail(q), R)
<1>1. /\ Head(q) = q[1] /\ 1 \in DOMAIN q
      /\ \A i \in DOMAIN Tail(q) : i \in Int /\ i >= 1 /\ i + 1 \in DOMAIN q /\ Tail(q)[i] = q[i + 1]
  OBVIOUS
<1>2. PICK t : t = Tail(q)
  OBVIOUS
<1>3. ASSUME NEW i \in DOMAIN t, NEW j \in DOMAIN t, i < j, Unstarted(t[i]), Unstarted(t[j])
      PROVE  <<t[j].id, t[i].id>> \notin R
  <2>1. i + 1 \in DOMAIN q /\ j + 1 \in DOMAIN q /\ i + 1 < j + 1 /\ t[i] = q[i + 1] /\ t[j] = q[j + 1]
    BY <1>1, <1>2, <1>3
  <2> QED
    BY <1>3, <2>1 DEF Line
<1>4. ASSUME NEW i \in DOMAIN t, Unstarted(t[i]), Unstarted(q[1]) PROVE <<t[i].id, q[1].id>> \notin R
  <2>1. i + 1 \in DOMAIN q /\ 1 < i + 1 /\ t[i] = q[i + 1]
    BY <1>1, <1>2
  <2> QED
    BY <1>1, <1>4, <2>1 DEF Line
<1>5. Range(<<q[1]>>) = {q[1]}
  BY ShortLists
<1>6. Follows(<<q[1]>>, t, R)
  BY <1>4, <1>5 DEF Follows, Range
<1> QED
  BY <1>1, <1>2, <1>3, <1>6 DEF Line

\* Entries that have started are never in the way.
LEMMA LineStarted ==
  ASSUME NEW q, NEW R, \A e \in Range(q) : ~ Unstarted(e)
  PROVE  /\ Line(q, R)
         /\ \A p : Follows(p, q, R) /\ Follows(q, p, R)
<1>1. \A i \in DOMAIN q : q[i] \in Range(q)
  BY DEF Range
<1> QED
  BY <1>1 DEF Line, Follows

\* Sorting by priority, highest first, keeps the order of ties.
LEMMA LineSorted ==
  ASSUME NEW q \in Seq(Item), Line(q, Tied)
  PROVE  Line(StableSort(q, HighestFirst), Better)
<1> DEFINE D == DOMAIN q
           by == HighestFirst
           Upto(i) == {k \in D : \/ by[q[k].id] < by[q[i].id]
                                 \/ by[q[k].id] = by[q[i].id] /\ k <= i}
           up == [i \in D |-> Upto(i)]
           key == [i \in D |-> by[q[i].id]]
           nth(k) == CHOOSE i \in D : Cardinality(Upto(i)) = k
<1>1. \A i \in D : q[i].id \in Req /\ i \in Int
  <2>1. \A i \in D : q[i] \in Item
    OBVIOUS
  <2> QED
    BY <2>1 DEF Item, Entry
<1>2. by \in [Req -> Int] /\ Priority \in [Req -> Int] /\ \A r \in Req : by[r] = -Priority[r]
  BY RequestAssumption DEF HighestFirst
<1> HIDE DEF by
<1>3. Ordered(D, key, up) /\ \A i \in D : up[i] = Upto(i) /\ key[i] = by[q[i].id]
  BY <1>1, <1>2 DEF Ordered
<1>4. PICK p : p = StableSort(q, by)
  OBVIOUS
<1>5. p = [k \in D |-> q[nth(k)]]
  BY <1>4 DEF StableSort
<1> HIDE DEF key, up, Upto
<1>6. PICK m \in Nat : 1..m = D /\ m = Cardinality(D)
  BY <1>3, RankedByKey
<1>7. \A k \in D : \E i \in D : Cardinality(Upto(i)) = k
  <2>1. \A k \in 1..m : \E i \in D : Cardinality(up[i]) = k
    BY <1>3, <1>6, RankedByKey
  <2> QED
    BY <1>3, <1>6, <2>1
<1>8. \A k \in D : nth(k) \in D /\ Cardinality(Upto(nth(k))) = k
  BY <1>7
<1> HIDE DEF nth
<1>9. ASSUME NEW k \in D, NEW l \in D, k < l, NEW i \in D, NEW j \in D, i = nth(k), j = nth(l)
      PROVE  i # j /\ i \in up[j]
  <2>1. Cardinality(up[i]) = k /\ Cardinality(up[j]) = l /\ k \in Nat /\ l \in Nat
    BY <1>3, <1>6, <1>8, <1>9
  <2>2. i # j
    BY <1>9, <2>1
  <2>3. i \in up[j] \/ j \in up[i]
    BY <1>1, <1>2, <1>3 DEF Ordered
  <2>4. ASSUME j \in up[i] PROVE FALSE
    <3>1. up[j] \subseteq up[i]
      <4> SUFFICES ASSUME NEW x \in up[j] PROVE x \in up[i]
        OBVIOUS
      <4>1. x \in D
        BY <1>3 DEF Ordered
      <4>2. key[x] \in Int /\ key[i] \in Int /\ key[j] \in Int /\ x \in Int /\ i \in Int /\ j \in Int
        BY <1>1, <1>3, <4>1 DEF Ordered
      <4>3. key[x] < key[j] \/ (key[x] = key[j] /\ x <= j)
        BY <1>3, <4>1 DEF Ordered
      <4>4. key[j] < key[i] \/ (key[j] = key[i] /\ j <= i)
        BY <1>3, <2>4 DEF Ordered
      <4>5. key[x] < key[i] \/ (key[x] = key[i] /\ x <= i)
        BY <4>2, <4>3, <4>4
      <4> QED
        BY <1>3, <4>1, <4>5 DEF Ordered
    <3>2. up[i] \in SUBSET D /\ IsFiniteSet(D)
      BY <1>3, <1>6, FS_Interval DEF Ordered
    <3>3. IsFiniteSet(up[i])
      BY <3>2, FS_Subset
    <3>4. Cardinality(up[j]) <= Cardinality(up[i])
      BY <3>1, <3>3, FS_Subset
    <3> QED
      BY <1>9, <2>1, <3>4
  <2> QED
    BY <2>2, <2>3, <2>4
<1>10. ASSUME NEW k \in D, NEW l \in D, k < l, Unstarted(p[k]), Unstarted(p[l])
       PROVE  <<p[l].id, p[k].id>> \notin Better
  <2>1. PICK i \in D : i = nth(k) /\ p[k] = q[i]
    BY <1>5, <1>8
  <2>2. PICK j \in D : j = nth(l) /\ p[l] = q[j]
    BY <1>5, <1>8
  <2>3. i # j /\ i \in up[j]
    BY <1>9, <1>10, <2>1, <2>2
  <2>4. by[q[i].id] < by[q[j].id] \/ (by[q[i].id] = by[q[j].id] /\ i <= j)
    BY <1>3, <2>3 DEF Ordered
  <2>5. /\ by[q[i].id] = -Priority[q[i].id] /\ by[q[j].id] = -Priority[q[j].id]
        /\ Priority[q[i].id] \in Int /\ Priority[q[j].id] \in Int
    BY <1>1, <1>2
  <2>6. Priority[q[i].id] > Priority[q[j].id] \/ (Priority[q[i].id] = Priority[q[j].id] /\ i < j)
    BY <1>1, <2>3, <2>4, <2>5
  <2> SUFFICES ASSUME <<q[j].id, q[i].id>> \in Better PROVE FALSE
    BY <2>1, <2>2
  <2>7. Before(q[j].id, q[i].id)
    BY DEF Better
  <2>8. Priority[q[i].id] = Priority[q[j].id] /\ i < j /\ Arrival(q[j].id) < Arrival(q[i].id)
    BY <2>5, <2>6, <2>7 DEF Before
  <2>9. <<q[j].id, q[i].id>> \in Tied
    BY <1>1, <2>8 DEF Tied
  <2> QED
    BY <1>10, <2>1, <2>2, <2>8, <2>9 DEF Line
<1>11. DOMAIN p = D
  BY <1>5
<1> QED
  BY <1>4, <1>10, <1>11 DEF Line, by

\* The steps between two passes and inside one.
LEMMA BeginOrder ==
  ASSUME QueueInv, Strict = FALSE, NEW kv, BeginPass(kv)
  PROVE  Started' /\ Arrivals' /\ Orderly'
<1>1. PICK w : w = StableSort(waiting, HighestFirst)
  OBVIOUS
<1>2. PICK back : back = Kept(swapped, {i \in DOMAIN swapped : swapped[i].id \notin Ids(w) \cup Ids(running)})
  OBVIOUS
<1>3. waiting \in Seq(Item) /\ swapped \in Seq(Item) /\ HighestFirst \in [Req -> Int]
  BY Keys DEF QueueInv, Typed
<1>4. w \in Seq(Item) /\ Range(w) = Range(waiting)
  BY <1>1, <1>3, Sorted
<1>5. back \in Seq(Item) /\ Range(back) \subseteq Range(swapped)
  <2>1. PICK K \in SUBSET DOMAIN swapped : back = Kept(swapped, K)
    BY <1>2
  <2>2. Lists(back, swapped, K)
    BY <1>3, <2>1, KeptLists
  <2> QED
    BY <2>1, <2>2 DEF Lists, Range
<1>6. /\ waiting' = w \/ waiting' = back \o w
      /\ swapped' = swapped \/ swapped' = <<>>
      /\ running' = running /\ paused' = paused /\ arrived' = arrived
      /\ pass.phase = "idle" /\ pass'.phase = "admit" /\ pass'.admitted = <<>>
  <2>1. Strict = FALSE => \/ waiting' = w
                          \/ waiting' = back \o w
    BY <1>1, <1>2 DEF BeginPass
  <2>2. /\ swapped' = swapped \/ swapped' = <<>>
        /\ paused' = paused /\ arrived' = arrived /\ pass.phase = "idle"
        /\ pass'.phase = "admit" /\ pass'.admitted = <<>>
    BY DEF BeginPass, history, Done
  <2>3. Strict = FALSE => running' = running
    BY DEF BeginPass
  <2> QED
    BY <2>1, <2>2, <2>3
<1>7. Line(w, Better)
  BY <1>1, <1>3, <1>6, LineSorted DEF QueueInv, Orderly
<1>8. \A e \in Range(back) : ~ Unstarted(e)
  BY <1>5 DEF QueueInv, Started
<1>9. /\ Line(back, Better) /\ Follows(back, w, Better)
  BY <1>8, LineStarted
<1>10. Line(waiting', Better)
  BY <1>4, <1>5, <1>6, <1>7, <1>9, LineConcat
<1>11. Range(waiting') \subseteq Range(back) \cup Range(waiting)
  BY <1>4, <1>5, <1>6, ConcatLists
<1>12. Range(<<>>) = {}
  BY ShortLists
<1>13. Better' = Better
  BY <1>6 DEF Better, Before, Arrival
<1>14. Started'
  BY <1>6, <1>12 DEF QueueInv, Started, Unstarted
<1>15. Arrivals'
  BY <1>6, <1>8, <1>11, <1>12 DEF QueueInv, Arrivals, Unstarted
<1>16. Orderly'
  BY <1>6, <1>10, <1>13, LineShort DEF Orderly, Line, Follows, Unstarted
<1> QED
  BY <1>14, <1>15, <1>16

LEMMA AdmitOrder ==
  ASSUME QueueInv, AdmitWaiting, ~ Defers
  PROVE  Started' /\ Arrivals' /\ Orderly'
<1>1. Typed
  BY DEF QueueInv
<1>2. /\ pass.phase = "admit" /\ pass'.phase = "preempt" /\ waiting' = <<>>
      /\ UNCHANGED <<running, swapped, paused, history>>
      /\ Range(waiting) = Range(waiting') \cup Range(pass'.admitted)
  BY <1>1, AdmitDoes DEF Defers
<1>3. pass'.admitted = waiting
  <2>1. PICK n : /\ waiting' = IF n = Len(waiting) THEN <<>>
                               ELSE Append(SubSeq(waiting, n + 2, Len(waiting)), waiting[n + 1])
                 /\ pass' = [pass EXCEPT !.phase = "preempt", !.admitted = SubSeq(waiting, 1, n)]
    BY DEF AdmitWaiting
  <2>2. \A s, e : Append(s, e) # <<>>
    <3> SUFFICES ASSUME NEW s, NEW e, Append(s, e) = <<>> PROVE FALSE
      OBVIOUS
    <3> QED
      OBVIOUS
  <2>3. n = Len(waiting)
    BY <1>2, <2>1, <2>2
  <2>4. SubSeq(waiting, 1, n) = waiting
    BY <1>1, <2>3 DEF Typed
  <2> QED
    BY <1>1, <2>1, <2>4 DEF Typed, IsPass
<1>4. Better' = Better
  BY <1>2 DEF Better, Before, Arrival, history
<1>5. Line(waiting, Better)
  BY <1>2 DEF QueueInv, Orderly
<1>6. Range(<<>>) = {}
  BY ShortLists
<1>7. Started'
  BY <1>2 DEF QueueInv, Started, Unstarted
<1>8. Arrivals'
  BY <1>2, <1>3, <1>6 DEF QueueInv, Arrivals, Unstarted, history
<1>9. Orderly'
  BY <1>2, <1>3, <1>4, <1>5, LineShort DEF Orderly, Line, Follows, Unstarted
<1> QED
  BY <1>7, <1>8, <1>9

LEMMA PreemptOrder ==
  ASSUME QueueInv, Preempt
  PROVE  Started' /\ Arrivals' /\ Orderly'
<1>1. Typed
  BY DEF QueueInv
<1>2. /\ pass.phase = "preempt" /\ pass'.phase = "fill" /\ pass'.admitted = pass.admitted
      /\ UNCHANGED <<waiting, paused, history, out>>
      /\ Range(running') \subseteq Range(running)
      /\ Range(swapped') \subseteq Range(swapped) \cup Range(running)
  BY <1>1, PreemptDoes
<1>3. Better' = Better /\ waiting = <<>> /\ Range(<<>>) = {}
  BY <1>2, ShortLists DEF Better, Before, Arrival, history, QueueInv, Orderly
<1>4. Started'
  BY <1>2 DEF QueueInv, Started, Unstarted
<1>5. Arrivals'
  BY <1>2 DEF QueueInv, Arrivals, Unstarted, history
<1>6. Orderly'
  BY <1>2, <1>3 DEF QueueInv, Orderly, Line, Follows, Unstarted
<1> QED
  BY <1>4, <1>5, <1>6

LEMMA PassOverOrder ==
  ASSUME QueueInv, FillNoSlot \/ FillReenter \/ FillOverBudget
  PROVE  Started' /\ Arrivals' /\ Orderly'
<1>1. Typed /\ waiting \in Seq(Item) /\ running \in Seq(Item) /\ pass.admitted \in Seq(Item)
  BY DEF QueueInv, Typed
<1>2. /\ Filling /\ pass'.phase = "fill" /\ UNCHANGED <<swapped, paused, history, out>>
      /\ FillReenter => /\ Remaining(Next1) = 0 /\ running' = PutRunning(Next1)
                        /\ waiting' = waiting /\ pass'.admitted = Tail(pass.admitted)
      /\ ~ FillReenter => waiting' = Append(waiting, Next1) /\ running' = running
      /\ FillNoSlot => pass'.admitted = Tail(pass.admitted)
      /\ FillOverBudget => pass'.admitted = <<>>
  BY <1>1, PassOverDoes
<1>3. /\ pass.phase = "fill" /\ pass.admitted # <<>> /\ Next1 \in Item /\ Next1 = Head(pass.admitted)
      /\ Tail(pass.admitted) \in Seq(Item)
      /\ Range(pass.admitted) = Range(Tail(pass.admitted)) \cup {Next1}
  BY <1>1, <1>2, FillingDoes DEF Filling, Next1
<1>4. PICK e \in Item, t \in Seq(Item) : e = Next1 /\ t = Tail(pass.admitted)
  BY <1>3
<1>5. /\ Line(waiting, Better) /\ Line(pass.admitted, Better) /\ Follows(waiting, pass.admitted, Better)
  BY <1>3 DEF QueueInv, Orderly
<1>6. Line(t, Better) /\ Follows(<<e>>, t, Better)
  BY <1>1, <1>3, <1>4, <1>5, LineTail
<1>7. Follows(waiting, t, Better)
  BY <1>3, <1>4, <1>5 DEF Follows
<1>8. Range(<<e>>) = {e} /\ Range(<<>>) = {} /\ <<e>> \in Seq(Item)
  BY ShortLists
<1>9. waiting \o <<e>> = Append(waiting, e)
  BY <1>1
<1>10. Line(Append(waiting, e), Better)
  <2>1. Follows(waiting, <<e>>, Better)
    BY <1>3, <1>4, <1>5, <1>8 DEF Follows
  <2>2. Line(waiting \o <<e>>, Better)
    BY <1>1, <1>5, <1>8, <2>1, LineConcat, LineShort
  <2> QED
    BY <1>9, <2>2
<1>11. Range(Append(waiting, e)) = Range(waiting) \cup {e}
  BY <1>1, AppendLists
<1>12. Better' = Better
  BY <1>2 DEF Better, Before, Arrival, history
<1>13. Started'
  <2>1. FillReenter => ~ Unstarted(e)
    BY <1>2, <1>4, ItemFacts DEF Unstarted
  <2>2. Range(running') \subseteq Range(running) \cup (IF FillReenter THEN {e} ELSE {})
    BY <1>1, <1>2, <1>4, PutLists
  <2> QED
    BY <1>2, <2>1, <2>2 DEF QueueInv, Started, Unstarted
<1>14. Arrivals'
  <2>1. /\ Range(waiting') \subseteq Range(waiting) \cup {e} /\ Range(pass'.admitted) \subseteq Range(pass.admitted)
        /\ e \in Range(pass.admitted)
    BY <1>2, <1>3, <1>4, <1>8, <1>11
  <2> QED
    BY <1>2, <2>1 DEF QueueInv, Arrivals, Unstarted, history
<1>15. CASE FillReenter
  <2>1. ~ SeqsFull
    BY <1>15 DEF FillReenter
  <2>2. \A x \in Range(waiting) : ~ Unstarted(x)
    BY <1>3, <2>1 DEF QueueInv, Orderly
  <2>3. waiting' = waiting /\ pass'.admitted = t
    BY <1>2, <1>4, <1>15
  <2>4. Orderly'
    BY <1>2, <1>5, <1>6, <1>7, <1>12, <2>2, <2>3 DEF Orderly, Line, Follows, Unstarted
  <2> QED
    BY <1>13, <1>14, <2>4
<1>16. CASE FillNoSlot
  <2>1. SeqsFull /\ waiting' = Append(waiting, Next1) /\ pass' = [pass EXCEPT !.admitted = t]
    BY <1>4, <1>16 DEF FillNoSlot
  <2>2. pass'.base = pass.base /\ pass'.admitted = t
    BY <1>1, <2>1 DEF Typed, IsPass
  <2>3. SeqsFull'
    BY <1>2, <2>1, <2>2 DEF SeqsFull
  <2>4. Follows(Append(waiting, e), t, Better)
    BY <1>6, <1>7, <1>8, <1>11 DEF Follows
  <2>5. Orderly'
    BY <1>2, <1>4, <1>6, <1>10, <1>12, <2>1, <2>2, <2>3, <2>4 DEF Orderly, Line, Follows, Unstarted
  <2> QED
    BY <1>13, <1>14, <2>5
<1>17. CASE FillOverBudget
  <2>1. waiting' = Append(waiting, e) /\ pass'.admitted = <<>>
    BY <1>2, <1>4, <1>17 DEF FillOverBudget
  <2>2. Orderly'
    BY <1>2, <1>10, <1>12, <2>1, LineShort DEF Orderly, Line, Follows, Unstarted
  <2> QED
    BY <1>13, <1>14, <2>2
<1> QED
  BY <1>15, <1>16, <1>17

LEMMA ChunkOrder ==
  ASSUME QueueInv, FillChunk, ~ Reverses
  PROVE  Started' /\ Arrivals' /\ Orderly'
<1>1. /\ Typed /\ waiting \in Seq(Item) /\ running \in Seq(Item) /\ pass.admitted \in Seq(Item)
  BY DEF QueueInv, Typed
<1>2. /\ Filling /\ Remaining(Next1) > 0 /\ pass'.phase = "fill"
      /\ UNCHANGED <<swapped, paused, arrived, finished, caught>>
      /\ running' = PutRunning(Advanced)
      /\ Range(waiting') \cup Range(pass'.admitted) =
              Range(waiting) \cup Range(Tail(pass.admitted)) \cup Range(Remainder)
  BY <1>1, FillChunkDoes
<1>3. /\ pass.phase = "fill" /\ pass.admitted # <<>> /\ Next1 \in Item
      /\ Tail(pass.admitted) \in Seq(Item)
      /\ Range(pass.admitted) = Range(Tail(pass.admitted)) \cup {Next1}
  BY <1>1, <1>2, FillingDoes DEF Filling
<1>4. /\ Advanced \in Item /\ Next1.consumed < Advanced.consumed
      /\ Remainder = <<>> \/ Remainder = <<Advanced>>
  BY <1>1, <1>2, ChunkDoes
<1>5. PICK a \in Item : a = Advanced
  BY <1>4
<1>6. ~ Unstarted(a)
  BY <1>3, <1>4, <1>5, ItemFacts DEF Unstarted
<1>7. PICK t \in Seq(Item) : t = Tail(pass.admitted)
  BY <1>3
<1>8. PICK m \in Seq(Item) : m = Remainder /\ \A e \in Range(m) : ~ Unstarted(e)
  <2>1. Range(<<>>) = {} /\ Range(<<a>>) = {a} /\ <<>> \in Seq(Item) /\ <<a>> \in Seq(Item)
    BY ShortLists
  <2> QED
    BY <1>4, <1>5, <1>6, <2>1
<1>9. Line(t, Better)
  BY <1>1, <1>3, <1>7, LineTail DEF QueueInv, Orderly
<1>10. \A e \in Range(waiting) : ~ Unstarted(e)
  BY <1>3 DEF QueueInv, Orderly, FillChunk
<1>11. Better' = Better
  BY <1>2 DEF Better, Before, Arrival
<1>12. Started'
  <2>1. Range(running') \subseteq Range(running) \cup {a}
    BY <1>1, <1>2, <1>5, PutLists
  <2> QED
    BY <1>2, <1>6, <2>1 DEF QueueInv, Started, Unstarted
<1>13. Arrivals'
  BY <1>2, <1>3, <1>7, <1>8 DEF QueueInv, Arrivals, Unstarted
<1>14. CASE ~ pass.pressure
  <2>1. waiting' = waiting \o <<>> \o m /\ pass'.admitted = t
    <3>1. /\ waiting' = waiting \o (IF pass.pressure THEN Reversed(Tail(pass.admitted)) ELSE <<>>) \o Remainder
          /\ pass' = [pass EXCEPT !.total = @ + Chunk,
                                  !.admitted = IF pass.pressure THEN <<>> ELSE Tail(@)]
      BY DEF FillChunk
    <3> QED
      BY <1>1, <1>7, <1>8, <1>14, <3>1 DEF Typed, IsPass
  <2>2. waiting \o <<>> \o m = waiting \o m
    BY <1>1
  <2>3. Range(waiting') = Range(waiting) \cup Range(m)
    BY <1>1, <2>1, <2>2, ConcatLists
  <2>4. \A e \in Range(waiting') : ~ Unstarted(e)
    BY <1>8, <1>10, <2>3
  <2>5. Line(waiting', Better) /\ Follows(waiting', t, Better)
    BY <2>4, LineStarted
  <2>6. Orderly'
    BY <1>2, <1>9, <1>11, <2>1, <2>4, <2>5 DEF Orderly, Line, Follows, Unstarted
  <2> QED
    BY <1>12, <1>13, <2>6
<1>15. CASE pass.pressure
  <2>1. waiting' = waiting \o Reversed(t) \o m /\ pass'.admitted = <<>>
    <3>1. /\ waiting' = waiting \o (IF pass.pressure THEN Reversed(Tail(pass.admitted)) ELSE <<>>) \o Remainder
          /\ pass' = [pass EXCEPT !.total = @ + Chunk,
                                  !.admitted = IF pass.pressure THEN <<>> ELSE Tail(@)]
      BY DEF FillChunk
    <3> QED
      BY <1>1, <1>7, <1>8, <1>15, <3>1 DEF Typed, IsPass
  <2>2. Len(t) <= 1
    <3>1. ~ (Len(pass.admitted) > 2) /\ Len(pass.admitted) \in Nat
      BY <1>1, <1>15 DEF Reverses
    <3>2. Len(t) = Len(pass.admitted) - 1
      BY <1>1, <1>3, <1>7
    <3> QED
      BY <3>1, <3>2
  <2>3. Reversed(t) = t
    <3>1. \A i \in DOMAIN t : Len(t) + 1 - i = i
      BY <2>2
    <3>2. Reversed(t) = [i \in DOMAIN t |-> t[i]]
      BY <3>1 DEF Reversed
    <3> QED
      BY <3>2
  <2>4. Line(waiting, Better) /\ Follows(waiting, t, Better)
    BY <1>10, LineStarted
  <2>5. waiting \o t \in Seq(Item) /\ Line(waiting \o t, Better)
    BY <1>1, <1>9, <2>4, LineConcat, ConcatLists
  <2>6. Line(m, Better) /\ Follows(waiting \o t, m, Better)
    BY <1>8, LineStarted
  <2>7. Line((waiting \o t) \o m, Better)
    BY <1>8, <2>5, <2>6, LineConcat
  <2>8. Orderly'
    BY <1>2, <1>11, <2>1, <2>3, <2>7, LineShort DEF Orderly, Line, Follows, Unstarted
  <2> QED
    BY <1>12, <1>13, <2>8
<1> QED
  BY <1>14, <1>15

LEMMA EnqueueOrder ==
  ASSUME QueueInv, NEW r \in Req, Enqueue(r)
  PROVE  Started' /\ Arrivals' /\ Orderly'
<1>1. Typed /\ waiting \in Seq(Item) /\ arrived \in Seq(Req)
  BY DEF QueueInv, Typed
<1>2. /\ pass.phase = "idle" /\ r \notin Range(arrived)
      /\ UNCHANGED <<running, swapped, paused, finished, pass, out>>
      /\ Range(arrived') = Range(arrived) \cup {r}
  BY <1>1, EnqueueDoes
<1>3. PICK e \in Item : /\ e.id = r /\ waiting' = Append(waiting, e)
                        /\ Range(waiting') = Range(waiting) \cup {e}
  BY <1>1, EnqueueDoes
<1>4. arrived' = Append(arrived, r)
  BY DEF Enqueue
<1>5. PICK n \in Nat : n = Len(arrived) /\ DOMAIN arrived = 1..n
  BY <1>1
<1>6. /\ DOMAIN arrived' = 1..(n + 1) /\ arrived'[n + 1] = r
      /\ \A i \in 1..n : arrived'[i] = arrived[i] /\ arrived[i] # r
  BY <1>1, <1>2, <1>4, <1>5 DEF Range
<1>7. \A i, j \in 1..(n + 1) : arrived'[i] = arrived'[j] => i = j
  <2> SUFFICES ASSUME NEW i \in 1..(n + 1), NEW j \in 1..(n + 1), arrived'[i] = arrived'[j] PROVE i = j
    OBVIOUS
  <2>1. (i \in 1..n \/ i = n + 1) /\ (j \in 1..n \/ j = n + 1)
    OBVIOUS
  <2> QED
    BY <1>5, <1>6, <2>1 DEF QueueInv, Arrivals
<1>8. ASSUME NEW x \in Range(arrived) PROVE Arrival(x)' = Arrival(x) /\ Arrival(x) \in 1..n
  <2>1. PICK k \in 1..n : arrived[k] = x
    BY <1>5 DEF Range
  <2>2. \A i \in DOMAIN arrived : arrived[i] = x <=> i = k
    BY <1>5, <2>1 DEF QueueInv, Arrivals
  <2>3. Arrival(x) = k
    BY <1>5, <2>1, <2>2 DEF Arrival
  <2>4. k \in 1..(n + 1) /\ arrived'[k] = x
    BY <1>6, <2>1
  <2>5. \A i \in DOMAIN arrived' : arrived'[i] = x <=> i = k
    BY <1>6, <1>7, <2>4
  <2>6. Arrival(x)' = k
    BY <1>6, <2>4, <2>5 DEF Arrival
  <2> QED
    BY <2>3, <2>6
<1>9. Arrival(r)' = n + 1
  <2>1. \A i \in DOMAIN arrived' : arrived'[i] = r <=> i = n + 1
    BY <1>6
  <2> QED
    BY <1>6, <2>1 DEF Arrival
<1>10. Line(waiting', Tied')
  <2>1. PICK m \in Nat : m = Len(waiting) /\ DOMAIN waiting = 1..m
    BY <1>1
  <2>2. /\ DOMAIN waiting' = 1..(m + 1) /\ waiting'[m + 1] = e
        /\ \A i \in 1..m : waiting'[i] = waiting[i] /\ waiting[i] \in Item
    BY <1>1, <1>3, <2>1
  <2>3. ASSUME NEW i \in 1..m, Unstarted(waiting[i]), NEW x, x = waiting[i].id
        PROVE  x \in Req /\ Arrival(x)' = Arrival(x) /\ Arrival(x) \in 1..n
    <3>1. waiting[i] \in Range(waiting)
      BY <2>1 DEF Range
    <3>2. x \in Range(arrived)
      BY <2>3, <3>1 DEF QueueInv, Arrivals
    <3> QED
      BY <1>8, <2>2, <2>3, <3>2, ItemFacts
  <2>4. ASSUME NEW i \in 1..m, NEW j \in 1..m, i < j, Unstarted(waiting[i]), Unstarted(waiting[j])
        PROVE  <<waiting[j].id, waiting[i].id>> \notin Tied'
    <3>1. <<waiting[j].id, waiting[i].id>> \notin Tied
      BY <1>2, <2>1, <2>4 DEF QueueInv, Orderly, Line
    <3>2. PICK x \in Req, y \in Req : /\ x = waiting[j].id /\ y = waiting[i].id
                                      /\ Arrival(x)' = Arrival(x) /\ Arrival(y)' = Arrival(y)
      BY <2>3, <2>4
    <3> QED
      BY <3>1, <3>2 DEF Tied
  <2>5. ASSUME NEW i \in 1..m, Unstarted(waiting[i]) PROVE <<r, waiting[i].id>> \notin Tied'
    <3>1. PICK x \in Req : x = waiting[i].id /\ Arrival(x)' \in 1..n
      BY <2>3, <2>5
    <3>2. ~ (Arrival(r)' < Arrival(x)')
      BY <1>9, <3>1
    <3> QED
      BY <3>1, <3>2 DEF Tied
  <2>6. ASSUME NEW i \in 1..(m + 1), NEW j \in 1..(m + 1), i < j, Unstarted(waiting'[i]), Unstarted(waiting'[j])
        PROVE  <<waiting'[j].id, waiting'[i].id>> \notin Tied'
    <3>1. i \in 1..m /\ (j \in 1..m \/ j = m + 1)
      BY <2>6
    <3>2. waiting'[i] = waiting[i]
      BY <2>2, <3>1
    <3>3. CASE j \in 1..m
      BY <2>2, <2>4, <2>6, <3>1, <3>2, <3>3
    <3>4. CASE j = m + 1
      BY <1>3, <2>2, <2>5, <2>6, <3>1, <3>2, <3>4
    <3> QED
      BY <3>1, <3>3, <3>4
  <2> QED
    BY <2>2, <2>6 DEF Line
<1>11. Started'
  BY <1>2 DEF QueueInv, Started, Unstarted
<1>12. Arrivals'
  <2>1. \A x \in Range(waiting') \cup Range(pass'.admitted) : Unstarted(x) => x.id \in Range(arrived')
    BY <1>2, <1>3 DEF QueueInv, Arrivals
  <2> QED
    BY <1>6, <1>7, <2>1 DEF Arrivals, Unstarted
<1>13. Orderly'
  BY <1>2, <1>10 DEF Orderly, Line, Unstarted
<1> QED
  BY <1>11, <1>12, <1>13

LEMMA OrderStep ==
  ASSUME QueueInv, Strict = FALSE, [Next]_vars, [~ Defers /\ ~ Reverses]_vars
  PROVE  QueueInv'
<1> DEFINE Good == Started /\ Arrivals /\ Orderly
<1>1. Typed /\ Typed'
  BY TypedStep DEF QueueInv
<1> SUFFICES Good'
  BY <1>1 DEF QueueInv
<1>2. CASE UNCHANGED vars
  <2>1. Better' = Better /\ Tied' = Tied
    BY <1>2 DEF vars, history, Better, Before, Arrival, Tied
  <2> QED
    BY <1>2, <2>1 DEF vars, queues, history, QueueInv, Started, Arrivals, Orderly, Line, Follows, Unstarted, SeqsFull
<1> SUFFICES ASSUME Next, ~ Defers, ~ Reverses PROVE Good'
  BY <1>2
<1>3. ASSUME NEW kv, BeginPass(kv) PROVE Good'
  BY <1>3, BeginOrder
<1>4. ASSUME AdmitWaiting PROVE Good'
  BY <1>4, AdmitOrder
<1>5. ASSUME Preempt PROVE Good'
  BY <1>5, PreemptOrder
<1>6. ASSUME FillNoSlot \/ FillReenter \/ FillOverBudget PROVE Good'
  BY <1>6, PassOverOrder
<1>7. ASSUME FillChunk PROVE Good'
  BY <1>7, ChunkOrder
<1>8. ASSUME NEW r \in Req, Enqueue(r) PROVE Good'
  BY <1>8, EnqueueOrder
<1>9. ASSUME EndPass PROVE Good'
  <2>1. /\ pass.phase = "fill" /\ pass.admitted = <<>> /\ pass' = Done /\ UNCHANGED <<queues, history>>
    BY <1>1, <1>9, EndPassDoes
  <2>2. pass'.phase = "idle" /\ pass'.admitted = <<>>
    BY <2>1 DEF Done
  <2>3. Line(waiting, Better)
    BY <2>1 DEF QueueInv, Orderly
  <2>4. Tied \subseteq Better
    BY DEF Tied, Better, Before
  <2>5. Tied' = Tied
    BY <2>1 DEF history, Tied, Arrival
  <2>6. Line(waiting, Tied)
    BY <2>3, <2>4 DEF Line
  <2>7. Orderly'
    BY <2>1, <2>2, <2>5, <2>6 DEF queues, Orderly, Line, Unstarted
  <2>8. Started' /\ Arrivals'
    BY <2>1, <2>2 DEF queues, history, QueueInv, Started, Arrivals, Unstarted
  <2> QED
    BY <2>7, <2>8
<1>10. ASSUME pass.phase = "idle", UNCHANGED <<waiting, arrived, pass, out>>,
              Range(running') \cup Range(swapped') \cup Range(paused') \subseteq
                Range(running) \cup Range(swapped) \cup Range(paused)
       PROVE  Good'
  <2>1. Tied' = Tied
    BY <1>10 DEF Tied, Arrival
  <2>2. Orderly'
    BY <1>10, <2>1 DEF QueueInv, Orderly, Line, Unstarted
  <2>3. Started' /\ Arrivals'
    BY <1>10 DEF QueueInv, Started, Arrivals, Unstarted
  <2> QED
    BY <2>2, <2>3
<1>11. ASSUME NEW r, Finish(r) PROVE Good'
  <2>1. /\ pass.phase = "idle" /\ UNCHANGED <<waiting, arrived, pass, out>>
        /\ Range(running') \subseteq Range(running) /\ Range(swapped') \subseteq Range(swapped)
        /\ Range(paused') \subseteq Range(paused)
    BY <1>1, <1>11, FinishDoes
  <2> HIDE DEF Good
  <2> QED
    BY <1>10, <2>1
<1>12. ASSUME NEW r, Pause(r) \/ Resume(r) PROVE Good'
  <2>0. running \in Seq(Item) /\ paused \in Seq(Item)
    BY <1>1 DEF Typed
  <2>1. Moved(r, running, paused, running', paused') \/ Moved(r, paused, running, paused', running')
    BY <1>12 DEF Pause, Resume, Moved
  <2>2. ASSUME Moved(r, running, paused, running', paused')
        PROVE  Range(running') \cup Range(paused') \subseteq Range(running) \cup Range(paused)
    BY <2>0, <2>2, MoveDoes
  <2>3. ASSUME Moved(r, paused, running, paused', running')
        PROVE  Range(running') \cup Range(paused') \subseteq Range(running) \cup Range(paused)
    BY <2>0, <2>3, MoveDoes
  <2>4. UNCHANGED <<waiting, swapped, arrived, pass, out>> /\ pass.phase = "idle"
    BY <1>12 DEF Pause, Resume, history
  <2> HIDE DEF Good
  <2> QED
    BY <1>10, <2>1, <2>2, <2>3, <2>4
<1> HIDE DEF Good
<1> QED
  BY <1>3, <1>4, <1>5, <1>6, <1>7, <1>8, <1>9, <1>11, <1>12 DEF Next, Schedule

\* "Higher priority first, arrival order breaking ties": for any requests, limits
\* and pressure readings, with chunking, preemption, swapping, pauses and
\* cancellations, a prefill starts only when no better placed request is still
\* waiting to start, unless some pass deferred a request to the back or, under
\* pressure, gave several admitted requests back last first.
THEOREM BestStartsFirst ==
  ASSUME Strict = FALSE
  PROVE  Spec /\ [][~ Defers /\ ~ Reverses]_vars => AdmissionOrder
<1>1. Init => QueueInv
  <2> SUFFICES ASSUME Init PROVE Started /\ Arrivals /\ Orderly
    BY TypedInit DEF QueueInv
  <2>1. Range(<<>>) = {}
    BY ShortLists
  <2>2. pass.phase = "idle" /\ pass.admitted = <<>>
    BY DEF Init, Done
  <2> QED
    BY <2>1, <2>2, LineShort DEF Init, Started, Arrivals, Orderly
<1>2. QueueInv /\ [Next]_vars /\ [~ Defers /\ ~ Reverses]_vars => QueueInv'
  BY OrderStep
<1>3. QueueInv => [FillChunk /\ Next1.consumed = 0 =>
                     \A e \in Range(waiting \o pass.admitted) : e.consumed = 0 => ~Before(e.id, Next1.id)]_vars
  <2> SUFFICES ASSUME QueueInv, FillChunk, Next1.consumed = 0,
                      NEW e \in Range(waiting \o pass.admitted), e.consumed = 0, Before(e.id, Next1.id)
               PROVE  FALSE
    OBVIOUS
  <2>1. Typed /\ waiting \in Seq(Item) /\ pass.admitted \in Seq(Item)
    BY DEF QueueInv, Typed
  <2>2. Filling
    BY <2>1, FillChunkDoes
  <2>3. /\ pass.phase = "fill" /\ pass.admitted # <<>> /\ Next1 = Head(pass.admitted) /\ Next1 \in Item
        /\ Range(pass.admitted) = Range(Tail(pass.admitted)) \cup {Next1}
    BY <2>1, <2>2, FillingDoes DEF Filling, Next1
  <2>4. \A x \in Range(waiting) : ~ Unstarted(x)
    BY <2>3 DEF QueueInv, Orderly, FillChunk
  <2>5. e \in Range(pass.admitted)
    BY <2>1, <2>4, ConcatLists DEF Unstarted
  <2>6. Follows(<<Next1>>, Tail(pass.admitted), Better)
    BY <2>1, <2>3, LineTail DEF QueueInv, Orderly
  <2>7. e \in Item
    BY <2>1, <2>5 DEF Range
  <2>8. e.id \in Req /\ Next1.id \in Req
    BY <2>3, <2>7, ItemFacts
  <2>9. <<e.id, Next1.id>> \in Better
    BY <2>8 DEF Better
  <2>10. Range(<<Next1>>) = {Next1}
    BY <2>3, ShortLists
  <2>11. e = Next1
    BY <2>3, <2>5, <2>6, <2>9, <2>10 DEF Follows, Unstarted
  <2>12. Priority[e.id] \in Int
    BY <2>8, RequestAssumption
  <2>13. Arrival(e.id) < Arrival(e.id)
    BY <2>11, <2>12 DEF Before
  <2>14. e.id \in Range(arrived)
    BY <2>5 DEF QueueInv, Arrivals, Unstarted
  <2>15. Arrival(e.id) \in Nat
    <3>1. \E i \in DOMAIN arrived : arrived[i] = e.id
      BY <2>14 DEF Range
    <3>2. \A i \in DOMAIN arrived : i \in Nat
      BY <2>1 DEF Typed
    <3> QED
      BY <3>1, <3>2 DEF Arrival
  <2> QED
    BY <2>13, <2>15
<1> QED
  BY <1>1, <1>2, <1>3, PTL DEF Spec, AdmissionOrder
=============================================================================
