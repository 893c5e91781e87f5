----------------------------- MODULE AllocProofs -----------------------------
(***************************************************************************)
(* Proofs about DeviceAllocator, for any number of threads, memory and     *)
(* sizes, in both modes, and whatever the calls interleave: without the    *)
(* pool no device memory is lost; and as long as nothing that counts was   *)
(* unmapped (`torn`), no two blocks overlap, empty_cache leaves the blocks *)
(* of its copy mapped, and cached_bytes is at most what the pool holds.    *)
(***************************************************************************)
EXTENDS DeviceAllocator, FiniteSetTheorems, FunctionTheorems, WellFoundedInduction, TLAPS

Grips   == {"popped", "free", "push"}
Emptied == {"empty", "clear", "slabs", "pool"}

\* Sizes that are asked of the driver.
Direct == IF pooling THEN Size ELSE Size \ Small

\* The calls of the mode.
Calls ==
  {Idle} \cup [at : IF pooling THEN Grips ELSE {"free"}, block : Block]
    \cup [at : {"bump"}, size : Size \ Direct] \cup [at : {"malloc", "retry"}, size : Direct]
    \cup [at : Emptied, size : {0} \cup Direct]

Types ==
  /\ pooling \in BOOLEAN /\ torn \in BOOLEAN
  /\ mapped \subseteq [ptr : Address, size : Size \cup {SlabSize}]
  /\ slabs \in Seq([base : Address, bump : 1..SlabSize])
  /\ \A i \in DOMAIN slabs : slabs[i].base + SlabSize <= Memory
  /\ slabFree \subseteq Block /\ pool \subseteq Block /\ owned \subseteq Block /\ live \subseteq Block
  /\ IF pooling THEN slabFree = {} ELSE pool = {}
  /\ cached \in Nat
  /\ call \in [Thread -> Calls]
  /\ snapshot \in [Thread -> SUBSET Address]

Ranges == \A r, q \in mapped : r # q => Disjoint(r, q)

\* Without the pool, a range that is no slab belongs to a large block that is
\* held or being freed.
Accounted ==
  ~pooling =>
    \A r \in mapped : \/ \E i \in DOMAIN slabs : slabs[i].base = r.ptr
                      \/ \E b \in owned \cup InHands : b.size \notin Small /\ b.ptr = r.ptr

\* Blocks that are held, waiting to be reused, or in the hands of a call.
Stored == owned \cup slabFree \cup pool
Around == Stored \cup InHands

Apart ==
  /\ owned \cap slabFree = {} /\ owned \cap pool = {} /\ slabFree \cap pool = {}
  /\ \A b, c \in Stored : b # c => Disjoint(b, c)
  /\ \A t \in Thread : Holding(t) => \A c \in Stored : Disjoint(call[t].block, c)
  /\ \A t, u \in Thread : Holding(t) /\ Holding(u) /\ t # u => Disjoint(call[t].block, call[u].block)

\* A block does not reach into the part of a slab that is still to be handed out.
Clear(b, s) == b.ptr + b.size <= s.base + s.bump \/ s.base + SlabSize <= b.ptr
Unused == \A i \in DOMAIN slabs : \A b \in Around : Clear(b, slabs[i])
Bases  == \A i, j \in DOMAIN slabs : i # j => slabs[i].base # slabs[j].base

\* With the pool, a block is at the start of a range.
Heads == pooling => \A b \in Around : \E r \in mapped : r.ptr = b.ptr

\* The addresses of the blocks held are recorded.
Known == \A b \in owned : \E c \in live : c.ptr = b.ptr

\* What holds as long as nothing that counts was unmapped.
Sound == Backed /\ Apart /\ Unused /\ Bases /\ Heads /\ Known

AllocInv == Types /\ Ranges /\ Accounted /\ (~torn => Sound)

-----------------------------------------------------------------------------
(* Sizes, ranges and calls.                                                *)

LEMMA Sizes ==
  /\ Memory \in Nat /\ SlabSize \in Nat /\ SlabSize > 0
  /\ \A a \in Address : a \in Nat /\ a < Memory
  /\ \A n \in Size : n \in Nat /\ n > 0
  /\ \A n \in Small : n \in Size /\ n \in 1..SlabSize
  /\ Direct \subseteq Size /\ Size \ Direct \subseteq Small
BY AllocAssumption DEF Size, Address, Direct

LEMMA BlockFacts ==
  ASSUME NEW b \in Block
  PROVE  b.ptr \in Nat /\ b.ptr \in Address /\ b.size \in Nat /\ b.size > 0 /\ b.size \in Size
BY Sizes DEF Block

LEMMA RangeFacts ==
  ASSUME Types, NEW r \in mapped
  PROVE  r.ptr \in Nat /\ r.ptr \in Address /\ r.size \in Nat /\ r.size > 0
BY Sizes DEF Types

LEMMA SlabFacts ==
  ASSUME Types, NEW i \in DOMAIN slabs
  PROVE  /\ slabs[i].base \in Nat /\ slabs[i].base \in Address
         /\ slabs[i].bump \in Nat /\ slabs[i].bump > 0 /\ slabs[i].bump <= SlabSize
         /\ slabs[i] \in [base : Address, bump : 1..SlabSize]
         /\ slabs[i].base + SlabSize <= Memory
<1> DEFINE S == [base : Address, bump : 1..SlabSize]
<1>2. slabs \in Seq(S)
  BY DEF Types
<1> HIDE DEF S
<1>3. slabs[i] \in S
  BY <1>2
<1>1. slabs[i] \in [base : Address, bump : 1..SlabSize]
  BY <1>3 DEF S
<1>4. slabs[i].base + SlabSize <= Memory
  BY DEF Types
<1> QED
  BY <1>1, <1>4, Sizes

LEMMA DisjointSym == \A b, c : Disjoint(b, c) <=> Disjoint(c, b)
BY DEF Disjoint

\* Disjoint blocks differ, in their addresses too.
LEMMA DisjointPtr ==
  ASSUME NEW b, NEW c, b.ptr \in Nat, b.size \in Nat, b.size > 0,
         c.ptr \in Nat, c.size \in Nat, c.size > 0, Disjoint(b, c)
  PROVE  b.ptr # c.ptr /\ b # c
BY DEF Disjoint

\* Blocks inside disjoint ranges are disjoint.
LEMMA DisjointWithin ==
  ASSUME NEW b, NEW c, NEW r, NEW q, b.ptr \in Nat, b.size \in Nat, c.ptr \in Nat, c.size \in Nat,
         r.ptr \in Nat, r.size \in Nat, q.ptr \in Nat, q.size \in Nat,
         Within(b, r.ptr, r.size), Within(c, q.ptr, q.size), Disjoint(r, q)
  PROVE  Disjoint(b, c)
BY DEF Disjoint, Within

\* An address is in one range.
LEMMA OneRange ==
  ASSUME Types, Ranges, NEW r \in mapped, NEW q \in mapped, NEW a \in Nat,
         r.ptr <= a, a < r.ptr + r.size, q.ptr <= a, a < q.ptr + q.size
  PROVE  r = q
<1>1. ~ Disjoint(r, q)
  BY RangeFacts DEF Disjoint
<1> QED
  BY <1>1 DEF Ranges

\* What the calls are, by the place they are at.
LEMMA CallFacts ==
  ASSUME Types, NEW t \in Thread
  PROVE  /\ call[t] \in Calls
         /\ call[t].at = "idle" => call[t] = Idle
         /\ Holding(t) => call[t].block \in Block
         /\ Holding(t) /\ ~pooling => call[t].at = "free"
         /\ call[t].at = "bump" => call[t].size \in Small /\ call[t].size \in Size /\ ~pooling
         /\ call[t].at \in {"malloc", "retry"} => call[t].size \in Direct
         /\ call[t].at \in Emptied => /\ call[t].size \in {0} \cup Direct
                                      /\ call[t] \in [at : Emptied, size : {0} \cup Direct]
<1>1. call[t] \in Calls
  BY DEF Types
<1> QED
  BY <1>1, Sizes DEF Calls, Holding, Grips, Emptied, Idle, Direct

LEMMA CallTypes ==
  /\ Idle \in Calls /\ Idle.at = "idle"
  /\ \A b \in Block : At("free", b) \in Calls /\ At("free", b).at = "free" /\ At("free", b).block = b
  /\ \A a \in Grips, b \in Block : pooling => At(a, b) \in Calls /\ At(a, b).at = a /\ At(a, b).block = b
  /\ \A n \in Size \ Direct : Want("bump", n) \in Calls /\ Want("bump", n).at = "bump"
  /\ \A a \in {"malloc", "retry"}, n \in Direct : Want(a, n) \in Calls /\ Want(a, n).at = a
  /\ \A a \in Emptied, n \in {0} \cup Direct : Want(a, n) \in Calls /\ Want(a, n).at = a
<1>1. \A a \in Grips, b \in Block : At(a, b).at = a /\ At(a, b).block = b
  BY DEF At
<1>2. \A a, n : Want(a, n).at = a /\ Want(a, n).size = n
  BY DEF Want
<1>3. Idle \in Calls /\ Idle.at = "idle"
  BY DEF Calls, Idle
<1>4. \A b \in Block : At("free", b) \in Calls
  BY DEF Calls, At, Grips
<1>5. \A a \in Grips, b \in Block : pooling => At(a, b) \in Calls
  BY DEF Calls, At
<1>6. \A n \in Size \ Direct : Want("bump", n) \in Calls
  BY DEF Calls, Want
<1>7. \A a \in {"malloc", "retry"}, n \in Direct : Want(a, n) \in Calls
  BY DEF Calls, Want
<1>8. \A a \in Emptied, n \in {0} \cup Direct : Want(a, n) \in Calls
  BY DEF Calls, Want
<1> QED
  BY <1>1, <1>2, <1>3, <1>4, <1>5, <1>6, <1>7, <1>8 DEF Grips

\* A call goes on to the next place; the other threads stay where they are.
StepTo(t, c) == /\ c \in Calls /\ call' \in [Thread -> Calls] /\ call'[t] = c
                /\ \A u \in Thread : u # t => call'[u] = call[u]

LEMMA CallStep ==
  ASSUME Types, NEW t \in Thread, NEW c \in Calls, Goto(t, c)
  PROVE  StepTo(t, c)
BY DEF Types, Goto, StepTo

\* The next place of a thread that empties the cache.
LEMMA NextPlace ==
  ASSUME Types, NEW t \in Thread, call[t].at \in Emptied, NEW a \in Emptied
  PROVE  [call[t] EXCEPT !.at = a] \in Calls /\ [call[t] EXCEPT !.at = a].at = a
<1>1. call[t] \in [at : Emptied, size : {0} \cup Direct]
  BY CallFacts
<1>2. [call[t] EXCEPT !.at = a] \in [at : Emptied, size : {0} \cup Direct]
  BY <1>1
<1>3. [call[t] EXCEPT !.at = a].at = a
  BY <1>1
<1> QED
  BY <1>2, <1>3 DEF Calls

\* The block a call has in its hands.
InHand(c) == IF c.at \in Grips THEN {c.block} ELSE {}

LEMMA NoGrip ==
  /\ Idle.at \notin Grips /\ InHand(Idle) = {}
  /\ \A t \in Thread : Holding(t) <=> call[t].at \in Grips
  /\ \A t \in Thread : Holding(t) => InHand(call[t]) = {call[t].block}
  /\ \A t \in Thread : ~ Holding(t) => InHand(call[t]) = {}
  /\ Emptied \cap Grips = {}
BY DEF Idle, Holding, Grips, InHand, Emptied

\* What calls have in their hands, before and after a step.
LEMMA HandsStep ==
  ASSUME NEW t \in Thread, NEW c, StepTo(t, c)
  PROVE  /\ InHand(c) \subseteq InHands' /\ InHand(call[t]) \subseteq InHands
         /\ InHands' \subseteq InHands \cup InHand(c)
         /\ InHands \subseteq InHands' \cup InHand(call[t])
<1>1. \A u \in Thread : u # t => call'[u] = call[u]
  BY DEF StepTo
<1>2. call'[t] = c
  BY DEF StepTo
<1>3. \A b : b \in InHands <=> \E u \in Thread : call[u].at \in Grips /\ b = call[u].block
  BY DEF InHands, Holding, Grips
<1>4. \A b : b \in InHands' <=> \E u \in Thread : call'[u].at \in Grips /\ b = call'[u].block
  BY DEF InHands, Holding, Grips
<1>5. \A b : b \in InHand(c) <=> c.at \in Grips /\ b = c.block
  BY DEF InHand
<1>6. \A b : b \in InHand(call[t]) <=> call[t].at \in Grips /\ b = call[t].block
  BY DEF InHand
<1> HIDE DEF InHand
<1>7. \A b \in InHands' : b \in InHands \cup InHand(c)
  BY <1>1, <1>2, <1>3, <1>4, <1>5
<1>8. \A b \in InHands : b \in InHands' \cup InHand(call[t])
  BY <1>1, <1>2, <1>3, <1>4, <1>6
<1>9. \A b \in InHand(c) : b \in InHands'
  BY <1>2, <1>4, <1>5
<1>10. \A b \in InHand(call[t]) : b \in InHands
  BY <1>3, <1>6
<1> QED
  BY <1>7, <1>8, <1>9, <1>10

LEMMA AroundFacts ==
  ASSUME Types
  PROVE  Around \subseteq Block /\ Stored \subseteq Block /\ InHands \subseteq Block
<1>1. InHands \subseteq Block
  BY CallFacts DEF InHands
<1> QED
  BY <1>1 DEF Around, Stored, Types

\* The block a call has in its hands is stored nowhere.
LEMMA HeldApart ==
  ASSUME Types, Apart, NEW t \in Thread, Holding(t)
  PROVE  call[t].block \notin Stored /\ call[t].block \in Block
<1>1. call[t].block \in Block
  BY CallFacts
<1> QED
  BY <1>1, BlockFacts, DisjointPtr DEF Apart

-----------------------------------------------------------------------------
(* The slabs empty_cache keeps.                                            *)

\* The positions of a subset, in order, are numbered from one.
LEMMA RankBijection ==
  ASSUME NEW n \in Nat, NEW K \in SUBSET (1..n)
  PROVE  /\ IsFiniteSet(K) /\ Cardinality(K) \in Nat
         /\ \A k \in 1..Cardinality(K) : \E i \in K : Cardinality({j \in K : j <= i}) = k
         /\ \A i \in K : Cardinality({j \in K : j <= i}) \in 1..Cardinality(K)
         /\ \A i, j \in K : Cardinality({l \in K : l <= i}) = Cardinality({l \in K : l <= j}) => i = j
<1> DEFINE Upto(i) == {j \in K : j <= i}
           rank == [i \in K |-> Cardinality(Upto(i))]
<1>0. IsFiniteSet(1..n) /\ \A i \in K : i \in Int
  BY FS_Interval
<1>1. IsFiniteSet(K) /\ Cardinality(K) \in Nat
  BY <1>0, FS_Subset, FS_CardinalityType
<1>2. ASSUME NEW i \in K PROVE IsFiniteSet(Upto(i)) /\ Cardinality(Upto(i)) \in 1..Cardinality(K)
  <2>1. Upto(i) \in SUBSET K /\ Upto(i) # {}
    OBVIOUS
  <2>2. IsFiniteSet(Upto(i)) /\ Cardinality(Upto(i)) <= Cardinality(K)
    BY <1>1, <2>1, FS_Subset
  <2>3. Cardinality(Upto(i)) \in Nat /\ Cardinality(Upto(i)) # 0
    BY <2>1, <2>2, FS_CardinalityType, FS_EmptySet
  <2> QED
    BY <1>1, <2>2, <2>3
<1>3. ASSUME NEW i \in K, NEW j \in K, i < j PROVE Cardinality(Upto(i)) # Cardinality(Upto(j))
  <2>2. i \in Int /\ j \in Int
    BY <1>0
  <2>3. j \in Upto(j) /\ j \notin Upto(i)
    BY <1>3, <2>2
  <2>4. ASSUME NEW l \in Upto(i) PROVE l \in Upto(j)
    <3>1. l \in K /\ l \in Int /\ l <= i
      BY <1>0
    <3> QED
      BY <1>3, <2>2, <3>1
  <2>1. Upto(i) \in SUBSET Upto(j) /\ j \in Upto(j) /\ j \notin Upto(i)
    BY <2>3, <2>4
  <2> HIDE DEF Upto
  <2> QED
    BY <1>2, <2>1, FS_Subset
<1> HIDE DEF Upto
<1>4. \A i, j \in K : Cardinality(Upto(i)) = Cardinality(Upto(j)) => i = j
  BY <1>3
<1>5. rank \in Injection(K, 1..Cardinality(K))
  BY <1>2, <1>4, Fun_IsInj
<1>6. IsFiniteSet(1..Cardinality(K)) /\ Cardinality(1..Cardinality(K)) = Cardinality(K)
  BY <1>1, FS_Interval
<1>7. rank \in Surjection(K, 1..Cardinality(K))
  BY <1>5, <1>6, FS_Injection
<1>10. \A i \in K : rank[i] = Cardinality(Upto(i))
  OBVIOUS
<1> HIDE DEF rank
<1>8. \A k \in 1..Cardinality(K) : \E i \in K : rank[i] = k
  BY <1>7, Fun_SurjectionProperties
<1>9. \A k \in 1..Cardinality(K) : \E i \in K : Cardinality(Upto(i)) = k
  BY <1>8, <1>10
<1> QED
  BY <1>1, <1>2, <1>4, <1>9 DEF Upto

\* Kept lists the entries at the given positions, each once.
LEMMA KeptEntries ==
  ASSUME NEW S, NEW q \in Seq(S), NEW K \in SUBSET DOMAIN q
  PROVE  /\ Kept(q, K) \in Seq(S)
         /\ \A i \in K : \E k \in DOMAIN Kept(q, K) : Kept(q, K)[k] = q[i]
         /\ \A k, l \in DOMAIN Kept(q, K) :
              \E i, j \in K : Kept(q, K)[k] = q[i] /\ Kept(q, K)[l] = q[j] /\ (k # l => i # j)
<1> DEFINE n == Cardinality(K)
           Rank(i) == Cardinality({j \in K : j <= i})
           Nth(k) == CHOOSE i \in K : Rank(i) = k
           p == [k \in 1..n |-> q[Nth(k)]]
<1>1. Len(q) \in Nat /\ K \in SUBSET (1..Len(q))
  OBVIOUS
<1>2. /\ n \in Nat /\ \A k \in 1..n : \E i \in K : Rank(i) = k
      /\ \A i \in K : Rank(i) \in 1..n
      /\ \A i, j \in K : Rank(i) = Rank(j) => i = j
  BY <1>1, RankBijection
<1>3. Kept(q, K) = p
  BY DEF Kept
<1> HIDE DEF n, Rank
<1>4. \A k \in 1..n : Nth(k) \in K /\ Rank(Nth(k)) = k
  BY <1>2
<1> HIDE DEF Nth
<1>5. \A i \in K : Nth(Rank(i)) = i
  BY <1>2, <1>4
<1>6. \A i \in K : q[i] \in S
  OBVIOUS
<1>7. p \in Seq(S) /\ DOMAIN p = 1..n
  BY <1>2, <1>4, <1>6
<1>8. \A i \in K : Rank(i) \in DOMAIN p /\ p[Rank(i)] = q[i]
  BY <1>2, <1>5, <1>7
<1>9. \A k, l \in DOMAIN p : /\ Nth(k) \in K /\ Nth(l) \in K /\ p[k] = q[Nth(k)] /\ p[l] = q[Nth(l)]
                             /\ k # l => Nth(k) # Nth(l)
  BY <1>4, <1>7
<1> HIDE DEF p
<1>10. \A k, l \in DOMAIN p : \E i, j \in K : p[k] = q[i] /\ p[l] = q[j] /\ (k # l => i # j)
  BY <1>9
<1> QED
  BY <1>3, <1>7, <1>8, <1>10

-----------------------------------------------------------------------------
(* What a step does to the parts of the invariant.                         *)

\* The call of t stores the block it holds, or gives it up.
LEMMA ApartRelease ==
  ASSUME Apart, NEW t \in Thread, NEW c, StepTo(t, c), Holding(t), c.at \notin Grips,
         Stored' \subseteq Stored \cup {call[t].block},
         owned' \cap slabFree' = {}, owned' \cap pool' = {}, slabFree' \cap pool' = {}
  PROVE  Apart'
<1> DEFINE x == call[t].block
<1>1. \A b \in Stored : Disjoint(x, b) /\ Disjoint(b, x)
  BY DisjointSym DEF Apart
<1>2. \A u \in Thread : Holding(u)' => u # t /\ Holding(u) /\ call'[u] = call[u]
  BY DEF StepTo, Holding, Grips
<1>3. \A u \in Thread : Holding(u)' => Disjoint(call[u].block, x) /\ \A b \in Stored : Disjoint(call[u].block, b)
  BY <1>2 DEF Apart
<1>4. \A u, v \in Thread : Holding(u)' /\ Holding(v)' /\ u # v => Disjoint(call[u].block, call[v].block)
  BY <1>2 DEF Apart
<1>5. \A b, d \in Stored' : b # d => Disjoint(b, d)
  BY <1>1 DEF Apart
<1> QED
  BY <1>2, <1>3, <1>4, <1>5 DEF Apart

\* The call of t takes a block out of its place.
LEMMA ApartTake ==
  ASSUME Apart, NEW t \in Thread, NEW c, StepTo(t, c), ~ Holding(t), c.at \in Grips,
         c.block \in Stored, Stored' \subseteq Stored \ {c.block},
         owned' \cap slabFree' = {}, owned' \cap pool' = {}, slabFree' \cap pool' = {}
  PROVE  Apart'
<1>1. \A b \in Stored' : Disjoint(c.block, b)
  BY DEF Apart
<1>2. \A u \in Thread : u # t /\ Holding(u)' => Holding(u) /\ call'[u] = call[u]
  BY DEF StepTo, Holding, Grips
<1>3. \A u \in Thread : u # t /\ Holding(u)' => \A b \in Stored : Disjoint(call[u].block, b)
  BY <1>2 DEF Apart
<1>4. \A u, v \in Thread : u # t /\ v # t /\ Holding(u)' /\ Holding(v)' /\ u # v => Disjoint(call[u].block, call[v].block)
  BY <1>2 DEF Apart
<1>5. \A u \in Thread : u # t /\ Holding(u)' => Disjoint(call[u].block, c.block) /\ Disjoint(c.block, call[u].block)
  BY <1>3, DisjointSym
<1>6. call'[t] = c
  BY DEF StepTo
<1>7. \A b, d \in Stored' : b # d => Disjoint(b, d)
  BY DEF Apart
<1>8. \A u \in Thread : Holding(u)' => \A b \in Stored' : Disjoint(call'[u].block, b)
  BY <1>1, <1>2, <1>3, <1>6
<1>9. \A u, v \in Thread : Holding(u)' /\ Holding(v)' /\ u # v => Disjoint(call'[u].block, call'[v].block)
  BY <1>2, <1>4, <1>5, <1>6
<1> QED
  BY <1>7, <1>8, <1>9 DEF Apart

\* A block appears, or is moved, that overlaps no other.
LEMMA ApartNew ==
  ASSUME Apart, NEW t \in Thread, NEW c, StepTo(t, c), ~ Holding(t), c.at \notin Grips, NEW b,
         \A d \in Stored : d # b => Disjoint(b, d),
         \A u \in Thread : Holding(u) => Disjoint(b, call[u].block),
         Stored' \subseteq Stored \cup {b},
         owned' \cap slabFree' = {}, owned' \cap pool' = {}, slabFree' \cap pool' = {}
  PROVE  Apart'
<1>1. \A u \in Thread : Holding(u)' => u # t /\ Holding(u) /\ call'[u] = call[u]
  BY DEF StepTo, Holding, Grips
<1>2. \A u \in Thread : Holding(u) => Disjoint(call[u].block, b)
  BY DisjointSym
<1>3. \A d, e \in Stored' : d # e => Disjoint(d, e)
  BY DisjointSym DEF Apart
<1>4. \A u \in Thread : Holding(u)' => \A d \in Stored' : Disjoint(call'[u].block, d)
  BY <1>1, <1>2 DEF Apart
<1>5. \A u, v \in Thread : Holding(u)' /\ Holding(v)' /\ u # v => Disjoint(call'[u].block, call'[v].block)
  BY <1>1 DEF Apart
<1> QED
  BY <1>3, <1>4, <1>5 DEF Apart

\* Blocks leave their places, or a call keeps the one it holds.
LEMMA ApartLess ==
  ASSUME Apart, NEW t \in Thread, NEW c, StepTo(t, c), c.at \in Grips => Holding(t) /\ c.block = call[t].block,
         owned' \subseteq owned, slabFree' \subseteq slabFree, pool' \subseteq pool
  PROVE  Apart'
<1>1. \A u \in Thread : Holding(u)' => Holding(u) /\ call'[u].block = call[u].block
  BY DEF StepTo, Holding, Grips
<1>2. Stored' \subseteq Stored
  BY DEF Stored
<1>3. \A u \in Thread : Holding(u)' => \A d \in Stored' : Disjoint(call'[u].block, d)
  BY <1>1, <1>2 DEF Apart
<1>4. \A u, v \in Thread : Holding(u)' /\ Holding(v)' /\ u # v => Disjoint(call'[u].block, call'[v].block)
  BY <1>1 DEF Apart
<1>5. \A d, e \in Stored' : d # e => Disjoint(d, e)
  BY <1>2 DEF Apart
<1>6. owned' \cap slabFree' = {} /\ owned' \cap pool' = {} /\ slabFree' \cap pool' = {}
  BY DEF Apart
<1> QED
  BY <1>3, <1>4, <1>5, <1>6 DEF Apart

\* Calls move on and blocks change places; the driver is not called.
LEMMA Moved ==
  ASSUME AllocInv, NEW t \in Thread, NEW c, StepTo(t, c), UNCHANGED <<pooling, mapped, slabs, torn>>,
         owned' \subseteq Block, slabFree' \subseteq Block, pool' \subseteq Block, live' \subseteq Block,
         IF pooling THEN slabFree' = {} ELSE pool' = {},
         cached' \in Nat, snapshot' \in [Thread -> SUBSET Address],
         ~pooling => \A b \in owned \cup InHand(call[t]) : b.size \notin Small => b \in owned' \cup InHand(c),
         Stored' \cup InHand(c) \subseteq Stored \cup InHand(call[t]),
         Sound => Apart' /\ Known'
  PROVE  AllocInv'
<1>0. /\ InHand(c) \subseteq InHands' /\ InHand(call[t]) \subseteq InHands
      /\ InHands' \subseteq InHands \cup InHand(c)
      /\ InHands \subseteq InHands' \cup InHand(call[t])
  BY HandsStep
<1>1. Types'
  <2>1. Calls' = Calls
    BY DEF Calls, Direct
  <2> QED
    BY <2>1 DEF AllocInv, Types, StepTo
<1>2. Ranges'
  BY DEF AllocInv, Ranges
<1>3. Accounted'
  <2> SUFFICES ASSUME ~pooling, NEW r \in mapped
               PROVE  \/ \E i \in DOMAIN slabs : slabs[i].base = r.ptr
                      \/ \E b \in owned' \cup InHands' : b.size \notin Small /\ b.ptr = r.ptr
    BY DEF Accounted
  <2>1. \A b \in owned \cup InHands : b.size \notin Small => b \in owned' \cup InHands'
    BY <1>0
  <2> QED
    BY <2>1 DEF AllocInv, Accounted
<1>4. ASSUME ~torn' PROVE Sound'
  <2>1. Sound
    BY <1>4 DEF AllocInv
  <2>2. Around' \subseteq Around
    BY <1>0 DEF Around
  <2>3. Unused' /\ Bases' /\ Heads'
    BY <2>1, <2>2 DEF Sound, Unused, Bases, Heads, Clear
  <2>4. Backed'
    <3>1. \A b \in Around : \E r \in mapped : Within(b, r.ptr, r.size)
      BY <2>1 DEF Sound, Backed, Mapped, Around, Stored
    <3>2. \A b \in Around' : \E r \in mapped' : Within(b, r.ptr, r.size)
      BY <2>2, <3>1
    <3>3. \A i \in DOMAIN slabs' : [ptr |-> slabs'[i].base, size |-> SlabSize] \in mapped'
      BY <2>1 DEF Sound, Backed
    <3> QED
      BY <3>2, <3>3 DEF Backed, Mapped, Around, Stored
  <2> QED
    BY <2>1, <2>3, <2>4 DEF Sound
<1> QED
  BY <1>1, <1>2, <1>3, <1>4 DEF AllocInv

\* The step changes the call of t, and perhaps its copy of live.
LEMMA OnlyCall ==
  ASSUME AllocInv, NEW t \in Thread, NEW c, StepTo(t, c), InHand(c) = InHand(call[t]),
         UNCHANGED <<pooling, mapped, slabs, slabFree, pool, cached, live, owned, torn>>,
         snapshot' \in [Thread -> SUBSET Address]
  PROVE  AllocInv'
<1>1. Types
  BY DEF AllocInv
<1>2. Apart => Apart'
  <2>1. c.at \in Grips => Holding(t) /\ c.block = call[t].block
    BY NoGrip DEF InHand
  <2> QED
    BY <2>1, ApartLess
<1>3. Known => Known'
  BY DEF Known
<1>4. Stored' = Stored
  BY DEF Stored
<1> QED
  BY <1>1, <1>2, <1>3, <1>4, Moved DEF Types, Sound

-----------------------------------------------------------------------------
(* The actions: calls that move on while no block changes hands.           *)

\* A thread that has started nothing has nothing in its hands.
LEMMA IdleHands ==
  ASSUME NEW t \in Thread, call[t] = Idle
  PROVE  ~ Holding(t) /\ InHand(call[t]) = {}
BY NoGrip

LEMMA AllocMissInv ==
  ASSUME AllocInv, NEW t \in Thread, NEW n \in Size, AllocMiss(t, n)
  PROVE  AllocInv'
<1>1. Types /\ call[t] = Idle
  BY DEF AllocInv, AllocMiss
<1>2. PICK c \in Calls : Goto(t, c) /\ c.at \in {"bump", "malloc"}
  BY <1>1, CallTypes DEF AllocMiss, Direct
<1>3. InHand(c) = InHand(call[t])
  BY <1>1, <1>2, IdleHands DEF InHand, Grips
<1> QED
  BY <1>1, <1>2, <1>3, CallStep, OnlyCall DEF AllocMiss, Types

LEMMA MallocFailsInv ==
  ASSUME AllocInv, NEW t \in Thread, MallocFails(t)
  PROVE  AllocInv'
<1> DEFINE c == Want("empty", call[t].size)
<1>1. Types /\ call[t].at = "malloc" /\ Goto(t, c)
  BY DEF AllocInv, MallocFails
<1>2. c \in Calls /\ c.at = "empty"
  BY <1>1, CallFacts, CallTypes DEF Emptied
<1> HIDE DEF c
<1>3. InHand(c) = InHand(call[t])
  BY <1>1, <1>2 DEF InHand, Grips
<1> QED
  BY <1>1, <1>2, <1>3, CallStep, OnlyCall DEF MallocFails, Types

LEMMA AllocFailsInv ==
  ASSUME AllocInv, NEW t \in Thread, AllocFails(t)
  PROVE  AllocInv'
<1>1. Types /\ call[t].at \in {"bump", "retry"} /\ Goto(t, Idle) /\ Idle \in Calls
  BY CallTypes DEF AllocInv, AllocFails
<1>2. InHand(Idle) = InHand(call[t])
  BY <1>1, NoGrip DEF InHand, Grips
<1> QED
  BY <1>1, <1>2, CallStep, OnlyCall DEF AllocFails, Types

LEMMA EmptyCacheInv ==
  ASSUME AllocInv, NEW t \in Thread, EmptyCache(t)
  PROVE  AllocInv'
<1> DEFINE c == Want("empty", 0)
<1>1. Types /\ call[t] = Idle /\ Goto(t, c)
  BY DEF AllocInv, EmptyCache
<1>2. c \in Calls /\ c.at = "empty"
  BY CallTypes DEF Emptied
<1> HIDE DEF c
<1>3. InHand(c) = InHand(call[t])
  BY <1>1, <1>2, IdleHands DEF InHand, Grips
<1> QED
  BY <1>1, <1>2, <1>3, CallStep, OnlyCall DEF EmptyCache, Types

\* The call goes on from the count of the pool to the push with its block.
LEMMA FreePoolInv ==
  ASSUME AllocInv, NEW t \in Thread, FreePool(t)
  PROVE  AllocInv'
<1> DEFINE c == At("push", call[t].block)
<1>1. Types /\ call[t].at = "free" /\ pooling /\ Goto(t, c)
  BY DEF AllocInv, FreePool
<1>2. c \in Calls /\ c.at = "push" /\ c.block = call[t].block
  BY <1>1, CallTypes, CallFacts DEF Grips, Holding
<1> HIDE DEF c
<1>3. InHand(c) = InHand(call[t])
  BY <1>1, <1>2 DEF InHand, Grips
<1> QED
  BY <1>1, <1>2, <1>3, CallStep, OnlyCall DEF FreePool, Types

\* empty_cache copies the addresses of live.
LEMMA CopyLiveInv ==
  ASSUME AllocInv, NEW t \in Thread, CopyLive(t)
  PROVE  AllocInv'
<1> DEFINE c == [call[t] EXCEPT !.at = "clear"]
           P == {b.ptr : b \in live}
<1>1. /\ Types /\ call[t].at = "empty" /\ Goto(t, c) /\ snapshot' = [snapshot EXCEPT ![t] = P]
      /\ UNCHANGED <<pooling, mapped, slabs, slabFree, pool, cached, live, owned, torn>>
  BY DEF AllocInv, CopyLive
<1>2. c \in Calls /\ c.at = "clear"
  BY <1>1, NextPlace DEF Emptied
<1>3. P \in SUBSET Address
  BY <1>1, BlockFacts DEF Types
<1> HIDE DEF c, P
<1>4. InHand(c) = InHand(call[t])
  BY <1>1, <1>2 DEF InHand, Grips
<1>5. snapshot' \in [Thread -> SUBSET Address]
  BY <1>1, <1>3 DEF Types
<1> QED
  BY <1>1, <1>2, <1>4, <1>5, CallStep, OnlyCall

\* The recycled slots are forgotten.
LEMMA ClearSlotsInv ==
  ASSUME AllocInv, NEW t \in Thread, ClearSlots(t)
  PROVE  AllocInv'
<1> DEFINE c == [call[t] EXCEPT !.at = "slabs"]
<1>1. /\ Types /\ call[t].at = "clear" /\ Goto(t, c) /\ slabFree' = {}
      /\ UNCHANGED <<pooling, mapped, slabs, pool, cached, live, owned, snapshot, torn>>
  BY DEF AllocInv, ClearSlots
<1>2. c \in Calls /\ c.at = "slabs"
  BY <1>1, NextPlace DEF Emptied
<1> HIDE DEF c
<1>3. StepTo(t, c)
  BY <1>1, <1>2, CallStep
<1>4. InHand(c) = {} /\ InHand(call[t]) = {} /\ c.at \notin Grips
  BY <1>1, <1>2 DEF InHand, Grips
<1>5. Stored' \subseteq Stored
  BY <1>1 DEF Stored
<1>6. Apart => Apart'
  BY <1>1, <1>3, <1>4, ApartLess
<1>7. Known => Known'
  BY <1>1 DEF Known
<1> QED
  BY <1>1, <1>3, <1>4, <1>5, <1>6, <1>7, Moved DEF Types, Sound

-----------------------------------------------------------------------------
(* The actions: a block changes hands.                                     *)

\* What handing out a block does to the records.
LEMMA HandOutStep ==
  ASSUME Types, NEW t \in Thread, NEW b \in Block, HandOut(t, b)
  PROVE  /\ StepTo(t, Idle) /\ owned' = owned \cup {b} /\ owned' \subseteq Block
         /\ live' \subseteq Block /\ (Known => Known')
<1>1. Goto(t, Idle) /\ owned' = owned \cup {b} /\ live' = Recorded(b)
  BY DEF HandOut
<1>2. StepTo(t, Idle)
  BY <1>1, CallTypes, CallStep
<1>3. live' \subseteq Block /\ owned' \subseteq Block
  BY <1>1 DEF Types, Recorded
<1>4. ASSUME Known, NEW d \in owned' PROVE \E e \in live' : e.ptr = d.ptr
  <2>1. CASE d.ptr = b.ptr
    BY <1>1, <2>1 DEF Recorded
  <2>2. CASE d.ptr # b.ptr
    <3>1. d \in owned
      BY <1>1, <2>2
    <3>2. PICK e \in live : e.ptr = d.ptr
      BY <1>4, <3>1 DEF Known
    <3>3. e \in Recorded(b)
      BY <2>2, <3>2 DEF Recorded
    <3> QED
      BY <1>1, <3>2, <3>3
  <2> QED
    BY <2>1, <2>2
<1> QED
  BY <1>1, <1>2, <1>3, <1>4 DEF Known

\* A recycled slot is handed out.
LEMMA AllocSlotInv ==
  ASSUME AllocInv, NEW t \in Thread, NEW n \in Size, AllocSlot(t, n)
  PROVE  AllocInv'
<1>1. /\ Types /\ call[t] = Idle /\ ~pooling
      /\ UNCHANGED <<pooling, mapped, slabs, pool, cached, snapshot, torn>>
  BY DEF AllocInv, AllocSlot
<1>2. PICK b \in slabFree : slabFree' = slabFree \ {b} /\ HandOut(t, b)
  BY DEF AllocSlot, Popped
<1>3. b \in Block /\ slabFree' \subseteq Block
  BY <1>1, <1>2 DEF Types
<1>4. StepTo(t, Idle) /\ owned' = owned \cup {b} /\ owned' \subseteq Block /\ live' \subseteq Block /\ (Known => Known')
  BY <1>1, <1>2, <1>3, HandOutStep
<1>5. ~ Holding(t) /\ InHand(call[t]) = {} /\ InHand(Idle) = {} /\ Idle.at \notin Grips
  BY <1>1, IdleHands, NoGrip
<1>6. Stored' \subseteq Stored /\ b \in Stored
  BY <1>1, <1>2, <1>4 DEF Stored
<1>7. ASSUME Apart PROVE Apart'
  <2>1. \A d \in Stored : d # b => Disjoint(b, d)
    BY <1>6, <1>7 DEF Apart
  <2>2. \A u \in Thread : Holding(u) => Disjoint(b, call[u].block)
    BY <1>6, <1>7, DisjointSym DEF Apart
  <2>3. owned' \cap slabFree' = {} /\ owned' \cap pool' = {} /\ slabFree' \cap pool' = {}
    BY <1>1, <1>2, <1>4, <1>7 DEF Apart
  <2> QED
    BY <1>4, <1>5, <1>6, <1>7, <2>1, <2>2, <2>3, ApartNew
<1> QED
  BY <1>1, <1>3, <1>4, <1>5, <1>6, <1>7, Moved DEF Types, Sound

\* A block leaves the pool.
LEMMA AllocPooledInv ==
  ASSUME AllocInv, NEW t \in Thread, NEW n \in Size, AllocPooled(t, n)
  PROVE  AllocInv'
<1>1. /\ Types /\ call[t] = Idle
      /\ UNCHANGED <<pooling, mapped, slabs, slabFree, cached, live, owned, snapshot, torn>>
  BY DEF AllocInv, AllocPooled
<1>2. PICK b \in pool : pool' = pool \ {b} /\ Goto(t, At("popped", b))
  BY DEF AllocPooled
<1> DEFINE c == At("popped", b)
<1>3. pooling /\ b \in Block /\ pool' \subseteq Block
  BY <1>1, <1>2 DEF Types
<1>4. c \in Calls /\ c.at = "popped" /\ c.block = b /\ Goto(t, c)
  BY <1>2, <1>3, CallTypes DEF Grips
<1> HIDE DEF c
<1>5. StepTo(t, c)
  BY <1>1, <1>4, CallStep
<1>6. ~ Holding(t) /\ InHand(call[t]) = {} /\ InHand(c) = {b} /\ c.at \in Grips
  BY <1>1, <1>4, IdleHands DEF InHand, Grips
<1>7. Stored' \subseteq Stored /\ b \in Stored
  BY <1>1, <1>2 DEF Stored
<1>8. ASSUME Apart PROVE Apart'
  <2>1. Stored' \subseteq Stored \ {b}
    BY <1>1, <1>2, <1>8 DEF Apart, Stored
  <2>2. owned' \cap slabFree' = {} /\ owned' \cap pool' = {} /\ slabFree' \cap pool' = {}
    BY <1>1, <1>2, <1>8 DEF Apart
  <2> QED
    BY <1>4, <1>5, <1>6, <1>7, <1>8, <2>1, <2>2, ApartTake
<1>9. Known => Known'
  BY <1>1 DEF Known
<1> QED
  BY <1>1, <1>3, <1>5, <1>6, <1>7, <1>8, <1>9, Moved DEF Types, Sound

\* The block from the pool is recorded and returned.
LEMMA TakePooledInv ==
  ASSUME AllocInv, NEW t \in Thread, TakePooled(t)
  PROVE  AllocInv'
<1> DEFINE b == call[t].block
<1>1. /\ Types /\ call[t].at = "popped" /\ HandOut(t, b) /\ cached' = Uncache(b.size)
      /\ UNCHANGED <<pooling, mapped, slabs, slabFree, pool, snapshot, torn>>
  BY DEF AllocInv, TakePooled
<1>2. Holding(t) /\ b \in Block
  BY <1>1, CallFacts DEF Holding
<1>3. StepTo(t, Idle) /\ owned' = owned \cup {b} /\ owned' \subseteq Block /\ live' \subseteq Block /\ (Known => Known')
  BY <1>1, <1>2, HandOutStep
<1>4. InHand(call[t]) = {b} /\ InHand(Idle) = {} /\ Idle.at \notin Grips
  BY <1>2, NoGrip
<1>5. Stored' = Stored \cup {b}
  BY <1>1, <1>3 DEF Stored
<1>6. cached' \in Nat
  BY <1>1, <1>2, BlockFacts DEF Types, Uncache
<1>7. ASSUME Apart PROVE Apart'
  <2>1. b \notin Stored
    BY <1>1, <1>2, <1>7, HeldApart
  <2>2. owned' \cap slabFree' = {} /\ owned' \cap pool' = {} /\ slabFree' \cap pool' = {}
    BY <1>1, <1>3, <1>7, <2>1 DEF Apart, Stored
  <2> QED
    BY <1>2, <1>3, <1>4, <1>5, <1>7, <2>2, ApartRelease
<1>8. ~pooling => \A d \in owned \cup InHand(call[t]) : d.size \notin Small => d \in owned' \cup InHand(Idle)
  BY <1>3, <1>4
<1> QED
  BY <1>1, <1>3, <1>4, <1>5, <1>6, <1>7, <1>8, Moved DEF Types, Sound

\* A storage is dropped.
LEMMA FreeInv ==
  ASSUME AllocInv, NEW t \in Thread, NEW b \in owned, Free(t, b)
  PROVE  AllocInv'
<1> DEFINE c == At("free", b)
<1>1. /\ Types /\ call[t] = Idle
      /\ owned' = owned \ {b} /\ live' = {d \in live : d.ptr # b.ptr} /\ Goto(t, c)
      /\ UNCHANGED <<pooling, mapped, slabs, slabFree, pool, cached, snapshot, torn>>
  BY DEF AllocInv, Free
<1>2. b \in Block /\ owned' \subseteq Block /\ live' \subseteq Block
  BY <1>1 DEF Types
<1>3. c \in Calls /\ c.at = "free" /\ c.block = b
  BY <1>2, CallTypes
<1> HIDE DEF c
<1>4. StepTo(t, c)
  BY <1>1, <1>3, CallStep
<1>5. ~ Holding(t) /\ InHand(call[t]) = {} /\ InHand(c) = {b} /\ c.at \in Grips
  BY <1>1, <1>3, IdleHands DEF InHand, Grips
<1>6. Stored' \subseteq Stored /\ b \in Stored
  BY <1>1 DEF Stored
<1>7. ASSUME Apart PROVE Apart'
  <2>1. Stored' \subseteq Stored \ {b}
    BY <1>1, <1>7 DEF Apart, Stored
  <2>2. owned' \cap slabFree' = {} /\ owned' \cap pool' = {} /\ slabFree' \cap pool' = {}
    BY <1>1, <1>7 DEF Apart
  <2> QED
    BY <1>3, <1>4, <1>5, <1>6, <1>7, <2>1, <2>2, ApartTake
<1>8. ASSUME Apart, Known PROVE Known'
  <2>1. \A d \in owned' : d \in owned /\ d.ptr # b.ptr
    BY <1>1, <1>2, <1>8, BlockFacts, DisjointPtr DEF Types, Apart, Stored
  <2> QED
    BY <1>1, <1>8, <2>1 DEF Known
<1>9. ~pooling => \A d \in owned \cup InHand(call[t]) : d.size \notin Small => d \in owned' \cup InHand(c)
  BY <1>1, <1>5
<1> QED
  BY <1>1, <1>2, <1>4, <1>5, <1>6, <1>7, <1>8, <1>9, Moved DEF Types, Sound

\* A slot is recycled.
LEMMA FreeSlotInv ==
  ASSUME AllocInv, NEW t \in Thread, FreeSlot(t)
  PROVE  AllocInv'
<1> DEFINE b == call[t].block
<1>1. /\ Types /\ call[t].at = "free" /\ ~pooling /\ b.size \in Small /\ slabFree' = slabFree \cup {b} /\ Goto(t, Idle)
      /\ UNCHANGED <<pooling, mapped, slabs, pool, cached, live, owned, snapshot, torn>>
  BY DEF AllocInv, FreeSlot, IsSlot
<1>2. Holding(t) /\ b \in Block /\ slabFree' \subseteq Block
  BY <1>1, CallFacts DEF Holding, Types
<1>3. StepTo(t, Idle)
  BY <1>1, CallTypes, CallStep
<1>4. InHand(call[t]) = {b} /\ InHand(Idle) = {} /\ Idle.at \notin Grips
  BY <1>2, NoGrip
<1>5. Stored' = Stored \cup {b}
  BY <1>1 DEF Stored
<1>6. ASSUME Apart PROVE Apart'
  <2>1. b \notin Stored
    BY <1>1, <1>2, <1>6, HeldApart
  <2>2. owned' \cap slabFree' = {} /\ owned' \cap pool' = {} /\ slabFree' \cap pool' = {}
    BY <1>1, <1>6, <2>1 DEF Apart, Stored
  <2> QED
    BY <1>2, <1>3, <1>4, <1>5, <1>6, <2>2, ApartRelease
<1>7. Known => Known'
  BY <1>1 DEF Known
<1>8. ~pooling => \A d \in owned \cup InHand(call[t]) : d.size \notin Small => d \in owned' \cup InHand(Idle)
  BY <1>1, <1>4
<1> QED
  BY <1>1, <1>2, <1>3, <1>4, <1>5, <1>6, <1>7, <1>8, Moved DEF Types, Sound

\* A block goes into the pool.
LEMMA PushPoolInv ==
  ASSUME AllocInv, NEW t \in Thread, PushPool(t)
  PROVE  AllocInv'
<1> DEFINE b == call[t].block
<1>1. /\ Types /\ call[t].at = "push" /\ pool' = pool \cup {b} /\ cached' = cached + b.size /\ Goto(t, Idle)
      /\ UNCHANGED <<pooling, mapped, slabs, slabFree, live, owned, snapshot, torn>>
  BY DEF AllocInv, PushPool
<1>2. Holding(t) /\ b \in Block /\ pool' \subseteq Block /\ pooling
  BY <1>1, CallFacts DEF Holding, Types
<1>3. StepTo(t, Idle)
  BY <1>1, CallTypes, CallStep
<1>4. InHand(call[t]) = {b} /\ InHand(Idle) = {} /\ Idle.at \notin Grips
  BY <1>2, NoGrip
<1>5. Stored' = Stored \cup {b} /\ cached' \in Nat
  BY <1>1, <1>2, BlockFacts DEF Stored, Types
<1>6. ASSUME Apart PROVE Apart'
  <2>1. b \notin Stored
    BY <1>1, <1>2, <1>6, HeldApart
  <2>2. owned' \cap slabFree' = {} /\ owned' \cap pool' = {} /\ slabFree' \cap pool' = {}
    BY <1>1, <1>6, <2>1 DEF Apart, Stored
  <2> QED
    BY <1>2, <1>3, <1>4, <1>5, <1>6, <2>2, ApartRelease
<1>7. Known => Known'
  BY <1>1 DEF Known
<1> QED
  BY <1>1, <1>2, <1>3, <1>4, <1>5, <1>6, <1>7, Moved DEF Types, Sound

-----------------------------------------------------------------------------
(* The actions: a new block.                                               *)

\* A block that overlaps no other is handed out.
LEMMA NewApart ==
  ASSUME Types, NEW t \in Thread, ~ Holding(t), NEW b \in Block, HandOut(t, b), Apart,
         UNCHANGED <<slabFree, pool>>, \A d \in Around : Disjoint(b, d)
  PROVE  Apart'
<1>1. StepTo(t, Idle) /\ owned' = owned \cup {b} /\ Idle.at \notin Grips
  BY HandOutStep, NoGrip
<1>2. \A d \in Stored : Disjoint(b, d)
  BY DEF Around
<1>3. \A u \in Thread : Holding(u) => Disjoint(b, call[u].block)
  BY DEF Around, InHands
<1>4. b \notin Stored
  BY <1>2, AroundFacts, BlockFacts, DisjointPtr
<1>5. owned' \cap slabFree' = {} /\ owned' \cap pool' = {} /\ slabFree' \cap pool' = {}
  BY <1>1, <1>4 DEF Apart, Stored
<1>6. Stored' \subseteq Stored \cup {b}
  BY <1>1 DEF Stored
<1> QED
  BY <1>1, <1>2, <1>3, <1>5, <1>6, ApartNew

\* The blocks around after a block is handed out.
LEMMA NewAround ==
  ASSUME Types, NEW t \in Thread, ~ Holding(t), NEW b \in Block, HandOut(t, b), UNCHANGED <<slabFree, pool>>
  PROVE  Around' = Around \cup {b} /\ InHands' = InHands
<1>1. StepTo(t, Idle) /\ owned' = owned \cup {b}
  BY HandOutStep
<1>2. InHand(Idle) = {} /\ InHand(call[t]) = {}
  BY NoGrip
<1>3. InHands' = InHands
  BY <1>1, <1>2, HandsStep
<1>4. Stored' = Stored \cup {b}
  BY <1>1 DEF Stored
<1> QED
  BY <1>3, <1>4 DEF Around

\* A block at the start of a range that does not meet the slab.
LEMMA ClearOutside ==
  ASSUME NEW b, NEW q, NEW s, b.ptr \in Nat, b.size \in Nat, q.ptr = b.ptr, q.size \in Nat, b.size <= q.size,
         s.base \in Nat, s.bump \in Nat, SlabSize \in Nat,
         q.ptr + q.size <= s.base \/ s.base + SlabSize <= q.ptr
  PROVE  Clear(b, s)
BY DEF Clear

\* A block that does not meet the range of a slab.
LEMMA ClearApart ==
  ASSUME NEW d, NEW q, NEW s, Disjoint(q, d), d.ptr \in Nat, d.size \in Nat, s.base = q.ptr, q.size = SlabSize,
         s.base \in Nat, s.bump \in Nat, SlabSize \in Nat
  PROVE  Clear(d, s)
BY DEF Clear, Disjoint

\* The driver maps a range q for block b, as a new slab or as a block.
LEMMA Grown ==
  ASSUME AllocInv, NEW t \in Thread, ~ Holding(t), NEW b \in Block, HandOut(t, b),
         UNCHANGED <<pooling, slabFree, pool, cached, snapshot, torn>>,
         NEW q \in [ptr : Address, size : Size \cup {SlabSize}],
         q.ptr = b.ptr, b.size <= q.size, \A r \in mapped : Disjoint(q, r), mapped' = mapped \cup {q},
         slabs' \in Seq([base : Address, bump : 1..SlabSize]),
         DOMAIN slabs \subseteq DOMAIN slabs', \A i \in DOMAIN slabs : slabs'[i] = slabs[i],
         \A i \in DOMAIN slabs' \ DOMAIN slabs :
            slabs'[i].base = q.ptr /\ slabs'[i].bump = b.size /\ q.size = SlabSize /\ q.ptr + SlabSize <= Memory,
         \A i, j \in DOMAIN slabs' \ DOMAIN slabs : i = j,
         (\E i \in DOMAIN slabs' : slabs'[i].base = q.ptr) \/ b.size \notin Small \/ pooling
  PROVE  AllocInv'
<1>1. /\ Types /\ StepTo(t, Idle) /\ owned' = owned \cup {b} /\ owned' \subseteq Block
      /\ live' \subseteq Block /\ (Known => Known')
  BY HandOutStep DEF AllocInv
<1>2. Around' = Around \cup {b} /\ InHands' = InHands
  BY <1>1, NewAround
<1>3. Types'
  <2>1. Calls' = Calls
    BY DEF Calls, Direct
  <2>2. mapped' \subseteq [ptr : Address, size : Size \cup {SlabSize}]
    BY <1>1 DEF Types
  <2>3. \A i \in DOMAIN slabs' : slabs'[i].base + SlabSize <= Memory
    BY <1>1 DEF Types
  <2> QED
    BY <1>1, <2>1, <2>2, <2>3 DEF Types, StepTo
<1>4. Ranges'
  BY DisjointSym DEF AllocInv, Ranges
<1>5. Accounted'
  <2> SUFFICES ASSUME ~pooling, NEW r \in mapped \cup {q}
               PROVE  \/ \E i \in DOMAIN slabs' : slabs'[i].base = r.ptr
                      \/ \E d \in owned' \cup InHands' : d.size \notin Small /\ d.ptr = r.ptr
    BY DEF Accounted
  <2>1. CASE r = q
    BY <1>1, <2>1
  <2>2. CASE r \in mapped
    BY <1>1, <1>2, <2>2 DEF AllocInv, Accounted
  <2> QED
    BY <2>1, <2>2
<1>6. ASSUME ~torn' PROVE Sound'
  <2>1. Sound
    BY <1>6 DEF AllocInv
  <2>2. /\ q.ptr \in Nat /\ q.size \in Nat /\ q.size > 0 /\ b.ptr \in Nat /\ b.size \in Nat /\ b.size > 0
        /\ q.ptr = b.ptr /\ b.size <= q.size /\ SlabSize \in Nat /\ SlabSize > 0
    BY BlockFacts, Sizes
  <2>3. \A d \in Around : \E r \in mapped : Within(d, r.ptr, r.size)
    BY <2>1 DEF Sound, Backed, Mapped, Around, Stored
  <2>4. ASSUME NEW d \in Around PROVE Disjoint(q, d) /\ Disjoint(b, d) /\ d.ptr \in Nat /\ d.size \in Nat
    <3>1. d.ptr \in Nat /\ d.size \in Nat
      BY <1>1, AroundFacts, BlockFacts
    <3>2. PICK r \in mapped : Within(d, r.ptr, r.size)
      BY <2>3
    <3>3. Disjoint(q, r) /\ r.ptr \in Nat /\ r.size \in Nat
      BY <1>1, RangeFacts
    <3>4. Within(q, q.ptr, q.size) /\ Within(b, q.ptr, q.size)
      BY <2>2 DEF Within
    <3> QED
      BY <2>2, <3>1, <3>2, <3>3, <3>4, DisjointWithin
  <2>5. Apart'
    BY <1>1, <2>1, <2>4, NewApart DEF Sound
  <2>6. \A i \in DOMAIN slabs : [ptr |-> slabs[i].base, size |-> SlabSize] \in mapped
    BY <2>1 DEF Sound, Backed
  <2>7. ASSUME NEW i \in DOMAIN slabs
        PROVE  \/ q.ptr + q.size <= slabs[i].base
               \/ slabs[i].base + SlabSize <= q.ptr
    BY <2>6 DEF Disjoint
  <2>8. Unused'
    <3> SUFFICES ASSUME NEW i \in DOMAIN slabs', NEW d \in Around \cup {b} PROVE Clear(d, slabs'[i])
      BY <1>2 DEF Unused, Clear
    <3>1. CASE i \in DOMAIN slabs /\ d = b
      <4>1. q.ptr + q.size <= slabs[i].base \/ slabs[i].base + SlabSize <= q.ptr
        BY <2>7, <3>1
      <4>2. slabs[i].base \in Nat /\ slabs[i].bump \in Nat /\ slabs'[i] = slabs[i]
        BY <1>1, <3>1, SlabFacts
      <4>3. Clear(b, slabs[i])
        BY <2>2, <4>1, <4>2, ClearOutside
      <4> QED
        BY <3>1, <4>2, <4>3
    <3>2. CASE i \in DOMAIN slabs /\ d \in Around
      BY <2>1, <3>2 DEF Sound, Unused
    <3>3. CASE i \notin DOMAIN slabs
      <4>1. slabs'[i].base = q.ptr /\ slabs'[i].bump = b.size /\ q.size = SlabSize
        BY <3>3
      <4>2. CASE d = b
        BY <2>2, <4>1, <4>2 DEF Clear
      <4>3. CASE d \in Around
        <5>1. Disjoint(q, d) /\ d.ptr \in Nat /\ d.size \in Nat
          BY <2>4, <4>3
        <5>2. slabs'[i].base \in Nat /\ slabs'[i].bump \in Nat
          BY <2>2, <4>1
        <5> QED
          BY <2>2, <4>1, <5>1, <5>2, ClearApart
      <4> QED
        BY <4>2, <4>3
    <3> QED
      BY <3>1, <3>2, <3>3
  <2>9. Bases'
    <3> SUFFICES ASSUME NEW i \in DOMAIN slabs', NEW j \in DOMAIN slabs', i # j PROVE slabs'[i].base # slabs'[j].base
      BY DEF Bases
    <3>1. \A k \in DOMAIN slabs : slabs[k].base # q.ptr
      <4> SUFFICES ASSUME NEW i1 \in DOMAIN slabs, slabs[i1].base = q.ptr PROVE FALSE
        OBVIOUS
      <4>1. q.ptr + q.size <= slabs[i1].base \/ slabs[i1].base + SlabSize <= q.ptr
        BY <2>7
      <4> QED
        BY <2>2, <4>1
    <3>2. CASE i \in DOMAIN slabs /\ j \in DOMAIN slabs
      BY <2>1, <3>2 DEF Sound, Bases
    <3> QED
      BY <3>1, <3>2
  <2>10. Heads'
    BY <1>2, <2>1 DEF Sound, Heads
  <2>11. Backed'
    <3>1. Within(b, q.ptr, q.size)
      BY <2>2 DEF Within
    <3>2. \A d \in Around' : \E r \in mapped' : Within(d, r.ptr, r.size)
      BY <1>2, <2>3, <3>1
    <3>3. \A i \in DOMAIN slabs' : [ptr |-> slabs'[i].base, size |-> SlabSize] \in mapped'
      <4> SUFFICES ASSUME NEW i \in DOMAIN slabs' PROVE [ptr |-> slabs'[i].base, size |-> SlabSize] \in mapped'
        OBVIOUS
      <4>1. CASE i \in DOMAIN slabs
        BY <2>6, <4>1
      <4>2. CASE i \notin DOMAIN slabs
        <5>1. q = [ptr |-> q.ptr, size |-> q.size]
          OBVIOUS
        <5> QED
          BY <4>2, <5>1
      <4> QED
        BY <4>1, <4>2
    <3> QED
      BY <3>2, <3>3 DEF Backed, Mapped, Around, Stored
  <2> QED
    BY <1>1, <2>1, <2>5, <2>8, <2>9, <2>10, <2>11 DEF Sound
<1> QED
  BY <1>3, <1>4, <1>5, <1>6 DEF AllocInv

\* A slab is added for a request, of whichever mode.
LEMMA AddSlabInv ==
  ASSUME AllocInv, NEW t \in Thread, ~ Holding(t), NEW n \in Size, n <= SlabSize, AddSlab(t, n),
         UNCHANGED <<pooling, slabFree, pool, cached, snapshot, torn>>
  PROVE  AllocInv'
<1>1. PICK a \in Fits(SlabSize) :
        /\ mapped' = mapped \cup {[ptr |-> a, size |-> SlabSize]}
        /\ slabs' = Append(slabs, [base |-> a, bump |-> n])
        /\ HandOut(t, [ptr |-> a, size |-> n])
  BY DEF AddSlab
<1> DEFINE S == [base : Address, bump : 1..SlabSize]
           s == [base |-> a, bump |-> n]
           b == [ptr |-> a, size |-> n]
           q == [ptr |-> a, size |-> SlabSize]
<1>2. a \in Address /\ a + SlabSize <= Memory /\ \A r \in mapped : Disjoint(q, r)
  BY DEF Fits
<1>3. b \in Block /\ q \in [ptr : Address, size : Size \cup {SlabSize}]
  BY <1>2 DEF Block
<1>4. s \in S /\ slabs \in Seq(S) /\ s.base = a /\ s.bump = n
  <2>1. n \in 1..SlabSize
    BY Sizes
  <2> QED
    BY <1>2, <2>1 DEF AllocInv, Types
<1>5. HandOut(t, b) /\ mapped' = mapped \cup {q} /\ slabs' = Append(slabs, s)
  BY <1>1
<1>6. b.ptr = a /\ b.size = n /\ q.ptr = a /\ q.size = SlabSize
  OBVIOUS
<1> HIDE DEF s, b, q
<1>7. slabs' \in Seq([base : Address, bump : 1..SlabSize])
  <2> HIDE DEF S
  <2>1. slabs' \in Seq(S)
    BY <1>4, <1>5
  <2> QED
    BY <2>1 DEF S
<1> HIDE DEF S
<1>8. /\ DOMAIN slabs \subseteq DOMAIN slabs' /\ \A i \in DOMAIN slabs : slabs'[i] = slabs[i]
      /\ DOMAIN slabs' \ DOMAIN slabs = {Len(slabs) + 1}
      /\ \A i \in DOMAIN slabs' \ DOMAIN slabs : slabs'[i] = s
  BY <1>4, <1>5
<1>9. \E i \in DOMAIN slabs' : slabs'[i].base = q.ptr
  BY <1>4, <1>6, <1>8
<1> QED
  BY <1>2, <1>3, <1>4, <1>5, <1>6, <1>7, <1>8, <1>9, Grown

LEMMA NewSlabInv ==
  ASSUME AllocInv, NEW t \in Thread, NewSlab(t)
  PROVE  AllocInv'
<1>1. call[t].at = "bump" /\ ~ Holding(t)
  BY DEF NewSlab, Holding
<1>2. call[t].size \in Size /\ call[t].size <= SlabSize
  BY <1>1, CallFacts, Sizes DEF AllocInv
<1> QED
  BY <1>1, <1>2, AddSlabInv DEF NewSlab

LEMMA FragmentationSlabInv ==
  ASSUME AllocInv, NEW t \in Thread, FragmentationSlab(t)
  PROVE  AllocInv'
<1>1. call[t].at = "retry" /\ ~ Holding(t) /\ call[t].size <= SlabSize
  BY DEF FragmentationSlab, Holding
<1>2. call[t].size \in Size
  BY <1>1, CallFacts, Sizes DEF AllocInv
<1> QED
  BY <1>1, <1>2, AddSlabInv DEF FragmentationSlab

\* A block of its own from the driver.
LEMMA MallocInv ==
  ASSUME AllocInv, NEW t \in Thread, Malloc(t)
  PROVE  AllocInv'
<1> DEFINE n == call[t].size
<1>1. call[t].at \in {"malloc", "retry"} /\ ~ Holding(t)
  BY DEF Malloc, Holding
<1>2. n \in Size /\ n \in Direct
  BY <1>1, CallFacts, Sizes DEF AllocInv
<1>3. PICK a \in Fits(n) : mapped' = mapped \cup {[ptr |-> a, size |-> n]} /\ HandOut(t, [ptr |-> a, size |-> n])
  BY DEF Malloc
<1> DEFINE b == [ptr |-> a, size |-> n]
<1>4. a \in Address /\ \A r \in mapped : Disjoint(b, r)
  BY DEF Fits
<1>5. b \in Block /\ b \in [ptr : Address, size : Size \cup {SlabSize}] /\ b.size = n
  BY <1>2, <1>4 DEF Block
<1>6. HandOut(t, b) /\ mapped' = mapped \cup {b} /\ UNCHANGED <<pooling, slabs, slabFree, pool, cached, snapshot, torn>>
  BY <1>3 DEF Malloc
<1>7. b.size \notin Small \/ pooling
  BY <1>2, <1>5 DEF Direct
<1>8. slabs' \in Seq([base : Address, bump : 1..SlabSize])
  BY <1>6 DEF AllocInv, Types
<1>9. b.size <= b.size
  BY <1>5, BlockFacts
<1> HIDE DEF b, n
<1> QED
  BY <1>1, <1>4, <1>5, <1>6, <1>7, <1>8, <1>9, Grown

\* A slot is carved out of the last slab.
LEMMA BumpInv ==
  ASSUME AllocInv, NEW t \in Thread, Bump(t)
  PROVE  AllocInv'
<1> DEFINE k == Len(slabs)
           n == call[t].size
           b == [ptr |-> slabs[k].base + slabs[k].bump, size |-> n]
           S == [base : Address, bump : 1..SlabSize]
           s == [slabs[k] EXCEPT !.bump = @ + n]
<1>1. /\ Types /\ call[t].at = "bump" /\ slabs # <<>> /\ slabs[k].bump + n <= SlabSize
      /\ slabs' = [slabs EXCEPT ![k].bump = @ + n] /\ HandOut(t, b)
      /\ UNCHANGED <<pooling, mapped, slabFree, pool, cached, snapshot, torn>>
  BY DEF AllocInv, Bump, LastFits, Last
<1>2. n \in Small /\ n \in Size /\ n \in Nat /\ n > 0 /\ ~pooling
  BY <1>1, CallFacts, Sizes
<1>3. k \in DOMAIN slabs
  <2>1. slabs \in Seq([base : Address, bump : 1..SlabSize])
    BY <1>1 DEF Types
  <2> QED
    BY <1>1, <2>1
<1>4. /\ slabs[k].base \in Nat /\ slabs[k].bump \in Nat /\ slabs[k].bump > 0
      /\ slabs[k] \in [base : Address, bump : 1..SlabSize] /\ slabs[k].base + SlabSize <= Memory
  BY <1>1, <1>3, SlabFacts
<1>5. slabs[k].base + slabs[k].bump \in Address
  BY <1>1, <1>2, <1>4, Sizes DEF Address
<1>6. b \in Block /\ b.size = n /\ b.ptr = slabs[k].base + slabs[k].bump
  BY <1>2, <1>5 DEF Block
<1>7. s \in S /\ s.base = slabs[k].base /\ s.bump = slabs[k].bump + n
  <2>1. slabs[k].bump + n \in 1..SlabSize
    BY <1>1, <1>2, <1>4, Sizes
  <2>2. slabs[k] \in S /\ s = [slabs[k] EXCEPT !.bump = slabs[k].bump + n]
    BY <1>4
  <2> QED
    BY <2>1, <2>2
<1>8. slabs' = [slabs EXCEPT ![k] = s] /\ slabs \in Seq(S)
  BY <1>1 DEF Types
<1>9. ~ Holding(t)
  BY <1>1 DEF Holding
<1> HIDE DEF S, s, b, n, k
<1>10. slabs' \in Seq(S) /\ DOMAIN slabs' = DOMAIN slabs /\ slabs'[k] = s /\ \A j \in DOMAIN slabs : j # k => slabs'[j] = slabs[j]
  BY <1>3, <1>7, <1>8
<1>11. \A j \in DOMAIN slabs : slabs'[j].base = slabs[j].base
  BY <1>7, <1>10
<1>12. /\ StepTo(t, Idle) /\ owned' = owned \cup {b} /\ owned' \subseteq Block
       /\ live' \subseteq Block /\ (Known => Known')
  BY <1>1, <1>6, HandOutStep
<1>13. Around' = Around \cup {b} /\ InHands' = InHands
  BY <1>1, <1>6, <1>9, NewAround
<1>14. Types'
  <2>1. Calls' = Calls
    BY <1>1 DEF Calls, Direct
  <2>2. \A i \in DOMAIN slabs' : slabs'[i].base + SlabSize <= Memory
    BY <1>1, <1>10, <1>11 DEF Types
  <2> QED
    BY <1>1, <1>10, <1>12, <2>1, <2>2 DEF Types, StepTo, S
<1>15. Ranges'
  BY <1>1 DEF AllocInv, Ranges
<1>16. Accounted'
  BY <1>1, <1>10, <1>11, <1>12, <1>13 DEF AllocInv, Accounted
<1>17. ASSUME ~torn' PROVE Sound'
  <2>1. Sound
    BY <1>1, <1>17 DEF AllocInv
  <2>2. b.ptr \in Nat /\ b.size \in Nat /\ b.size > 0 /\ b.ptr + b.size <= slabs[k].base + SlabSize
    BY <1>1, <1>2, <1>4, <1>6, Sizes
  <2>3. ASSUME NEW d \in Around PROVE Disjoint(b, d)
    <3>1. Clear(d, slabs[k]) /\ d.ptr \in Nat /\ d.size \in Nat
      BY <1>1, <1>3, <2>1, AroundFacts, BlockFacts DEF Sound, Unused
    <3> QED
      BY <1>4, <1>6, <2>2, <3>1, Sizes DEF Clear, Disjoint
  <2>4. Apart'
    BY <1>1, <1>6, <1>9, <2>1, <2>3, NewApart DEF Sound
  <2>5. \A i \in DOMAIN slabs : [ptr |-> slabs[i].base, size |-> SlabSize] \in mapped
    BY <2>1 DEF Sound, Backed
  <2>6. Unused'
    <3> SUFFICES ASSUME NEW i \in DOMAIN slabs, NEW d \in Around \cup {b} PROVE Clear(d, slabs'[i])
      BY <1>10, <1>13 DEF Unused, Clear
    <3>1. slabs[i].base \in Nat /\ slabs[i].bump \in Nat
      BY <1>1, SlabFacts
    <3>2. CASE d = b /\ i = k
      BY <1>4, <1>6, <1>7, <1>10, <2>2, <3>2 DEF Clear
    <3>3. CASE d = b /\ i # k
      <4> DEFINE r == [ptr |-> slabs[i].base, size |-> SlabSize]
                 q == [ptr |-> slabs[k].base, size |-> SlabSize]
      <4>1. r \in mapped /\ q \in mapped /\ slabs[i].base # slabs[k].base
        BY <1>3, <2>1, <2>5, <3>3 DEF Sound, Bases
      <4>2. r.ptr = slabs[i].base /\ q.ptr = slabs[k].base /\ r.size = SlabSize /\ q.size = SlabSize
        OBVIOUS
      <4> HIDE DEF r, q
      <4>3. Disjoint(r, q)
        BY <4>1, <4>2 DEF AllocInv, Ranges
      <4>4. \/ slabs[i].base + SlabSize <= slabs[k].base
            \/ slabs[k].base + SlabSize <= slabs[i].base
        BY <4>2, <4>3 DEF Disjoint
      <4>5. slabs'[i] = slabs[i]
        BY <1>10, <3>3
      <4> QED
        BY <1>4, <1>6, <2>2, <3>1, <3>3, <4>4, <4>5, Sizes DEF Clear
    <3>4. CASE d \in Around /\ i # k
      BY <1>10, <2>1, <3>4 DEF Sound, Unused
    <3>5. CASE d \in Around /\ i = k
      <4>1. Clear(d, slabs[k]) /\ d.ptr \in Nat /\ d.size \in Nat
        BY <1>1, <1>3, <2>1, <3>5, AroundFacts, BlockFacts DEF Sound, Unused
      <4> QED
        BY <1>2, <1>4, <1>7, <1>10, <3>5, <4>1, Sizes DEF Clear
    <3> QED
      BY <3>2, <3>3, <3>4, <3>5
  <2>7. Bases'
    BY <1>10, <1>11, <2>1 DEF Sound, Bases
  <2>8. Heads'
    BY <1>1, <1>2 DEF Heads
  <2>9. Backed'
    <3> DEFINE q == [ptr |-> slabs[k].base, size |-> SlabSize]
    <3>1. q \in mapped /\ Within(b, q.ptr, q.size)
      BY <1>3, <1>4, <1>6, <2>2, <2>5 DEF Within
    <3> HIDE DEF q
    <3>2. \A d \in Around : \E r \in mapped : Within(d, r.ptr, r.size)
      BY <2>1 DEF Sound, Backed, Mapped, Around, Stored
    <3>3. \A d \in Around' : \E r \in mapped' : Within(d, r.ptr, r.size)
      BY <1>1, <1>13, <3>1, <3>2
    <3>4. \A i \in DOMAIN slabs' : [ptr |-> slabs'[i].base, size |-> SlabSize] \in mapped'
      BY <1>1, <1>10, <1>11, <2>5
    <3> QED
      BY <3>3, <3>4 DEF Backed, Mapped, Around, Stored
  <2> QED
    BY <1>12, <2>1, <2>4, <2>6, <2>7, <2>8, <2>9 DEF Sound
<1> QED
  BY <1>14, <1>15, <1>16, <1>17 DEF AllocInv

-----------------------------------------------------------------------------
(* The actions: memory goes back to the driver.                            *)

LEMMA Shrunk ==
  ASSUME AllocInv, NEW t \in Thread, NEW c, StepTo(t, c), c.at \notin Grips,
         UNCHANGED <<pooling, slabFree, live, owned>>, pool' \subseteq pool,
         cached' \in Nat, snapshot' \in [Thread -> SUBSET Address], mapped' \subseteq mapped, Noted,
         slabs' \in Seq([base : Address, bump : 1..SlabSize]),
         \A k, l \in DOMAIN slabs' :
            \E i, j \in DOMAIN slabs : slabs'[k] = slabs[i] /\ slabs'[l] = slabs[j] /\ (k # l => i # j),
         Accounted'
  PROVE  AllocInv'
<1>1. Types /\ Ranges
  BY DEF AllocInv
<1>2. \A k \in DOMAIN slabs' : \E i \in DOMAIN slabs : slabs'[k] = slabs[i]
  OBVIOUS
<1>3. Types'
  <2>1. Calls' = Calls
    BY DEF Calls, Direct
  <2>2. \A k \in DOMAIN slabs' : slabs'[k].base + SlabSize <= Memory
    BY <1>1, <1>2 DEF Types
  <2>3. torn' \in BOOLEAN
    BY DEF Noted
  <2> QED
    BY <1>1, <2>1, <2>2, <2>3 DEF Types, StepTo
<1>4. Ranges'
  BY <1>1 DEF Ranges
<1>5. ASSUME ~torn' PROVE Sound'
  <2>1. Sound /\ Backed'
    BY <1>5 DEF AllocInv, Noted
  <2>2. Around' \subseteq Around
    <3>1. InHands' \subseteq InHands
      BY HandsStep DEF InHand
    <3> QED
      BY <3>1 DEF Around, Stored
  <2>3. Apart'
    BY <2>1, ApartLess DEF Sound
  <2>4. Unused'
    BY <1>2, <2>1, <2>2 DEF Sound, Unused, Clear
  <2>5. Bases'
    BY <2>1 DEF Sound, Bases
  <2>6. Heads'
    <3> SUFFICES ASSUME pooling, NEW b \in Around' PROVE \E r \in mapped' : r.ptr = b.ptr
      BY DEF Heads
    <3>1. b \in Block /\ b \in Around
      BY <1>1, <2>2, AroundFacts
    <3>2. PICK r \in mapped : r.ptr = b.ptr
      BY <2>1, <3>1 DEF Sound, Heads
    <3>3. PICK q \in mapped' : Within(b, q.ptr, q.size)
      BY <2>1 DEF Backed, Mapped, Around, Stored
    <3>4. q \in mapped /\ q.ptr <= b.ptr /\ b.ptr < q.ptr + q.size
      BY <1>1, <3>1, <3>3, BlockFacts, RangeFacts DEF Within
    <3>5. r.ptr <= b.ptr /\ b.ptr < r.ptr + r.size
      BY <1>1, <3>1, <3>2, BlockFacts, RangeFacts
    <3>6. r = q
      BY <1>1, <3>1, <3>4, <3>5, OneRange, BlockFacts
    <3> QED
      BY <3>2, <3>3, <3>6
  <2>7. Known'
    BY <2>1 DEF Sound, Known
  <2> QED
    BY <2>1, <2>3, <2>4, <2>5, <2>6, <2>7 DEF Sound
<1> QED
  BY <1>3, <1>4, <1>5 DEF AllocInv

\* A block without the pool, or over its cap.
LEMMA FreeDriverInv ==
  ASSUME AllocInv, NEW t \in Thread, FreeDriver(t)
  PROVE  AllocInv'
<1> DEFINE x == call[t].block
<1>1. /\ Types /\ call[t].at = "free" /\ Goto(t, Idle) /\ mapped' = Unmap(x.ptr, mapped) /\ Noted
      /\ UNCHANGED <<pooling, slabs, slabFree, pool, cached, live, owned, snapshot>>
  BY DEF AllocInv, FreeDriver
<1>2. Holding(t) /\ InHand(call[t]) = {x}
  BY <1>1, NoGrip DEF Holding
<1>3. StepTo(t, Idle) /\ Idle.at \notin Grips
  BY <1>1, CallTypes, CallStep, NoGrip
<1> HIDE DEF x
<1>4. \A r \in mapped' : r \in mapped /\ r.ptr # x.ptr
  BY <1>1 DEF Unmap
<1>5. Accounted'
  <2>1. InHands \subseteq InHands' \cup {x}
    BY <1>2, <1>3, HandsStep
  <2> QED
    BY <1>1, <1>4, <2>1 DEF AllocInv, Accounted
<1>6. slabs' \in Seq([base : Address, bump : 1..SlabSize])
  BY <1>1 DEF Types
<1>7. cached' \in Nat /\ snapshot' \in [Thread -> SUBSET Address] /\ mapped' \subseteq mapped
  BY <1>1, <1>4 DEF Types
<1> QED
  BY <1>1, <1>3, <1>5, <1>6, <1>7, Shrunk

\* The slabs no address of the copy points into.
LEMMA DrainSlabsParts ==
  ASSUME Types, NEW t \in Thread, DrainSlabs(t)
  PROVE  \E keep \in SUBSET DOMAIN slabs :
           /\ \A i \in DOMAIN slabs : i \in keep <=> Referenced(slabs[i], snapshot[t])
           /\ \A r : r \in mapped' <=> r \in mapped /\ \A i \in DOMAIN slabs : slabs[i].base = r.ptr => i \in keep
           /\ slabs' \in Seq([base : Address, bump : 1..SlabSize])
           /\ \A i \in keep : \E k \in DOMAIN slabs' : slabs'[k] = slabs[i]
           /\ \A k, l \in DOMAIN slabs' :
                \E i, j \in keep : slabs'[k] = slabs[i] /\ slabs'[l] = slabs[j] /\ (k # l => i # j)
<1> DEFINE keep == {i \in DOMAIN slabs : Referenced(slabs[i], snapshot[t])}
           gone == {slabs[i].base : i \in DOMAIN slabs \ keep}
           S == [base : Address, bump : 1..SlabSize]
<1>1. slabs' = Kept(slabs, keep) /\ mapped' = {r \in mapped : r.ptr \notin gone}
  BY DEF DrainSlabs
<1>2. slabs \in Seq(S) /\ keep \in SUBSET DOMAIN slabs
  BY DEF Types
<1>3. \A a : a \in gone <=> \E i \in DOMAIN slabs : i \notin keep /\ slabs[i].base = a
  OBVIOUS
<1>4. \A i \in DOMAIN slabs : i \in keep <=> Referenced(slabs[i], snapshot[t])
  OBVIOUS
<1> HIDE DEF keep, gone, S
<1>5. /\ slabs' \in Seq(S)
      /\ \A i \in keep : \E k \in DOMAIN slabs' : slabs'[k] = slabs[i]
      /\ \A k, l \in DOMAIN slabs' :
           \E i, j \in keep : slabs'[k] = slabs[i] /\ slabs'[l] = slabs[j] /\ (k # l => i # j)
  BY <1>1, <1>2, KeptEntries
<1>6. \A r : r \in mapped' <=> r \in mapped /\ \A i \in DOMAIN slabs : slabs[i].base = r.ptr => i \in keep
  BY <1>1, <1>3
<1>7. slabs' \in Seq([base : Address, bump : 1..SlabSize])
  BY <1>5 DEF S
<1> QED
  BY <1>2, <1>4, <1>5, <1>6, <1>7

LEMMA DrainSlabsInv ==
  ASSUME AllocInv, NEW t \in Thread, DrainSlabs(t)
  PROVE  AllocInv'
<1> DEFINE c == [call[t] EXCEPT !.at = "pool"]
<1>1. /\ Types /\ call[t].at = "slabs" /\ Goto(t, c) /\ Noted
      /\ UNCHANGED <<pooling, slabFree, pool, cached, live, owned, snapshot>>
  BY DEF AllocInv, DrainSlabs
<1>2. c \in Calls /\ c.at = "pool"
  BY <1>1, NextPlace DEF Emptied
<1> HIDE DEF c
<1>3. StepTo(t, c) /\ c.at \notin Grips /\ InHand(call[t]) = {}
  BY <1>1, <1>2, CallStep DEF Grips, InHand
<1>4. PICK keep \in SUBSET DOMAIN slabs :
           /\ \A i \in DOMAIN slabs : i \in keep <=> Referenced(slabs[i], snapshot[t])
           /\ \A r : r \in mapped' <=> r \in mapped /\ \A i \in DOMAIN slabs : slabs[i].base = r.ptr => i \in keep
           /\ slabs' \in Seq([base : Address, bump : 1..SlabSize])
           /\ \A i \in keep : \E k \in DOMAIN slabs' : slabs'[k] = slabs[i]
           /\ \A k, l \in DOMAIN slabs' :
                \E i, j \in keep : slabs'[k] = slabs[i] /\ slabs'[l] = slabs[j] /\ (k # l => i # j)
  BY <1>1, DrainSlabsParts
<1>5. Accounted'
  <2> SUFFICES ASSUME ~pooling, NEW r \in mapped'
               PROVE  \/ \E k \in DOMAIN slabs' : slabs'[k].base = r.ptr
                      \/ \E b \in owned' \cup InHands' : b.size \notin Small /\ b.ptr = r.ptr
    BY <1>1 DEF Accounted
  <2>1. r \in mapped /\ \A i \in DOMAIN slabs : slabs[i].base = r.ptr => i \in keep
    BY <1>4
  <2>2. CASE \E i \in DOMAIN slabs : slabs[i].base = r.ptr
    <3>1. PICK i \in DOMAIN slabs : slabs[i].base = r.ptr
      BY <2>2
    <3>2. PICK k \in DOMAIN slabs' : slabs'[k] = slabs[i]
      BY <1>4, <2>1, <3>1
    <3> QED
      BY <3>1, <3>2
  <2>3. CASE \E b \in owned \cup InHands : b.size \notin Small /\ b.ptr = r.ptr
    <3>1. InHands \subseteq InHands'
      BY <1>3, HandsStep
    <3> QED
      BY <1>1, <2>3, <3>1
  <2> QED
    BY <1>1, <2>1, <2>2, <2>3 DEF AllocInv, Accounted
<1>6. \A k, l \in DOMAIN slabs' :
        \E i, j \in DOMAIN slabs : slabs'[k] = slabs[i] /\ slabs'[l] = slabs[j] /\ (k # l => i # j)
  <2> SUFFICES ASSUME NEW k \in DOMAIN slabs', NEW l \in DOMAIN slabs'
               PROVE  \E i, j \in DOMAIN slabs : slabs'[k] = slabs[i] /\ slabs'[l] = slabs[j] /\ (k # l => i # j)
    OBVIOUS
  <2>1. PICK i \in keep, j \in keep : slabs'[k] = slabs[i] /\ slabs'[l] = slabs[j] /\ (k # l => i # j)
    BY <1>4
  <2> QED
    BY <2>1
<1>7. mapped' \subseteq mapped
  BY <1>4
<1>8. slabs' \in Seq([base : Address, bump : 1..SlabSize])
  BY <1>4
<1>9. pool' \subseteq pool /\ cached' \in Nat /\ snapshot' \in [Thread -> SUBSET Address]
  BY <1>1 DEF Types
<1> QED
  BY <1>1, <1>3, <1>5, <1>6, <1>7, <1>8, <1>9, Shrunk

\* The pooled blocks go back to the driver.
LEMMA DrainPoolInv ==
  ASSUME AllocInv, NEW t \in Thread, DrainPool(t)
  PROVE  AllocInv'
<1> DEFINE c == IF call[t].size = 0 THEN Idle ELSE Want("retry", call[t].size)
<1>1. /\ Types /\ call[t].at = "pool" /\ Goto(t, c) /\ pool' = {} /\ snapshot' = [snapshot EXCEPT ![t] = {}]
      /\ mapped' = Drained(t) /\ cached' = 0 /\ Noted
      /\ UNCHANGED <<pooling, slabs, slabFree, live, owned>>
  BY DEF AllocInv, DrainPool
<1>2. call[t].size \in {0} \cup Direct
  BY <1>1, CallFacts DEF Emptied
<1>3. c \in Calls /\ c.at \in {"idle", "retry"}
  BY <1>2, CallTypes
<1> HIDE DEF c
<1>4. StepTo(t, c) /\ c.at \notin Grips /\ InHand(call[t]) = {}
  BY <1>1, <1>3, CallStep DEF Grips, InHand
<1>5. mapped' \subseteq mapped
  BY <1>1 DEF Drained
<1>6. Accounted'
  <2>1. InHands \subseteq InHands'
    BY <1>4, HandsStep
  <2> QED
    BY <1>1, <1>5, <2>1 DEF AllocInv, Accounted
<1>7. snapshot' \in [Thread -> SUBSET Address] /\ slabs' \in Seq([base : Address, bump : 1..SlabSize])
  BY <1>1 DEF Types
<1>8. cached' \in Nat /\ pool' \subseteq pool
  BY <1>1
<1>9. \A k, l \in DOMAIN slabs' :
        \E i, j \in DOMAIN slabs : slabs'[k] = slabs[i] /\ slabs'[l] = slabs[j] /\ (k # l => i # j)
  BY <1>1
<1> QED
  BY <1>1, <1>4, <1>5, <1>6, <1>7, <1>8, <1>9, Shrunk

-----------------------------------------------------------------------------
(* The invariant, and what it says.                                        *)

LEMMA AllocInit == Init => AllocInv
<1> SUFFICES ASSUME Init PROVE AllocInv
  OBVIOUS
<1>1. \A t \in Thread : call[t] = Idle /\ ~ Holding(t)
  BY IdleHands DEF Init
<1>2. call \in [Thread -> Calls] /\ snapshot \in [Thread -> SUBSET Address]
  BY CallTypes DEF Init
<1>3. /\ slabs = <<>> /\ DOMAIN slabs = {} /\ mapped = {} /\ slabFree = {} /\ pool = {} /\ live = {} /\ owned = {}
      /\ cached = 0 /\ torn = FALSE /\ pooling \in BOOLEAN
  BY DEF Init
<1>4. slabs \in Seq([base : Address, bump : 1..SlabSize])
  BY <1>3
<1>5. Types /\ Ranges /\ Accounted
  BY <1>2, <1>3, <1>4 DEF Types, Ranges, Accounted
<1>6. InHands = {} /\ Stored = {} /\ Around = {}
  BY <1>1, <1>3 DEF InHands, Stored, Around
<1>7. Apart
  BY <1>1, <1>3, <1>6 DEF Apart
<1>8. Backed /\ Unused /\ Bases /\ Heads /\ Known
  BY <1>3, <1>6 DEF Backed, Unused, Bases, Heads, Known, Around
<1> QED
  BY <1>5, <1>7, <1>8 DEF AllocInv, Sound

LEMMA AllocNext ==
  ASSUME AllocInv, [Next]_vars
  PROVE  AllocInv'
<1>1. CASE UNCHANGED vars
  <2>1. Types' /\ Ranges' /\ Accounted'
    BY <1>1 DEF vars, AllocInv, Types, Calls, Direct, Ranges, Accounted, InHands, Holding
  <2>2. Sound => Backed' /\ Apart'
    BY <1>1 DEF vars, Sound, Backed, Mapped, InHands, Apart, Stored, Holding
  <2>3. Sound => Unused' /\ Bases' /\ Heads' /\ Known'
    BY <1>1 DEF vars, Sound, Unused, Bases, Heads, Known, Around, Stored, InHands, Holding, Clear
  <2> QED
    BY <1>1, <2>1, <2>2, <2>3 DEF vars, AllocInv, Sound
<1>2. CASE Next
  <2>1. PICK t \in Thread :
          \/ \E n \in Size : AllocSlot(t, n) \/ AllocPooled(t, n) \/ AllocMiss(t, n)
          \/ TakePooled(t) \/ Bump(t) \/ NewSlab(t) \/ Malloc(t) \/ MallocFails(t)
          \/ FragmentationSlab(t) \/ AllocFails(t)
          \/ \E b \in owned : Free(t, b)
          \/ FreeSlot(t) \/ FreeDriver(t) \/ FreePool(t) \/ PushPool(t)
          \/ EmptyCache(t) \/ CopyLive(t) \/ ClearSlots(t) \/ DrainSlabs(t) \/ DrainPool(t)
    BY <1>2 DEF Next
  <2>2. CASE \E n \in Size : AllocSlot(t, n) \/ AllocPooled(t, n) \/ AllocMiss(t, n)
    BY <2>2, AllocSlotInv, AllocPooledInv, AllocMissInv
  <2>3. CASE TakePooled(t) \/ Bump(t) \/ NewSlab(t) \/ Malloc(t) \/ MallocFails(t)
    BY <2>3, TakePooledInv, BumpInv, NewSlabInv, MallocInv, MallocFailsInv
  <2>4. CASE FragmentationSlab(t) \/ AllocFails(t) \/ \E b \in owned : Free(t, b)
    BY <2>4, FragmentationSlabInv, AllocFailsInv, FreeInv
  <2>5. CASE FreeSlot(t) \/ FreeDriver(t) \/ FreePool(t) \/ PushPool(t)
    BY <2>5, FreeSlotInv, FreeDriverInv, FreePoolInv, PushPoolInv
  <2>6. CASE EmptyCache(t) \/ CopyLive(t) \/ ClearSlots(t) \/ DrainSlabs(t) \/ DrainPool(t)
    BY <2>6, EmptyCacheInv, CopyLiveInv, ClearSlotsInv, DrainSlabsInv, DrainPoolInv
  <2> QED
    BY <2>1, <2>2, <2>3, <2>4, <2>5, <2>6
<1> QED
  BY <1>1, <1>2

\* The inductive invariant of the allocator.
THEOREM AllocatorInvariant == Spec => []AllocInv
<1>1. Init => AllocInv
  BY AllocInit
<1>2. AllocInv /\ [Next]_vars => AllocInv'
  BY AllocNext
<1> QED
  BY <1>1, <1>2, PTL DEF Spec

\* The state has its type, in both modes.
THEOREM AllocatorTypeOK == Spec => []TypeOK
<1>1. AllocInv => TypeOK
  BY DEF AllocInv, Types, TypeOK
<1> QED
  BY <1>1, AllocatorInvariant, PTL

\* No block is handed out while a storage, a free list or the pool has it, nor
\* one that overlaps it, whatever calls interleave, as long as nothing that
\* counts was unmapped.
THEOREM NeverTwoOwners == Spec => []NoDoubleBooking
<1>1. AllocInv => NoDoubleBooking
  BY DEF AllocInv, Sound, Apart, Stored, NoDoubleBooking
<1> QED
  BY <1>1, AllocatorInvariant, PTL

\* Without the pool, between calls every range of the driver is held or a slab,
\* also after a race of empty_cache and after the fallback of a large request.
THEOREM NothingIsLeaked == Spec => []NoneLeaked
<1>1. ASSUME AllocInv PROVE NoneLeaked
  <2> SUFFICES ASSUME ~pooling, \A t \in Thread : call[t] = Idle, NEW r \in mapped
               PROVE  \/ \E b \in owned : b.ptr = r.ptr
                      \/ \E i \in DOMAIN slabs : slabs[i].base = r.ptr
    BY DEF NoneLeaked, Quiet
  <2>1. InHands = {}
    BY IdleHands DEF InHands
  <2> QED
    BY <1>1, <2>1 DEF AllocInv, Accounted
<1> QED
  BY <1>1, AllocatorInvariant, PTL

\* A range that holds a recorded block is not that of a dropped slab.
LEMMA SlabSpared ==
  ASSUME AllocInv, ~torn, NEW t \in Thread, DrainSlabs(t), NEW b \in owned, b.ptr \in snapshot[t]
  PROVE  \E r \in mapped' : Within(b, r.ptr, r.size)
<1>1. Types /\ Ranges /\ Sound
  BY DEF AllocInv
<1>2. PICK r \in mapped : Within(b, r.ptr, r.size)
  BY <1>1 DEF Sound, Backed, Mapped
<1>3. b \in Block /\ b.ptr \in Nat
  BY <1>1, BlockFacts DEF Types
<1>4. PICK keep \in SUBSET DOMAIN slabs :
           /\ \A i \in DOMAIN slabs : i \in keep <=> Referenced(slabs[i], snapshot[t])
           /\ \A q : q \in mapped' <=> q \in mapped /\ \A i \in DOMAIN slabs : slabs[i].base = q.ptr => i \in keep
  BY <1>1, DrainSlabsParts
<1>5. ASSUME NEW i \in DOMAIN slabs, slabs[i].base = r.ptr PROVE i \in keep
  <2> DEFINE q == [ptr |-> slabs[i].base, size |-> SlabSize]
  <2>1. q \in mapped /\ q.ptr = slabs[i].base /\ q.size = SlabSize
    BY <1>1 DEF Sound, Backed
  <2> HIDE DEF q
  <2>2. r = q
    BY <1>1, <1>5, <2>1, RangeFacts, OneRange
  <2>3. slabs[i].base <= b.ptr /\ b.ptr < slabs[i].base + SlabSize
    BY <1>1, <1>2, <1>3, <2>1, <2>2, BlockFacts, RangeFacts DEF Within
  <2> QED
    BY <1>4, <2>3 DEF Referenced
<1>6. r \in mapped'
  BY <1>4, <1>5
<1> QED
  BY <1>2, <1>6

\* Nor is it one of a pooled block.
LEMMA PoolSpares ==
  ASSUME AllocInv, ~torn, NEW t \in Thread, DrainPool(t), NEW b \in owned
  PROVE  \E r \in mapped' : Within(b, r.ptr, r.size)
<1>1. Types /\ Ranges /\ Sound
  BY DEF AllocInv
<1>2. PICK r \in mapped : Within(b, r.ptr, r.size)
  BY <1>1 DEF Sound, Backed, Mapped
<1>3. b \in Block
  BY <1>1 DEF Types
<1>4. ASSUME NEW d \in pool, d.ptr = r.ptr PROVE FALSE
  <2>1. pooling /\ d \in Block
    BY <1>1, <1>4 DEF Types
  <2>2. PICK q \in mapped : q.ptr = b.ptr
    BY <1>1, <2>1 DEF Sound, Heads, Around, Stored
  <2>3. r.ptr <= b.ptr /\ b.ptr < r.ptr + r.size
    BY <1>1, <1>2, <1>3, BlockFacts, RangeFacts DEF Within
  <2>4. q.ptr <= b.ptr /\ b.ptr < q.ptr + q.size
    BY <1>1, <1>3, <2>2, BlockFacts, RangeFacts
  <2>5. q = r
    BY <1>1, <1>3, <2>3, <2>4, BlockFacts, OneRange
  <2>6. d.ptr = b.ptr
    BY <1>4, <2>2, <2>5
  <2>7. b # d /\ Disjoint(b, d)
    BY <1>1 DEF Sound, Apart, Stored
  <2> QED
    BY <1>3, <2>1, <2>6, <2>7, BlockFacts, DisjointPtr
<1>5. r \in mapped'
  BY <1>4 DEF DrainPool, Drained
<1> QED
  BY <1>2, <1>5

\* "A slab may only be unmapped once NOTHING live points into it": the copy of
\* live that empty_cache takes has every block held at that moment, and the
\* slabs and the pooled blocks it unmaps leave every block of the copy mapped.
THEOREM LiveIsSpared == Spec => LiveSurvives
<1>1. ASSUME AllocInv, NEW t \in Thread, ~torn, CopyLive(t), NEW b \in owned PROVE b.ptr \in snapshot'[t]
  <2>1. PICK d \in live : d.ptr = b.ptr
    BY <1>1 DEF AllocInv, Sound, Known
  <2>2. snapshot' = [snapshot EXCEPT ![t] = {e.ptr : e \in live}] /\ snapshot \in [Thread -> SUBSET Address]
    BY <1>1 DEF CopyLive, AllocInv, Types
  <2> QED
    BY <2>1, <2>2
<1>2. ASSUME AllocInv, NEW t \in Thread, ~torn, DrainSlabs(t) \/ DrainPool(t), NEW b \in owned, b.ptr \in snapshot[t]
      PROVE  Mapped(b)'
  BY <1>2, SlabSpared, PoolSpares DEF Mapped
<1>3. AllocInv /\ [Next]_vars =>
        [\A t \in Thread : ~torn =>
           /\ CopyLive(t) => \A b \in owned : b.ptr \in snapshot'[t]
           /\ DrainSlabs(t) \/ DrainPool(t) =>
                \A b \in owned : b.ptr \in snapshot[t] => Mapped(b)']_vars
  BY <1>1, <1>2
<1> QED
  BY <1>3, AllocatorInvariant, PTL DEF Spec, LiveSurvives


-----------------------------------------------------------------------------
(* The sum of the sizes of a set of blocks.                                *)

\* The sum of the sizes of a set of blocks, and the table MapThenSumSet
\* computes it with.
SizeSum(P) == MapThenSumSet(LAMBDA b : b.size, P)
Chosen(s)  == CHOOSE x \in s : TRUE
Unfold(g, s) == IF s = {} THEN 0 ELSE Chosen(s).size + g[s \ {Chosen(s)}]
IsTable(g, S) == g = [s \in SUBSET S |-> Unfold(g, s)]

\* Induction, for a set of naturals.
LEMMA NatSetInduction ==
  ASSUME NEW K, 0 \in K, \A n \in Nat : n \in K => n + 1 \in K
  PROVE  Nat \subseteq K
<1> SUFFICES ASSUME Nat \ K # {} PROVE FALSE
  OBVIOUS
<1>1. PICK x \in Nat \ K : \A y \in Nat \ K : ~ (<<y, x>> \in OpToRel(<, Nat))
  BY NatLessThanWellFounded, WFMin
<1>2. \A y \in Nat \ K : ~ (y < x)
  BY <1>1 DEF OpToRel
<1>3. x # 0 /\ x \in Nat
  OBVIOUS
<1>4. PICK y \in Nat : y + 1 = x
  <2>1. x - 1 \in Nat /\ (x - 1) + 1 = x
    BY <1>3
  <2> QED
    BY <2>1
<1>5. y < x
  BY <1>4
<1>6. y \in K
  BY <1>2, <1>5
<1> QED
  BY <1>1, <1>4, <1>6

LEMMA ChosenIn ==
  ASSUME NEW s, s # {}
  PROVE  Chosen(s) \in s
BY DEF Chosen

\* The subsets of a finite set of blocks, without the chosen one.
LEMMA WithoutOne ==
  ASSUME NEW s, IsFiniteSet(s), NEW x \in s
  PROVE  IsFiniteSet(s \ {x}) /\ Cardinality(s) \in Nat /\ Cardinality(s \ {x}) \in Nat /\ Cardinality(s) = Cardinality(s \ {x}) + 1
<1>1. IsFiniteSet(s \ {x}) /\ Cardinality(s \ {x}) = Cardinality(s) - 1
  BY FS_RemoveElement
<1>2. Cardinality(s) \in Nat /\ Cardinality(s \ {x}) \in Nat
  BY <1>1, FS_CardinalityType
<1> QED
  BY <1>1, <1>2

\* There is a table for a finite set: one that is right up to n elements gives
\* one that is right up to n + 1.
LEMMA TableExists ==
  ASSUME NEW S, IsFiniteSet(S)
  PROVE  \E g : IsTable(g, S)
<1> DEFINE Good(g, n) == \A s \in SUBSET S : Cardinality(s) <= n => g[s] = Unfold(g, s)
           K == {n \in Nat : \E g : Good(g, n)}
           Next1(g) == [s \in SUBSET S |-> Unfold(g, s)]
<1>1. \A s \in SUBSET S : IsFiniteSet(s) /\ Cardinality(s) \in Nat
  BY FS_Subset, FS_CardinalityType
<1>2. ASSUME NEW g, NEW n \in Nat, Good(g, n)
      PROVE  Good(Next1(g), n + 1)
  <2> SUFFICES ASSUME NEW s \in SUBSET S, Cardinality(s) <= n + 1
               PROVE  Next1(g)[s] = Unfold(Next1(g), s)
    OBVIOUS
  <2>1. CASE s = {}
    BY <2>1 DEF Unfold
  <2>2. CASE s # {}
    <3> DEFINE r == s \ {Chosen(s)}
    <3>1. r \in SUBSET S /\ Cardinality(r) <= n
      BY <1>1, <2>2, ChosenIn, WithoutOne
    <3>2. g[r] = Unfold(g, r)
      BY <1>2, <3>1
    <3>3. Next1(g)[r] = g[r]
      BY <3>1, <3>2
    <3>4. Next1(g)[s] = Chosen(s).size + g[r] /\ Unfold(Next1(g), s) = Chosen(s).size + Next1(g)[r]
      BY <2>2 DEF Unfold
    <3> QED
      BY <3>3, <3>4
  <2> QED
    BY <2>1, <2>2
<1>3. 0 \in K
  <2> DEFINE g == [s \in SUBSET S |-> 0]
  <2>1. Good(g, 0)
    <3> SUFFICES ASSUME NEW s \in SUBSET S, Cardinality(s) <= 0 PROVE g[s] = Unfold(g, s)
      OBVIOUS
    <3>1. s = {}
      BY <1>1, FS_EmptySet
    <3> QED
      BY <3>1 DEF Unfold
  <2> QED
    BY <2>1
<1>4. \A n \in Nat : n \in K => n + 1 \in K
  <2> SUFFICES ASSUME NEW n \in Nat, n \in K PROVE \E g : Good(g, n + 1)
    OBVIOUS
  <2>1. PICK g : Good(g, n)
    OBVIOUS
  <2>2. Good(Next1(g), n + 1)
    <3> HIDE DEF Good, Next1
    <3> QED
      BY <2>1, <1>2
  <2> HIDE DEF Good
  <2> QED
    BY <2>2
<1>5. Cardinality(S) \in K
  <2> HIDE DEF K
  <2> QED
    BY <1>1, <1>3, <1>4, NatSetInduction
<1>6. PICK g : Good(g, Cardinality(S))
  BY <1>5
<1>7. \A s \in SUBSET S : g[s] = Unfold(g, s)
  BY <1>1, <1>6, FS_Subset
<1>8. \A s \in SUBSET S : Next1(g)[s] = Unfold(Next1(g), s)
  <2> SUFFICES ASSUME NEW s \in SUBSET S PROVE Unfold(g, s) = Unfold(Next1(g), s)
    OBVIOUS
  <2>1. Next1(g)[s \ {Chosen(s)}] = g[s \ {Chosen(s)}]
    BY <1>7
  <2> QED
    BY <2>1 DEF Unfold
<1>9. IsTable(Next1(g), S)
  BY <1>8 DEF IsTable
<1> QED
  BY <1>9

\* Two tables agree on the sets both have.
LEMMA TablesAgree ==
  ASSUME NEW S, NEW T \in SUBSET S, IsFiniteSet(S), NEW g, NEW h, IsTable(g, S), IsTable(h, T)
  PROVE  \A s \in SUBSET T : g[s] = h[s]
<1> DEFINE K == {n \in Nat : \A s \in SUBSET T : Cardinality(s) = n => g[s] = h[s]}
<1>1. \A s \in SUBSET T : IsFiniteSet(s) /\ Cardinality(s) \in Nat
  BY FS_Subset, FS_CardinalityType
<1>2. \A s \in SUBSET T : g[s] = Unfold(g, s) /\ h[s] = Unfold(h, s)
  <2>1. \A s \in SUBSET S : [u \in SUBSET S |-> Unfold(g, u)][s] = Unfold(g, s)
    OBVIOUS
  <2>2. \A s \in SUBSET T : [u \in SUBSET T |-> Unfold(h, u)][s] = Unfold(h, s)
    OBVIOUS
  <2> QED
    BY <2>1, <2>2 DEF IsTable
<1>3. 0 \in K
  <2> SUFFICES ASSUME NEW s \in SUBSET T, Cardinality(s) = 0 PROVE g[s] = h[s]
    OBVIOUS
  <2>1. s = {}
    BY <1>1, FS_EmptySet
  <2> QED
    BY <2>1, <1>2 DEF Unfold
<1>4. ASSUME NEW n \in Nat, n \in K PROVE n + 1 \in K
  <2> SUFFICES ASSUME NEW s \in SUBSET T, Cardinality(s) = n + 1 PROVE g[s] = h[s]
    OBVIOUS
  <2> DEFINE r == s \ {Chosen(s)}
  <2>1. s # {}
    BY FS_EmptySet
  <2>2. r \in SUBSET T /\ Cardinality(r) = n
    BY <1>1, <2>1, ChosenIn, WithoutOne
  <2>3. g[r] = h[r]
    BY <1>4, <2>2
  <2> QED
    BY <1>2, <2>1, <2>3 DEF Unfold
<1>5. Nat \subseteq K
  <2> HIDE DEF K
  <2> QED
    BY <1>3, <1>4, NatSetInduction
<1> QED
  BY <1>1, <1>5

\* The table the fold uses.
Table(S) == CHOOSE g : IsTable(g, S)

LEMMA SizeSumTable ==
  ASSUME NEW P
  PROVE  SizeSum(P) = Table(P)[P]
BY DEF SizeSum, MapThenSumSet, MapThenFoldSet, Table, IsTable, Unfold, Chosen

\* The sum takes the chosen block off first ...
LEMMA SizeSumUnfold ==
  ASSUME NEW P, IsFiniteSet(P)
  PROVE  /\ P = {} => SizeSum(P) = 0
         /\ P # {} => SizeSum(P) = Chosen(P).size + SizeSum(P \ {Chosen(P)})
<1>1. IsTable(Table(P), P)
  BY TableExists DEF Table
<1>2. SizeSum(P) = Unfold(Table(P), P)
  <2>1. [s \in SUBSET P |-> Unfold(Table(P), s)][P] = Unfold(Table(P), P)
    OBVIOUS
  <2> QED
    BY <1>1, <2>1, SizeSumTable DEF IsTable
<1>3. CASE P = {}
  BY <1>2, <1>3 DEF Unfold
<1>4. CASE P # {}
  <2> DEFINE r == P \ {Chosen(P)}
  <2>1. IsFiniteSet(r) /\ r \in SUBSET P
    BY FS_Subset
  <2>2. IsTable(Table(r), r)
    BY <2>1, TableExists DEF Table
  <2>3. Table(P)[r] = Table(r)[r]
    BY <1>1, <2>1, <2>2, TablesAgree
  <2> QED
    BY <1>2, <1>4, <2>3, SizeSumTable DEF Unfold
<1> QED
  BY <1>3, <1>4

\* ... and any other block would do.
LEMMA SizeSumRemove ==
  ASSUME NEW Q, \A b \in Q : b.size \in Nat
  PROVE  \A P \in SUBSET Q : IsFiniteSet(P) =>
           SizeSum(P) \in Nat /\ \A x \in P : SizeSum(P) = x.size + SizeSum(P \ {x})
<1> DEFINE Good(P) == SizeSum(P) \in Nat /\ \A x \in P : SizeSum(P) = x.size + SizeSum(P \ {x})
           K == {n \in Nat : \A P \in SUBSET Q : IsFiniteSet(P) /\ Cardinality(P) <= n => Good(P)}
<1>1. 0 \in K
  <2> SUFFICES ASSUME NEW P \in SUBSET Q, IsFiniteSet(P), Cardinality(P) <= 0 PROVE Good(P)
    OBVIOUS
  <2>1. P = {}
    BY FS_EmptySet, FS_CardinalityType
  <2>2. SizeSum(P) = 0
    BY <2>1, SizeSumUnfold
  <2> QED
    BY <2>1, <2>2
<1>2. ASSUME NEW n \in Nat, n \in K PROVE n + 1 \in K
  <2> SUFFICES ASSUME NEW P \in SUBSET Q, IsFiniteSet(P), Cardinality(P) <= n + 1 PROVE Good(P)
    OBVIOUS
  <2>1. ASSUME P = {} PROVE Good(P)
    BY <1>2, <2>1, FS_EmptySet
  <2> SUFFICES ASSUME P # {} PROVE Good(P)
    BY <2>1
  <2>2. PICK p \in P : p = Chosen(P)
    BY ChosenIn
  <2>3. SizeSum(P) = p.size + SizeSum(P \ {p})
    BY <2>2, SizeSumUnfold
  <2>4. \A x \in P : Good(P \ {x})
    <3> SUFFICES ASSUME NEW x \in P PROVE Good(P \ {x})
      OBVIOUS
    <3>1. IsFiniteSet(P \ {x}) /\ Cardinality(P \ {x}) <= n
      BY WithoutOne
    <3> HIDE DEF Good
    <3> QED
      BY <1>2, <3>1
  <2>5. SizeSum(P) \in Nat
    BY <2>3, <2>4
  <2>6. ASSUME NEW x \in P PROVE SizeSum(P) = x.size + SizeSum(P \ {x})
    <3>1. CASE x = p
      BY <2>3, <3>1
    <3>2. CASE x # p
      <4>1. (P \ {p}) \ {x} = (P \ {x}) \ {p}
        OBVIOUS
      <4>2. SizeSum(P \ {p}) = x.size + SizeSum((P \ {p}) \ {x})
        BY <2>4, <3>2
      <4>3. SizeSum(P \ {x}) = p.size + SizeSum((P \ {x}) \ {p})
        BY <2>4, <3>2
      <4>4. SizeSum(P \ {p}) \in Nat /\ SizeSum(P \ {x}) \in Nat
        BY <2>4
      <4>5. SizeSum((P \ {x}) \ {p}) \in Nat
        <5>1. IsFiniteSet(P \ {x}) /\ Cardinality(P \ {x}) <= n /\ Cardinality(P \ {x}) \in Nat
          BY WithoutOne
        <5>2. IsFiniteSet((P \ {x}) \ {p}) /\ Cardinality((P \ {x}) \ {p}) <= n
          BY <3>2, <5>1, WithoutOne
        <5>3. Good((P \ {x}) \ {p})
          <6> HIDE DEF Good
          <6> QED
            BY <1>2, <5>2
        <5> QED
          BY <5>3
      <4> DEFINE z == SizeSum((P \ {x}) \ {p})
      <4>6. p.size \in Nat /\ x.size \in Nat
        OBVIOUS
      <4>7. SizeSum(P) = p.size + (x.size + z) /\ SizeSum(P \ {x}) = p.size + z
        BY <2>3, <4>1, <4>2, <4>3
      <4> HIDE DEF z
      <4>8. p.size + (x.size + z) = x.size + (p.size + z)
        BY <4>5, <4>6 DEF z
      <4> QED
        BY <4>7, <4>8
    <3> QED
      BY <3>1, <3>2
  <2> QED
    BY <2>5, <2>6
<1>3. Nat \subseteq K
  <2> HIDE DEF K
  <2> QED
    BY <1>1, <1>2, NatSetInduction
<1> QED
  BY <1>3, FS_CardinalityType

-----------------------------------------------------------------------------
(* The count of the pool.                                                  *)

\* What cached_bytes counts at most: the pool, and the blocks taken from it whose
\* call has not lowered the count yet.
InPop   == {t \in Thread : call[t].at = "popped"}
Counted == pool \cup {call[t].block : t \in InPop}
Counts  == IsFiniteSet(Counted) /\ (~torn => cached <= SizeSum(Counted))

LEMMA CountedBlocks ==
  ASSUME Types
  PROVE  Counted \subseteq Block /\ \A b \in Counted : b.size \in Nat
<1>1. \A t \in InPop : call[t].block \in Block
  BY CallFacts DEF InPop, Holding
<1>2. Counted \subseteq Block
  BY <1>1 DEF Counted, Types
<1> QED
  BY <1>2, BlockFacts

LEMMA CountedSum ==
  ASSUME Types, Counts
  PROVE  /\ SizeSum(Counted) \in Nat
         /\ \A b \in Counted : /\ SizeSum(Counted \ {b}) \in Nat
                               /\ SizeSum(Counted) = b.size + SizeSum(Counted \ {b})
<1>1. \A b \in Counted : b.size \in Nat
  BY CountedBlocks
<1>2. IsFiniteSet(Counted) /\ \A b \in Counted : IsFiniteSet(Counted \ {b})
  BY FS_Subset DEF Counts
<1>3. Counted \in SUBSET Counted /\ \A b \in Counted : Counted \ {b} \in SUBSET Counted
  OBVIOUS
<1> QED
  BY <1>1, <1>2, <1>3, SizeSumRemove

\* A step outside the pool.
LEMMA CountsOther ==
  ASSUME Types, Counts, NEW t \in Thread, NEW c, Goto(t, c), c.at # "popped", call[t].at # "popped",
         UNCHANGED <<pool, cached>>, torn => torn'
  PROVE  Counts'
<1>1. call'[t] = c /\ \A u \in Thread : u # t => call'[u] = call[u]
  BY DEF Types, Goto
<1>2. InPop' = InPop /\ \A u \in InPop : call'[u] = call[u]
  BY <1>1 DEF InPop
<1>3. Counted' = Counted
  BY <1>2 DEF Counted
<1> QED
  BY <1>3 DEF Counts

\* The pop moves a block from the pool to the call.
LEMMA CountsAllocPooled ==
  ASSUME AllocInv, Counts, NEW t \in Thread, NEW n \in Size, AllocPooled(t, n)
  PROVE  Counts'
<1>1. PICK b \in pool : pool' = pool \ {b} /\ Goto(t, At("popped", b))
  BY DEF AllocPooled
<1>2. call[t].at # "popped" /\ cached' = cached /\ torn' = torn
  BY CallTypes DEF AllocPooled
<1>3. call'[t] = At("popped", b) /\ \A u \in Thread : u # t => call'[u] = call[u]
  BY <1>1 DEF AllocInv, Types, Goto
<1>4. call'[t].at = "popped" /\ call'[t].block = b
  BY <1>3 DEF At
<1>5. InPop' = InPop \cup {t} /\ t \notin InPop /\ \A u \in InPop : call'[u] = call[u]
  BY <1>2, <1>3, <1>4 DEF InPop
<1>6. {call'[u].block : u \in InPop'} = {call[u].block : u \in InPop} \cup {b}
  BY <1>4, <1>5
<1>7. Counted' = Counted
  BY <1>1, <1>6 DEF Counted
<1> QED
  BY <1>2, <1>7 DEF Counts

\* The call lowers the count by the block it took, or to zero.
LEMMA CountsTakePooled ==
  ASSUME AllocInv, Counts, NEW t \in Thread, TakePooled(t)
  PROVE  Counts'
<1> DEFINE b == call[t].block
<1>1. call[t].at = "popped" /\ Goto(t, Idle) /\ cached' = Uncache(b.size) /\ pool' = pool /\ torn' = torn
  BY DEF TakePooled, HandOut
<1>2. Types
  BY DEF AllocInv
<1>3. call'[t] = Idle /\ \A u \in Thread : u # t => call'[u] = call[u]
  BY <1>1, <1>2 DEF Types, Goto
<1>4. InPop' = InPop \ {t} /\ t \in InPop /\ \A u \in InPop' : call'[u] = call[u]
  BY <1>1, <1>3, CallTypes DEF InPop
<1>5. Counted' \subseteq Counted /\ IsFiniteSet(Counted')
  <2>1. Counted' \subseteq Counted
    BY <1>1, <1>4 DEF Counted
  <2> QED
    BY <2>1, FS_Subset DEF Counts
<1>6. ASSUME ~torn PROVE cached' <= SizeSum(Counted')
  <2>1. Apart
    BY <1>6 DEF AllocInv, Sound
  <2>2. b \notin pool
    BY <1>1, <1>2, <2>1, HeldApart DEF Holding, Stored
  <2>3. \A u \in InPop' : call[u].block # b
    <3> SUFFICES ASSUME NEW u \in InPop' PROVE call[u].block # b
      OBVIOUS
    <3>1. u \in Thread /\ u # t /\ Holding(u) /\ Holding(t)
      BY <1>4 DEF InPop, Holding
    <3>2. Disjoint(call[u].block, b) /\ call[u].block \in Block /\ b \in Block
      BY <1>2, <2>1, <3>1, CallFacts DEF Apart
    <3> QED
      BY <3>2, BlockFacts, DisjointPtr
  <2>4. Counted' = Counted \ {b} /\ b \in Counted
    BY <1>1, <1>4, <2>2, <2>3 DEF Counted
  <2>5. cached <= b.size + SizeSum(Counted \ {b}) /\ SizeSum(Counted \ {b}) \in Nat
    BY <1>2, <1>6, <2>4, CountedSum DEF Counts
  <2>6. b.size \in Nat /\ cached \in Nat
    BY <1>2, <2>4, CountedBlocks DEF Types
  <2>7. Uncache(b.size) <= SizeSum(Counted \ {b})
    BY <2>5, <2>6 DEF Uncache
  <2> QED
    BY <1>1, <2>4, <2>7
<1> QED
  BY <1>1, <1>5, <1>6 DEF Counts

\* The push raises it by a block that was not counted.
LEMMA CountsPushPool ==
  ASSUME AllocInv, Counts, NEW t \in Thread, PushPool(t)
  PROVE  Counts'
<1> DEFINE b == call[t].block
<1>1. call[t].at = "push" /\ Goto(t, Idle) /\ cached' = cached + b.size /\ pool' = pool \cup {b} /\ torn' = torn
  BY DEF PushPool
<1>2. Types /\ Holding(t) /\ b \in Block /\ b.size \in Nat
  BY <1>1, CallFacts, BlockFacts DEF AllocInv, Holding
<1>3. call'[t] = Idle /\ \A u \in Thread : u # t => call'[u] = call[u]
  BY <1>1, <1>2 DEF Types, Goto
<1>4. InPop' = InPop /\ t \notin InPop /\ \A u \in InPop : call'[u] = call[u]
  BY <1>1, <1>3, CallTypes DEF InPop
<1>5. Counted' = Counted \cup {b} /\ IsFiniteSet(Counted')
  <2>1. Counted' = Counted \cup {b}
    BY <1>1, <1>4 DEF Counted
  <2> QED
    BY <2>1, FS_AddElement DEF Counts
<1>6. ASSUME ~torn PROVE cached' <= SizeSum(Counted')
  <2>1. Apart
    BY <1>6 DEF AllocInv, Sound
  <2>2. b \notin pool
    BY <1>1, <1>2, <2>1, HeldApart DEF Stored
  <2>3. \A u \in InPop : call[u].block # b
    <3> SUFFICES ASSUME NEW u \in InPop PROVE call[u].block # b
      OBVIOUS
    <3>1. u \in Thread /\ u # t /\ Holding(u)
      BY <1>4 DEF InPop, Holding
    <3>2. Disjoint(call[u].block, b) /\ call[u].block \in Block
      BY <1>2, <2>1, <3>1, CallFacts DEF Apart
    <3> QED
      BY <1>2, <3>2, BlockFacts, DisjointPtr
  <2>4. b \notin Counted /\ (Counted \cup {b}) \ {b} = Counted
    BY <2>2, <2>3 DEF Counted
  <2>5. \A d \in Counted \cup {b} : d.size \in Nat
    BY <1>2, CountedBlocks
  <2>6. IsFiniteSet(Counted \cup {b})
    BY <1>5
  <2>7. SizeSum(Counted \cup {b}) = b.size + SizeSum(Counted)
    <3> DEFINE P == Counted \cup {b}
    <3>1. P \in SUBSET P /\ IsFiniteSet(P) /\ b \in P /\ P \ {b} = Counted /\ \A d \in P : d.size \in Nat
      BY <2>4, <2>5, <2>6
    <3> HIDE DEF P
    <3>2. SizeSum(P) = b.size + SizeSum(P \ {b})
      BY <3>1, SizeSumRemove
    <3> QED
      BY <3>1, <3>2 DEF P
  <2>8. SizeSum(Counted) \in Nat /\ cached \in Nat /\ cached <= SizeSum(Counted)
    BY <1>2, <1>6, CountedSum DEF Counts, Types
  <2> QED
    BY <1>1, <1>2, <1>5, <2>7, <2>8
<1> QED
  BY <1>1, <1>5, <1>6 DEF Counts

\* empty_cache forgets the pool, whatever blocks are on their way out of it.
LEMMA CountsDrainPool ==
  ASSUME AllocInv, Counts, NEW t \in Thread, DrainPool(t)
  PROVE  Counts'
<1>1. call[t].at = "pool" /\ pool' = {} /\ cached' = 0
  BY DEF DrainPool
<1>2. PICK c : Goto(t, c) /\ c.at # "popped"
  BY DEF DrainPool, Idle, Want
<1>3. Types /\ call'[t] = c /\ \A u \in Thread : u # t => call'[u] = call[u]
  <2>1. Types
    BY DEF AllocInv
  <2> QED
    BY <1>2, <2>1 DEF Types, Goto
<1>4. InPop' = InPop /\ \A u \in InPop : call'[u] = call[u]
  BY <1>1, <1>2, <1>3 DEF InPop
<1>5. Counted' \in SUBSET Counted
  BY <1>1, <1>4 DEF Counted
<1>6. IsFiniteSet(Counted) /\ \A b \in Counted : b.size \in Nat
  BY <1>3, CountedBlocks DEF Counts
<1>7. IsFiniteSet(Counted')
  BY <1>5, <1>6, FS_Subset
<1>8. SizeSum(Counted') \in Nat
  <2> DEFINE P == Counted'
  <2>1. P \in SUBSET Counted /\ IsFiniteSet(P)
    BY <1>5, <1>7
  <2> HIDE DEF P
  <2>2. SizeSum(P) \in Nat
    BY <1>6, <2>1, SizeSumRemove
  <2> QED
    BY <2>2 DEF P, SizeSum
<1> QED
  BY <1>1, <1>7, <1>8 DEF Counts

LEMMA TornStays ==
  ASSUME Noted
  PROVE  torn => torn'
BY DEF Noted

LEMMA CountsNext ==
  ASSUME AllocInv, Counts, [Next]_vars
  PROVE  Counts'
<1>1. Types
  BY DEF AllocInv
<1>2. CASE UNCHANGED vars
  BY <1>2 DEF vars, Counts, Counted, InPop
<1>3. ASSUME NEW t \in Thread, NEW c, Goto(t, c), c.at # "popped", call[t].at # "popped", UNCHANGED <<pool, cached>>,
             torn => torn'
      PROVE  Counts'
  BY <1>1, <1>3, CountsOther
<1>4. Idle.at # "popped" /\ \A b, n : /\ At("free", b).at # "popped" /\ At("push", b).at # "popped"
                                      /\ Want("bump", n).at # "popped" /\ Want("malloc", n).at # "popped"
                                      /\ Want("empty", n).at # "popped"
  BY DEF Idle, At, Want
<1>5. ASSUME NEW t \in Thread, NEW n \in Size, AllocSlot(t, n) \/ AllocMiss(t, n) PROVE Counts'
  <2>1. CASE AllocSlot(t, n)
    BY <1>3, <1>4, <2>1 DEF AllocSlot, HandOut
  <2>2. CASE AllocMiss(t, n)
    BY <1>3, <1>4, <2>2 DEF AllocMiss
  <2> QED
    BY <1>5, <2>1, <2>2
<1>6. ASSUME NEW t \in Thread, NEW n, AddSlab(t, n) \/ Malloc(t) PROVE Goto(t, Idle)
  BY <1>6 DEF AddSlab, Malloc, HandOut
<1>7. ASSUME NEW t \in Thread, Bump(t) \/ NewSlab(t) \/ Malloc(t) \/ FragmentationSlab(t) PROVE Counts'
  <2>1. call[t].at # "popped" /\ UNCHANGED <<pool, cached, torn>>
    BY <1>7 DEF Bump, NewSlab, Malloc, FragmentationSlab
  <2>2. Goto(t, Idle)
    BY <1>6, <1>7 DEF Bump, NewSlab, FragmentationSlab, HandOut
  <2> QED
    BY <1>3, <1>4, <2>1, <2>2
<1>8. ASSUME NEW t \in Thread, MallocFails(t) \/ AllocFails(t) PROVE Counts'
  BY <1>3, <1>4, <1>8 DEF MallocFails, AllocFails
<1>9. ASSUME NEW t \in Thread, NEW b \in owned, Free(t, b) PROVE Counts'
  BY <1>3, <1>4, <1>9 DEF Free
<1>10. ASSUME NEW t \in Thread, FreeSlot(t) \/ FreeDriver(t) \/ FreePool(t) \/ EmptyCache(t) PROVE Counts'
  BY <1>3, <1>4, <1>10, TornStays DEF FreeSlot, FreeDriver, FreePool, EmptyCache
<1>11. ASSUME NEW t \in Thread, CopyLive(t) \/ ClearSlots(t) \/ DrainSlabs(t) PROVE Counts'
  <2>1. call[t].at \in Emptied /\ UNCHANGED <<pool, cached>> /\ (torn => torn')
    BY <1>11, TornStays DEF CopyLive, ClearSlots, DrainSlabs, Emptied
  <2>2. PICK a \in Emptied : Goto(t, [call[t] EXCEPT !.at = a])
    BY <1>11 DEF CopyLive, ClearSlots, DrainSlabs, Emptied
  <2>3. [call[t] EXCEPT !.at = a].at # "popped" /\ call[t].at # "popped"
    BY <1>1, <2>1, <2>2, NextPlace DEF Emptied
  <2> QED
    BY <1>3, <2>1, <2>2, <2>3
<1>12. CASE Next
  BY <1>5, <1>7, <1>8, <1>9, <1>10, <1>11, <1>12,
     CountsAllocPooled, CountsTakePooled, CountsPushPool, CountsDrainPool DEF Next
<1> QED
  BY <1>2, <1>12

\* "Total bytes currently held in `pool`": between calls, cached_bytes is at most
\* the sum of the pooled sizes, whatever pops, pushes and drains overlapped.
THEOREM CountWithinPool == Spec => []CachedWithinPool
<1>1. ASSUME Init PROVE Counts
  <2>1. Counted = {} /\ cached = 0
    BY <1>1, CallTypes DEF Init, Counted, InPop
  <2>2. IsFiniteSet({}) /\ SizeSum({}) = 0
    BY FS_EmptySet, SizeSumUnfold
  <2> QED
    BY <2>1, <2>2 DEF Counts
<1>2. AllocInv /\ Counts /\ [Next]_vars => Counts'
  BY CountsNext
<1>3. Counts => CachedWithinPool
  <2> SUFFICES ASSUME Counts, ~torn, \A t \in Thread : call[t] = Idle PROVE cached <= SizeSum(pool)
    BY DEF CachedWithinPool, SizeSum, Quiet
  <2>1. InPop = {}
    BY CallTypes DEF InPop
  <2> QED
    BY <2>1 DEF Counts, Counted
<1> QED
  BY <1>1, <1>2, <1>3, AllocatorInvariant, PTL DEF Spec
=============================================================================
