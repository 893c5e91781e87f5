---------------------------- MODULE KvPoolProofs ----------------------------
(***************************************************************************)
(* Proofs about KvPool, for every set of blocks and requests, every prompt *)
(* and every block size.                                                   *)
(***************************************************************************)
EXTENDS KvPool, FiniteSetTheorems, WellFoundedInduction, TLAPS

-----------------------------------------------------------------------------
(* Numbers, tables and paths.                                              *)

\* A quotient of naturals is a natural.
LEMMA DivCeilNat == ASSUME NEW n \in Nat PROVE DivCeil(n) \in Nat
BY BlockSizeAssumption DEF DivCeil

\* A prompt has at least one token, hence at least one block.
LEMMA PromptBlocksPositive ==
  ASSUME NEW r \in Req PROVE PromptLen(r) \in Nat \ {0} /\ PromptBlocks(r) \in Nat \ {0}
<1>1. PromptLen(r) \in Nat \ {0}
  BY PromptAssumption DEF PromptLen
<1>2. DivCeil(PromptLen(r)) \in Nat
  BY <1>1, DivCeilNat
<1>3. DivCeil(PromptLen(r)) >= 1
  BY <1>1, BlockSizeAssumption, Z3 DEF DivCeil
<1> QED
  BY <1>1, <1>2, <1>3 DEF PromptBlocks

\* A key can be cut for every block of the prompt.
LEMMA KeyBlocksCover ==
  ASSUME NEW r \in Req PROVE KeyBlocks(r) \in Nat \ {0} /\ PromptBlocks(r) <= KeyBlocks(r)
<1>1. PromptLen(r) \in Nat /\ PromptBlocks(r) \in Nat
  BY PromptBlocksPositive
<1>2. PromptLen(r) \div BlockSize \in Nat
  BY <1>1, BlockSizeAssumption
<1>3. DivCeil(PromptLen(r)) <= PromptLen(r) \div BlockSize + 1
  BY <1>1, BlockSizeAssumption, Z3 DEF DivCeil
<1> QED
  BY <1>1, <1>2, <1>3 DEF KeyBlocks, PromptBlocks

\* How often a block occurs in a table is a number.
LEMMA OccursNat == ASSUME NEW s \in Seq(Block), NEW b \in Block PROVE Occurs(b, s) \in Nat
<1>1. IsFiniteSet(1..Len(s))
  BY FS_Interval
<1>2. {i \in DOMAIN s : s[i] = b} \subseteq 1..Len(s)
  OBVIOUS
<1>3. IsFiniteSet({i \in DOMAIN s : s[i] = b})
  BY <1>1, <1>2, FS_Subset
<1> QED
  BY <1>3, FS_CardinalityType DEF Occurs

Keys == {BlockKey(r, i) : r \in Req, i \in Nat}

\* A path is a sequence of keys, and its prefixes are the shorter paths.
LEMMA PathPrefix ==
  ASSUME NEW r \in Req, NEW i \in Nat
  PROVE  /\ Path(r, i) \in Seq(Keys)
         /\ Len(Path(r, i)) = i
         /\ \A j \in 0..i : SubSeq(Path(r, i), 1, j) = Path(r, j)
<1>1. Path(r, i) \in Seq(Keys) /\ Len(Path(r, i)) = i
  BY DEF Path, Keys
<1>2. ASSUME NEW j \in 0..i PROVE SubSeq(Path(r, i), 1, j) = Path(r, j)
  BY <1>1, <1>2 DEF Path
<1> QED
  BY <1>1, <1>2

\* Prefix order of sequences of keys.
LEMMA AboveTransitive ==
  ASSUME NEW p \in Seq(Keys), NEW q \in Seq(Keys), NEW d \in Seq(Keys), Above(p, q), Above(q, d)
  PROVE  Above(p, d)
BY DEF Above

\* A nonempty set of positions has a last one.
LEMMA LastExists ==
  ASSUME NEW n \in Nat, NEW S \in SUBSET (1..n), S # {}
  PROVE  \E i \in S : \A j \in S : j <= i
<1> DEFINE R == {ss \in Nat \X Nat : ss[1] < ss[2]}
           T == {n - i : i \in S}
<1>1. T \in SUBSET Nat
  OBVIOUS
<1>2. T # {}
  OBVIOUS
<1>3. IsWellFoundedOn(R, Nat)
  BY NatLessThanWellFounded DEF OpToRel
<1>4. PICK x \in T : \A y \in T : ~(<<y, x>> \in R)
  <2> HIDE DEF R, T
  <2> QED
    BY <1>1, <1>2, <1>3, WFMin
<1>5. ASSUME NEW y \in T PROVE x <= y
  <2>1. x \in Nat /\ y \in Nat /\ <<y, x>> \in Nat \X Nat
    BY <1>1, <1>4
  <2>2. ~(<<y, x>> \in {ss \in Nat \X Nat : ss[1] < ss[2]})
    BY <1>4
  <2>3. ~(y < x)
    <3> HIDE DEF T
    <3> QED
      BY <2>1, <2>2
  <2> QED
    BY <2>1, <2>3
<1>6. PICK i \in S : x = n - i
  BY <1>4
<1>7. ASSUME NEW j \in S PROVE j <= i
  <2>1. n - j \in T
    OBVIOUS
  <2>2. n - i <= n - j
    BY <1>5, <1>6, <2>1
  <2>3. i \in Int /\ j \in Int
    OBVIOUS
  <2> QED
    BY <2>2, <2>3
<1> QED
  BY <1>7

\* A downward closed set of positions with c members holds the first c.
LEMMA FirstPositions ==
  ASSUME NEW m \in Nat, NEW S \in SUBSET (1..m), \A i \in S : \A j \in 1..i : j \in S
  PROVE  Cardinality(S) \in Nat /\ \A i \in 1..Cardinality(S) : i \in S
<1>1. IsFiniteSet(1..m) /\ Cardinality(1..m) = m
  BY FS_Interval
<1>2. IsFiniteSet(S) /\ Cardinality(S) \in Nat
  BY <1>1, FS_Subset, FS_CardinalityType
<1>3. ASSUME NEW i \in 1..Cardinality(S), i \notin S PROVE FALSE
  <2>1. S \subseteq 1..(i - 1)
    BY <1>2, <1>3
  <2>2. IsFiniteSet(1..(i - 1)) /\ Cardinality(1..(i - 1)) = i - 1
    <3>1. i - 1 \in Nat /\ i \in Nat
      BY <1>2
    <3> QED
      BY <3>1, FS_Interval
  <2>3. Cardinality(S) <= i - 1
    BY <2>1, <2>2, FS_Subset
  <2> QED
    BY <1>2, <2>3
<1> QED
  BY <1>2, <1>3

\* Products of naturals are naturals.
LEMMA ProductNat == ASSUME NEW m \in Nat, NEW n \in Nat PROVE m * n \in Nat
OBVIOUS

-----------------------------------------------------------------------------
(* The inductive invariant behind the types: the tree is prefix closed, so *)
(* a match is a run of leading blocks that all exist, and block_to_node    *)
(* leads to attached nodes.                                                *)

TreeOK(t) == /\ DOMAIN t \subseteq Paths
             /\ t \in [DOMAIN t -> NodeType]
             /\ \A p \in DOMAIN t : \A i \in 1..(Len(p) - 1) : SubSeq(p, 1, i) \in DOMAIN t

MapOK(t, m) == /\ m \in [Block -> Paths \cup {Root}]
               /\ \A b \in Block : m[b] # Root => m[b] \in DOMAIN t /\ t[m[b]].bid = b

\* Tree u has the nodes of t, with the same blocks.
SameNodes(t, u) == DOMAIN u = DOMAIN t /\ \A p \in DOMAIN t : u[p].bid = t[p].bid

PoolOK == /\ free \in [Block -> Nat]
          /\ refs \in [Block -> Nat]
          /\ kv \in [Block -> Content]
          /\ copy \in [Block -> Content \cup {NoCopy}]
          /\ offGpu \subseteq Block

ReqOK == /\ table \in [Req -> Seq(Block)]
         /\ committed \in [Req -> Nat]
         /\ progress \in [Req -> Nat]
         /\ seeded \in [Req -> Nat]
         /\ registered \in [Req -> Nat]
         /\ status \in [Req -> {"new", "live", "done"}]

CallOK == /\ call \in [op : {"idle", "prefill", "decode"}, req : Req \cup {NoReq},
                       chunk : Nat, stage : {"alloc", "evicted", "reclaimed"}]
          /\ call # Idle => call.req \in Req

PoolInv == PoolOK /\ TreeOK(tree) /\ MapOK(tree, node) /\ ReqOK /\ CallOK

\* The invariant gives the two properties the runs check.
LEMMA InvGives == PoolInv => TypeOK /\ MapLeadsToNode
BY DEF PoolInv, PoolOK, TreeOK, MapOK, ReqOK, CallOK, TypeOK, MapLeadsToNode

\* A path of the tree is a nonempty path of some request.
LEMMA PathsShape ==
  ASSUME NEW p \in Paths
  PROVE  \E r \in Req : \E i \in 1..KeyBlocks(r) :
            p = Path(r, i) /\ i \in Nat /\ Len(p) = i /\ p \in Seq(Keys) /\ p # Root
<1>0. PICK r \in Req : p \in {Path(r, i) : i \in 1..KeyBlocks(r)}
  BY DEF Paths
<1>1. PICK i \in 1..KeyBlocks(r) : p = Path(r, i)
  BY <1>0
<1>2. i \in Nat /\ i # 0
  BY <1>1, KeyBlocksCover
<1>3. Len(p) = i /\ p \in Seq(Keys)
  BY <1>1, <1>2, PathPrefix
<1>4. p # Root
  BY <1>2, <1>3 DEF Root
<1> QED
  BY <1>1, <1>2, <1>3, <1>4

\* A tree whose nodes and blocks are kept stays well formed, map included.
LEMMA SameNodesOK ==
  ASSUME NEW t, NEW u, NEW m, TreeOK(t), MapOK(t, m), SameNodes(t, u),
         u \in [DOMAIN u -> NodeType]
  PROVE  TreeOK(u) /\ MapOK(u, m)
BY DEF TreeOK, MapOK, SameNodes

\* insert_at: the tree grows by paths of r, all their prefixes with them,
\* and no node changes its block.
LEMMA InsertTreeOK ==
  ASSUME NEW r \in Req, NEW blocks \in Seq(Block), NEW skip \in Nat,
         Len(blocks) <= KeyBlocks(r), TreeOK(tree)
  PROVE  LET t == InsertTree(r, blocks, skip)
         IN  /\ TreeOK(t)
             /\ DOMAIN t = DOMAIN tree \cup {Path(r, i) : i \in DOMAIN blocks}
             /\ \A p \in DOMAIN tree : t[p].bid = tree[p].bid
             /\ \A i \in DOMAIN blocks : Path(r, i) \notin DOMAIN tree => t[Path(r, i)].bid = blocks[i]
<1> DEFINE new == {Path(r, i) : i \in DOMAIN blocks}
           t == InsertTree(r, blocks, skip)
<1>1. \A i \in DOMAIN blocks : i \in Nat /\ i >= 1 /\ i <= KeyBlocks(r) /\ Len(Path(r, i)) = i
  <2> SUFFICES ASSUME NEW i \in DOMAIN blocks
               PROVE  i \in Nat /\ i >= 1 /\ i <= KeyBlocks(r) /\ Len(Path(r, i)) = i
    OBVIOUS
  <2>1. i \in Nat /\ i >= 1 /\ i <= Len(blocks) /\ Len(blocks) \in Nat
    OBVIOUS
  <2> QED
    BY <2>1, PathPrefix, KeyBlocksCover
<1>2. DOMAIN t = DOMAIN tree \cup new
  BY DEF InsertTree
<1>3. new \subseteq Paths
  BY <1>1, KeyBlocksCover DEF Paths
<1>4. ASSUME NEW p \in DOMAIN tree
      PROVE  t[p] \in NodeType /\ t[p].bid = tree[p].bid
  <2>1. tree[p] \in NodeType
    BY DEF TreeOK
  <2>2. t[p] = IF p \in new /\ Len(p) > skip THEN [tree[p] EXCEPT !.ref = @ + 1] ELSE tree[p]
    BY DEF InsertTree
  <2> HIDE DEF t, new
  <2> QED
    BY <2>1, <2>2 DEF NodeType
<1>5. ASSUME NEW i \in DOMAIN blocks, Path(r, i) \notin DOMAIN tree
      PROVE  t[Path(r, i)] \in NodeType /\ t[Path(r, i)].bid = blocks[i]
  <2>1. t[Path(r, i)] = [bid |-> blocks[Len(Path(r, i))], ref |-> 1, pin |-> NoReq]
    BY <1>5 DEF InsertTree
  <2>2. blocks[i] \in Block
    OBVIOUS
  <2> HIDE DEF t, new
  <2> QED
    BY <1>1, <2>1, <2>2 DEF NodeType
<1>6. ASSUME NEW p \in new, NEW i \in 1..(Len(p) - 1)
      PROVE  SubSeq(p, 1, i) \in new
  <2>1. PICK k \in DOMAIN blocks : p = Path(r, k)
    OBVIOUS
  <2>2. k \in Nat /\ Len(p) = k /\ i \in 0..k
    BY <1>1, <2>1
  <2>3. SubSeq(p, 1, i) = Path(r, i)
    BY <2>1, <2>2, PathPrefix
  <2>4. i \in DOMAIN blocks
    BY <2>1, <2>2
  <2> QED
    BY <2>3, <2>4
<1>7. TreeOK(t)
  <2>1. t \in [DOMAIN t -> NodeType]
    <3>1. t = [p \in DOMAIN t |-> t[p]]
      BY DEF InsertTree
    <3>2. \A p \in DOMAIN t : t[p] \in NodeType
      <4> HIDE DEF t
      <4> QED
        BY <1>2, <1>4, <1>5
    <3> HIDE DEF t
    <3> QED
      BY <3>1, <3>2
  <2>2. ASSUME NEW p \in DOMAIN t, NEW i \in 1..(Len(p) - 1) PROVE SubSeq(p, 1, i) \in DOMAIN t
    <3> HIDE DEF t, new
    <3> QED
      BY <1>2, <1>6 DEF TreeOK
  <2> HIDE DEF t, new
  <2> QED
    BY <1>2, <1>3, <2>1, <2>2 DEF TreeOK
<1> QED
  BY <1>2, <1>4, <1>5, <1>7

\* insert_at enters only nodes it created, each under its own block.
LEMMA InsertNodeOK ==
  ASSUME NEW r \in Req, NEW blocks \in Seq(Block), NEW skip \in Nat,
         Len(blocks) <= KeyBlocks(r), TreeOK(tree), MapOK(tree, node)
  PROVE  MapOK(InsertTree(r, blocks, skip), InsertNode(r, blocks))
<1> DEFINE made(b) == {i \in DOMAIN blocks : blocks[i] = b /\ Path(r, i) \notin DOMAIN tree}
           last(b) == CHOOSE i \in made(b) : \A j \in made(b) : j <= i
           t == InsertTree(r, blocks, skip)
           m == InsertNode(r, blocks)
<1>1. /\ TreeOK(t)
      /\ DOMAIN t = DOMAIN tree \cup {Path(r, i) : i \in DOMAIN blocks}
      /\ \A p \in DOMAIN tree : t[p].bid = tree[p].bid
      /\ \A i \in DOMAIN blocks : Path(r, i) \notin DOMAIN tree => t[Path(r, i)].bid = blocks[i]
  BY InsertTreeOK
<1>2. ASSUME NEW b \in Block, made(b) # {} PROVE last(b) \in made(b)
  <2>1. Len(blocks) \in Nat /\ made(b) \in SUBSET (1..Len(blocks))
    OBVIOUS
  <2>2. \E i \in made(b) : \A j \in made(b) : j <= i
    <3> HIDE DEF made
    <3> QED
      BY <1>2, <2>1, LastExists
  <2> HIDE DEF made
  <2> QED
    BY <2>2
<1>3. m = [b \in Block |-> IF made(b) = {} THEN node[b] ELSE Path(r, last(b))]
  BY DEF InsertNode
<1>4. ASSUME NEW b \in Block
      PROVE  m[b] \in Paths \cup {Root} /\ (m[b] # Root => m[b] \in DOMAIN t /\ t[m[b]].bid = b)
  <2>1. CASE made(b) = {}
    <3>1. m[b] = node[b]
      BY <1>3, <2>1
    <3> HIDE DEF t, m, made, last
    <3> QED
      BY <1>1, <3>1 DEF MapOK
  <2>2. CASE made(b) # {}
    <3>1. m[b] = Path(r, last(b))
      BY <1>3, <2>2
    <3>2. last(b) \in DOMAIN blocks /\ blocks[last(b)] = b /\ Path(r, last(b)) \notin DOMAIN tree
      <4>1. last(b) \in made(b)
        BY <1>2, <2>2
      <4> HIDE DEF last
      <4> QED
        BY <4>1
    <3> HIDE DEF t, m, made, last
    <3> QED
      BY <1>1, <3>1, <3>2 DEF TreeOK
  <2> QED
    BY <2>1, <2>2
<1>5. m \in [Block -> Paths \cup {Root}]
  <2>1. m = [b \in Block |-> m[b]]
    BY DEF InsertNode
  <2> HIDE DEF m, t
  <2> QED
    BY <1>4, <2>1
<1>6. MapOK(t, m)
  <2> HIDE DEF m, t
  <2> QED
    BY <1>4, <1>5 DEF MapOK
<1> QED
  BY <1>6

\* remove changes reference counts only.
LEMMA RemoveTreeOK ==
  ASSUME NEW blocks \in Seq(Block), TreeOK(tree)
  PROVE  SameNodes(tree, RemoveTree(blocks)) /\
         RemoveTree(blocks) \in [DOMAIN RemoveTree(blocks) -> NodeType]
<1> DEFINE u == RemoveTree(blocks)
           n(p) == IF Mapped(p) THEN Occurs(tree[p].bid, blocks) ELSE 0
<1>1. DOMAIN u = DOMAIN tree /\ u = [p \in DOMAIN tree |-> u[p]]
  BY DEF RemoveTree
<1>2. ASSUME NEW p \in DOMAIN tree PROVE u[p] \in NodeType /\ u[p].bid = tree[p].bid
  <2>1. tree[p] \in NodeType
    BY DEF TreeOK
  <2>2. n(p) \in Nat
    <3>1. tree[p].bid \in Block
      BY <2>1 DEF NodeType
    <3> QED
      BY <3>1, OccursNat
  <2>3. u[p] = [tree[p] EXCEPT !.ref = IF n(p) >= tree[p].ref THEN 0 ELSE tree[p].ref - n(p)]
    BY DEF RemoveTree
  <2>4. (IF n(p) >= tree[p].ref THEN 0 ELSE tree[p].ref - n(p)) \in Nat
    <3> HIDE DEF n
    <3> QED
      BY <2>1, <2>2 DEF NodeType
  <2> HIDE DEF u, n
  <2> QED
    BY <2>1, <2>3, <2>4 DEF NodeType
<1>3. SameNodes(tree, u) /\ u \in [DOMAIN u -> NodeType]
  <2> HIDE DEF u
  <2> QED
    BY <1>1, <1>2 DEF SameNodes
<1> QED
  BY <1>3

\* pin_blocks changes pins only.
LEMMA PinTreeOK ==
  ASSUME NEW r \in Req, NEW t, NEW m, TreeOK(t)
  PROVE  SameNodes(t, PinTree(r, t, m)) /\
         PinTree(r, t, m) \in [DOMAIN PinTree(r, t, m) -> NodeType]
<1> DEFINE u == PinTree(r, t, m)
<1>1. DOMAIN u = DOMAIN t /\ u = [p \in DOMAIN t |-> u[p]]
  BY DEF PinTree
<1>2. ASSUME NEW p \in DOMAIN t PROVE u[p] \in NodeType /\ u[p].bid = t[p].bid
  <2>1. t[p] \in NodeType
    BY DEF TreeOK
  <2>2. u[p] = [t[p] EXCEPT !.pin = r] \/ u[p] = t[p]
    BY DEF PinTree
  <2> HIDE DEF u
  <2> QED
    BY <2>1, <2>2 DEF NodeType
<1>3. SameNodes(t, u) /\ u \in [DOMAIN u -> NodeType]
  <2> HIDE DEF u
  <2> QED
    BY <1>1, <1>2 DEF SameNodes
<1> QED
  BY <1>3

\* Dropping pins of some nodes, as request_pin_drop and the clock do.
LEMMA UnpinOK ==
  ASSUME NEW S, TreeOK(tree), NEW u,
         u = [p \in DOMAIN tree |-> IF p \in S THEN [tree[p] EXCEPT !.pin = NoReq] ELSE tree[p]]
  PROVE  SameNodes(tree, u) /\ u \in [DOMAIN u -> NodeType]
<1>1. DOMAIN u = DOMAIN tree /\ u = [p \in DOMAIN tree |-> u[p]]
  OBVIOUS
<1>2. ASSUME NEW p \in DOMAIN tree PROVE u[p] \in NodeType /\ u[p].bid = tree[p].bid
  <2>1. tree[p] \in NodeType
    BY DEF TreeOK
  <2>2. u[p] = [tree[p] EXCEPT !.pin = NoReq] \/ u[p] = tree[p]
    OBVIOUS
  <2> QED
    BY <2>1, <2>2 DEF NodeType
<1> QED
  BY <1>1, <1>2 DEF SameNodes

\* evict_coldest_chain leaves a prefix closed tree and a map that leads into
\* it: a node whose ancestor is detached is detached too.
LEMMA EvictTreeOK ==
  ASSUME NEW p \in DOMAIN tree, TreeOK(tree), MapOK(tree, node), NEW u, NEW m,
         u = [q \in DOMAIN tree \ Chain(p) |-> tree[q]],
         m = [b \in Block |-> IF \E q \in Chain(p) : tree[q].bid = b THEN Root ELSE node[b]]
  PROVE  TreeOK(u) /\ MapOK(u, m)
<1>1. DOMAIN u = DOMAIN tree \ Chain(p) /\ u \in [DOMAIN u -> NodeType]
  BY DEF TreeOK
<1>2. \A q \in DOMAIN tree : q \in Seq(Keys) /\ Len(q) \in Nat
  BY PathsShape DEF TreeOK
<1>3. ASSUME NEW q \in DOMAIN u, NEW i \in 1..(Len(q) - 1) PROVE SubSeq(q, 1, i) \in DOMAIN u
  <2> DEFINE a == SubSeq(q, 1, i)
  <2>1. a \in DOMAIN tree
    BY <1>1 DEF TreeOK
  <2>2. Len(a) = i /\ Above(a, q)
    BY <1>1, <1>2 DEF Above
  <2>3. ASSUME a \in Chain(p) PROVE q \in Chain(p)
    <3>1. Above(q, p)
      BY <1>1, <2>2, <2>3 DEF Chain
    <3>2. ASSUME NEW d \in DOMAIN tree, Above(q, d) PROVE Above(d, p)
      <4>1. Above(a, d)
        <5> HIDE DEF a
        <5> QED
          BY <1>1, <1>2, <2>1, <2>2, <3>2, AboveTransitive
      <4> HIDE DEF a
      <4> QED
        BY <2>3, <4>1 DEF Chain
    <3> HIDE DEF a
    <3> QED
      BY <1>1, <3>1, <3>2 DEF Chain
  <2> QED
    BY <1>1, <2>1, <2>3
<1>4. MapOK(u, m)
  <2>1. ASSUME NEW b \in Block, m[b] # Root PROVE m[b] \in DOMAIN u /\ u[m[b]].bid = b
    <3>1. m[b] = node[b] /\ ~ \E q \in Chain(p) : tree[q].bid = b
      BY <2>1
    <3>2. node[b] \in DOMAIN tree /\ tree[node[b]].bid = b
      BY <2>1, <3>1 DEF MapOK
    <3> QED
      BY <1>1, <3>1, <3>2
  <2>2. m \in [Block -> Paths \cup {Root}]
    BY DEF MapOK
  <2> QED
    BY <2>1, <2>2 DEF MapOK
<1> QED
  BY <1>1, <1>3, <1>4 DEF TreeOK

\* How many detached ancestors carry a block is a number: the ancestors of
\* a leaf are its prefixes.
LEMMA ChainCount ==
  ASSUME NEW p \in DOMAIN tree, NEW b \in Block, TreeOK(tree)
  PROVE  Cardinality({q \in Chain(p) \ {p} : tree[q].bid = b}) \in Nat
<1> DEFINE C == {q \in Chain(p) \ {p} : tree[q].bid = b}
           f == [q \in C |-> Len(q)]
<1>1. Len(p) \in Nat
  BY PathsShape DEF TreeOK
<1>2. IsFiniteSet(0..Len(p))
  BY <1>1, FS_Interval
<1>3. ASSUME NEW q \in C PROVE Len(q) \in 0..Len(p) /\ q = SubSeq(p, 1, Len(q))
  <2>1. q \in DOMAIN tree /\ Above(q, p)
    BY DEF Chain
  <2>2. Len(q) \in Nat
    BY <2>1, PathsShape DEF TreeOK
  <2>3. Len(q) <= Len(p) /\ q = SubSeq(p, 1, Len(q))
    BY <2>1 DEF Above
  <2> HIDE DEF C
  <2> QED
    BY <1>1, <2>2, <2>3
<1>4. f \in Injection(C, 0..Len(p))
  <2>1. f \in [C -> 0..Len(p)]
    <3> HIDE DEF C
    <3> QED
      BY <1>3
  <2>2. ASSUME NEW x \in C, NEW y \in C, f[x] = f[y] PROVE x = y
    <3>1. Len(x) = Len(y)
      BY <2>2
    <3> HIDE DEF C, f
    <3> QED
      BY <1>3, <3>1
  <2> HIDE DEF C, f
  <2> QED
    BY <2>1, <2>2 DEF Injection, IsInjective
<1>5. IsFiniteSet(C)
  <2> HIDE DEF C, f
  <2> QED
    BY <1>2, <1>4, FS_Injection
<1>6. Cardinality(C) \in Nat
  <2> HIDE DEF C
  <2> QED
    BY <1>5, FS_CardinalityType
<1> QED
  BY <1>6

\* match_prefix: every one of the leading blocks it reports is a node.
LEMMA MatchedNodes ==
  ASSUME NEW r \in Req, TreeOK(tree)
  PROVE  Matched(r) \in Nat /\ \A i \in 1..Matched(r) : Path(r, i) \in DOMAIN tree
<1> DEFINE m == PromptLen(r) \div BlockSize
           S == {i \in 1..m : Path(r, i) \in DOMAIN tree}
<1>1. m \in Nat
  <2>1. PromptLen(r) \in Nat
    BY PromptBlocksPositive
  <2> QED
    BY <2>1, BlockSizeAssumption
<1>2. ASSUME NEW i \in S, NEW j \in 1..i PROVE j \in S
  <2>1. i \in Nat /\ i \in 1..m /\ Path(r, i) \in DOMAIN tree
    BY <1>1
  <2>2. Len(Path(r, i)) = i /\ SubSeq(Path(r, i), 1, j) = Path(r, j)
    BY <2>1, PathPrefix
  <2>3. j = i \/ j \in 1..(i - 1)
    BY <2>1
  <2>4. Path(r, j) \in DOMAIN tree
    BY <2>1, <2>2, <2>3 DEF TreeOK
  <2>5. j \in 1..m
    <3> HIDE DEF m
    <3> QED
      BY <1>1, <2>1
  <2> QED
    BY <2>4, <2>5
<1>3. S \in SUBSET (1..m)
  OBVIOUS
<1>4. Cardinality(S) \in Nat /\ \A i \in 1..Cardinality(S) : i \in S
  <2> HIDE DEF m, S
  <2> QED
    BY <1>1, <1>2, <1>3, FirstPositions
<1>5. Matched(r) = Cardinality(S)
  BY DEF Matched
<1>6. \A i \in S : Path(r, i) \in DOMAIN tree
  OBVIOUS
<1> HIDE DEF S
<1> QED
  BY <1>4, <1>5, <1>6

\* The appended contents are contents: a written block has a last position,
\* and a promoted one a copy.
LEMMA WrittenOK ==
  ASSUME NEW r \in Req, NEW from \in Nat, NEW to \in Nat, PoolOK, ReqOK
  PROVE  Written(r, from, to) \in [Block -> Content]
<1> DEFINE blocks == table[r]
           at(b)  == {i \in (from \div BlockSize + 1)..DivCeil(to) : blocks[i] = b}
           last(b) == CHOOSE i \in at(b) : \A j \in at(b) : j <= i
           new    == [b \in Block |-> IF at(b) = {} THEN kv[b]
                                      ELSE [by |-> r, upto |-> Least(last(b) * BlockSize, to)]]
           held   == {b \in Spilled : \E i \in DOMAIN blocks : blocks[i] = b}
<1>1. DivCeil(to) \in Nat /\ from \div BlockSize \in Nat
  BY DivCeilNat, BlockSizeAssumption
<1>2. ASSUME NEW b \in Block, at(b) # {} PROVE last(b) \in Nat
  <2>1. at(b) \in SUBSET (1..DivCeil(to))
    <3> DEFINE f == from \div BlockSize
    <3>1. f \in Nat
      BY <1>1
    <3> HIDE DEF f
    <3> QED
      BY <1>1, <3>1
  <2>2. \E i \in at(b) : \A j \in at(b) : j <= i
    <3> HIDE DEF at
    <3> QED
      BY <1>1, <1>2, <2>1, LastExists
  <2>3. last(b) \in at(b)
    <3> HIDE DEF at
    <3> QED
      BY <2>2
  <2> HIDE DEF at, last
  <2> QED
    BY <1>1, <2>1, <2>3
<1>3. ASSUME NEW b \in Block PROVE new[b] \in Content
  <2>1. CASE at(b) = {}
    <3>1. new[b] = kv[b]
      BY <2>1
    <3> HIDE DEF new
    <3> QED
      BY <3>1 DEF PoolOK
  <2>2. CASE at(b) # {}
    <3>1. new[b] = [by |-> r, upto |-> Least(last(b) * BlockSize, to)]
      BY <2>2
    <3>2. last(b) * BlockSize \in Nat
      <4>1. last(b) \in Nat
        BY <1>2, <2>2
      <4> HIDE DEF last
      <4> QED
        BY <4>1, ProductNat, BlockSizeAssumption
    <3>3. Least(last(b) * BlockSize, to) \in Nat
      <4> HIDE DEF last
      <4> QED
        BY <3>2 DEF Least
    <3> HIDE DEF new, last
    <3> QED
      BY <3>1, <3>3 DEF Content
  <2> QED
    BY <2>1, <2>2
<1>4. \A b \in held : copy[b] \in Content
  BY DEF Spilled, PoolOK
<1>5. Written(r, from, to) = Promote(new, held)
  BY DEF Written
<1>6. Promote(new, held) \in [Block -> Content]
  <2> HIDE DEF new, held
  <2> QED
    BY <1>3, <1>4 DEF Promote
<1> HIDE DEF new, held
<1> QED
  BY <1>5, <1>6

-----------------------------------------------------------------------------
(* Every handler preserves the invariant.                                  *)

LEMMA InitInv == Init => PoolInv
<1> SUFFICES ASSUME Init PROVE PoolInv
  OBVIOUS
<1>1. PoolOK
  BY DEF Init, PoolOK, Empty, Content
<1>2. TreeOK(tree) /\ MapOK(tree, node)
  BY DEF Init, TreeOK, MapOK
<1>3. ReqOK
  BY DEF Init, ReqOK
<1>4. CallOK
  BY DEF Init, CallOK, Idle
<1> QED
  BY <1>1, <1>2, <1>3, <1>4 DEF PoolInv

LEMMA EnqueueInv == ASSUME PoolInv, NEW r \in Req, Enqueue(r) PROVE PoolInv'
<1> USE DEF PoolInv
<1>1. PoolOK' /\ CallOK'
  BY DEF Enqueue, poolVars, PoolOK, CallOK
<1>2. ReqOK'
  BY DEF Enqueue, ReqOK
<1>3. PICK S \in SUBSET Pinned :
        tree' = [p \in DOMAIN tree |-> IF p \in S THEN [tree[p] EXCEPT !.pin = NoReq] ELSE tree[p]]
  BY DEF Enqueue
<1>4. SameNodes(tree, tree') /\ tree' \in [DOMAIN tree' -> NodeType]
  BY <1>3, UnpinOK
<1>5. TreeOK(tree') /\ MapOK(tree', node)
  BY <1>4, SameNodesOK
<1>6. node' = node
  BY DEF Enqueue
<1> QED
  BY <1>1, <1>2, <1>5, <1>6 DEF TreeOK, MapOK

\* The blocks drive_prefill seeds exist, and leave the last block of the
\* prompt to be computed.
LEMMA SeedOK ==
  ASSUME NEW r \in Req, PoolInv
  PROVE  /\ SeedBlocks(r) \in Nat
         /\ SeedBlocks(r) <= PromptBlocks(r)
         /\ \A i \in 1..SeedBlocks(r) : Path(r, i) \in DOMAIN tree
<1>1. Matched(r) \in Nat /\ \A i \in 1..Matched(r) : Path(r, i) \in DOMAIN tree
  BY MatchedNodes DEF PoolInv
<1>2. PromptBlocks(r) \in Nat \ {0}
  BY PromptBlocksPositive
<1> QED
  BY <1>1, <1>2 DEF SeedBlocks, Least

LEMMA StartPrefillInv ==
  ASSUME PoolInv, NEW r \in Req, NEW t \in Nat, StartPrefill(r, t) PROVE PoolInv'
<1> USE DEF PoolInv
<1> DEFINE n     == SeedBlocks(r)
           found == IF Radix /\ progress[r] = 0 THEN Matched(r) ELSE 0
           hits  == [i \in 1..n |-> tree[Path(r, i)].bid]
           warm  == {tree[Path(r, i)].bid : i \in 1..found} \cap offGpu \cap Spilled
           start == IF n > 0 THEN n * BlockSize ELSE progress[r]
<1>1. n \in Nat /\ n <= PromptBlocks(r) /\ \A i \in 1..n : Path(r, i) \in DOMAIN tree
  BY SeedOK
<1>2. hits \in Seq(Block) /\ Len(hits) = n
  <2>1. \A i \in 1..n : tree[Path(r, i)].bid \in Block
    BY <1>1 DEF TreeOK, NodeType
  <2> HIDE DEF n
  <2> QED
    BY <1>1, <2>1
<1>3. n * BlockSize \in Nat /\ start \in Nat
  <2>1. n * BlockSize \in Nat
    BY <1>1, ProductNat, BlockSizeAssumption
  <2> HIDE DEF n
  <2> QED
    BY <2>1 DEF ReqOK
<1>4. PoolOK'
  <2>1. kv' = Promote(kv, warm) /\ offGpu' = offGpu \ warm /\ free' = free /\ copy' = copy
    BY DEF StartPrefill
  <2>2. refs' = [b \in Block |-> refs[b] + Occurs(b, hits)]
    BY DEF StartPrefill
  <2>3. \A b \in warm : copy[b] \in Content
    BY DEF Spilled, PoolOK
  <2>4. \A b \in Block : Occurs(b, hits) \in Nat
    BY <1>2, OccursNat
  <2>5. kv' \in [Block -> Content]
    <3> HIDE DEF warm
    <3> QED
      BY <2>1, <2>3 DEF Promote, PoolOK
  <2>6. refs' \in [Block -> Nat]
    <3> HIDE DEF hits
    <3> QED
      BY <2>2, <2>4 DEF PoolOK
  <2> HIDE DEF warm, hits
  <2> QED
    BY <2>1, <2>5, <2>6 DEF PoolOK
<1>5. TreeOK(tree') /\ MapOK(tree', node')
  <2>1. tree' = InsertTree(r, hits, 0) /\ node' = node
    BY DEF StartPrefill
  <2>2. TreeOK(tree') /\ DOMAIN tree \subseteq DOMAIN tree' /\ \A p \in DOMAIN tree : tree'[p].bid = tree[p].bid
    <3> HIDE DEF hits, n
    <3> QED
      <4>1. Len(hits) <= KeyBlocks(r)
        <5>1. PromptBlocks(r) \in Nat /\ KeyBlocks(r) \in Nat /\ PromptBlocks(r) <= KeyBlocks(r)
          BY KeyBlocksCover, PromptBlocksPositive
        <5> QED
          BY <1>1, <1>2, <5>1
      <4> QED
        BY <1>1, <1>2, <2>1, <4>1, InsertTreeOK
  <2> QED
    BY <2>1, <2>2 DEF MapOK
<1>6. ReqOK'
  <2>1. table' = [table EXCEPT ![r] = table[r] \o hits] /\ status' = status /\ registered' = registered
    BY DEF StartPrefill
  <2>2. committed' = [committed EXCEPT ![r] = IF n > 0 THEN Len(table'[r]) * BlockSize ELSE committed[r]]
    BY DEF StartPrefill
  <2>3. progress' = [progress EXCEPT ![r] = start] /\ seeded' = [seeded EXCEPT ![r] = IF n > 0 THEN n ELSE seeded[r]]
    BY DEF StartPrefill
  <2>4. table' \in [Req -> Seq(Block)]
    <3>1. table[r] \o hits \in Seq(Block)
      <4> HIDE DEF hits
      <4> QED
        BY <1>2 DEF ReqOK
    <3> HIDE DEF hits
    <3> QED
      BY <2>1, <3>1 DEF ReqOK
  <2>5. Len(table'[r]) * BlockSize \in Nat
    <3>1. Len(table'[r]) \in Nat
      BY <2>4
    <3> QED
      BY <3>1, ProductNat, BlockSizeAssumption
  <2> HIDE DEF hits, n, start
  <2> QED
    BY <1>1, <1>3, <2>1, <2>2, <2>3, <2>4, <2>5 DEF ReqOK
<1>7. CallOK'
  <2>1. call' = IF t <= start THEN Idle
                ELSE [op |-> "prefill", req |-> r, chunk |-> t - start, stage |-> "alloc"]
    BY DEF StartPrefill
  <2> HIDE DEF start
  <2>2. CASE t <= start
    BY <2>1, <2>2 DEF CallOK, Idle
  <2>3. CASE ~(t <= start)
    <3>1. t - start \in Nat
      BY <1>3, <2>3
    <3> QED
      BY <2>1, <2>3, <3>1 DEF CallOK
  <2> QED
    BY <2>2, <2>3
<1> QED
  BY <1>4, <1>5, <1>6, <1>7

LEMMA StartDecodeInv == ASSUME PoolInv, NEW r \in Req, StartDecode(r) PROVE PoolInv'
<1> USE DEF PoolInv
<1>1. PoolOK' /\ ReqOK'
  BY DEF StartDecode, poolVars, reqVars, PoolOK, ReqOK
<1>2. TreeOK(tree)' /\ MapOK(tree, node)'
  BY DEF StartDecode, treeVars, TreeOK, MapOK
<1>3. CallOK'
  BY DEF StartDecode, CallOK
<1> QED
  BY <1>1, <1>2, <1>3

LEMMA AllocPopInv == ASSUME PoolInv, NEW b \in Block, AllocPop(b) PROVE PoolInv'
<1> USE DEF PoolInv
<1>1. PoolOK'
  BY DEF AllocPop, PoolOK
<1>2. TreeOK(tree)' /\ MapOK(tree, node)'
  BY DEF AllocPop, treeVars, TreeOK, MapOK
<1>3. call.req \in Req
  BY DEF AllocPop, Reserving, CallOK
<1>4. ReqOK'
  BY <1>3 DEF AllocPop, reqVars, ReqOK
<1>5. CallOK'
  BY <1>3 DEF AllocPop, CallOK, Idle
<1> QED
  BY <1>1, <1>2, <1>4, <1>5

LEMMA AllocEvictInv == ASSUME PoolInv, NEW p \in DOMAIN tree, AllocEvict(p) PROVE PoolInv'
<1> USE DEF PoolInv
<1> DEFINE leaf  == tree[p].bid
           live  == refs[leaf] > 0
           up(b) == Cardinality({q \in Chain(p) \ {p} : tree[q].bid = b})
           zero  == {b \in Block : up(b) > 0} \cup (IF Spill THEN {} ELSE {leaf})
<1>1. leaf \in Block
  BY DEF TreeOK, NodeType
<1>2. \A b \in Block : up(b) \in Nat
  BY ChainCount
<1>3. PoolOK'
  <2>1. refs' = [b \in Block |-> IF ~live /\ (b = leaf \/ up(b) > 0) THEN 0 ELSE refs[b]]
    BY DEF AllocEvict
  <2>2. free' = [b \in Block |-> IF live THEN free[b]
                                 ELSE free[b] + up(b) + (IF b = leaf /\ ~Spill THEN 1 ELSE 0)]
    BY DEF AllocEvict
  <2>3. copy' = IF Spill /\ ~live THEN [copy EXCEPT ![leaf] = IF up(leaf) > 0 THEN Empty ELSE kv[leaf]]
                ELSE copy
    BY DEF AllocEvict
  <2>4. offGpu' = IF Spill /\ ~live THEN offGpu \cup {leaf} ELSE offGpu
    BY DEF AllocEvict
  <2>5. kv' = [b \in Block |-> IF ~live /\ b \in zero THEN Empty ELSE kv[b]]
    BY DEF AllocEvict
  <2> HIDE DEF leaf, live, up, zero
  <2>6. refs' \in [Block -> Nat] /\ free' \in [Block -> Nat]
    BY <1>2, <2>1, <2>2 DEF PoolOK
  <2>7. Empty \in Content
    BY DEF Empty, Content
  <2>8. kv' \in [Block -> Content]
    BY <2>5, <2>7 DEF PoolOK
  <2>9. copy' \in [Block -> Content \cup {NoCopy}] /\ offGpu' \subseteq Block
    BY <1>1, <2>3, <2>4, <2>7 DEF PoolOK
  <2> QED
    BY <2>6, <2>8, <2>9 DEF PoolOK
<1>4. TreeOK(tree') /\ MapOK(tree', node')
  <2>1. tree' = [q \in DOMAIN tree \ Chain(p) |-> tree[q]]
    BY DEF AllocEvict
  <2>2. node' = [b \in Block |-> IF \E q \in Chain(p) : tree[q].bid = b THEN Root ELSE node[b]]
    BY DEF AllocEvict
  <2> QED
    BY <2>1, <2>2, EvictTreeOK
<1>5. ReqOK'
  BY DEF AllocEvict, reqVars, ReqOK
<1>6. CallOK'
  BY DEF AllocEvict, Reserving, CallOK, Idle
<1> QED
  BY <1>3, <1>4, <1>5, <1>6

LEMMA AllocReclaimInv == ASSUME PoolInv, NEW b \in Block, AllocReclaim(b) PROVE PoolInv'
<1> USE DEF PoolInv
<1>1. PoolOK'
  BY DEF AllocReclaim, PoolOK
<1>2. <<b>> \in Seq(Block)
  OBVIOUS
<1>3. TreeOK(tree') /\ MapOK(tree', node)
  <2>1. tree' = RemoveTree(<<b>>)
    BY DEF AllocReclaim
  <2>2. SameNodes(tree, tree') /\ tree' \in [DOMAIN tree' -> NodeType]
    BY <1>2, <2>1, RemoveTreeOK
  <2> QED
    BY <2>2, SameNodesOK
<1>4. node' = node
  BY DEF AllocReclaim
<1>5. ReqOK'
  BY DEF AllocReclaim, reqVars, ReqOK
<1>6. CallOK'
  BY DEF AllocReclaim, Reserving, CallOK, Idle
<1> QED
  BY <1>1, <1>3, <1>4, <1>5, <1>6 DEF TreeOK, MapOK

\* The two outcomes of alloc that change nothing but the call.
LEMMA AllocEndInv == ASSUME PoolInv, AllocNoEvict \/ AllocFail PROVE PoolInv'
<1> USE DEF PoolInv
<1>1. UNCHANGED <<poolVars, treeVars, table, reqVars>>
  BY DEF AllocNoEvict, AllocFail
<1>2. PoolOK' /\ ReqOK'
  BY <1>1 DEF poolVars, reqVars, PoolOK, ReqOK
<1>3. TreeOK(tree)' /\ MapOK(tree, node)'
  BY <1>1 DEF treeVars, TreeOK, MapOK
<1>4. CallOK'
  BY DEF AllocNoEvict, AllocFail, Reserving, CallOK, Idle
<1> QED
  BY <1>2, <1>3, <1>4

LEMMA FinishPrefillInv == ASSUME PoolInv, FinishPrefill PROVE PoolInv'
<1> USE DEF PoolInv
<1> DEFINE r    == call.req
           to   == committed[r] + call.chunk
           skip == seeded[r] + registered[r]
           reg  == Radix /\ Len(table[r]) > skip
           t    == IF reg THEN InsertTree(r, table[r], skip) ELSE tree
           m    == IF reg THEN InsertNode(r, table[r]) ELSE node
<1>1. r \in Req /\ call.chunk \in Nat
  BY DEF FinishPrefill, CallOK, Idle
<1>2. committed[r] \in Nat /\ to \in Nat /\ skip \in Nat /\ table[r] \in Seq(Block) /\ Len(table[r]) \in Nat
  <2>1. committed[r] \in Nat /\ seeded[r] \in Nat /\ registered[r] \in Nat /\ table[r] \in Seq(Block)
    BY <1>1 DEF ReqOK
  <2> HIDE DEF r
  <2> QED
    BY <1>1, <2>1
<1>3. PoolOK'
  <2>1. kv' = Written(r, committed[r], to) /\ free' = free /\ refs' = refs /\ copy' = copy
    BY DEF FinishPrefill
  <2>2. offGpu' \subseteq offGpu
    BY DEF FinishPrefill
  <2>3. kv' \in [Block -> Content]
    <3> HIDE DEF r, to
    <3> QED
      BY <1>1, <1>2, <2>1, WrittenOK
  <2> QED
    BY <2>1, <2>2, <2>3 DEF PoolOK
<1>4. TreeOK(t) /\ MapOK(t, m)
  <2>1. CASE reg
    <3>1. Len(table[r]) <= KeyBlocks(r)
      BY <2>1 DEF FinishPrefill
    <3>2. TreeOK(InsertTree(r, table[r], skip)) /\ MapOK(InsertTree(r, table[r], skip), InsertNode(r, table[r]))
      <4> HIDE DEF r, skip
      <4> QED
        BY <1>1, <1>2, <3>1, InsertTreeOK, InsertNodeOK
    <3> HIDE DEF reg, r, skip
    <3> QED
      BY <2>1, <3>2
  <2>2. CASE ~reg
    <3> HIDE DEF reg, r, skip
    <3> QED
      BY <2>2
  <2> QED
    BY <2>1, <2>2
<1>5. TreeOK(tree') /\ MapOK(tree', node')
  <2>1. tree' = (IF r \in Session THEN PinTree(r, t, m) ELSE t) /\ node' = m
    BY DEF FinishPrefill
  <2> HIDE DEF t, m, r
  <2>2. SameNodes(t, PinTree(r, t, m)) /\ PinTree(r, t, m) \in [DOMAIN PinTree(r, t, m) -> NodeType]
    BY <1>1, <1>4, PinTreeOK
  <2>3. TreeOK(PinTree(r, t, m)) /\ MapOK(PinTree(r, t, m), m)
    BY <1>4, <2>2, SameNodesOK
  <2> QED
    BY <1>4, <2>1, <2>3
<1>6. ReqOK'
  <2>1. committed' = [committed EXCEPT ![r] = to] /\ progress' = [progress EXCEPT ![r] = progress[r] + call.chunk]
    BY DEF FinishPrefill
  <2>2. registered' = [registered EXCEPT ![r] = IF reg THEN Len(table[r]) ELSE registered[r]]
    BY DEF FinishPrefill
  <2>3. table' = table /\ seeded' = seeded /\ status' = status
    BY DEF FinishPrefill
  <2> HIDE DEF r, to, reg
  <2> QED
    BY <1>1, <1>2, <2>1, <2>2, <2>3, SMTT(40) DEF ReqOK
<1>7. CallOK'
  BY DEF FinishPrefill, CallOK, Idle
<1> QED
  BY <1>3, <1>5, <1>6, <1>7

LEMMA FinishDecodeInv == ASSUME PoolInv, FinishDecode PROVE PoolInv'
<1> USE DEF PoolInv
<1> DEFINE r == call.req
<1>1. r \in Req
  BY DEF FinishDecode, CallOK, Idle
<1>2. committed[r] \in Nat /\ committed[r] + 1 \in Nat
  BY <1>1 DEF ReqOK
<1>3. PoolOK'
  <2>1. kv' = Written(r, committed[r], committed[r] + 1) /\ free' = free /\ refs' = refs /\ copy' = copy
    BY DEF FinishDecode
  <2>2. offGpu' \subseteq offGpu
    BY DEF FinishDecode
  <2>3. kv' \in [Block -> Content]
    <3> HIDE DEF r
    <3> QED
      BY <1>1, <1>2, <2>1, WrittenOK
  <2> QED
    BY <2>1, <2>2, <2>3 DEF PoolOK
<1>4. TreeOK(tree)' /\ MapOK(tree, node)'
  BY DEF FinishDecode, treeVars, TreeOK, MapOK
<1>5. ReqOK'
  BY <1>1, <1>2 DEF FinishDecode, ReqOK
<1>6. CallOK'
  BY DEF FinishDecode, CallOK, Idle
<1> QED
  BY <1>3, <1>4, <1>5, <1>6

LEMMA FinishRequestInv == ASSUME PoolInv, NEW r \in Req, FinishRequest(r) PROVE PoolInv'
<1> USE DEF PoolInv
<1> DEFINE gone == Releases(table[r])
           back == Frees(table[r])
           down == Demoted(table[r])
<1>1. table[r] \in Seq(Block)
  BY DEF ReqOK
<1>2. PoolOK'
  <2>1. refs' = [b \in Block |-> IF b \in gone THEN 0 ELSE IF refs[b] = 0 THEN 0
                                 ELSE refs[b] - Occurs(b, table[r])]
    BY DEF FinishRequest, FreeTable
  <2>2. free' = [b \in Block |-> IF b \in back THEN free[b] + 1 ELSE free[b]]
    BY DEF FinishRequest, FreeTable
  <2>3. kv' = [b \in Block |-> IF b \in back THEN Empty ELSE kv[b]]
    BY DEF FinishRequest, FreeTable
  <2>4. copy' = [b \in Block |-> IF b \in down THEN kv[b] ELSE copy[b]]
    BY DEF FinishRequest, FreeTable
  <2>5. offGpu' = (offGpu \cup down) \ back
    BY DEF FinishRequest, FreeTable
  <2>6. \A b \in Block : Occurs(b, table[r]) \in Nat
    BY <1>1, OccursNat
  <2>7. down \subseteq Block
    BY DEF Demoted, Releases
  <2>8. refs' \in [Block -> Nat]
    <3>1. ASSUME NEW b \in Block, b \notin gone, refs[b] # 0 PROVE refs[b] - Occurs(b, table[r]) \in Nat
      BY <2>6, <3>1 DEF Releases, PoolOK
    <3> HIDE DEF gone
    <3> QED
      BY <2>1, <3>1 DEF PoolOK
  <2> HIDE DEF gone, back, down
  <2>9. Empty \in Content
    BY DEF Empty, Content
  <2>10. free' \in [Block -> Nat] /\ kv' \in [Block -> Content] /\ copy' \in [Block -> Content \cup {NoCopy}]
    BY <2>2, <2>3, <2>4, <2>9 DEF PoolOK
  <2> QED
    BY <2>5, <2>7, <2>8, <2>10 DEF PoolOK
<1>3. TreeOK(tree') /\ MapOK(tree', node)
  <2>1. tree' = RemoveTree(table[r]) \/ tree' = tree
    BY DEF FinishRequest
  <2>2. CASE tree' = RemoveTree(table[r])
    <3>1. SameNodes(tree, tree') /\ tree' \in [DOMAIN tree' -> NodeType]
      BY <1>1, <2>2, RemoveTreeOK
    <3> QED
      BY <3>1, SameNodesOK
  <2>3. CASE tree' = tree
    BY <2>3 DEF TreeOK, MapOK
  <2> QED
    BY <2>1, <2>2, <2>3
<1>4. node' = node /\ CallOK'
  BY DEF FinishRequest, CallOK
<1>5. ReqOK'
  BY DEF FinishRequest, ReqOK
<1> QED
  BY <1>2, <1>3, <1>4, <1>5 DEF TreeOK, MapOK

LEMMA ResetInv == ASSUME PoolInv, ResetPrefixCache PROVE PoolInv'
<1> USE DEF PoolInv
<1>1. PoolOK'
  BY DEF ResetPrefixCache, PoolOK, Empty, Content
<1>2. TreeOK(tree)' /\ MapOK(tree, node)'
  BY DEF ResetPrefixCache, TreeOK, MapOK
<1>3. ReqOK' /\ CallOK'
  BY DEF ResetPrefixCache, reqVars, ReqOK, CallOK
<1> QED
  BY <1>1, <1>2, <1>3

LEMMA ExpirePinsInv == ASSUME PoolInv, NEW r \in Req, ExpirePins(r) PROVE PoolInv'
<1> USE DEF PoolInv
<1> DEFINE S == {p \in DOMAIN tree : tree[p].pin = r}
<1>1. tree' = [p \in DOMAIN tree |-> IF p \in S THEN [tree[p] EXCEPT !.pin = NoReq] ELSE tree[p]]
  BY DEF ExpirePins
<1>2. SameNodes(tree, tree') /\ tree' \in [DOMAIN tree' -> NodeType]
  <2> HIDE DEF S
  <2> QED
    BY <1>1, UnpinOK
<1>3. TreeOK(tree') /\ MapOK(tree', node)
  BY <1>2, SameNodesOK
<1>4. PoolOK' /\ ReqOK' /\ CallOK' /\ node' = node
  BY DEF ExpirePins, poolVars, reqVars, PoolOK, ReqOK, CallOK
<1> QED
  BY <1>3, <1>4 DEF TreeOK, MapOK

LEMMA NextInv == ASSUME PoolInv, [Next]_vars PROVE PoolInv'
<1>1. ASSUME NEW r \in Req, NEW t \in 1..PromptLen(r), StartPrefill(r, t) PROVE PoolInv'
  <2>1. t \in Nat
    BY PromptBlocksPositive
  <2> QED
    BY <1>1, <2>1, StartPrefillInv
<1>2. CASE UNCHANGED vars
  BY <1>2 DEF vars, poolVars, treeVars, reqVars, PoolInv, PoolOK, TreeOK, MapOK, ReqOK, CallOK
<1> QED
  BY <1>1, <1>2, EnqueueInv, StartDecodeInv, FinishRequestInv, ExpirePinsInv, AllocPopInv,
     AllocReclaimInv, AllocEvictInv, AllocEndInv, FinishPrefillInv, FinishDecodeInv, ResetInv
     DEF Next

\* Under every interleaving of the handlers the pool's state has its type.
\* That is not free: seeding reads the block of each matched node, which is
\* a block only because the radix tree stays prefix closed.
THEOREM PoolTypeOK == Spec => []TypeOK
<1>1. PoolInv /\ [Next]_vars => PoolInv'
  BY NextInv
<1> QED
  BY <1>1, InitInv, InvGives, PTL DEF Spec

\* block_to_node always leads to an attached node that carries the block,
\* and detaching a chain never orphans a node.
THEOREM MapLeads == Spec => []MapLeadsToNode
<1>1. PoolInv /\ [Next]_vars => PoolInv'
  BY NextInv
<1> QED
  BY <1>1, InitInv, InvGives, PTL DEF Spec

=============================================================================
