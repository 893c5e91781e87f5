------------------------- MODULE KvOwnershipProofs -------------------------
(***************************************************************************)
(* Who owns a block: without the prefix cache (GRIM_RADIX=0) every block   *)
(* of the pool is on the free list once, in one slot of one table or, with *)
(* a spill manager, parked with no holder, for every number of blocks,     *)
(* requests and tokens.  The second half turns the prefix cache on: what   *)
(* stays true of ref_counts, the tree's claims, the cached blocks and an   *)
(* exhausted pool when tables share blocks with each other and with the    *)
(* tree.                                                                   *)
(***************************************************************************)
EXTENDS KvPoolProofs

\* Some table slot holds block b.
Held(b) == \E r \in Req : \E i \in DOMAIN table[r] : table[r][i] = b

\* No block is in two slots.
OneSlot == \A r, s \in Req : \A i \in DOMAIN table[r] : \A j \in DOMAIN table[s] :
              table[r][i] = table[s][j] => r = s /\ i = j

\* A block is free and unused, or referenced once and in a table, or spilled.
FreeOrHeld == \A b \in Block : \/ free[b] = 1 /\ refs[b] = 0 /\ ~Held(b)
                               \/ free[b] = 0 /\ refs[b] = 1 /\ Held(b)
                               \/ free[b] = 0 /\ refs[b] = 0 /\ ~Held(b) /\ b \in offGpu

\* Nothing is cached, and a page that was reclaimed is there to be popped.
NoCache == DOMAIN tree = {} /\ (call.stage = "reclaimed" => ~NoFree)

OwnInv == PoolInv /\ NoCache /\ OneSlot /\ FreeOrHeld

\* How often a block occurs in a table that holds it, and in one that does not.
LEMMA OccursHeld ==
  ASSUME NEW s \in Seq(Block), NEW b \in Block
  PROVE  /\ (\E i \in DOMAIN s : s[i] = b) => Occurs(b, s) >= 1
         /\ ~(\E i \in DOMAIN s : s[i] = b) => Occurs(b, s) = 0
<1> DEFINE P == {i \in DOMAIN s : s[i] = b}
<1>1. IsFiniteSet(1..Len(s))
  BY FS_Interval
<1>2. IsFiniteSet(P)
  <2>1. P \subseteq 1..Len(s)
    OBVIOUS
  <2> HIDE DEF P
  <2> QED
    BY <1>1, <2>1, FS_Subset
<1>3. Cardinality(P) \in Nat /\ (Cardinality(P) = 0 <=> P = {})
  <2> HIDE DEF P
  <2> QED
    BY <1>2, FS_CardinalityType, FS_EmptySet
<1>4. Occurs(b, s) = Cardinality(P)
  BY DEF Occurs
<1>5. (\E i \in DOMAIN s : s[i] = b) <=> P # {}
  OBVIOUS
<1> HIDE DEF P
<1> QED
  BY <1>3, <1>4, <1>5

\* The invariant is what Ownership says.
LEMMA OwnGives == OwnInv => Ownership
<1> SUFFICES ASSUME OwnInv, NEW b \in Block
             PROVE  \/ free[b] = 1 /\ refs[b] = 0 /\ Slots(b) = {}
                    \/ free[b] = 0 /\ refs[b] = 1 /\ Cardinality(Slots(b)) = 1
                    \/ free[b] = 0 /\ refs[b] = 0 /\ Slots(b) = {} /\ b \in offGpu
  BY DEF Ownership
<1>1. CASE ~Held(b)
  <2>1. Slots(b) = {}
    BY <1>1 DEF Held, Slots
  <2> QED
    BY <1>1, <2>1 DEF OwnInv, FreeOrHeld
<1>2. CASE Held(b)
  <2>1. PICK r \in Req : \E i \in DOMAIN table[r] : table[r][i] = b
    BY <1>2 DEF Held
  <2>2. PICK i \in DOMAIN table[r] : table[r][i] = b
    BY <2>1
  <2>3. <<r, i>> \in Slots(b)
    BY <2>2 DEF Slots
  <2>4. ASSUME NEW x \in Slots(b) PROVE x = <<r, i>>
    <3>1. PICK s \in Req : x \in {<<s, j>> : j \in {k \in DOMAIN table[s] : table[s][k] = b}}
      BY DEF Slots
    <3>2. PICK j \in DOMAIN table[s] : table[s][j] = b /\ x = <<s, j>>
      BY <3>1
    <3>3. s = r /\ j = i
      BY <2>2, <3>2 DEF OwnInv, OneSlot
    <3> QED
      BY <3>2, <3>3
  <2>5. Slots(b) = {<<r, i>>}
    BY <2>3, <2>4
  <2>6. Cardinality(Slots(b)) = 1
    BY <2>5, FS_Singleton
  <2> QED
    BY <1>2, <2>6 DEF OwnInv, FreeOrHeld
<1> QED
  BY <1>1, <1>2

\* A step that leaves counts and tables alone, and promotes at most blocks
\* that are held, leaves ownership alone.
LEMMA OwnSame ==
  ASSUME OneSlot, FreeOrHeld, free' = free, refs' = refs, table' = table,
         \A b \in offGpu : b \in offGpu' \/ Held(b)
  PROVE  OneSlot' /\ FreeOrHeld'
BY DEF OneSlot, FreeOrHeld, Held

LEMMA OwnInit == Init => OwnInv
<1> SUFFICES ASSUME Init PROVE OwnInv
  OBVIOUS
<1>1. PoolInv
  BY InitInv
<1>2. NoCache
  BY DEF Init, NoCache, Idle
<1>3. \A r \in Req : DOMAIN table[r] = {}
  BY DEF Init
<1>4. OneSlot /\ FreeOrHeld
  BY <1>3 DEF Init, OneSlot, FreeOrHeld, Held
<1> QED
  BY <1>1, <1>2, <1>4 DEF OwnInv

\* alloc hands a block that is in no table to exactly one slot.
LEMMA OwnAllocPop ==
  ASSUME OwnInv, NEW b \in Block, AllocPop(b)
  PROVE  OneSlot' /\ FreeOrHeld'
<1> DEFINE q == call.req
<1>1. q \in Req /\ table[q] \in Seq(Block) /\ table \in [Req -> Seq(Block)]
  BY DEF OwnInv, PoolInv, CallOK, ReqOK, AllocPop, Reserving
<1>2. free[b] = 1 /\ refs[b] = 0 /\ ~Held(b)
  BY DEF OwnInv, FreeOrHeld, AllocPop
<1>3. table' = [table EXCEPT ![q] = Append(table[q], b)]
  BY DEF AllocPop
<1>4. free' = [free EXCEPT ![b] = free[b] - 1] /\ refs' = [refs EXCEPT ![b] = 1]
  BY DEF AllocPop
<1> HIDE DEF q
<1>5. \A r \in Req : r # q => table'[r] = table[r]
  BY <1>1, <1>3
<1>6. /\ table'[q] = Append(table[q], b)
      /\ Len(table'[q]) = Len(table[q]) + 1
      /\ table'[q][Len(table[q]) + 1] = b
      /\ \A i \in DOMAIN table[q] : i \in DOMAIN table'[q] /\ table'[q][i] = table[q][i]
      /\ \A i \in DOMAIN table'[q] : i \in DOMAIN table[q] \/ i = Len(table[q]) + 1
      /\ Len(table[q]) + 1 \in DOMAIN table'[q]
  BY <1>1, <1>3
<1>7. ASSUME NEW r \in Req, NEW i \in DOMAIN table'[r]
      PROVE  \/ i \in DOMAIN table[r] /\ table'[r][i] = table[r][i] /\ table[r][i] # b
             \/ r = q /\ i = Len(table[q]) + 1 /\ table'[r][i] = b
  BY <1>2, <1>5, <1>6 DEF Held
<1>8. OneSlot'
  <2> SUFFICES ASSUME NEW r \in Req, NEW s \in Req, NEW i \in DOMAIN table'[r], NEW j \in DOMAIN table'[s],
                      table'[r][i] = table'[s][j]
               PROVE  r = s /\ i = j
    BY DEF OneSlot
  <2> QED
    BY <1>7 DEF OwnInv, OneSlot
<1>9. \A c \in Block : c # b => (Held(c)' <=> Held(c))
  BY <1>5, <1>6, <1>7 DEF Held
<1>10. Held(b)'
  BY <1>1, <1>6 DEF Held
<1>11. free \in [Block -> Nat] /\ refs \in [Block -> Nat]
  BY DEF OwnInv, PoolInv, PoolOK
<1>12. FreeOrHeld'
  <2> SUFFICES ASSUME NEW c \in Block
               PROVE  \/ free'[c] = 1 /\ refs'[c] = 0 /\ ~Held(c)'
                      \/ free'[c] = 0 /\ refs'[c] = 1 /\ Held(c)'
                      \/ free'[c] = 0 /\ refs'[c] = 0 /\ ~Held(c)' /\ c \in offGpu'
    BY DEF FreeOrHeld
  <2>1. CASE c = b
    BY <1>2, <1>4, <1>10, <1>11, <2>1
  <2>2. CASE c # b
    <3>1. free'[c] = free[c] /\ refs'[c] = refs[c] /\ (Held(c)' <=> Held(c)) /\ offGpu' = offGpu
      BY <1>4, <1>9, <1>11, <2>2 DEF AllocPop
    <3> QED
      BY <3>1 DEF OwnInv, FreeOrHeld
  <2> QED
    BY <2>1, <2>2
<1> QED
  BY <1>8, <1>12

\* finish_request gives back every block of the table and no other: to the free
\* list, or to the spill manager.
LEMMA OwnFinish ==
  ASSUME OwnInv, NEW r \in Req, FinishRequest(r)
  PROVE  OneSlot' /\ FreeOrHeld'
<1> DEFINE mine == {b \in Block : \E i \in DOMAIN table[r] : table[r][i] = b}
<1>1. table[r] \in Seq(Block) /\ table \in [Req -> Seq(Block)]
  BY DEF OwnInv, PoolInv, ReqOK
<1>2. \A b \in Block : Occurs(b, table[r]) \in Nat /\ (b \in mine => Occurs(b, table[r]) >= 1)
                       /\ (b \notin mine => Occurs(b, table[r]) = 0)
  BY <1>1, OccursHeld, OccursNat
<1>3. \A b \in mine : Held(b) /\ free[b] = 0 /\ refs[b] = 1
  BY DEF OwnInv, FreeOrHeld, Held
<1>4. refs \in [Block -> Nat] /\ \A b \in Block : refs[b] \in {0, 1}
  BY DEF OwnInv, FreeOrHeld, PoolInv, PoolOK
<1>5. Releases(table[r]) = mine
  <2>1. \A b \in Block : (refs[b] > 0 /\ Occurs(b, table[r]) >= refs[b]) <=> b \in mine
    <3> HIDE DEF mine
    <3> QED
      BY <1>2, <1>3, <1>4
  <2>2. mine \subseteq Block
    OBVIOUS
  <2> HIDE DEF mine
  <2> QED
    BY <2>1, <2>2 DEF Releases
<1>6. \A b \in Block : node[b] = Root
  BY DEF OwnInv, NoCache, PoolInv, MapOK
<1>7. /\ refs' = [b \in Block |-> IF b \in mine THEN 0 ELSE IF refs[b] = 0 THEN 0
                                  ELSE refs[b] - Occurs(b, table[r])]
      /\ ~Spill => free' = [b \in Block |-> IF b \in mine THEN free[b] + 1 ELSE free[b]] /\ offGpu' = offGpu \ mine
      /\ Spill => free' = [b \in Block |-> free[b]] /\ offGpu' = offGpu \cup mine
  <2> HIDE DEF mine
  <2>1. refs' = [b \in Block |-> IF b \in mine THEN 0 ELSE IF refs[b] = 0 THEN 0
                                 ELSE refs[b] - Occurs(b, table[r])]
    BY <1>5 DEF FinishRequest, FreeTable
  <2>2. ASSUME ~Spill
        PROVE  free' = [b \in Block |-> IF b \in mine THEN free[b] + 1 ELSE free[b]] /\ offGpu' = offGpu \ mine
    <3>1. Frees(table[r]) = mine /\ Demoted(table[r]) = {}
      BY <1>5, <1>6, <2>2 DEF Frees, Demoted, Releases
    <3>2. /\ free' = [b \in Block |-> IF b \in Frees(table[r]) THEN free[b] + 1 ELSE free[b]]
          /\ offGpu' = (offGpu \cup Demoted(table[r])) \ Frees(table[r])
      BY DEF FinishRequest, FreeTable
    <3> QED
      BY <3>1, <3>2
  <2>3. ASSUME Spill PROVE free' = [b \in Block |-> free[b]] /\ offGpu' = offGpu \cup mine
    <3>1. Frees(table[r]) = {} /\ Demoted(table[r]) = mine
      BY <1>5, <2>3 DEF Frees, Demoted
    <3>2. /\ free' = [b \in Block |-> IF b \in Frees(table[r]) THEN free[b] + 1 ELSE free[b]]
          /\ offGpu' = (offGpu \cup Demoted(table[r])) \ Frees(table[r])
      BY DEF FinishRequest, FreeTable
    <3> QED
      BY <3>1, <3>2
  <2> QED
    BY <2>1, <2>2, <2>3
<1>8. table' = [table EXCEPT ![r] = <<>>]
  BY DEF FinishRequest
<1>9. DOMAIN table'[r] = {} /\ \A s \in Req : s # r => table'[s] = table[s]
  BY <1>1, <1>8
<1>10. OneSlot'
  BY <1>9 DEF OwnInv, OneSlot
<1>11. \A b \in mine : ~Held(b)'
  BY <1>9 DEF OwnInv, OneSlot, Held
<1>12. \A b \in Block : b \notin mine => (Held(b)' <=> Held(b))
  BY <1>9 DEF Held
<1>13. FreeOrHeld'
  <2> SUFFICES ASSUME NEW c \in Block
               PROVE  \/ free'[c] = 1 /\ refs'[c] = 0 /\ ~Held(c)'
                      \/ free'[c] = 0 /\ refs'[c] = 1 /\ Held(c)'
                      \/ free'[c] = 0 /\ refs'[c] = 0 /\ ~Held(c)' /\ c \in offGpu'
    BY DEF FreeOrHeld
  <2>1. CASE c \in mine
    <3>1. refs'[c] = 0 /\ (free'[c] = 1 \/ (free'[c] = 0 /\ c \in offGpu'))
      <4> HIDE DEF mine
      <4>1. refs'[c] = 0 /\ free[c] = 0
        BY <1>3, <1>7, <2>1
      <4>2. ~Spill => free'[c] = 1
        BY <1>7, <2>1, <4>1
      <4>3. Spill => free'[c] = 0 /\ c \in offGpu'
        BY <1>7, <2>1, <4>1
      <4> QED
        BY <4>1, <4>2, <4>3
    <3> QED
      BY <1>11, <2>1, <3>1
  <2>2. CASE c \notin mine
    <3>1. free'[c] = free[c] /\ refs'[c] = refs[c] /\ (c \in offGpu => c \in offGpu')
      <4> HIDE DEF mine
      <4> QED
        BY <1>2, <1>4, <1>7, <2>2
    <3> QED
      BY <1>12, <2>2, <3>1 DEF OwnInv, FreeOrHeld
  <2> QED
    BY <2>1, <2>2
<1> QED
  BY <1>10, <1>13

\* A prefill that starts without the prefix cache seeds nothing.
LEMMA OwnStartPrefill ==
  ASSUME OwnInv, NEW r \in Req, NEW t \in Nat, StartPrefill(r, t), Radix = FALSE
  PROVE  NoCache' /\ free' = free /\ refs' = refs /\ table' = table /\ offGpu' = offGpu
<1> DEFINE hits == [i \in 1..SeedBlocks(r) |-> tree[Path(r, i)].bid]
<1>1. SeedBlocks(r) = 0
  BY DEF SeedBlocks
<1>2. hits = <<>>
  BY <1>1
<1>3. \A b \in Block : Occurs(b, hits) = 0
  <2>1. <<>> \in Seq(Block) /\ DOMAIN <<>> = {}
    OBVIOUS
  <2> HIDE DEF hits
  <2> QED
    BY <1>2, <2>1, OccursHeld
<1>4. /\ refs' = [b \in Block |-> refs[b] + Occurs(b, hits)]
      /\ table' = [table EXCEPT ![r] = table[r] \o hits]
      /\ tree' = InsertTree(r, hits, 0)
      /\ free' = free
      /\ offGpu' = offGpu \ ({tree[Path(r, i)].bid : i \in 1..0} \cap offGpu \cap Spilled)
  BY DEF StartPrefill
<1>5. refs \in [Block -> Nat] /\ table \in [Req -> Seq(Block)]
  BY DEF OwnInv, PoolInv, PoolOK, ReqOK
<1>6. DOMAIN tree' = {}
  <2>1. DOMAIN InsertTree(r, hits, 0) = DOMAIN tree \cup {Path(r, i) : i \in DOMAIN hits}
    BY DEF InsertTree
  <2>2. DOMAIN hits = {}
    BY <1>2
  <2> HIDE DEF hits
  <2> QED
    BY <1>4, <2>1, <2>2 DEF OwnInv, NoCache
<1> HIDE DEF hits
<1>7. refs' = refs
  BY <1>3, <1>4, <1>5
<1>8. table[r] \o hits = table[r]
  BY <1>2, <1>5
<1>9. table' = table
  BY <1>4, <1>5, <1>8
<1>10. offGpu' = offGpu
  BY <1>4
<1>11. call'.stage = "alloc"
  BY DEF StartPrefill, Idle
<1> QED
  BY <1>4, <1>6, <1>7, <1>9, <1>10, <1>11 DEF NoCache

\* A forward pass that completes registers nothing without the prefix cache.
LEMMA OwnFinishPrefill ==
  ASSUME OwnInv, FinishPrefill, Radix = FALSE
  PROVE  /\ NoCache' /\ free' = free /\ refs' = refs /\ table' = table
         /\ \A b \in offGpu : b \in offGpu' \/ Held(b)
<1>1. free' = free /\ refs' = refs /\ table' = table /\ call'.stage = "alloc"
  BY DEF FinishPrefill, Idle
<1>4. \A b \in offGpu : b \in offGpu' \/ Held(b)
  <2>1. call.req \in Req
    BY DEF FinishPrefill, OwnInv, PoolInv, CallOK, Idle
  <2> QED
    BY <2>1 DEF FinishPrefill, Held
<1>2. tree' = tree \/ tree' = PinTree(call.req, tree, node)
  BY DEF FinishPrefill
<1>3. DOMAIN tree' = DOMAIN tree
  BY <1>2 DEF PinTree
<1> QED
  BY <1>1, <1>3, <1>4 DEF OwnInv, NoCache

\* reclaim_spilled_coldest gives a parked page back to the free list.
LEMMA OwnReclaim ==
  ASSUME OwnInv, NEW b \in Block, AllocReclaim(b)
  PROVE  OneSlot' /\ FreeOrHeld' /\ NoCache'
<1> USE DEF OwnInv
<1>1. /\ free[b] = 0 /\ refs[b] = 0 /\ b \in offGpu /\ free' = [free EXCEPT ![b] = free[b] + 1]
      /\ UNCHANGED <<refs, table, offGpu>>
  BY DEF AllocReclaim, NoFree, Reclaimable
<1>2. free \in [Block -> Nat]
  BY DEF PoolInv, PoolOK
<1>3. free'[b] = 1 /\ \A c \in Block : c # b => free'[c] = free[c]
  BY <1>1, <1>2
<1>4. \A c : Held(c)' <=> Held(c)
  BY <1>1 DEF Held
<1>5. OneSlot'
  BY <1>1 DEF OneSlot
<1>6. FreeOrHeld'
  <2> SUFFICES ASSUME NEW c \in Block
               PROVE  \/ free'[c] = 1 /\ refs'[c] = 0 /\ ~Held(c)'
                      \/ free'[c] = 0 /\ refs'[c] = 1 /\ Held(c)'
                      \/ free'[c] = 0 /\ refs'[c] = 0 /\ ~Held(c)' /\ c \in offGpu'
    BY DEF FreeOrHeld
  <2> QED
    BY <1>1, <1>3, <1>4 DEF FreeOrHeld
<1>7. NoCache'
  <2>1. DOMAIN tree' = DOMAIN tree
    BY DEF AllocReclaim, RemoveTree
  <2>2. ~NoFree'
    BY <1>3 DEF NoFree
  <2> QED
    BY <2>1, <2>2 DEF NoCache
<1> QED
  BY <1>5, <1>6, <1>7

\* reset_prefix_cache frees the parked pages and no other.
LEMMA OwnReset ==
  ASSUME OwnInv, ResetPrefixCache
  PROVE  OneSlot' /\ FreeOrHeld' /\ NoCache'
<1> USE DEF OwnInv
<1>1. /\ free' = [b \in Block |-> IF b \in {c \in Block : refs[c] = 0 /\ free[c] = 0} THEN 1 ELSE free[b]]
      /\ UNCHANGED <<refs, offGpu, table, call>> /\ call = Idle /\ DOMAIN tree' = {}
  BY DEF ResetPrefixCache
<1>2. \A b \in Block : free'[b] = IF refs[b] = 0 /\ free[b] = 0 THEN 1 ELSE free[b]
  BY <1>1
<1>3. \A c : Held(c)' <=> Held(c)
  BY <1>1 DEF Held
<1>4. OneSlot' /\ NoCache'
  BY <1>1 DEF OneSlot, NoCache, Idle
<1>5. FreeOrHeld'
  <2> SUFFICES ASSUME NEW c \in Block
               PROVE  \/ free'[c] = 1 /\ refs'[c] = 0 /\ ~Held(c)'
                      \/ free'[c] = 0 /\ refs'[c] = 1 /\ Held(c)'
                      \/ free'[c] = 0 /\ refs'[c] = 0 /\ ~Held(c)' /\ c \in offGpu'
    BY DEF FreeOrHeld
  <2> QED
    BY <1>1, <1>2, <1>3 DEF FreeOrHeld
<1> QED
  BY <1>4, <1>5

LEMMA OwnStep ==
  ASSUME OwnInv, [Next]_vars, Radix = FALSE
  PROVE  OwnInv'
<1>1. PoolInv'
  BY NextInv DEF OwnInv
<1>2. ASSUME NoCache', free' = free, refs' = refs, table' = table, \A b \in offGpu : b \in offGpu' \/ Held(b)
      PROVE  OwnInv'
  BY <1>1, <1>2, OwnSame DEF OwnInv
<1> USE DEF OwnInv
<1>3. ASSUME NEW r \in Req, Enqueue(r) PROVE OwnInv'
  <2>1. NoCache' /\ free' = free /\ refs' = refs /\ table' = table /\ offGpu' = offGpu
    BY <1>3 DEF Enqueue, poolVars, NoCache, NoFree
  <2> QED
    BY <1>2, <2>1
<1>4. ASSUME NEW r \in Req, NEW t \in 1..PromptLen(r), StartPrefill(r, t) PROVE OwnInv'
  <2>1. t \in Nat
    BY PromptBlocksPositive
  <2> QED
    BY <1>2, <1>4, <2>1, OwnStartPrefill
<1>5. ASSUME NEW r \in Req, StartDecode(r) PROVE OwnInv'
  <2>1. NoCache' /\ free' = free /\ refs' = refs /\ table' = table /\ offGpu' = offGpu
    BY <1>5 DEF StartDecode, poolVars, treeVars, NoCache
  <2> QED
    BY <1>2, <2>1
<1>6. ASSUME NEW r \in Req, FinishRequest(r) PROVE OwnInv'
  <2>1. OneSlot' /\ FreeOrHeld'
    BY <1>6, OwnFinish
  <2>2. DOMAIN tree' = DOMAIN tree /\ call' = Idle
    BY <1>6 DEF FinishRequest, RemoveTree
  <2> QED
    BY <1>1, <2>1, <2>2 DEF NoCache, Idle
<1>7. ASSUME NEW r \in Req, ExpirePins(r) PROVE OwnInv'
  <2>1. NoCache' /\ free' = free /\ refs' = refs /\ table' = table /\ offGpu' = offGpu
    BY <1>7 DEF ExpirePins, poolVars, NoCache, NoFree
  <2> QED
    BY <1>2, <2>1
<1>8. ASSUME NEW b \in Block, AllocPop(b) PROVE OwnInv'
  <2>1. OneSlot' /\ FreeOrHeld'
    BY <1>8, OwnAllocPop
  <2>2. call'.stage = "alloc" /\ tree' = tree
    BY <1>8 DEF AllocPop, treeVars, PoolInv, CallOK
  <2> QED
    BY <1>1, <2>1, <2>2 DEF NoCache
<1>9. ASSUME NEW b \in Block, AllocReclaim(b) PROVE OwnInv'
  BY <1>1, <1>9, OwnReclaim
<1>10. ASSUME NEW p \in DOMAIN tree, AllocEvict(p) PROVE FALSE
  BY <1>10 DEF NoCache
<1>11. ASSUME AllocNoEvict \/ AllocFail PROVE OwnInv'
  <2>1. free' = free /\ refs' = refs /\ table' = table /\ offGpu' = offGpu /\ tree' = tree
    BY <1>11 DEF AllocNoEvict, AllocFail, poolVars, treeVars
  <2>2. call'.stage # "reclaimed"
    BY <1>11 DEF AllocNoEvict, AllocFail, Idle, PoolInv, CallOK
  <2> QED
    BY <1>2, <2>1, <2>2 DEF NoCache
<1>12. ASSUME FinishPrefill PROVE OwnInv'
  BY <1>2, <1>12, OwnFinishPrefill
<1>13. ASSUME FinishDecode PROVE OwnInv'
  <2>1. NoCache' /\ free' = free /\ refs' = refs /\ table' = table
    BY <1>13 DEF FinishDecode, treeVars, NoCache, Idle
  <2>2. call.req \in Req
    BY <1>13 DEF FinishDecode, PoolInv, CallOK, Idle
  <2>3. \A b \in offGpu : b \in offGpu' \/ Held(b)
    BY <1>13, <2>2 DEF FinishDecode, Held
  <2> QED
    BY <1>2, <2>1, <2>3
<1>14. ASSUME ResetPrefixCache PROVE OwnInv'
  BY <1>1, <1>14, OwnReset
<1>15. CASE UNCHANGED vars
  <2>1. NoCache' /\ free' = free /\ refs' = refs /\ table' = table /\ offGpu' = offGpu
    BY <1>15 DEF vars, poolVars, treeVars, NoCache, NoFree
  <2> QED
    BY <1>2, <2>1
<1> HIDE DEF OwnInv
<1> QED
  BY <1>3, <1>4, <1>5, <1>6, <1>7, <1>8, <1>9, <1>10, <1>11, <1>12, <1>13, <1>14, <1>15 DEF Next

\* The invariant gives the other properties about who has a block.
LEMMA OwnGivesRest == OwnInv => RefsCountSlots /\ FreeIsUnused /\ NoStrandedBlock
<1> SUFFICES ASSUME OwnInv, NEW b \in Block
             PROVE  /\ refs[b] = Cardinality(Slots(b))
                    /\ free[b] > 0 => free[b] = 1 /\ refs[b] = 0 /\ Slots(b) = {} /\ node[b] = Root
                    /\ free[b] = 0 => refs[b] > 0 \/ b \in offGpu
  BY DEF RefsCountSlots, FreeIsUnused, NoStrandedBlock
<1>1. Ownership
  BY OwnGives
<1>2. node[b] = Root
  BY DEF OwnInv, NoCache, PoolInv, MapOK
<1>3. Cardinality({}) = 0
  BY FS_EmptySet
<1> QED
  BY <1>1, <1>2, <1>3 DEF Ownership

-----------------------------------------------------------------------------

\* With the prefix cache off, alloc never hands out a block twice and
\* finish_request never loses one: every block is free once, held once, or
\* parked in the spill tier, after any interleaving of admissions, chunked
\* prefills, failed allocations that keep what they reserved, decodes,
\* demotions, reclaims and cancels.
THEOREM BlockOwnership ==
  ASSUME Radix = FALSE
  PROVE  Spec => []Ownership
<1>1. OwnInv /\ [Next]_vars => OwnInv'
  BY OwnStep
<1> QED
  BY <1>1, OwnInit, OwnGives, PTL DEF Spec

\* With the prefix cache off, "block pool exhausted" means what it says: every
\* block is referenced by a live sequence, none is parked.
THEOREM ExhaustedMeansFull ==
  ASSUME Radix = FALSE
  PROVE  Spec => FailsOnlyWhenFull
<1>1. OwnInv /\ [Next]_vars => OwnInv'
  BY OwnStep
<1>2. ASSUME OwnInv, AllocFail, NEW b \in Block PROVE refs[b] > 0
  <2>1. NoFree /\ call.stage = "evicted" /\ Reclaimable = {}
    BY <1>2 DEF AllocFail, OwnInv, NoCache
  <2>2. node[b] \notin Pinned
    BY <1>2 DEF OwnInv, NoCache, Pinned
  <2>3. b \notin Reclaimable
    BY <2>1
  <2> QED
    BY <1>2, <2>1, <2>2, <2>3 DEF Reclaimable, OwnInv, FreeOrHeld, NoFree
<1>3. OwnInv => (AllocFail => \A b \in Block :
        \/ refs[b] > 0
        \/ /\ node[b] # Root
           /\ \E q \in DOMAIN tree : Above(node[b], q) /\ (tree[q].ref > 0 \/ q \in Pinned))
  BY <1>2
<1> QED
  BY <1>1, <1>3, OwnInit, PTL DEF Spec, FailsOnlyWhenFull

\* The three ways the pool's books can be wrong, together.
LEMMA BlockAccounting ==
  ASSUME Radix = FALSE
  PROVE  Spec => [](RefsCountSlots /\ FreeIsUnused /\ NoStrandedBlock)
<1>1. OwnInv /\ [Next]_vars => OwnInv'
  BY OwnStep
<1> QED
  BY <1>1, OwnInit, OwnGivesRest, PTL DEF Spec

\* With the prefix cache off, ref_counts is the number of slots that hold the
\* block, through failed allocations, demotions, reclaims and cancels.
THEOREM RefsAreSlots ==
  ASSUME Radix = FALSE
  PROVE  Spec => []RefsCountSlots
BY BlockAccounting, PTL

\* With the prefix cache off, a block on the free list is there once and no
\* table holds it: alloc never hands out a page in use.
THEOREM FreeStaysUnused ==
  ASSUME Radix = FALSE
  PROVE  Spec => []FreeIsUnused
BY BlockAccounting, PTL

\* With the prefix cache off, a block that no table holds can be allocated again:
\* it is free or can be reclaimed from the spill tier.
THEOREM NoneStranded ==
  ASSUME Radix = FALSE
  PROVE  Spec => []NoStrandedBlock
BY BlockAccounting, PTL

-----------------------------------------------------------------------------
(* What the blocks hold, with the prefix cache and the spill manager off.  *)

\* The blocks of a table hold what its request wrote there.
OwnContent ==
  \A r \in Req : \A i \in 1..DivCeil(committed[r]) :
    /\ i \in DOMAIN table[r]
    /\ kv[table[r][i]] = [by |-> r, upto |-> Least(i * BlockSize, committed[r])]

\* The spill manager holds nothing.
Uncopied == \A b \in Block : copy[b] = NoCopy

\* A decode appends one token.
DecodeOne == call.op = "decode" => call.chunk = 1

ContentInv == OwnInv /\ OwnContent /\ Uncopied /\ DecodeOne

\* The number of full blocks of n tokens.
Full(n) == n \div BlockSize

LEMMA BlockBounds ==
  /\ DivCeil(0) = 0
  /\ \A n \in Nat : Full(n) \in Nat /\ DivCeil(n) \in Nat /\ Full(n) <= DivCeil(n)
<1>1. BlockSize \in Nat /\ BlockSize > 0
  BY BlockSizeAssumption
<1>2. DivCeil(0) = 0
  BY <1>1, Z3 DEF DivCeil
<1>3. ASSUME NEW n \in Nat PROVE Full(n) \in Nat /\ DivCeil(n) \in Nat /\ Full(n) <= DivCeil(n)
  BY <1>1, Z3 DEF DivCeil, Full
<1> QED
  BY <1>2, <1>3

LEMMA FullBlocks ==
  ASSUME NEW n \in Nat, NEW i \in Nat, i <= Full(n)
  PROVE  i * BlockSize <= n /\ i * BlockSize \in Nat
<1>1. BlockSize \in Nat /\ BlockSize > 0
  BY BlockSizeAssumption
<1> DEFINE q == Full(n)
<1>2. q \in Nat /\ q * BlockSize <= n
  BY <1>1, Z3 DEF Full
<1>3. i <= q
  OBVIOUS
<1> HIDE DEF q
<1>4. i * BlockSize <= q * BlockSize
  BY <1>1, <1>2, <1>3, Z3
<1>5. i * BlockSize \in Nat /\ q * BlockSize \in Nat
  BY <1>1, <1>2, ProductNat
<1> QED
  BY <1>2, <1>4, <1>5

\* A forward pass writes the blocks of its own request, from the first one that
\* is not full.
LEMMA WrittenOwn ==
  ASSUME ContentInv, NEW r \in Req, NEW n \in Nat, DivCeil(committed[r] + n) <= Len(table[r]),
         kv' = Written(r, committed[r], committed[r] + n), table' = table,
         committed' = [committed EXCEPT ![r] = committed[r] + n]
  PROVE  OwnContent'
<1> DEFINE from == committed[r]
           to == committed[r] + n
           first == Full(from) + 1
           at(b) == {i \in first..DivCeil(to) : table[r][i] = b}
           last(b) == CHOOSE i \in at(b) : \A j \in at(b) : j <= i
           new == [b \in Block |-> IF at(b) = {} THEN kv[b]
                                   ELSE [by |-> r, upto |-> Least(last(b) * BlockSize, to)]]
<1>1. /\ table \in [Req -> Seq(Block)] /\ committed \in [Req -> Nat] /\ kv \in [Block -> Content]
      /\ table[r] \in Seq(Block) /\ from \in Nat /\ to \in Nat
  BY DEF ContentInv, OwnInv, PoolInv, ReqOK, PoolOK
<1>2. first \in Nat /\ first >= 1 /\ DivCeil(to) \in Nat /\ first - 1 = Full(from) /\ Full(from) <= DivCeil(from)
      /\ DivCeil(from) \in Nat
  <2>1. PICK f \in Nat, g \in Nat : f = from /\ g = to
    BY <1>1
  <2>2. Full(f) \in Nat /\ DivCeil(f) \in Nat /\ DivCeil(g) \in Nat /\ Full(f) <= DivCeil(f)
    BY BlockBounds, Zenon
  <2> HIDE DEF from, to
  <2>3. Full(from) \in Nat /\ DivCeil(from) \in Nat /\ DivCeil(to) \in Nat /\ Full(from) <= DivCeil(from)
    BY <2>1, <2>2
  <2> QED
    BY <2>3
<1>3. kv' = new
  <2>1. Spilled = {}
    BY DEF Spilled, ContentInv, Uncopied
  <2>2. kv' = Promote(new, {})
    BY <2>1 DEF Written, Full
  <2> HIDE DEF new
  <2>3. Promote(new, {}) = [b \in Block |-> new[b]]
    BY DEF Promote
  <2>4. [b \in Block |-> new[b]] = new
    BY DEF new
  <2> QED
    BY <2>2, <2>3, <2>4
<1>4. ASSUME NEW s \in Req, NEW i \in DOMAIN table[s], s # r \/ i < first
      PROVE  kv'[table[s][i]] = kv[table[s][i]]
  <2>1. table[s][i] \in Block
    BY <1>1
  <2>2. at(table[s][i]) = {}
    <3> SUFFICES ASSUME NEW j \in first..DivCeil(to), table[r][j] = table[s][i] PROVE FALSE
      OBVIOUS
    <3>1. j \in DOMAIN table[r]
      BY <1>1, <1>2
    <3>2. s = r /\ j = i
      BY <3>1 DEF ContentInv, OwnInv, OneSlot
    <3> QED
      BY <1>2, <1>4, <3>2
  <2> QED
    BY <1>3, <2>1, <2>2
<1>5. ASSUME NEW i \in first..DivCeil(to)
      PROVE  i \in DOMAIN table[r] /\ kv'[table[r][i]] = [by |-> r, upto |-> Least(i * BlockSize, to)]
  <2>1. i \in DOMAIN table[r]
    BY <1>1, <1>2
  <2> DEFINE b == table[r][i]
  <2>2. b \in Block
    BY <1>1, <2>1
  <2>3. \A j \in at(b) : j = i
    <3> SUFFICES ASSUME NEW j \in first..DivCeil(to), table[r][j] = b PROVE j = i
      OBVIOUS
    <3>1. j \in DOMAIN table[r]
      BY <1>1, <1>2
    <3> QED
      BY <2>1, <3>1 DEF ContentInv, OwnInv, OneSlot
  <2>4. i \in at(b)
    OBVIOUS
  <2>5. at(b) = {i}
    BY <2>3, <2>4
  <2>6. last(b) = i
    <3>1. i <= i
      BY <1>2
    <3> HIDE DEF at, b
    <3> QED
      BY <2>5, <3>1
  <2>7. at(b) # {}
    BY <2>4
  <2>8. new[b] = [by |-> r, upto |-> Least(last(b) * BlockSize, to)]
    <3> HIDE DEF at, b, last
    <3> QED
      BY <2>2, <2>7
  <2> HIDE DEF new, last, at
  <2> QED
    BY <1>3, <2>1, <2>6, <2>8
<1> SUFFICES ASSUME NEW s \in Req, NEW i \in 1..DivCeil(committed'[s])
             PROVE  /\ i \in DOMAIN table[s]
                    /\ kv'[table[s][i]] = [by |-> s, upto |-> Least(i * BlockSize, committed'[s])]
  BY DEF OwnContent
<1>6. CASE s # r
  <2>1. committed'[s] = committed[s]
    BY <1>1, <1>6
  <2>2. i \in DOMAIN table[s] /\ kv[table[s][i]] = [by |-> s, upto |-> Least(i * BlockSize, committed[s])]
    BY <2>1 DEF ContentInv, OwnContent
  <2> QED
    BY <1>4, <1>6, <2>1, <2>2
<1>7. CASE s = r
  <2>1. committed'[s] = to
    BY <1>1, <1>7
  <2>2. CASE i >= first
    <3>1. i \in first..DivCeil(to)
      BY <1>2, <2>1, <2>2
    <3> QED
      BY <1>5, <1>7, <2>1, <3>1
  <2>3. CASE ~(i >= first)
    <3>1. i \in Nat /\ i >= 1 /\ i < first /\ i <= Full(from)
      BY <1>2, <2>1, <2>3
    <3>2. i * BlockSize <= from /\ i * BlockSize \in Nat
      BY <1>1, <3>1, FullBlocks
    <3>7. i \in 1..DivCeil(from)
      BY <1>2, <3>1
    <3>3. i \in DOMAIN table[r] /\ kv[table[r][i]] = [by |-> r, upto |-> Least(i * BlockSize, from)]
      BY <3>7 DEF ContentInv, OwnContent
    <3>4. Least(i * BlockSize, from) = i * BlockSize /\ Least(i * BlockSize, to) = i * BlockSize
      BY <1>1, <3>2 DEF Least
    <3>5. kv'[table[r][i]] = kv[table[r][i]]
      BY <1>4, <3>1, <3>3
    <3> QED
      BY <1>7, <2>1, <3>3, <3>4, <3>5
  <2> QED
    BY <2>2, <2>3
<1> QED
  BY <1>6, <1>7

\* The tables and counts stay, and no block of a table is overwritten.
LEMMA ContentSame ==
  ASSUME ContentInv, table' = table, committed' = committed, copy' = copy,
         \A b \in Block : Held(b) => kv'[b] = kv[b]
  PROVE  OwnContent' /\ Uncopied'
<1>1. table \in [Req -> Seq(Block)]
  BY DEF ContentInv, OwnInv, PoolInv, ReqOK
<1>2. \A r \in Req : \A i \in DOMAIN table[r] : table[r][i] \in Block /\ Held(table[r][i])
  BY <1>1 DEF Held
<1> QED
  BY <1>2 DEF ContentInv, OwnContent, Uncopied

\* alloc appends a block and writes nothing.
LEMMA ContentAllocPop ==
  ASSUME ContentInv, NEW b \in Block, AllocPop(b)
  PROVE  OwnContent' /\ Uncopied'
<1> DEFINE q == call.req
<1>1. q \in Req /\ table[q] \in Seq(Block) /\ table \in [Req -> Seq(Block)]
  BY DEF ContentInv, OwnInv, PoolInv, CallOK, ReqOK, AllocPop, Reserving
<1>2. table' = [table EXCEPT ![q] = Append(table[q], b)] /\ UNCHANGED <<kv, copy, committed>>
  BY DEF AllocPop, reqVars
<1> HIDE DEF q
<1>3. \A r \in Req : \A i \in DOMAIN table[r] : i \in DOMAIN table'[r] /\ table'[r][i] = table[r][i]
  BY <1>1, <1>2
<1> QED
  BY <1>2, <1>3 DEF ContentInv, OwnContent, Uncopied

\* finish_request zeroes the blocks of its own table.
LEMMA ContentFinish ==
  ASSUME ContentInv, NEW r \in Req, FinishRequest(r), Spill = FALSE
  PROVE  OwnContent' /\ Uncopied'
<1>1. table \in [Req -> Seq(Block)] /\ committed \in [Req -> Nat] /\ table[r] \in Seq(Block)
      /\ kv \in [Block -> Content] /\ copy \in [Block -> Content \cup {NoCopy}] /\ refs \in [Block -> Nat]
  BY DEF ContentInv, OwnInv, PoolInv, ReqOK, PoolOK
<1>2. /\ table' = [table EXCEPT ![r] = <<>>] /\ committed' = [committed EXCEPT ![r] = 0]
      /\ kv' = [b \in Block |-> IF b \in Frees(table[r]) THEN Empty ELSE kv[b]]
      /\ copy' = [b \in Block |-> IF b \in Demoted(table[r]) THEN kv[b] ELSE copy[b]]
  BY DEF FinishRequest, FreeTable
<1>3. Uncopied'
  BY <1>2 DEF Demoted, ContentInv, Uncopied
<1>4. ASSUME NEW s \in Req, s # r, NEW i \in DOMAIN table[s] PROVE kv'[table[s][i]] = kv[table[s][i]]
  <2>1. table[s][i] \in Block
    BY <1>1
  <2>2. ~ \E j \in DOMAIN table[r] : table[r][j] = table[s][i]
    BY <1>4 DEF ContentInv, OwnInv, OneSlot
  <2>3. Occurs(table[s][i], table[r]) = 0
    BY <1>1, <2>1, <2>2, OccursHeld
  <2>4. table[s][i] \notin Frees(table[r])
    BY <1>1, <2>1, <2>3 DEF Frees, Releases
  <2> QED
    BY <1>2, <2>1, <2>4
<1>5. OwnContent'
  <2> SUFFICES ASSUME NEW s \in Req, NEW i \in 1..DivCeil(committed'[s])
               PROVE  /\ i \in DOMAIN table'[s]
                      /\ kv'[table'[s][i]] = [by |-> s, upto |-> Least(i * BlockSize, committed'[s])]
    BY DEF OwnContent
  <2>1. CASE s = r
    <3>1. committed'[s] = 0
      BY <1>1, <1>2, <2>1
    <3>2. i \in 1..0
      BY <3>1, BlockBounds
    <3> QED
      BY <3>2
  <2>2. CASE s # r
    <3>1. committed'[s] = committed[s] /\ table'[s] = table[s]
      BY <1>1, <1>2, <2>2
    <3>2. i \in DOMAIN table[s] /\ kv[table[s][i]] = [by |-> s, upto |-> Least(i * BlockSize, committed[s])]
      BY <3>1 DEF ContentInv, OwnContent
    <3> QED
      BY <1>4, <2>2, <3>1, <3>2
  <2> QED
    BY <2>1, <2>2
<1> QED
  BY <1>3, <1>5

\* reset_prefix_cache writes no block.
LEMMA ContentReset ==
  ASSUME ContentInv, ResetPrefixCache
  PROVE  OwnContent' /\ Uncopied'
<1>1. kv' = kv /\ table' = table /\ committed' = committed /\ copy' = copy
  BY DEF ResetPrefixCache, reqVars
<1> QED
  BY <1>1, ContentSame

LEMMA DecodeOneStep ==
  ASSUME CallOK, DecodeOne, [Next]_vars
  PROVE  DecodeOne'
<1>1. \/ call'.op # "decode" \/ call'.chunk = 1
      \/ call' = call
      \/ \E s \in {"alloc", "evicted", "reclaimed"} : call' = [call EXCEPT !.stage = s]
  <2>1. ASSUME NEW r \in Req, \/ Enqueue(r) \/ (\E t \in 1..PromptLen(r) : StartPrefill(r, t))
                             \/ StartDecode(r) \/ FinishRequest(r) \/ ExpirePins(r)
        PROVE  call' = call \/ call'.op # "decode" \/ call'.chunk = 1
    <3>1. CASE Enqueue(r) \/ FinishRequest(r) \/ ExpirePins(r)
      BY <3>1 DEF Enqueue, FinishRequest, ExpirePins
    <3>2. CASE \E t \in 1..PromptLen(r) : StartPrefill(r, t)
      BY <3>2 DEF StartPrefill, Idle
    <3>3. CASE StartDecode(r)
      BY <3>3 DEF StartDecode
    <3> QED
      BY <2>1, <3>1, <3>2, <3>3
  <2>2. ASSUME NEW b \in Block, AllocPop(b) \/ AllocReclaim(b)
        PROVE  \E s \in {"alloc", "evicted", "reclaimed"} : call' = [call EXCEPT !.stage = s]
    BY <2>2 DEF AllocPop, AllocReclaim
  <2>3. ASSUME NEW p \in DOMAIN tree, AllocEvict(p)
        PROVE  \E s \in {"alloc", "evicted", "reclaimed"} : call' = [call EXCEPT !.stage = s]
    <3>1. call' = [call EXCEPT !.stage = "evicted"]
      BY <2>3 DEF AllocEvict
    <3> QED
      BY <3>1
  <2>4. ASSUME AllocNoEvict PROVE \E s \in {"alloc", "evicted", "reclaimed"} : call' = [call EXCEPT !.stage = s]
    BY <2>4 DEF AllocNoEvict
  <2>5. ASSUME AllocFail \/ FinishPrefill \/ FinishDecode \/ ResetPrefixCache
        PROVE  call' = call \/ call'.op # "decode"
    BY <2>5 DEF AllocFail, FinishPrefill, FinishDecode, ResetPrefixCache, Idle
  <2>6. CASE UNCHANGED vars
    BY <2>6 DEF vars
  <2> QED
    BY <2>1, <2>2, <2>3, <2>4, <2>5, <2>6 DEF Next
<1> QED
  BY <1>1 DEF DecodeOne, CallOK

LEMMA ContentStep ==
  ASSUME ContentInv, [Next]_vars, Radix = FALSE, Spill = FALSE
  PROVE  ContentInv'
<1>1. OwnInv' /\ kv \in [Block -> Content] /\ committed \in [Req -> Nat]
  BY OwnStep DEF ContentInv, OwnInv, PoolInv, PoolOK, ReqOK
<1>10. DecodeOne'
  BY DecodeOneStep DEF ContentInv, OwnInv, PoolInv
<1> SUFFICES OwnContent' /\ Uncopied'
  BY <1>1, <1>10 DEF ContentInv
<1>2. ASSUME UNCHANGED <<table, committed, copy, kv>> PROVE OwnContent' /\ Uncopied'
  BY <1>2, ContentSame
<1>3. ASSUME NEW r \in Req, NEW t \in 1..PromptLen(r), StartPrefill(r, t) PROVE OwnContent' /\ Uncopied'
  <2>1. t \in Nat
    BY PromptBlocksPositive
  <2>2. table' = table
    BY <1>3, <2>1, OwnStartPrefill DEF ContentInv
  <2>3. SeedBlocks(r) = 0
    BY DEF SeedBlocks
  <2>4. committed' = committed /\ copy' = copy
    BY <1>1, <1>3, <2>3 DEF StartPrefill
  <2>5. kv' = Promote(kv, {tree[Path(r, i)].bid : i \in 1..0} \cap offGpu \cap Spilled)
    BY <1>3 DEF StartPrefill
  <2>6. kv' = kv
    BY <1>1, <2>5 DEF Promote
  <2> QED
    BY <1>2, <2>2, <2>4, <2>6
<1>4. ASSUME FinishPrefill \/ FinishDecode PROVE OwnContent' /\ Uncopied'
  <2> DEFINE r == call.req
             n == IF call.op = "prefill" THEN call.chunk ELSE 1
  <2>1. r \in Req /\ n \in Nat /\ committed[r] \in Nat
    BY <1>1, <1>4 DEF FinishPrefill, FinishDecode, ContentInv, OwnInv, PoolInv, CallOK, Idle
  <2>2. copy' = copy
    BY <1>4 DEF FinishPrefill, FinishDecode
  <2>3. Uncopied'
    BY <2>2 DEF ContentInv, Uncopied
  <2>4. /\ kv' = Written(r, committed[r], committed[r] + n) /\ table' = table
        /\ committed' = [committed EXCEPT ![r] = committed[r] + n]
    BY <1>4 DEF FinishPrefill, FinishDecode
  <2>5. call # Idle /\ ~Reserving
    BY <1>4 DEF FinishPrefill, FinishDecode, Idle
  <2>6. DivCeil(committed[r] + call.chunk) \in Nat /\ Len(table[r]) \in Nat
    <3>1. call.chunk \in Nat /\ table[r] \in Seq(Block)
      BY <2>1 DEF ContentInv, OwnInv, PoolInv, CallOK, ReqOK
    <3>2. PICK m \in Nat : m = committed[r] + call.chunk
      BY <2>1, <3>1
    <3>3. DivCeil(m) \in Nat
      BY DivCeilNat
    <3> QED
      BY <3>1, <3>2, <3>3
  <2>7. DivCeil(committed[r] + call.chunk) <= Len(table[r])
    BY <2>5, <2>6 DEF Reserving
  <2>8. n = call.chunk
    BY <1>4 DEF FinishPrefill, FinishDecode, ContentInv, DecodeOne
  <2> HIDE DEF r, n
  <2>9. OwnContent'
    BY <2>1, <2>4, <2>7, <2>8, WrittenOwn
  <2> QED
    BY <2>3, <2>9
<1>5. ASSUME NEW r \in Req, Enqueue(r) \/ StartDecode(r) \/ ExpirePins(r) PROVE OwnContent' /\ Uncopied'
  BY <1>2, <1>5 DEF Enqueue, StartDecode, ExpirePins, poolVars, reqVars
<1>6. ASSUME NEW b \in Block, AllocReclaim(b) PROVE OwnContent' /\ Uncopied'
  BY <1>2, <1>6 DEF AllocReclaim, reqVars
<1>7. ASSUME NEW p \in DOMAIN tree, AllocEvict(p) PROVE FALSE
  BY <1>7 DEF ContentInv, OwnInv, NoCache
<1>8. ASSUME AllocNoEvict \/ AllocFail PROVE OwnContent' /\ Uncopied'
  BY <1>2, <1>8 DEF AllocNoEvict, AllocFail, poolVars, reqVars
<1>9. CASE UNCHANGED vars
  BY <1>2, <1>9 DEF vars, poolVars, reqVars
<1> QED
  BY <1>3, <1>4, <1>5, <1>6, <1>7, <1>8, <1>9, ContentAllocPop, ContentFinish, ContentReset DEF Next

LEMMA ContentInit == Init => ContentInv
<1> SUFFICES ASSUME Init PROVE ContentInv
  OBVIOUS
<1>1. OwnInv
  BY OwnInit
<1>2. \A r \in Req : committed[r] = 0
  BY DEF Init
<1>3. \A r \in Req : 1..DivCeil(committed[r]) = {}
  BY <1>2, BlockBounds
<1> QED
  BY <1>1, <1>3 DEF Init, ContentInv, OwnContent, Uncopied, DecodeOne, Idle

\* With the prefix cache and the spill manager off, every committed position of
\* a live request is backed by KV of that request, whatever chunks, failed
\* allocations, retries, decodes and cancels of other requests came between.
THEOREM OwnKvOnly ==
  ASSUME Radix = FALSE, Spill = FALSE
  PROVE  Spec => []LiveContent
<1>1. ContentInv /\ [Next]_vars => ContentInv'
  BY ContentStep
<1>2. ASSUME ContentInv PROVE LiveContent
  <2> SUFFICES ASSUME NEW r \in Live, NEW i \in 1..DivCeil(committed[r])
               PROVE  i <= Len(table[r]) /\ Holds(table[r][i], r, Least(i * BlockSize, committed[r]))
    BY DEF LiveContent
  <2>1. r \in Req
    BY DEF Live
  <2>2. i \in DOMAIN table[r] /\ kv[table[r][i]] = [by |-> r, upto |-> Least(i * BlockSize, committed[r])]
    BY <1>2, <2>1 DEF ContentInv, OwnContent
  <2>3. table[r] \in Seq(Block)
    BY <1>2, <2>1 DEF ContentInv, OwnInv, PoolInv, ReqOK
  <2>4. i <= Len(table[r])
    BY <2>2, <2>3
  <2>5. Holds(table[r][i], r, Least(i * BlockSize, committed[r]))
    BY <2>1, <2>2 DEF Holds, SameStream
  <2> QED
    BY <2>4, <2>5
<1> QED
  BY <1>1, <1>2, ContentInit, PTL DEF Spec

-----------------------------------------------------------------------------
(* The prefix cache, with the spill manager off and whole prompts.         *)

\* What the pool counts on and does not see to.  evict_cold takes no block of a
\* live sequence, a prefill that is tried again seeds nothing on top of the
\* blocks the failed one left, and no reset comes between the two.
SparesHeld == \A p \in DOMAIN tree : AllocEvict(p) => \A q \in Chain(p) : refs[tree[q].bid] = 0
SeedsOnce  == \A r \in Req : \A t \in Nat : StartPrefill(r, t) => table[r] = <<>> \/ SeedBlocks(r) = 0
KeepsSeeds == ResetPrefixCache => \A r \in Live : seeded[r] > 0 => registered[r] > 0
Orderly    == SparesHeld /\ SeedsOnce /\ KeepsSeeds

Filling(r) == call.op = "prefill" /\ call.req = r

\* The prompt is not in the cache of the request yet.
Opening(r) == progress[r] < PromptLen(r)

\* A request before its first prefill and after its end, after a failed prefill,
\* in its prefill, and after it.
Blank(r) == /\ progress[r] = 0 /\ table[r] = <<>> /\ committed[r] = 0
            /\ seeded[r] = 0 /\ registered[r] = 0
Opened(r) == /\ status[r] = "live" /\ registered[r] = 0 /\ seeded[r] < PromptBlocks(r)
             /\ committed[r] = seeded[r] * BlockSize /\ progress[r] = committed[r]
             /\ Opening(r) /\ Len(table[r]) <= PromptBlocks(r)
             /\ \A i \in 1..seeded[r] : /\ i \in DOMAIN table[r] /\ Path(r, i) \in DOMAIN tree
                                        /\ tree[Path(r, i)].bid = table[r][i]
\* n tokens more are the whole prompt.
Rest(r, n) == committed[r] + n = PromptLen(r)
Begun(r) == Opened(r) /\ Rest(r, call.chunk)
Filled(r) == /\ status[r] = "live" /\ progress[r] = PromptLen(r) /\ committed[r] >= PromptLen(r)
             /\ Radix => registered[r] > 0
Phases ==
  /\ \A r \in Req : IF Filling(r) THEN Begun(r) ELSE Blank(r) \/ Opened(r) \/ Filled(r)
  /\ call.op = "decode" => call.chunk = 1 /\ Filled(call.req)
  /\ call.op = "idle" => call = Idle

\* No table holds a block twice.
Apart == \A r \in Req : \A i, j \in DOMAIN table[r] : table[r][i] = table[r][j] => i = j

\* The slots a request may still write: the ones it has not seeded, and the ones
\* that do not lie inside its prompt.  Nobody else has their blocks, and no
\* prompt matches them.
Private(r, i) == IF Opening(r) THEN i > seeded[r] ELSE i * BlockSize > PromptLen(r)
Unshared ==
  \A r \in Req : \A i \in DOMAIN table[r] :
    Private(r, i) =>
      /\ \A s \in Req : \A j \in DOMAIN table[s] : table[s][j] = table[r][i] => s = r
      /\ \/ node[table[r][i]] = Root
         \/ ~ Opening(r) /\ i = PromptBlocks(r) /\ node[table[r][i]] = Path(r, i)

\* Every attached node is the one its block maps to.
NoZombie == \A p \in DOMAIN tree : node[tree[p].bid] = p

\* A block is free and unused, or in use by a table or by the tree.
FreeOrUsed == \A b \in Block : \/ free[b] = 1 /\ ~ Held(b) /\ node[b] = Root
                               \/ free[b] = 0 /\ (Held(b) \/ node[b] # Root)

\* Nothing is spilled.
Resident == offGpu = {} /\ Uncopied

\* ref_counts counts the slots.
RefsCount == \A b \in Block : IsFiniteSet(Slots(b)) /\ refs[b] = Cardinality(Slots(b))

BookInv == PoolInv /\ Phases /\ Apart /\ Unshared /\ NoZombie /\ FreeOrUsed /\ Resident /\ RefsCount

\* Slots, spelled out.
LEMMA SlotsAre ==
  \A b, x : x \in Slots(b) <=> \E r \in Req : \E i \in DOMAIN table[r] : table[r][i] = b /\ x = <<r, i>>
BY DEF Slots

LEMMA SlotsHeld == \A b : Held(b) <=> Slots(b) # {}
<1> SUFFICES ASSUME NEW b PROVE Held(b) <=> Slots(b) # {}
  OBVIOUS
<1>1. ASSUME Held(b) PROVE \E x : x \in Slots(b)
  <2>1. PICK r \in Req : \E i \in DOMAIN table[r] : table[r][i] = b
    BY <1>1 DEF Held
  <2>2. PICK i \in DOMAIN table[r] : table[r][i] = b
    BY <2>1
  <2>3. <<r, i>> \in Slots(b)
    BY <2>2, SlotsAre
  <2> QED
    BY <2>3
<1>2. (\E x : x \in Slots(b)) => Held(b)
  BY SlotsAre DEF Held
<1> QED
  BY <1>1, <1>2

LEMMA SlotsHeldNext == \A b : Held(b)' <=> Slots(b)' # {}
<1> SUFFICES ASSUME NEW b PROVE Held(b)' <=> Slots(b)' # {}
  OBVIOUS
<1>0. \A x : x \in Slots(b)' <=> \E r \in Req : \E i \in DOMAIN table'[r] : table'[r][i] = b /\ x = <<r, i>>
  BY DEF Slots
<1>1. ASSUME Held(b)' PROVE \E x : x \in Slots(b)'
  <2>1. PICK r \in Req : \E i \in DOMAIN table'[r] : table'[r][i] = b
    BY <1>1 DEF Held
  <2>2. PICK i \in DOMAIN table'[r] : table'[r][i] = b
    BY <2>1
  <2>3. <<r, i>> \in Slots(b)'
    BY <1>0, <2>2
  <2> QED
    BY <2>3
<1>2. (\E x : x \in Slots(b)') => Held(b)'
  BY <1>0 DEF Held
<1> QED
  BY <1>1, <1>2

\* A block that is not referenced is in no table, and the other way round.
LEMMA UnheldRefs ==
  ASSUME BookInv, NEW b \in Block
  PROVE  /\ refs[b] = 0 <=> ~ Held(b)
         /\ refs[b] \in Nat
<1>1. IsFiniteSet(Slots(b)) /\ refs[b] = Cardinality(Slots(b))
  BY DEF BookInv, RefsCount
<1>2. Cardinality(Slots(b)) \in Nat /\ (Cardinality(Slots(b)) = 0 <=> Slots(b) = {})
  BY <1>1, FS_CardinalityType, FS_EmptySet
<1> QED
  BY <1>1, <1>2, SlotsHeld

-----------------------------------------------------------------------------
(* Keys and tokens.                                                        *)

\* A key inside the prompt is a whole block, one that reaches past its end is not.
LEMMA KeyLen ==
  ASSUME NEW r \in Req, NEW i \in Nat, i >= 1
  PROVE  /\ BlockKey(r, i) \in Seq(Nat)
         /\ i * BlockSize <= PromptLen(r) => Len(BlockKey(r, i)) = BlockSize
         /\ i * BlockSize > PromptLen(r) => Len(BlockKey(r, i)) # BlockSize
<1> DEFINE n == PromptLen(r)
           a == (i - 1) * BlockSize + 1
           z == Least(i * BlockSize, n)
<1>1. BlockSize \in Nat /\ BlockSize > 0 /\ n \in Nat /\ Prompt[r] \in Seq(Nat) /\ n = Len(Prompt[r])
  BY BlockSizeAssumption, PromptAssumption DEF PromptLen
<1>2. PICK m \in Nat : m = i * BlockSize
  BY <1>1, ProductNat
<1>3. PICK k \in Nat : k = (i - 1) * BlockSize
  BY <1>1, ProductNat
<1>4. m = k + BlockSize
  BY <1>1, <1>2, <1>3, Z3
<1>5. a \in Nat /\ a >= 1 /\ z \in Nat /\ z <= n /\ a = k + 1
  BY <1>1, <1>2, <1>3 DEF Least
<1>6. BlockKey(r, i) = SubSeq(Prompt[r], a, z)
  BY DEF BlockKey
<1> HIDE DEF n, a
<1>7. BlockKey(r, i) \in Seq(Nat) /\ Len(BlockKey(r, i)) = IF a <= z THEN z - a + 1 ELSE 0
  <2> HIDE DEF z
  <2> QED
    BY <1>1, <1>5, <1>6
<1>8. m <= n => z = m
  BY <1>1, <1>2 DEF Least
<1>9. m > n => z = n
  BY <1>1, <1>2 DEF Least
<1> HIDE DEF z
<1>10. m <= n => Len(BlockKey(r, i)) = BlockSize
  BY <1>1, <1>4, <1>5, <1>7, <1>8
<1>11. m > n => Len(BlockKey(r, i)) # BlockSize
  BY <1>1, <1>4, <1>5, <1>7, <1>9
<1> QED
  BY <1>2, <1>7, <1>10, <1>11 DEF n

\* A path that lies inside one prompt and reaches past the end of another is
\* not a path of both.
LEMMA ShortKey ==
  ASSUME NEW r \in Req, NEW s \in Req, NEW i \in Nat, NEW j \in Nat, i >= 1,
         i * BlockSize <= PromptLen(r), j * BlockSize > PromptLen(s), Path(r, i) = Path(s, j)
  PROVE  FALSE
<1>1. i = j
  BY PathPrefix
<1>2. Path(r, i)[i] = BlockKey(r, i) /\ Path(s, i)[i] = BlockKey(s, i)
  BY DEF Path
<1>3. BlockKey(r, i) = BlockKey(s, i)
  BY <1>1, <1>2
<1>4. Len(BlockKey(r, i)) = BlockSize
  BY KeyLen
<1>5. Len(BlockKey(s, i)) # BlockSize
  BY <1>1, KeyLen
<1> QED
  BY <1>3, <1>4, <1>5

\* Two requests that have a path in common have its tokens in common.
LEMMA SamePath ==
  ASSUME NEW r \in Req, NEW s \in Req, NEW i \in Nat, i >= 1,
         i * BlockSize <= PromptLen(r), i * BlockSize <= PromptLen(s), Path(r, i) = Path(s, i)
  PROVE  SubSeq(Prompt[r], 1, i * BlockSize) = SubSeq(Prompt[s], 1, i * BlockSize)
<1>1. BlockSize \in Nat /\ BlockSize > 0
  BY BlockSizeAssumption
<1>2. PICK m \in Nat : m = i * BlockSize
  BY <1>1, ProductNat
<1>3. /\ Prompt[r] \in Seq(Nat) /\ Prompt[s] \in Seq(Nat)
      /\ m <= Len(Prompt[r]) /\ m <= Len(Prompt[s])
  BY <1>2, PromptAssumption DEF PromptLen
<1>4. ASSUME NEW k \in 1..m PROVE Prompt[r][k] = Prompt[s][k]
  <2>1. PICK j \in Nat, o \in Nat : /\ j >= 1 /\ j <= i /\ o >= 1 /\ o <= BlockSize
                                    /\ k = (j - 1) * BlockSize + o
    <3>1. PICK d \in Nat, e \in Nat : k - 1 = d * BlockSize + e /\ e < BlockSize
      <4>1. PICK g \in Nat : g = k - 1
        OBVIOUS
      <4> DEFINE d == Full(g)
      <4>2. d \in Nat /\ d * BlockSize <= g /\ g < d * BlockSize + BlockSize
        BY <1>1, Z3 DEF Full
      <4> HIDE DEF d
      <4>3. PICK y \in Nat : y = d * BlockSize
        BY <1>1, <4>2, ProductNat
      <4>4. g - y \in Nat /\ g - y < BlockSize /\ k - 1 = d * BlockSize + (g - y)
        BY <1>1, <4>1, <4>2, <4>3
      <4> QED
        BY <4>2, <4>4
    <3>2. d < i
      <4> SUFFICES ASSUME i <= d PROVE FALSE
        OBVIOUS
      <4>1. i * BlockSize <= d * BlockSize
        BY <1>1, Z3
      <4>2. PICK y \in Nat : y = d * BlockSize
        BY <1>1, ProductNat
      <4> QED
        BY <1>2, <3>1, <4>1, <4>2
    <3>3. (d + 1) - 1 = d
      OBVIOUS
    <3>4. PICK y \in Nat : y = d * BlockSize
      BY <1>1, ProductNat
    <3>5. d + 1 \in Nat /\ e + 1 \in Nat /\ d + 1 >= 1 /\ d + 1 <= i /\ e + 1 >= 1 /\ e + 1 <= BlockSize
      BY <1>1, <3>1, <3>2
    <3>6. k = d * BlockSize + (e + 1)
      BY <3>1, <3>4
    <3> QED
      BY <3>3, <3>5, <3>6
  <2>2. j * BlockSize <= m
    BY <1>1, <1>2, <2>1, Z3
  <2>3. ASSUME NEW t \in Req, Prompt[t] \in Seq(Nat), m <= Len(Prompt[t])
        PROVE  BlockKey(t, j)[o] = Prompt[t][k]
    <3>1. PICK y \in Nat : y = (j - 1) * BlockSize
      BY <1>1, <2>1, ProductNat
    <3>2. PICK w \in Nat : w = j * BlockSize
      BY <1>1, ProductNat
    <3>3. w = y + BlockSize
      BY <1>1, <2>1, <3>1, <3>2, Z3
    <3>4. Least(w, Len(Prompt[t])) = w /\ w <= Len(Prompt[t])
      BY <2>2, <2>3, <3>2 DEF Least
    <3>5. BlockKey(t, j) = SubSeq(Prompt[t], y + 1, w)
      BY <3>1, <3>2, <3>4 DEF BlockKey, PromptLen
    <3>6. SubSeq(Prompt[t], y + 1, w)[o] = Prompt[t][y + 1 + o - 1]
      BY <1>1, <2>1, <2>3, <3>3, <3>4
    <3>7. y + 1 + o - 1 = k
      BY <2>1, <3>1
    <3> QED
      BY <3>5, <3>6, <3>7
  <2>4. BlockKey(r, j) = BlockKey(s, j)
    <3>1. j \in 1..i
      BY <2>1
    <3>2. Path(r, i)[j] = BlockKey(r, j) /\ Path(s, i)[j] = BlockKey(s, j)
      BY <3>1 DEF Path
    <3> QED
      BY <3>2
  <2> QED
    BY <1>3, <2>3, <2>4
<1>5. SubSeq(Prompt[r], 1, m) = SubSeq(Prompt[s], 1, m)
  BY <1>3, <1>4
<1> QED
  BY <1>2, <1>5

-----------------------------------------------------------------------------
(* The books: every handler keeps them.                                    *)

LEMMA BookInit == Init => BookInv
<1> SUFFICES ASSUME Init PROVE BookInv
  OBVIOUS
<1>1. PoolInv
  BY InitInv
<1>2. \A r \in Req : DOMAIN table[r] = {} /\ Blank(r) /\ ~ Filling(r)
  BY DEF Init, Blank, Filling, Idle
<1>3. Phases /\ Apart /\ Unshared
  BY <1>2 DEF Phases, Apart, Unshared, Init, Idle
<1>4. \A b \in Block : ~ Held(b)
  BY <1>2 DEF Held
<1>5. NoZombie /\ FreeOrUsed /\ Resident
  BY <1>4 DEF Init, NoZombie, FreeOrUsed, Resident, Uncopied
<1>6. \A b \in Block : Slots(b) = {}
  BY <1>4, SlotsHeld
<1>7. RefsCount
  BY <1>6, FS_EmptySet DEF RefsCount, Init
<1> QED
  BY <1>1, <1>3, <1>5, <1>7 DEF BookInv

\* A step that leaves tables, map and counts alone, and at most moves a call on,
\* ends it, starts a failed prefill again or appends what a decode wrote.
LEMMA BookSame ==
  ASSUME BookInv, PoolInv', SameNodes(tree, tree'),
         UNCHANGED <<free, refs, node, table, offGpu, copy, progress, seeded, registered>>,
         \A r \in Req : status[r] = "live" => status'[r] = "live",
         \A r \in Req : committed'[r] = committed[r] \/ (Filled(r) /\ committed'[r] = committed[r] + 1),
         \A r \in Req : Filling(r)' => Opened(r) /\ Rest(r, call'.chunk),
         call'.op = "decode" => call'.chunk = 1 /\ call'.req \in Req /\ Filled(call'.req),
         call'.op = "idle" => call' = Idle
  PROVE  BookInv'
<1>1. /\ \A r \in Req : IF Filling(r) THEN Begun(r) ELSE Blank(r) \/ Opened(r) \/ Filled(r)
      /\ committed \in [Req -> Nat]
      /\ \A r \in Req : PromptLen(r) \in Nat
  BY PromptBlocksPositive DEF BookInv, Phases, PoolInv, ReqOK
<1>2. ASSUME NEW r \in Req, Filled(r) PROVE Filled(r)'
  <2>1. committed[r] \in Nat /\ PromptLen(r) \in Nat /\ committed[r] >= PromptLen(r)
    BY <1>1, <1>2 DEF Filled
  <2>2. committed'[r] >= PromptLen(r)
    BY <2>1
  <2> QED
    BY <1>2, <2>2 DEF Filled
<1>3. ASSUME NEW r \in Req, Opened(r) PROVE Opened(r)' /\ committed'[r] = committed[r]
  <2>0. ~ Filled(r)
    BY <1>1, <1>3 DEF Opened, Opening, Filled
  <2>1. committed'[r] = committed[r]
    BY <2>0
  <2>2. \A i \in 1..seeded[r] : /\ i \in DOMAIN table[r] /\ Path(r, i) \in DOMAIN tree'
                                /\ tree'[Path(r, i)].bid = table[r][i]
    BY <1>3 DEF Opened, SameNodes
  <2>3. Opening(r)'
    BY <1>3 DEF Opened, Opening
  <2> QED
    BY <1>3, <2>1, <2>2, <2>3 DEF Opened
<1>4. ASSUME NEW r \in Req, Filling(r)' PROVE Begun(r)'
  BY <1>3, <1>4 DEF Begun, Rest
<1>5. ASSUME NEW r \in Req PROVE Blank(r)' \/ Opened(r)' \/ Filled(r)'
  <2>1. CASE Filled(r)
    BY <1>2, <2>1
  <2>2. CASE Opened(r)
    BY <1>3, <2>2
  <2>3. CASE ~ Filled(r) /\ ~ Opened(r)
    <3>1. Blank(r) /\ committed'[r] = committed[r]
      BY <1>1, <2>3 DEF Begun
    <3> QED
      BY <3>1 DEF Blank
  <2> QED
    BY <2>1, <2>2, <2>3
<1>6. Phases'
  <2>1. \A r \in Req : IF Filling(r)' THEN Begun(r)' ELSE Blank(r)' \/ Opened(r)' \/ Filled(r)'
    BY <1>4, <1>5
  <2>2. ASSUME call'.op = "decode" PROVE call'.chunk = 1 /\ Filled(call.req)'
    <3>1. PICK q \in Req : q = call'.req
      BY <2>2
    <3>2. Filled(q)'
      BY <1>2, <2>2, <3>1
    <3> QED
      BY <2>2, <3>1, <3>2 DEF Filled
  <2> QED
    BY <2>1, <2>2 DEF Phases
<1>7. Apart' /\ RefsCount'
  BY DEF BookInv, Apart, RefsCount, Slots
<1>8. \A r \in Req : \A i : (Private(r, i)' <=> Private(r, i)) /\ (Opening(r)' <=> Opening(r))
  BY DEF Private, Opening
<1>9. Unshared'
  BY <1>8 DEF BookInv, Unshared
<1>10. NoZombie'
  BY DEF BookInv, NoZombie, SameNodes
<1>11. FreeOrUsed' /\ Resident'
  BY DEF BookInv, FreeOrUsed, Resident, Uncopied, Held
<1> QED
  BY <1>6, <1>7, <1>9, <1>10, <1>11 DEF BookInv

\* The calls that change none of the books.
LEMMA BookQuiet ==
  ASSUME BookInv, PoolInv',
         \/ \E r \in Req : Enqueue(r) \/ StartDecode(r) \/ ExpirePins(r)
         \/ AllocNoEvict \/ AllocFail \/ FinishDecode \/ UNCHANGED vars
  PROVE  BookInv'
<1> USE DEF BookInv, PoolInv
<1>1. /\ TreeOK(tree) /\ committed \in [Req -> Nat] /\ status \in [Req -> {"new", "live", "done"}]
      /\ \A r \in Req : PromptLen(r) \in Nat \ {0}
      /\ \A r \in Req : IF Filling(r) THEN Begun(r) ELSE Blank(r) \/ Opened(r) \/ Filled(r)
      /\ call.op = "decode" => call.chunk = 1 /\ Filled(call.req) /\ call.req \in Req
      /\ call.op = "idle" => call = Idle
  <2>1. \A r \in Req : PromptLen(r) \in Nat \ {0}
    BY PromptBlocksPositive
  <2>2. TreeOK(tree) /\ committed \in [Req -> Nat] /\ status \in [Req -> {"new", "live", "done"}]
    BY DEF ReqOK
  <2>3. call.op = "decode" => call.req \in Req
    BY DEF CallOK, Idle
  <2> QED
    BY <2>1, <2>2, <2>3 DEF Phases
<1>2. ASSUME NEW r \in Req, Enqueue(r) PROVE BookInv'
  <2>1. PICK S \in SUBSET Pinned :
          tree' = [p \in DOMAIN tree |-> IF p \in S THEN [tree[p] EXCEPT !.pin = NoReq] ELSE tree[p]]
    BY <1>2 DEF Enqueue
  <2>2. SameNodes(tree, tree')
    BY <1>1, <2>1, UnpinOK
  <2>3. /\ UNCHANGED <<free, refs, node, table, offGpu, copy, progress, seeded, registered, committed, call>>
        /\ status' = [status EXCEPT ![r] = "live"]
    BY <1>2 DEF Enqueue, poolVars
  <2>4. \A s \in Req : status[s] = "live" => status'[s] = "live"
    BY <1>1, <2>3
  <2>5. \A s \in Req : Filling(s)' => Opened(s) /\ Rest(s, call'.chunk)
    BY <1>1, <2>3 DEF Filling, Begun
  <2> HIDE DEF BookInv, PoolInv
  <2> QED
    BY <1>1, <2>2, <2>3, <2>4, <2>5, BookSame
<1>3. ASSUME NEW r \in Req, ExpirePins(r) PROVE BookInv'
  <2> DEFINE S == {p \in DOMAIN tree : tree[p].pin = r}
  <2>1. tree' = [p \in DOMAIN tree |-> IF p \in S THEN [tree[p] EXCEPT !.pin = NoReq] ELSE tree[p]]
    BY <1>3 DEF ExpirePins
  <2>2. SameNodes(tree, tree')
    <3> HIDE DEF S
    <3> QED
      BY <1>1, <2>1, UnpinOK
  <2>3. UNCHANGED <<free, refs, node, table, offGpu, copy, progress, seeded, registered, committed, status, call>>
    BY <1>3 DEF ExpirePins, poolVars, reqVars
  <2>5. \A s \in Req : Filling(s)' => Opened(s) /\ Rest(s, call'.chunk)
    BY <1>1, <2>3 DEF Filling, Begun
  <2> HIDE DEF BookInv, PoolInv
  <2> QED
    BY <1>1, <2>2, <2>3, <2>5, BookSame
<1>4. ASSUME SameNodes(tree, tree'),
             UNCHANGED <<free, refs, node, table, offGpu, copy, progress, seeded, registered, committed, status>>,
             \A s \in Req : Filling(s)' => Opened(s) /\ Rest(s, call'.chunk),
             call'.op = "decode" => call'.chunk = 1 /\ call'.req \in Req /\ Filled(call'.req),
             call'.op = "idle" => call' = Idle
      PROVE  BookInv'
  <2> HIDE DEF BookInv, PoolInv
  <2> QED
    BY <1>4, BookSame
<1>5. ASSUME tree' = tree PROVE SameNodes(tree, tree')
  BY <1>5 DEF SameNodes
<1>6. ASSUME NEW r \in Req, StartDecode(r) PROVE BookInv'
  <2>1. /\ UNCHANGED <<free, refs, node, table, offGpu, copy, progress, seeded, registered, committed, status, tree>>
        /\ call = Idle /\ progress[r] = PromptLen(r)
        /\ call'.op = "decode" /\ call'.req = r /\ call'.chunk = 1
    BY <1>6 DEF StartDecode, poolVars, treeVars, reqVars
  <2>2. Filled(r)
    BY <1>1, <2>1 DEF Blank, Opened, Opening, Filling, Idle
  <2>3. \A s \in Req : ~ Filling(s)'
    BY <2>1 DEF Filling
  <2> QED
    BY <1>4, <1>5, <2>1, <2>2, <2>3 DEF Idle
<1>7. ASSUME AllocNoEvict PROVE BookInv'
  <2>1. /\ UNCHANGED <<free, refs, node, table, offGpu, copy, progress, seeded, registered, committed, status, tree>>
        /\ call # Idle /\ call'.op = call.op /\ call'.req = call.req /\ call'.chunk = call.chunk
    BY <1>7 DEF AllocNoEvict, Reserving, CallOK, poolVars, treeVars, reqVars
  <2>3. \A s \in Req : Filling(s)' => Opened(s) /\ Rest(s, call'.chunk)
    BY <1>1, <2>1 DEF Filling, Begun
  <2> QED
    BY <1>1, <1>4, <1>5, <2>1, <2>3
<1>8. ASSUME AllocFail PROVE BookInv'
  <2>1. /\ UNCHANGED <<free, refs, node, table, offGpu, copy, progress, seeded, registered, committed, status, tree>>
        /\ call' = Idle
    BY <1>8 DEF AllocFail, poolVars, treeVars, reqVars
  <2>3. \A s \in Req : ~ Filling(s)'
    BY <2>1 DEF Filling, Idle
  <2> QED
    BY <1>4, <1>5, <1>8, <2>1, <2>3 DEF Idle
<1>9. ASSUME UNCHANGED vars PROVE BookInv'
  <2>1. UNCHANGED <<free, refs, node, table, offGpu, copy, progress, seeded, registered, committed, status, tree, call>>
    BY <1>9 DEF vars, poolVars, treeVars, reqVars
  <2>3. \A s \in Req : Filling(s)' => Opened(s) /\ Rest(s, call'.chunk)
    BY <1>1, <2>1 DEF Filling, Begun
  <2> QED
    BY <1>1, <1>4, <1>5, <2>1, <2>3
<1>10. ASSUME FinishDecode PROVE BookInv'
  <2>1. /\ UNCHANGED <<free, refs, node, table, copy, progress, seeded, registered, status, tree>>
        /\ call.op = "decode" /\ call' = Idle /\ offGpu' \subseteq offGpu
        /\ committed' = [committed EXCEPT ![call.req] = committed[call.req] + 1]
    BY <1>10 DEF FinishDecode, treeVars
  <2>2. offGpu' = offGpu
    BY <2>1 DEF Resident
  <2>3. \A s \in Req : ~ Filling(s)'
    BY <2>1 DEF Filling, Idle
  <2>4. \A s \in Req : committed'[s] = committed[s] \/ (Filled(s) /\ committed'[s] = committed[s] + 1)
    BY <1>1, <2>1
  <2>5. SameNodes(tree, tree')
    BY <1>5, <2>1
  <2>6. call'.op = "idle"
    BY <2>1 DEF Idle
  <2> HIDE DEF BookInv, PoolInv
  <2> QED
    BY <2>1, <2>2, <2>3, <2>4, <2>5, <2>6, BookSame
<1> QED
  BY <1>2, <1>3, <1>6, <1>7, <1>8, <1>9, <1>10

\* alloc from the free list: the block was nobody's, and is one slot's now.
LEMMA BookAllocPop ==
  ASSUME BookInv, PoolInv', NEW b \in Block, AllocPop(b)
  PROVE  BookInv'
<1> DEFINE q == call.req
           n == Len(table[q]) + 1
<1>1. q \in Req /\ table[q] \in Seq(Block) /\ table \in [Req -> Seq(Block)] /\ n \in Nat
      /\ free \in [Block -> Nat] /\ refs \in [Block -> Nat]
  <2>1. q \in Req /\ table \in [Req -> Seq(Block)]
    BY DEF BookInv, PoolInv, CallOK, ReqOK, AllocPop, Reserving
  <2> HIDE DEF q
  <2> QED
    BY <2>1 DEF BookInv, PoolInv, PoolOK
<1>2. free[b] = 1 /\ ~Held(b) /\ node[b] = Root
  BY DEF BookInv, FreeOrUsed, AllocPop
<1>3. /\ table' = [table EXCEPT ![q] = Append(table[q], b)]
      /\ free' = [free EXCEPT ![b] = free[b] - 1] /\ refs' = [refs EXCEPT ![b] = 1]
      /\ UNCHANGED <<tree, node, offGpu, copy, committed, progress, seeded, registered, status>>
  BY DEF AllocPop, treeVars, reqVars
<1>4. call # Idle /\ call'.op = call.op /\ call'.req = q /\ call'.chunk = call.chunk
  BY DEF AllocPop, Reserving, BookInv, PoolInv, CallOK
<1> HIDE DEF q
<1>5. \A r \in Req : r # q => table'[r] = table[r]
  BY <1>1, <1>3
<1>6. /\ table'[q] = Append(table[q], b)
      /\ table'[q][n] = b /\ n \in DOMAIN table'[q] /\ n \notin DOMAIN table[q]
      /\ \A i \in DOMAIN table[q] : i \in DOMAIN table'[q] /\ table'[q][i] = table[q][i]
      /\ \A i \in DOMAIN table'[q] : i \in DOMAIN table[q] \/ i = n
  BY <1>1, <1>3
<1> HIDE DEF n
<1>7. ASSUME NEW r \in Req, NEW i \in DOMAIN table'[r]
      PROVE  \/ i \in DOMAIN table[r] /\ table'[r][i] = table[r][i] /\ table[r][i] # b
             \/ r = q /\ i = n /\ table'[r][i] = b
  BY <1>2, <1>5, <1>6 DEF Held
<1>8. ASSUME NEW r \in Req, NEW i \in DOMAIN table[r]
      PROVE  i \in DOMAIN table'[r] /\ table'[r][i] = table[r][i]
  BY <1>5, <1>6
<1>9. \A r \in Req : (Filling(r)' <=> Filling(r)) /\ (Opening(r)' <=> Opening(r))
  BY <1>3, <1>4 DEF Filling, Opening, q
<1>10. Phases'
  <2>1. ASSUME NEW r \in Req, Filling(r) PROVE Begun(r)'
    <3>1. Opened(r) /\ Rest(r, call.chunk)
      BY <2>1 DEF BookInv, Phases, Begun
    <3>2. \A i \in 1..seeded[r] : /\ i \in DOMAIN table'[r] /\ Path(r, i) \in DOMAIN tree
                                  /\ tree[Path(r, i)].bid = table'[r][i]
      BY <1>8, <3>1 DEF Opened
    <3>3. r = q
      BY <2>1 DEF Filling, q
    <3>4. Len(table[r]) < PromptBlocks(r)
      BY <3>1, <3>3 DEF AllocPop, Reserving, Rest, PromptBlocks, q
    <3>5. Len(table'[r]) <= PromptBlocks(r)
      <4>1. PromptBlocks(r) \in Nat
        BY PromptBlocksPositive
      <4> QED
        BY <1>1, <1>6, <3>3, <3>4, <4>1
    <3>6. Opened(r)'
      BY <1>3, <1>9, <3>1, <3>2, <3>5 DEF Opened
    <3> QED
      BY <1>3, <1>4, <3>1, <3>6 DEF Begun, Rest
  <2>2. ASSUME NEW r \in Req, Filled(r) PROVE Filled(r)'
    BY <1>3, <2>2 DEF Filled
  <2>3. ASSUME NEW r \in Req, ~ Filling(r) PROVE Blank(r)' \/ Opened(r)' \/ Filled(r)'
    <3>1. CASE r = q
      <4>1. call.op = "decode"
        BY <1>1, <1>4, <2>3, <3>1 DEF Filling, BookInv, Phases, q, PoolInv, CallOK
      <4>2. Filled(r)
        BY <3>1, <4>1 DEF BookInv, Phases, q
      <4> QED
        BY <2>2, <4>2
    <3>2. CASE r # q
      <4>1. table'[r] = table[r] /\ (Blank(r) \/ Opened(r) \/ Filled(r))
        BY <1>5, <2>3, <3>2 DEF BookInv, Phases
      <4>2. Blank(r) => Blank(r)'
        BY <1>3, <4>1 DEF Blank
      <4>3. Opened(r) => Opened(r)'
        BY <1>3, <1>9, <4>1 DEF Opened
      <4> QED
        BY <2>2, <4>1, <4>2, <4>3
    <3> QED
      BY <3>1, <3>2
  <2>5. call'.op # "idle"
    BY <1>4 DEF BookInv, Phases
  <2>6. call'.op = "decode" => call'.chunk = 1 /\ Filled(call.req)'
    BY <1>1, <1>4, <2>2 DEF BookInv, Phases, q
  <2> QED
    BY <1>9, <2>1, <2>3, <2>5, <2>6 DEF Phases
<1>11. Apart'
  <2> SUFFICES ASSUME NEW r \in Req, NEW i \in DOMAIN table'[r], NEW j \in DOMAIN table'[r],
                      table'[r][i] = table'[r][j]
               PROVE  i = j
    BY DEF Apart
  <2> QED
    BY <1>7 DEF BookInv, Apart
<1>12. \A r \in Req : \A i : Private(r, i)' <=> Private(r, i)
  BY <1>3, <1>9 DEF Private
<1>13. Unshared'
  <2> SUFFICES ASSUME NEW r \in Req, NEW i \in DOMAIN table'[r], Private(r, i)
               PROVE  /\ \A s \in Req : \A j \in DOMAIN table'[s] : table'[s][j] = table'[r][i] => s = r
                      /\ \/ node[table'[r][i]] = Root
                         \/ ~ Opening(r) /\ i = PromptBlocks(r) /\ node[table'[r][i]] = Path(r, i)
    BY <1>3, <1>9, <1>12 DEF Unshared
  <2>1. CASE i \in DOMAIN table[r] /\ table'[r][i] = table[r][i] /\ table[r][i] # b
    BY <1>7, <2>1 DEF BookInv, Unshared
  <2>2. CASE r = q /\ i = n /\ table'[r][i] = b
    BY <1>2, <1>7, <2>2
  <2> QED
    BY <1>7, <2>1, <2>2
<1>14. NoZombie' /\ Resident'
  BY <1>3 DEF BookInv, NoZombie, Resident, Uncopied
<1>15. ASSUME NEW c \in Block, c # b
       PROVE  (Held(c)' <=> Held(c)) /\ Slots(c)' = Slots(c) /\ free'[c] = free[c] /\ refs'[c] = refs[c]
  <2>1. Held(c)' <=> Held(c)
    BY <1>7, <1>8, <1>15 DEF Held
  <2>2. \A x : x \in Slots(c)' <=> \E r \in Req : \E i \in DOMAIN table'[r] : table'[r][i] = c /\ x = <<r, i>>
    BY DEF Slots
  <2>3. \A x : x \in Slots(c)' <=> x \in Slots(c)
    BY <1>7, <1>8, <1>15, <2>2, SlotsAre
  <2>4. Slots(c)' = Slots(c)
    BY <2>3
  <2> QED
    BY <1>1, <1>3, <1>15, <2>1, <2>4
<1>16. Held(b)' /\ free'[b] = 0 /\ refs'[b] = 1
  <2>1. Held(b)'
    BY <1>1, <1>6 DEF Held
  <2> QED
    BY <1>1, <1>2, <1>3, <2>1
<1>17. Slots(b)' = {<<q, n>>}
  <2>1. \A x : x \in Slots(b)' <=> \E r \in Req : \E i \in DOMAIN table'[r] : table'[r][i] = b /\ x = <<r, i>>
    BY DEF Slots
  <2>2. \A x : x \in Slots(b)' <=> x = <<q, n>>
    BY <1>1, <1>6, <1>7, <2>1
  <2> QED
    BY <2>2
<1>18. FreeOrUsed'
  BY <1>3, <1>15, <1>16 DEF BookInv, FreeOrUsed
<1>19. RefsCount'
  <2>1. IsFiniteSet(Slots(b)') /\ Cardinality(Slots(b)') = 1
    BY <1>17, FS_Singleton
  <2> QED
    BY <1>15, <1>16, <2>1 DEF BookInv, RefsCount
<1> QED
  BY <1>10, <1>11, <1>13, <1>14, <1>18, <1>19 DEF BookInv

\* What evict_cold does when no block of the chain is in use: the chain's blocks,
\* one for each node, are free once.
LEMMA EvictEffect ==
  ASSUME BookInv, NEW p \in DOMAIN tree, AllocEvict(p), Spill = FALSE,
         \A q \in Chain(p) : refs[tree[q].bid] = 0
  PROVE  /\ \A b \in Block : (\E q \in Chain(p) : tree[q].bid = b) =>
              /\ free[b] = 0 /\ refs[b] = 0 /\ ~ Held(b) /\ free'[b] = 1 /\ node'[b] = Root
              /\ kv'[b] = Empty
         /\ \A b \in Block : ~ (\E q \in Chain(p) : tree[q].bid = b) =>
              free'[b] = free[b] /\ node'[b] = node[b] /\ kv'[b] = kv[b]
         /\ refs' = refs /\ offGpu' = offGpu /\ copy' = copy
<1> DEFINE leaf == tree[p].bid
           live == refs[leaf] > 0
           ups(b) == {q \in Chain(p) \ {p} : tree[q].bid = b}
           up(b) == Cardinality(ups(b))
           zero == {b \in Block : up(b) > 0} \cup (IF Spill THEN {} ELSE {leaf})
<1>1. /\ refs' = [b \in Block |-> IF ~live /\ (b = leaf \/ up(b) > 0) THEN 0 ELSE refs[b]]
      /\ free' = [b \in Block |-> IF live THEN free[b]
                                  ELSE free[b] + up(b) + (IF b = leaf /\ ~Spill THEN 1 ELSE 0)]
      /\ copy' = IF Spill /\ ~live THEN [copy EXCEPT ![leaf] = IF up(leaf) > 0 THEN Empty ELSE kv[leaf]]
                 ELSE copy
      /\ offGpu' = IF Spill /\ ~live THEN offGpu \cup {leaf} ELSE offGpu
      /\ kv' = [b \in Block |-> IF ~live /\ b \in zero THEN Empty ELSE kv[b]]
      /\ node' = [b \in Block |-> IF \E q \in Chain(p) : tree[q].bid = b THEN Root ELSE node[b]]
  BY DEF AllocEvict
<1>2. p \in Chain(p) /\ \A q \in Chain(p) : q \in DOMAIN tree
  <2>1. p \in Seq(Keys) /\ \A d \in DOMAIN tree : d \in Seq(Keys)
    BY PathsShape DEF BookInv, PoolInv, TreeOK
  <2>2. Above(p, p)
    BY <2>1 DEF Above
  <2>3. \A d \in DOMAIN tree : Above(p, d) => Above(d, p)
    <3>1. Childless(p)
      BY DEF AllocEvict, Evictable
    <3> QED
      BY <2>2, <3>1 DEF Childless
  <2> QED
    BY <2>2, <2>3 DEF Chain
<1>3. ~ live /\ leaf \in Block /\ refs \in [Block -> Nat] /\ free \in [Block -> Nat] /\ kv \in [Block -> Content]
  <2>1. refs[leaf] = 0
    BY <1>2
  <2>2. leaf \in Block
    BY DEF BookInv, PoolInv, TreeOK, NodeType
  <2> HIDE DEF leaf
  <2> QED
    BY <2>1, <2>2 DEF BookInv, PoolInv, PoolOK
<1>4. ASSUME NEW q \in Chain(p) PROVE node[tree[q].bid] = q /\ q # Root
  BY <1>2, PathsShape DEF BookInv, NoZombie, PoolInv, TreeOK
<1>5. ASSUME NEW b \in Block, NEW q \in Chain(p), tree[q].bid = b
      PROVE  /\ free[b] = 0 /\ refs[b] = 0 /\ ~ Held(b)
             /\ q = p => up(b) = 0 /\ b = leaf
             /\ q # p => up(b) = 1 /\ b # leaf
  <2>1. node[b] = q /\ node[b] # Root /\ refs[b] = 0
    BY <1>4, <1>5
  <2>2. ~ Held(b)
    BY <2>1, UnheldRefs
  <2>3. free[b] = 0
    BY <2>1 DEF BookInv, FreeOrUsed
  <2>4. ASSUME q = p PROVE up(b) = 0 /\ b = leaf
    <3>1. ups(b) = {}
      BY <1>4, <2>1, <2>4
    <3>2. b = leaf
      BY <1>5, <2>4
    <3> HIDE DEF ups, leaf
    <3> QED
      BY <3>1, <3>2, FS_EmptySet
  <2>5. ASSUME q # p PROVE up(b) = 1 /\ b # leaf
    <3>1. ups(b) = {q}
      BY <1>4, <1>5, <2>1, <2>5
    <3>2. b # leaf
      BY <1>2, <1>4, <2>1, <2>5
    <3> HIDE DEF ups, leaf
    <3> QED
      BY <3>1, <3>2, FS_Singleton
  <2> HIDE DEF up, leaf
  <2> QED
    BY <2>1, <2>2, <2>3, <2>4, <2>5
<1>6. ASSUME NEW b \in Block, ~ \E q \in Chain(p) : tree[q].bid = b
      PROVE  up(b) = 0 /\ b # leaf
  <2>1. ups(b) = {}
    BY <1>6
  <2>2. b # leaf
    BY <1>2, <1>6
  <2> HIDE DEF ups, leaf
  <2> QED
    BY <2>1, <2>2, FS_EmptySet
<1>10. ASSUME NEW b \in Block PROVE b \in zero <=> (b = leaf \/ up(b) > 0)
  BY <1>3
<1> HIDE DEF leaf, live, up, zero
<1>7. ASSUME NEW b \in Block, \E q \in Chain(p) : tree[q].bid = b
      PROVE  /\ free[b] = 0 /\ refs[b] = 0 /\ ~ Held(b) /\ free'[b] = 1 /\ node'[b] = Root
             /\ kv'[b] = Empty
  <2>1. PICK q \in Chain(p) : tree[q].bid = b
    BY <1>7
  <2>2. /\ free[b] = 0 /\ refs[b] = 0 /\ ~ Held(b) 
        /\ (up(b) = 0 /\ b = leaf) \/ (up(b) = 1 /\ b # leaf)
    BY <1>5, <2>1
  <2>3. free'[b] = 1
    BY <1>1, <1>3, <2>2
  <2>4. b \in zero
    BY <1>10, <2>2
  <2> QED
    BY <1>1, <1>3, <1>7, <2>2, <2>3, <2>4
<1>8. ASSUME NEW b \in Block, ~ \E q \in Chain(p) : tree[q].bid = b
      PROVE  free'[b] = free[b] /\ node'[b] = node[b] /\ kv'[b] = kv[b]
  <2>1. up(b) = 0 /\ b # leaf /\ b \notin zero /\ free[b] \in Nat
    BY <1>3, <1>6, <1>8, <1>10
  <2> QED
    BY <1>1, <1>3, <1>8, <2>1
<1>9. refs' = refs
  <2>1. ASSUME NEW b \in Block, b = leaf \/ up(b) > 0 PROVE refs[b] = 0
    <3>1. \E q \in Chain(p) : tree[q].bid = b
      BY <1>6, <2>1
    <3> QED
      BY <3>1
  <2> QED
    BY <1>1, <1>3, <2>1
<1> QED
  BY <1>1, <1>7, <1>8, <1>9

LEMMA BookEvict ==
  ASSUME BookInv, PoolInv', NEW p \in DOMAIN tree, AllocEvict(p), Spill = FALSE,
         \A q \in Chain(p) : refs[tree[q].bid] = 0
  PROVE  BookInv'
<1> DEFINE gone(b) == \E q \in Chain(p) : tree[q].bid = b
<1>1. /\ \A b \in Block : gone(b) => /\ free[b] = 0 /\ refs[b] = 0 /\ ~ Held(b) /\ free'[b] = 1 /\ node'[b] = Root
                                     /\ kv'[b] = Empty
      /\ \A b \in Block : ~ gone(b) => free'[b] = free[b] /\ node'[b] = node[b] /\ kv'[b] = kv[b]
      /\ refs' = refs /\ offGpu' = offGpu /\ copy' = copy
  BY EvictEffect
<1>2. /\ tree' = [q \in DOMAIN tree \ Chain(p) |-> tree[q]]
      /\ UNCHANGED <<table, committed, progress, seeded, registered, status>>
      /\ call # Idle /\ call' = [call EXCEPT !.stage = "evicted"]
  BY DEF AllocEvict, Reserving, reqVars
<1>3. call'.op = call.op /\ call'.req = call.req /\ call'.chunk = call.chunk
  BY <1>2 DEF BookInv, PoolInv, CallOK
<1>4. table \in [Req -> Seq(Block)] /\ \A q \in DOMAIN tree : tree[q].bid \in Block
  BY DEF BookInv, PoolInv, ReqOK, TreeOK, NodeType
<1>5. \A q \in Chain(p) : gone(tree[q].bid)
  OBVIOUS
<1> HIDE DEF gone
<1>6. \A r \in Req : (Filling(r)' <=> Filling(r)) /\ (Opening(r)' <=> Opening(r))
  BY <1>2, <1>3 DEF Filling, Opening
<1>7. Phases'
  <2>1. ASSUME NEW r \in Req, Opened(r) PROVE Opened(r)'
    <3>2. ASSUME NEW i \in 1..seeded[r]
          PROVE  i \in DOMAIN table[r] /\ Path(r, i) \in DOMAIN tree' /\ tree'[Path(r, i)].bid = table[r][i]
      <4>1. i \in DOMAIN table[r] /\ Path(r, i) \in DOMAIN tree /\ tree[Path(r, i)].bid = table[r][i]
        BY <2>1 DEF Opened
      <4>2. Held(table[r][i]) /\ table[r][i] \in Block
        BY <1>4, <4>1 DEF Held
      <4>3. Path(r, i) \notin Chain(p)
        BY <1>1, <1>5, <4>1, <4>2
      <4> QED
        BY <1>2, <4>1, <4>3
    <3> QED
      BY <1>2, <1>6, <2>1, <3>2 DEF Opened
  <2>2. ASSUME NEW r \in Req, Filled(r) PROVE Filled(r)'
    BY <1>2, <2>2 DEF Filled
  <2>6. ASSUME NEW r \in Req, Filling(r) PROVE Begun(r)'
    <3>1. Opened(r) /\ Rest(r, call.chunk)
      BY <2>6 DEF BookInv, Phases, Begun
    <3> QED
      BY <1>2, <1>3, <2>1, <3>1 DEF Begun, Rest
  <2>3. ASSUME NEW r \in Req, ~ Filling(r) PROVE Blank(r)' \/ Opened(r)' \/ Filled(r)'
    <3>1. Blank(r) \/ Opened(r) \/ Filled(r)
      BY <2>3 DEF BookInv, Phases
    <3>2. Blank(r) => Blank(r)'
      BY <1>2 DEF Blank
    <3> QED
      BY <2>1, <2>2, <3>1, <3>2
  <2>4. call'.op # "idle"
    BY <1>2, <1>3 DEF BookInv, Phases
  <2>5. call'.op = "decode" => call'.chunk = 1 /\ Filled(call.req)'
    BY <1>2, <1>3 DEF BookInv, Phases, Filled
  <2> QED
    BY <1>6, <2>3, <2>4, <2>5, <2>6 DEF Phases
<1>8. Apart' /\ RefsCount' /\ Resident'
  BY <1>1, <1>2 DEF BookInv, Apart, RefsCount, Slots, Resident, Uncopied
<1>9. \A r \in Req : \A i : Private(r, i)' <=> Private(r, i)
  BY <1>2, <1>6 DEF Private
<1>10. \A b \in Block : node'[b] = Root \/ node'[b] = node[b]
  BY <1>1
<1>11. Unshared'
  <2> SUFFICES ASSUME NEW r \in Req, NEW i \in DOMAIN table[r], Private(r, i)
               PROVE  /\ \A s \in Req : \A j \in DOMAIN table[s] : table[s][j] = table[r][i] => s = r
                      /\ \/ node'[table[r][i]] = Root
                         \/ ~ Opening(r) /\ i = PromptBlocks(r) /\ node'[table[r][i]] = Path(r, i)
    BY <1>2, <1>6, <1>9 DEF Unshared
  <2>1. table[r][i] \in Block
    BY <1>4
  <2> QED
    BY <1>10, <2>1 DEF BookInv, Unshared
<1>12. NoZombie'
  <2> SUFFICES ASSUME NEW q \in DOMAIN tree, q \notin Chain(p) PROVE node'[tree[q].bid] = q
    BY <1>2 DEF NoZombie
  <2>1. node[tree[q].bid] = q /\ tree[q].bid \in Block
    BY <1>4 DEF BookInv, NoZombie
  <2>2. ~ gone(tree[q].bid)
    <3> SUFFICES ASSUME NEW d \in Chain(p), tree[d].bid = tree[q].bid PROVE FALSE
      BY DEF gone
    <3>1. d \in DOMAIN tree
      BY DEF Chain
    <3>2. node[tree[d].bid] = d
      BY <3>1 DEF BookInv, NoZombie
    <3> QED
      BY <2>1, <3>2
  <2> QED
    BY <1>1, <2>1, <2>2
<1>13. FreeOrUsed'
  <2> SUFFICES ASSUME NEW b \in Block
               PROVE  \/ free'[b] = 1 /\ ~ Held(b)' /\ node'[b] = Root
                      \/ free'[b] = 0 /\ (Held(b)' \/ node'[b] # Root)
    BY DEF FreeOrUsed
  <2>1. Held(b)' <=> Held(b)
    BY <1>2 DEF Held
  <2>2. CASE gone(b)
    BY <1>1, <2>1, <2>2
  <2>3. CASE ~ gone(b)
    <3>1. free'[b] = free[b] /\ node'[b] = node[b]
      BY <1>1, <2>3
    <3> QED
      BY <2>1, <3>1 DEF BookInv, FreeOrUsed
  <2> QED
    BY <2>2, <2>3
<1> QED
  BY <1>7, <1>8, <1>11, <1>12, <1>13 DEF BookInv

LEMMA BookReset ==
  ASSUME BookInv, PoolInv', ResetPrefixCache, KeepsSeeds
  PROVE  BookInv'
<1>1. /\ free' = [b \in Block |-> IF b \in {c \in Block : refs[c] = 0 /\ free[c] = 0} THEN 1 ELSE free[b]]
      /\ UNCHANGED <<refs, copy, offGpu, table, committed, progress, seeded, registered, status, call>>
      /\ call = Idle /\ DOMAIN tree' = {} /\ node' = [b \in Block |-> Root]
  BY DEF ResetPrefixCache, reqVars
<1>2. \A r \in Req : ~ Filling(r) /\ ~ Filling(r)' /\ (Opening(r)' <=> Opening(r))
  BY <1>1 DEF Filling, Idle, Opening
<1>3. Phases'
  <2>1. ASSUME NEW r \in Req, Opened(r) PROVE Opened(r)'
    <3>1. r \in Live /\ registered[r] = 0 /\ seeded[r] \in Nat
      BY <2>1 DEF Opened, Live, BookInv, PoolInv, ReqOK
    <3>2. seeded[r] = 0
      BY <3>1 DEF KeepsSeeds
    <3>3. 1..seeded[r] = {}
      BY <3>2
    <3> QED
      BY <1>1, <1>2, <2>1, <3>3 DEF Opened
  <2>2. \A r \in Req : Blank(r)' \/ Opened(r)' \/ Filled(r)'
    BY <1>1, <1>2, <2>1 DEF BookInv, Phases, Blank, Filled
  <2> QED
    BY <1>1, <1>2, <2>2 DEF Phases, Idle
<1>4. Apart' /\ RefsCount' /\ Resident' /\ NoZombie'
  BY <1>1 DEF BookInv, Apart, RefsCount, Slots, Resident, Uncopied, NoZombie
<1>5. table \in [Req -> Seq(Block)]
  BY DEF BookInv, PoolInv, ReqOK
<1>6. Unshared'
  <2> SUFFICES ASSUME NEW r \in Req, NEW i \in DOMAIN table[r], Private(r, i)'
               PROVE  /\ \A s \in Req : \A j \in DOMAIN table[s] : table[s][j] = table[r][i] => s = r
                      /\ node'[table[r][i]] = Root
    BY <1>1 DEF Unshared
  <2>1. Private(r, i) /\ table[r][i] \in Block
    BY <1>1, <1>2, <1>5 DEF Private
  <2> QED
    BY <1>1, <2>1 DEF BookInv, Unshared
<1>7. FreeOrUsed'
  <2> SUFFICES ASSUME NEW b \in Block
               PROVE  \/ free'[b] = 1 /\ ~ Held(b)' /\ node'[b] = Root
                      \/ free'[b] = 0 /\ (Held(b)' \/ node'[b] # Root)
    BY DEF FreeOrUsed
  <2>1. (Held(b)' <=> Held(b)) /\ node'[b] = Root
    BY <1>1 DEF Held
  <2>2. refs[b] = 0 <=> ~ Held(b)
    BY UnheldRefs
  <2>3. free'[b] = IF refs[b] = 0 /\ free[b] = 0 THEN 1 ELSE free[b]
    BY <1>1
  <2> QED
    BY <2>1, <2>2, <2>3 DEF BookInv, FreeOrUsed
<1> QED
  BY <1>3, <1>4, <1>6, <1>7 DEF BookInv

\* A block that a table holds once occurs once in it.
LEMMA OccursOnce ==
  ASSUME NEW s \in Seq(Block), NEW i \in DOMAIN s, \A j \in DOMAIN s : s[j] = s[i] => j = i
  PROVE  Occurs(s[i], s) = 1
<1> DEFINE P == {j \in DOMAIN s : s[j] = s[i]}
<1>1. P = {i}
  OBVIOUS
<1>2. Occurs(s[i], s) = Cardinality(P)
  BY DEF Occurs
<1> HIDE DEF P
<1> QED
  BY <1>1, <1>2, FS_Singleton

\* What finish_request does to the pool: one reference of every block of the
\* table goes, and the block with it when that was the last one.
LEMMA FinishEffect ==
  ASSUME BookInv, NEW r \in Req, FinishRequest(r), Spill = FALSE
  PROVE  LET mine(b) == \E i \in DOMAIN table[r] : table[r][i] = b
         IN  /\ table'[r] = <<>> /\ DOMAIN table'[r] = {} /\ \A s \in Req : s # r => table'[s] = table[s]
             /\ node' = node /\ SameNodes(tree, tree') /\ offGpu' = offGpu /\ Uncopied'
             /\ \A b \in Block : ~ mine(b) => /\ refs'[b] = refs[b] /\ free'[b] = free[b] /\ kv'[b] = kv[b]
                                              /\ Slots(b)' = Slots(b)
             /\ \A b \in Block : mine(b) =>
                  /\ refs[b] >= 1 /\ refs'[b] = refs[b] - 1 /\ free[b] = 0
                  /\ IsFiniteSet(Slots(b)') /\ Cardinality(Slots(b)') = refs'[b]
                  /\ IF refs[b] = 1 /\ node[b] = Root THEN free'[b] = 1 /\ kv'[b] = Empty
                     ELSE free'[b] = 0 /\ kv'[b] = kv[b]
<1> DEFINE mine(b) == \E i \in DOMAIN table[r] : table[r][i] = b
           gone == Releases(table[r])
           back == Frees(table[r])
           down == Demoted(table[r])
<1>1. table \in [Req -> Seq(Block)] /\ table[r] \in Seq(Block) /\ refs \in [Block -> Nat] /\ free \in [Block -> Nat]
      /\ TreeOK(tree) /\ kv \in [Block -> Content]
  BY DEF BookInv, PoolInv, ReqOK, PoolOK
<1>2. /\ refs' = [b \in Block |-> IF b \in gone THEN 0 ELSE IF refs[b] = 0 THEN 0
                                  ELSE refs[b] - Occurs(b, table[r])]
      /\ free' = [b \in Block |-> IF b \in back THEN free[b] + 1 ELSE free[b]]
      /\ kv' = [b \in Block |-> IF b \in back THEN Empty ELSE kv[b]]
      /\ copy' = [b \in Block |-> IF b \in down THEN kv[b] ELSE copy[b]]
      /\ offGpu' = (offGpu \cup down) \ back
      /\ table' = [table EXCEPT ![r] = <<>>] /\ node' = node
  BY DEF FinishRequest, FreeTable
<1>3. down = {} /\ back = {b \in gone : node[b] = Root}
  BY DEF Demoted, Frees
<1>4. gone = {b \in Block : refs[b] > 0 /\ Occurs(b, table[r]) >= refs[b]}
  BY DEF Releases
<1> HIDE DEF gone, back, down
<1>5. offGpu' = offGpu /\ Uncopied'
  BY <1>2, <1>3 DEF BookInv, Resident, Uncopied
<1>6. SameNodes(tree, tree')
  <2>1. tree' = RemoveTree(table[r]) \/ tree' = tree
    BY DEF FinishRequest
  <2>2. SameNodes(tree, RemoveTree(table[r])) /\ SameNodes(tree, tree)
    BY <1>1, RemoveTreeOK DEF SameNodes
  <2> QED
    BY <2>1, <2>2
<1>7. table'[r] = <<>> /\ DOMAIN table'[r] = {} /\ \A s \in Req : s # r => table'[s] = table[s]
  BY <1>1, <1>2
<1>8. ASSUME NEW b \in Block
      PROVE  \A x : x \in Slots(b)' <=>
                \E s \in Req : s # r /\ \E i \in DOMAIN table[s] : table[s][i] = b /\ x = <<s, i>>
  <2>1. \A x : x \in Slots(b)' <=> \E s \in Req : \E i \in DOMAIN table'[s] : table'[s][i] = b /\ x = <<s, i>>
    BY DEF Slots
  <2> QED
    BY <1>7, <2>1
<1>9. ASSUME NEW b \in Block, ~ mine(b)
      PROVE  refs'[b] = refs[b] /\ free'[b] = free[b] /\ kv'[b] = kv[b] /\ Slots(b)' = Slots(b)
  <2>1. Occurs(b, table[r]) = 0
    BY <1>1, <1>9, OccursHeld
  <2>2. b \notin gone /\ b \notin back
    BY <1>1, <1>3, <1>4, <2>1
  <2>3. \A x : x \in Slots(b)' <=> x \in Slots(b)
    BY <1>8, <1>9, SlotsAre
  <2>4. Slots(b)' = Slots(b)
    BY <2>3
  <2>5. refs'[b] = refs[b]
    BY <1>1, <1>2, <2>1, <2>2
  <2> QED
    BY <1>2, <2>2, <2>4, <2>5
<1>10. ASSUME NEW b \in Block, mine(b)
       PROVE  /\ refs[b] >= 1 /\ refs'[b] = refs[b] - 1 /\ free[b] = 0
              /\ IsFiniteSet(Slots(b)') /\ Cardinality(Slots(b)') = refs'[b]
              /\ IF refs[b] = 1 /\ node[b] = Root THEN free'[b] = 1 /\ kv'[b] = Empty
                 ELSE free'[b] = 0 /\ kv'[b] = kv[b]
  <2>1. PICK i \in DOMAIN table[r] : table[r][i] = b
    BY <1>10
  <2>2. \A j \in DOMAIN table[r] : table[r][j] = table[r][i] => j = i
    BY DEF BookInv, Apart
  <2>3. Occurs(b, table[r]) = 1
    BY <1>1, <2>1, <2>2, OccursOnce
  <2>4. Held(b)
    BY <2>1 DEF Held
  <2>5. refs[b] >= 1 /\ free[b] = 0 /\ refs[b] \in Nat
    <3>1. refs[b] # 0 /\ refs[b] \in Nat
      BY <2>4, UnheldRefs
    <3> QED
      BY <2>4, <3>1 DEF BookInv, FreeOrUsed
  <2>6. b \in gone <=> refs[b] = 1
    BY <1>4, <2>3, <2>5
  <2>7. refs'[b] = refs[b] - 1
    BY <1>2, <2>3, <2>5, <2>6
  <2>8. IF refs[b] = 1 /\ node[b] = Root THEN free'[b] = 1 /\ kv'[b] = Empty
        ELSE free'[b] = 0 /\ kv'[b] = kv[b]
    BY <1>2, <1>3, <2>5, <2>6
  <2>9. Slots(b)' = Slots(b) \ {<<r, i>>}
    <3>1. ASSUME NEW x \in Slots(b)' PROVE x \in Slots(b) /\ x # <<r, i>>
      <4>1. PICK s \in Req : s # r /\ \E j \in DOMAIN table[s] : table[s][j] = b /\ x = <<s, j>>
        BY <1>8
      <4> QED
        BY <4>1, SlotsAre
    <3>2. ASSUME NEW x \in Slots(b), x # <<r, i>> PROVE x \in Slots(b)'
      <4>1. PICK s \in Req : \E j \in DOMAIN table[s] : table[s][j] = b /\ x = <<s, j>>
        BY SlotsAre
      <4>2. PICK j \in DOMAIN table[s] : table[s][j] = b /\ x = <<s, j>>
        BY <4>1
      <4>3. s # r
        BY <2>1, <2>2, <3>2, <4>2
      <4> QED
        BY <1>8, <4>2, <4>3
    <3> QED
      BY <3>1, <3>2
  <2>10. <<r, i>> \in Slots(b) /\ IsFiniteSet(Slots(b)) /\ Cardinality(Slots(b)) = refs[b]
    BY <2>1, SlotsAre DEF BookInv, RefsCount
  <2>11. IsFiniteSet(Slots(b)') /\ Cardinality(Slots(b)') = refs[b] - 1
    BY <2>9, <2>10, FS_RemoveElement
  <2> QED
    BY <2>5, <2>7, <2>8, <2>11
<1> QED
  BY <1>2, <1>5, <1>6, <1>7, <1>9, <1>10

LEMMA BookFinish ==
  ASSUME BookInv, PoolInv', NEW r \in Req, FinishRequest(r), Spill = FALSE
  PROVE  BookInv'
<1> DEFINE mine(b) == \E i \in DOMAIN table[r] : table[r][i] = b
<1>1. /\ table'[r] = <<>> /\ DOMAIN table'[r] = {} /\ \A s \in Req : s # r => table'[s] = table[s]
      /\ node' = node /\ SameNodes(tree, tree') /\ offGpu' = offGpu /\ Uncopied'
      /\ \A b \in Block : ~ mine(b) => refs'[b] = refs[b] /\ free'[b] = free[b] /\ Slots(b)' = Slots(b)
      /\ \A b \in Block : mine(b) =>
           /\ refs[b] >= 1 /\ refs'[b] = refs[b] - 1
           /\ IsFiniteSet(Slots(b)') /\ Cardinality(Slots(b)') = refs'[b]
           /\ IF refs[b] = 1 /\ node[b] = Root THEN free'[b] = 1 ELSE free'[b] = 0
  BY FinishEffect
<1>2. /\ committed' = [committed EXCEPT ![r] = 0] /\ progress' = [progress EXCEPT ![r] = 0]
      /\ seeded' = [seeded EXCEPT ![r] = 0] /\ registered' = [registered EXCEPT ![r] = 0]
      /\ status' = [status EXCEPT ![r] = "done"] /\ call' = call /\ call = Idle
  BY DEF FinishRequest
<1> HIDE DEF mine
<1>3. \A s \in Req : ~ Filling(s) /\ ~ Filling(s)' /\ (s # r => (Opening(s)' <=> Opening(s)))
  BY <1>2 DEF Filling, Idle, Opening, BookInv, PoolInv, ReqOK
<1>4. Phases'
  <2>1. Blank(r)'
    BY <1>1, <1>2 DEF Blank, BookInv, PoolInv, ReqOK
  <2>2. ASSUME NEW s \in Req, s # r PROVE Blank(s)' \/ Opened(s)' \/ Filled(s)'
    <3>1. /\ committed'[s] = committed[s] /\ progress'[s] = progress[s] /\ seeded'[s] = seeded[s]
          /\ registered'[s] = registered[s] /\ status'[s] = status[s] /\ table'[s] = table[s]
      BY <1>1, <1>2, <2>2 DEF BookInv, PoolInv, ReqOK
    <3>2. Blank(s) \/ Opened(s) \/ Filled(s)
      BY <1>3 DEF BookInv, Phases
    <3>3. Opened(s) => Opened(s)'
      BY <1>1, <1>3, <2>2, <3>1 DEF Opened, SameNodes
    <3> QED
      BY <3>1, <3>2, <3>3 DEF Blank, Filled
  <2> QED
    BY <1>2, <1>3, <2>1, <2>2 DEF Phases, Idle
<1>5. Apart'
  BY <1>1 DEF BookInv, Apart
<1>6. Unshared'
  <2> SUFFICES ASSUME NEW s \in Req, NEW i \in DOMAIN table'[s], Private(s, i)'
               PROVE  /\ \A q \in Req : \A j \in DOMAIN table'[q] : table'[q][j] = table'[s][i] => q = s
                      /\ \/ node[table'[s][i]] = Root
                         \/ ~ Opening(s)' /\ i = PromptBlocks(s) /\ node[table'[s][i]] = Path(s, i)
    BY <1>1 DEF Unshared
  <2>1. s # r /\ i \in DOMAIN table[s] /\ table'[s] = table[s] /\ Private(s, i)
    <3>1. s # r /\ i \in DOMAIN table[s] /\ table'[s] = table[s]
      BY <1>1
    <3>2. seeded'[s] = seeded[s]
      BY <1>2, <3>1 DEF BookInv, PoolInv, ReqOK
    <3> QED
      BY <1>3, <3>1, <3>2 DEF Private
  <2>2. /\ \A q \in Req : \A j \in DOMAIN table[q] : table[q][j] = table[s][i] => q = s
        /\ \/ node[table[s][i]] = Root
           \/ ~ Opening(s) /\ i = PromptBlocks(s) /\ node[table[s][i]] = Path(s, i)
    BY <2>1 DEF BookInv, Unshared
  <2> QED
    BY <1>1, <1>3, <2>1, <2>2
<1>7. NoZombie' /\ Resident'
  BY <1>1 DEF BookInv, NoZombie, SameNodes, Resident
<1>8. RefsCount'
  BY <1>1 DEF BookInv, RefsCount
<1>9. FreeOrUsed'
  <2> SUFFICES ASSUME NEW b \in Block
               PROVE  \/ free'[b] = 1 /\ ~ Held(b)' /\ node[b] = Root
                      \/ free'[b] = 0 /\ (Held(b)' \/ node[b] # Root)
    BY <1>1 DEF FreeOrUsed
  <2>1. (Held(b) <=> Slots(b) # {}) /\ (Held(b)' <=> Slots(b)' # {})
    BY SlotsHeld, SlotsHeldNext
  <2>2. CASE ~ mine(b)
    <3>1. free'[b] = free[b] /\ Slots(b)' = Slots(b)
      BY <1>1, <2>2
    <3> QED
      BY <2>1, <3>1 DEF BookInv, FreeOrUsed
  <2>3. CASE mine(b)
    <3>1. /\ refs'[b] = refs[b] - 1 /\ IsFiniteSet(Slots(b)') /\ Cardinality(Slots(b)') = refs'[b] /\ refs[b] \in Nat
          /\ IF refs[b] = 1 /\ node[b] = Root THEN free'[b] = 1 ELSE free'[b] = 0
      BY <1>1, <2>3 DEF BookInv, PoolInv, PoolOK
    <3>2. Cardinality(Slots(b)') = 0 <=> Slots(b)' = {}
      BY <3>1, FS_EmptySet
    <3>3. refs[b] = 1 <=> Slots(b)' = {}
      BY <3>1, <3>2
    <3> QED
      BY <2>1, <3>1, <3>3
  <2> QED
    BY <2>2, <2>3
<1> QED
  BY <1>4, <1>5, <1>6, <1>7, <1>8, <1>9 DEF BookInv

\* A block before the last one ends inside the tokens.
LEMMA EndsInside ==
  ASSUME NEW m \in Nat, NEW i \in Nat, i < DivCeil(m)
  PROVE  i * BlockSize < m
<1>1. BlockSize \in Nat /\ BlockSize > 0
  BY BlockSizeAssumption
<1> DEFINE d == DivCeil(m)
<1>2. d \in Nat /\ d * BlockSize <= m + BlockSize - 1
  BY <1>1, Z3 DEF DivCeil
<1>3. i + 1 <= d
  BY <1>2
<1> HIDE DEF d
<1>4. (i + 1) * BlockSize <= d * BlockSize
  BY <1>1, <1>2, <1>3, Z3
<1>5. PICK x \in Nat : x = i * BlockSize
  BY <1>1, ProductNat
<1>6. PICK y \in Nat : y = d * BlockSize
  BY <1>1, <1>2, ProductNat
<1>7. (i + 1) * BlockSize = x + BlockSize
  BY <1>1, <1>5, Z3
<1> QED
  BY <1>1, <1>2, <1>4, <1>5, <1>6, <1>7

\* What the first half of drive_prefill does to a request that has nothing yet: it
\* gets the blocks of the leading nodes that match, short of its last block.
LEMMA StartEffect ==
  ASSUME BookInv, NEW r \in Req, NEW t \in Nat, StartPrefill(r, t), Chunked = FALSE, table[r] = <<>>
  PROVE  /\ Blank(r) /\ call = Idle /\ status[r] = "live" /\ PromptLen(r) \in Nat
         /\ SeedBlocks(r) \in Nat /\ SeedBlocks(r) < PromptBlocks(r)
         /\ SeedBlocks(r) * BlockSize \in Nat /\ SeedBlocks(r) * BlockSize < PromptLen(r)
         /\ \A i \in 1..SeedBlocks(r) : /\ Path(r, i) \in DOMAIN tree
                                        /\ i * BlockSize \in Nat /\ i * BlockSize <= PromptLen(r)
         /\ table'[r] \in Seq(Block) /\ Len(table'[r]) = SeedBlocks(r)
         /\ \A i \in 1..SeedBlocks(r) : table'[r][i] = tree[Path(r, i)].bid
         /\ \A s \in Req : s # r => table'[s] = table[s]
         /\ refs' = [b \in Block |-> refs[b] + Occurs(b, table'[r])]
         /\ SameNodes(tree, tree')
         /\ \A p \in DOMAIN tree : tree'[p] = IF \E i \in 1..SeedBlocks(r) : p = Path(r, i)
                                              THEN [tree[p] EXCEPT !.ref = @ + 1] ELSE tree[p]
         /\ UNCHANGED <<free, copy, node, registered, status, kv, offGpu>>
         /\ committed' = [committed EXCEPT ![r] = SeedBlocks(r) * BlockSize]
         /\ progress' = [progress EXCEPT ![r] = SeedBlocks(r) * BlockSize]
         /\ seeded' = [seeded EXCEPT ![r] = SeedBlocks(r)]
         /\ call' = [op |-> "prefill", req |-> r, chunk |-> PromptLen(r) - SeedBlocks(r) * BlockSize,
                     stage |-> "alloc"]
<1> DEFINE n     == SeedBlocks(r)
           found == IF Radix /\ progress[r] = 0 THEN Matched(r) ELSE 0
           hits  == [i \in 1..n |-> tree[Path(r, i)].bid]
           warm  == {tree[Path(r, i)].bid : i \in 1..found} \cap offGpu \cap Spilled
           start == IF n > 0 THEN n * BlockSize ELSE progress[r]
<1>1. /\ call = Idle /\ status[r] = "live" /\ progress[r] < t /\ t = PromptLen(r)
      /\ kv' = Promote(kv, warm) /\ offGpu' = offGpu \ warm
      /\ tree' = InsertTree(r, hits, 0)
      /\ refs' = [b \in Block |-> refs[b] + Occurs(b, hits)]
      /\ table' = [table EXCEPT ![r] = table[r] \o hits]
      /\ committed' = [committed EXCEPT ![r] = IF n > 0 THEN Len(table'[r]) * BlockSize ELSE committed[r]]
      /\ progress' = [progress EXCEPT ![r] = start]
      /\ seeded' = [seeded EXCEPT ![r] = IF n > 0 THEN n ELSE seeded[r]]
      /\ call' = IF t <= start THEN Idle
                 ELSE [op |-> "prefill", req |-> r, chunk |-> t - start, stage |-> "alloc"]
      /\ UNCHANGED <<free, copy, node, registered, status>>
  BY DEF StartPrefill
<1>2. /\ table \in [Req -> Seq(Block)] /\ committed \in [Req -> Nat] /\ progress \in [Req -> Nat]
      /\ seeded \in [Req -> Nat] /\ kv \in [Block -> Content] /\ TreeOK(tree) /\ offGpu = {}
      /\ PoolInv /\ PromptLen(r) \in Nat /\ PromptBlocks(r) \in Nat
  BY PromptBlocksPositive DEF BookInv, PoolInv, ReqOK, PoolOK, Resident
<1>3. Blank(r)
  <2>1. ~ Filling(r) /\ progress[r] # PromptLen(r)
    BY <1>1, <1>2 DEF Filling, Idle
  <2>2. ASSUME Opened(r) PROVE Blank(r)
    <3>1. seeded[r] \in Nat /\ (1 \in 1..seeded[r] => 1 \in DOMAIN table[r]) /\ DOMAIN table[r] = {}
      BY <1>2, <2>2 DEF Opened
    <3>2. seeded[r] = 0
      BY <3>1
    <3>3. 0 * BlockSize = 0
      BY BlockSizeAssumption
    <3> QED
      BY <2>2, <3>2, <3>3 DEF Opened, Blank
  <2> QED
    BY <2>1, <2>2 DEF BookInv, Phases, Filled
<1>4. n \in Nat /\ n < PromptBlocks(r) /\ \A i \in 1..n : Path(r, i) \in DOMAIN tree
  <2>1. n \in Nat /\ \A i \in 1..n : Path(r, i) \in DOMAIN tree
    BY <1>2, SeedOK
  <2>2. Matched(r) \in Nat /\ PromptBlocks(r) \in Nat \ {0}
    BY <1>2, MatchedNodes, PromptBlocksPositive
  <2>3. n <= PromptBlocks(r) - 1
    BY <2>2 DEF SeedBlocks, Least
  <2> HIDE DEF n
  <2> QED
    BY <2>1, <2>2, <2>3
<1>5. ASSUME NEW i \in Nat, i <= n PROVE i * BlockSize \in Nat /\ i * BlockSize < PromptLen(r)
  <2>1. i < DivCeil(PromptLen(r))
    <3> HIDE DEF n
    <3> QED
      BY <1>2, <1>4, <1>5 DEF PromptBlocks
  <2> QED
    BY <1>2, <2>1, EndsInside, ProductNat, BlockSizeAssumption
<1>6. hits \in Seq(Block) /\ Len(hits) = n
  <2>1. \A i \in 1..n : tree[Path(r, i)].bid \in Block
    BY <1>2, <1>4 DEF TreeOK, NodeType
  <2> HIDE DEF n
  <2> QED
    BY <1>4, <2>1
<1>7. \A i \in 1..n : hits[i] = tree[Path(r, i)].bid
  OBVIOUS
<1>8. start = n * BlockSize
  <2>1. progress[r] = 0
    BY <1>3 DEF Blank
  <2>2. ~ (n > 0) => n = 0
    <3> HIDE DEF n
    <3> QED
      BY <1>4
  <2>3. 0 * BlockSize = 0
    BY BlockSizeAssumption
  <2> HIDE DEF n
  <2> QED
    BY <2>1, <2>2, <2>3
<1>9. warm = {}
  BY <1>2
<1>10. DOMAIN tree' = DOMAIN tree \cup {Path(r, i) : i \in DOMAIN hits}
  <2> HIDE DEF hits
  <2> QED
    BY <1>1 DEF InsertTree
<1>14. DOMAIN hits = 1..n
  OBVIOUS
<1> HIDE DEF warm, start, n
<1>11. ASSUME NEW p \in DOMAIN tree
       PROVE  tree'[p] = IF \E i \in 1..n : p = Path(r, i) THEN [tree[p] EXCEPT !.ref = @ + 1] ELSE tree[p]
  <2> DEFINE new == {Path(r, i) : i \in DOMAIN hits}
  <2>1. tree'[p] = IF p \in new /\ Len(p) > 0 THEN [tree[p] EXCEPT !.ref = @ + 1] ELSE tree[p]
    <3> HIDE DEF hits
    <3> QED
      BY <1>1 DEF InsertTree
  <2>2. p \in new <=> \E i \in 1..n : p = Path(r, i)
    <3> HIDE DEF hits
    <3> QED
      BY <1>14
  <2>3. Len(p) > 0
    BY <1>2, PathsShape DEF TreeOK
  <2> HIDE DEF new
  <2> QED
    BY <2>1, <2>2, <2>3
<1> HIDE DEF hits
<1>12. SameNodes(tree, tree')
  <2>1. DOMAIN tree' = DOMAIN tree
    BY <1>4, <1>10, <1>14
  <2>2. \A p \in DOMAIN tree : tree[p] \in NodeType
    BY <1>2 DEF TreeOK
  <2>3. \A p \in DOMAIN tree : tree'[p].bid = tree[p].bid
    BY <1>11, <2>2 DEF NodeType
  <2> QED
    BY <2>1, <2>3 DEF SameNodes
<1>13. kv' = kv /\ offGpu' = offGpu
  BY <1>1, <1>2, <1>9 DEF Promote
<1>15. table'[r] = hits /\ \A s \in Req : s # r => table'[s] = table[s]
  <2>1. table[r] = <<>>
    BY <1>3 DEF Blank
  <2>2. <<>> \o hits = hits
    BY <1>6
  <2> QED
    BY <1>1, <1>2, <2>1, <2>2
<1>16. committed' = [committed EXCEPT ![r] = n * BlockSize]
  <2>1. committed[r] = 0 /\ Len(table'[r]) = n
    BY <1>3, <1>6, <1>15 DEF Blank
  <2>2. ~ (n > 0) => n * BlockSize = 0
    BY <1>4, BlockSizeAssumption
  <2> QED
    BY <1>1, <2>1, <2>2
<1>17. seeded' = [seeded EXCEPT ![r] = n]
  <2>1. seeded[r] = 0
    BY <1>3 DEF Blank
  <2>2. (IF n > 0 THEN n ELSE seeded[r]) = n
    BY <1>4, <2>1
  <2> QED
    BY <1>1, <2>2
<1>18. n * BlockSize \in Nat /\ n * BlockSize < PromptLen(r)
  BY <1>4, <1>5
<1>19. call' = [op |-> "prefill", req |-> r, chunk |-> PromptLen(r) - n * BlockSize, stage |-> "alloc"]
  <2>1. ~ (t <= start)
    BY <1>1, <1>2, <1>8, <1>18
  <2> QED
    BY <1>1, <1>8, <2>1
<1>20. \A i \in 1..n : i * BlockSize \in Nat /\ i * BlockSize <= PromptLen(r)
  <2> SUFFICES ASSUME NEW i \in 1..n PROVE i * BlockSize \in Nat /\ i * BlockSize <= PromptLen(r)
    OBVIOUS
  <2>1. i \in Nat /\ i <= n
    BY <1>4
  <2>2. PICK x \in Nat : x = i * BlockSize /\ x < PromptLen(r)
    BY <1>5, <2>1
  <2> QED
    BY <1>2, <2>2
<1>21. progress' = [progress EXCEPT ![r] = n * BlockSize] /\ refs' = [b \in Block |-> refs[b] + Occurs(b, table'[r])]
  BY <1>1, <1>8, <1>15
<1>22. /\ table'[r] \in Seq(Block) /\ Len(table'[r]) = n
       /\ \A i \in 1..n : table'[r][i] = tree[Path(r, i)].bid
  BY <1>6, <1>7, <1>15
<1> QED
  BY <1>1, <1>2, <1>3, <1>4, <1>11, <1>12, <1>13, <1>15, <1>16, <1>17, <1>18, <1>19, <1>20, <1>21, <1>22 DEF n

\* What it does after a failed prefill, when it seeds nothing: the forward pass
\* starts again.
LEMMA RetryEffect ==
  ASSUME BookInv, NEW r \in Req, NEW t \in Nat, StartPrefill(r, t), Chunked = FALSE,
         table[r] # <<>>, SeedsOnce
  PROVE  /\ Opened(r) /\ call = Idle /\ call'.op = "prefill" /\ call'.req = r /\ Rest(r, call'.chunk)
         /\ UNCHANGED <<free, copy, node, registered, status, kv, offGpu, tree, refs, table,
                        committed, progress, seeded>>
<1>1. /\ table \in [Req -> Seq(Block)] /\ committed \in [Req -> Nat] /\ progress \in [Req -> Nat]
      /\ seeded \in [Req -> Nat] /\ kv \in [Block -> Content] /\ TreeOK(tree) /\ offGpu = {}
      /\ refs \in [Block -> Nat] /\ PromptLen(r) \in Nat
  BY PromptBlocksPositive DEF BookInv, PoolInv, ReqOK, PoolOK, Resident
<1>2. SeedBlocks(r) = 0
  BY DEF SeedsOnce
<1>3. call = Idle /\ status[r] = "live" /\ progress[r] < t /\ t = PromptLen(r)
      /\ UNCHANGED <<free, copy, node, registered, status>>
  BY DEF StartPrefill
<1> DEFINE hits == [i \in 1..SeedBlocks(r) |-> tree[Path(r, i)].bid]
<1>4. hits = <<>> /\ DOMAIN hits = {}
  BY <1>2
<1>5. /\ tree' = InsertTree(r, hits, 0)
      /\ refs' = [b \in Block |-> refs[b] + Occurs(b, hits)]
      /\ table' = [table EXCEPT ![r] = table[r] \o hits]
      /\ committed' = [committed EXCEPT ![r] = committed[r]]
      /\ progress' = [progress EXCEPT ![r] = progress[r]]
      /\ seeded' = [seeded EXCEPT ![r] = seeded[r]]
      /\ call' = IF t <= progress[r] THEN Idle
                 ELSE [op |-> "prefill", req |-> r, chunk |-> t - progress[r], stage |-> "alloc"]
  BY <1>2 DEF StartPrefill
<1>6. kv' = kv /\ offGpu' = offGpu
  BY <1>1 DEF StartPrefill, Promote
<1> HIDE DEF hits
<1>7. tree' = tree
  <2> DEFINE new == {Path(r, i) : i \in DOMAIN hits}
  <2>1. new = {}
    BY <1>4
  <2>2. tree' = [p \in DOMAIN tree \cup new |->
                  IF p \in DOMAIN tree
                  THEN IF p \in new /\ Len(p) > 0 THEN [tree[p] EXCEPT !.ref = @ + 1] ELSE tree[p]
                  ELSE [bid |-> hits[Len(p)], ref |-> 1, pin |-> NoReq]]
    BY <1>5 DEF InsertTree
  <2> HIDE DEF new
  <2>3. tree' = [p \in DOMAIN tree |-> tree[p]]
    BY <2>1, <2>2
  <2> QED
    BY <1>1, <2>3 DEF TreeOK
<1>8. refs' = refs
  <2>1. ASSUME NEW b \in Block PROVE Occurs(b, <<>>) = 0
    <3>1. <<>> \in Seq(Block) /\ ~ \E i \in DOMAIN <<>> : <<>>[i] = b
      OBVIOUS
    <3> QED
      BY <3>1, OccursHeld
  <2> QED
    BY <1>1, <1>4, <1>5, <2>1
<1>9. table' = table
  <2>1. table[r] \o <<>> = table[r]
    BY <1>1
  <2> QED
    BY <1>1, <1>4, <1>5, <2>1
<1>10. committed' = committed /\ progress' = progress /\ seeded' = seeded
  BY <1>1, <1>5
<1>11. Opened(r)
  <2>1. ~ Filling(r) /\ progress[r] # PromptLen(r)
    BY <1>1, <1>3 DEF Filling, Idle
  <2> QED
    BY <2>1 DEF BookInv, Phases, Filled, Blank
<1>12. call'.op = "prefill" /\ call'.req = r /\ Rest(r, call'.chunk)
  <2>1. call' = [op |-> "prefill", req |-> r, chunk |-> t - progress[r], stage |-> "alloc"]
    BY <1>1, <1>3, <1>5
  <2>2. committed[r] = progress[r]
    BY <1>11 DEF Opened
  <2>3. progress[r] + (t - progress[r]) = t
    BY <1>1
  <2> QED
    BY <1>3, <2>1, <2>2, <2>3 DEF Rest
<1> QED
  BY <1>3, <1>6, <1>7, <1>8, <1>9, <1>10, <1>11, <1>12

LEMMA BookRetry ==
  ASSUME BookInv, PoolInv', NEW r \in Req, NEW t \in Nat, StartPrefill(r, t), Chunked = FALSE,
         table[r] # <<>>, SeedsOnce
  PROVE  BookInv'
<1>1. /\ Opened(r) /\ call = Idle /\ call'.op = "prefill" /\ call'.req = r /\ Rest(r, call'.chunk)
      /\ UNCHANGED <<free, copy, node, registered, status, offGpu, tree, refs, table,
                     committed, progress, seeded>>
  BY RetryEffect
<1>2. SameNodes(tree, tree')
  BY <1>1 DEF SameNodes
<1>3. \A s \in Req : Filling(s)' => Opened(s) /\ Rest(s, call'.chunk)
  BY <1>1 DEF Filling
<1>4. call'.op # "decode" /\ call'.op # "idle"
  BY <1>1
<1> QED
  BY <1>1, <1>2, <1>3, <1>4, BookSame

LEMMA BookStart ==
  ASSUME BookInv, PoolInv', NEW r \in Req, NEW t \in Nat, StartPrefill(r, t), Chunked = FALSE, table[r] = <<>>
  PROVE  BookInv'
<1> DEFINE n == SeedBlocks(r)
<1>1. /\ Blank(r) /\ call = Idle /\ status[r] = "live" /\ PromptLen(r) \in Nat
      /\ n \in Nat /\ n < PromptBlocks(r) /\ n * BlockSize \in Nat /\ n * BlockSize < PromptLen(r)
      /\ \A i \in 1..n : Path(r, i) \in DOMAIN tree /\ i * BlockSize \in Nat /\ i * BlockSize <= PromptLen(r)
      /\ table'[r] \in Seq(Block) /\ Len(table'[r]) = n
      /\ \A i \in 1..n : table'[r][i] = tree[Path(r, i)].bid
      /\ \A s \in Req : s # r => table'[s] = table[s]
      /\ refs' = [b \in Block |-> refs[b] + Occurs(b, table'[r])]
      /\ SameNodes(tree, tree')
      /\ UNCHANGED <<free, copy, node, registered, status, kv, offGpu>>
      /\ committed' = [committed EXCEPT ![r] = n * BlockSize]
      /\ progress' = [progress EXCEPT ![r] = n * BlockSize]
      /\ seeded' = [seeded EXCEPT ![r] = n]
      /\ call' = [op |-> "prefill", req |-> r, chunk |-> PromptLen(r) - n * BlockSize, stage |-> "alloc"]
  BY StartEffect
<1> HIDE DEF n
<1>2. /\ table[r] = <<>> /\ DOMAIN table[r] = {} /\ DOMAIN table'[r] = 1..n
      /\ committed \in [Req -> Nat] /\ progress \in [Req -> Nat] /\ seeded \in [Req -> Nat]
      /\ refs \in [Block -> Nat] /\ table \in [Req -> Seq(Block)]
      /\ \A s \in Req : s # r => (Opening(s)' <=> Opening(s))
  BY <1>1 DEF Blank, BookInv, PoolInv, PoolOK, ReqOK, Opening
<1>3. ASSUME NEW i \in 1..n PROVE node[table'[r][i]] = Path(r, i) /\ Path(r, i) # Root /\ i \in Nat /\ i >= 1
                                  /\ table'[r][i] \in Block
  <2>1. node[table'[r][i]] = Path(r, i)
    BY <1>1 DEF BookInv, NoZombie
  <2>2. Path(r, i) # Root
    BY <1>1, PathsShape DEF BookInv, PoolInv, TreeOK
  <2> QED
    BY <1>1, <2>1, <2>2
<1>4. (\A s \in Req : ~ Filling(s) /\ (Filling(s)' <=> s = r)) /\ Opening(r)'
  BY <1>1, <1>2 DEF Filling, Idle, Opening
<1>5. Phases'
  <2>1. Begun(r)'
    <3>1. /\ status'[r] = "live" /\ registered'[r] = 0 /\ seeded'[r] = n
          /\ committed'[r] = n * BlockSize /\ progress'[r] = n * BlockSize
          /\ call'.chunk = PromptLen(r) - n * BlockSize
      BY <1>1, <1>2 DEF Blank
    <3>2. committed'[r] + call'.chunk = PromptLen(r)
      <4>1. PICK x \in Nat : x = n * BlockSize
        BY <1>1
      <4> QED
        BY <1>1, <3>1, <4>1
    <3>3. \A i \in 1..n : /\ i \in DOMAIN table'[r] /\ Path(r, i) \in DOMAIN tree'
                          /\ tree'[Path(r, i)].bid = table'[r][i]
      BY <1>1, <1>2 DEF SameNodes
    <3>4. Len(table'[r]) <= PromptBlocks(r)
      <4>1. PromptBlocks(r) \in Nat
        BY PromptBlocksPositive
      <4> QED
        BY <1>1, <4>1
    <3> QED
      BY <1>1, <1>4, <3>1, <3>2, <3>3, <3>4 DEF Begun, Opened, Rest
  <2>2. ASSUME NEW s \in Req, s # r PROVE Blank(s)' \/ Opened(s)' \/ Filled(s)'
    <3>1. /\ committed'[s] = committed[s] /\ progress'[s] = progress[s] /\ seeded'[s] = seeded[s]
          /\ table'[s] = table[s]
      BY <1>1, <1>2, <2>2
    <3>2. Blank(s) \/ Opened(s) \/ Filled(s)
      BY <1>4 DEF BookInv, Phases
    <3>3. Opened(s) => Opened(s)'
      BY <1>1, <1>2, <2>2, <3>1 DEF Opened, SameNodes
    <3> QED
      BY <1>1, <3>1, <3>2, <3>3 DEF Blank, Filled
  <2>3. call'.op # "decode" /\ call'.op # "idle"
    BY <1>1
  <2> QED
    BY <1>4, <2>1, <2>2, <2>3 DEF Phases
<1>6. ASSUME NEW i \in 1..n, NEW j \in 1..n, table'[r][i] = table'[r][j] PROVE i = j
  <2>1. Path(r, i) = Path(r, j)
    BY <1>3, <1>6
  <2> QED
    BY <1>3, <2>1, PathPrefix
<1>7. Apart'
  BY <1>1, <1>2, <1>6 DEF BookInv, Apart
<1>8. Unshared'
  <2> SUFFICES ASSUME NEW s \in Req, NEW i \in DOMAIN table'[s], Private(s, i)'
               PROVE  /\ \A q \in Req : \A j \in DOMAIN table'[q] : table'[q][j] = table'[s][i] => q = s
                      /\ \/ node[table'[s][i]] = Root
                         \/ ~ Opening(s)' /\ i = PromptBlocks(s) /\ node[table'[s][i]] = Path(s, i)
    BY <1>1 DEF Unshared
  <2>1. s # r
    <3> SUFFICES ASSUME s = r PROVE FALSE
      OBVIOUS
    <3>1. i > n /\ i \in 1..n
      BY <1>1, <1>2, <1>4 DEF Private
    <3> QED
      BY <1>1, <3>1
  <2>2. /\ table'[s] = table[s] /\ i \in Nat /\ Private(s, i) /\ (Opening(s)' <=> Opening(s))
        /\ ~ Opening(s) => i * BlockSize > PromptLen(s)
    <3>1. i \in Nat /\ table'[s] = table[s]
      <4>1. table'[s] = table[s] /\ table[s] \in Seq(Block)
        BY <1>1, <1>2, <2>1
      <4> QED
        BY <4>1
    <3>2. seeded'[s] = seeded[s] /\ (Opening(s)' <=> Opening(s))
      BY <1>1, <1>2, <2>1
    <3> QED
      BY <3>1, <3>2 DEF Private
  <2>3. /\ \A q \in Req : \A j \in DOMAIN table[q] : table[q][j] = table[s][i] => q = s
        /\ \/ node[table[s][i]] = Root
           \/ ~ Opening(s) /\ i = PromptBlocks(s) /\ node[table[s][i]] = Path(s, i)
    BY <2>2 DEF BookInv, Unshared
  <2>4. ASSUME NEW j \in 1..n, table'[r][j] = table[s][i] PROVE FALSE
    <3>1. node[table[s][i]] = Path(r, j) /\ Path(r, j) # Root /\ j \in Nat /\ j >= 1 /\ j * BlockSize <= PromptLen(r)
      BY <1>1, <1>3, <2>4
    <3>2. Path(r, j) = Path(s, i) /\ ~ Opening(s)
      BY <2>3, <3>1
    <3> QED
      BY <2>2, <3>1, <3>2, ShortKey
  <2> QED
    BY <1>1, <1>2, <1>4, <2>1, <2>2, <2>3, <2>4
<1>9. NoZombie' /\ Resident'
  BY <1>1 DEF BookInv, NoZombie, SameNodes, Resident, Uncopied
<1>10. ASSUME NEW b \in Block, NEW i \in 1..n, table'[r][i] = b
       PROVE  /\ refs'[b] = refs[b] + 1 /\ node[b] # Root /\ Held(b)' /\ Slots(b)' = Slots(b) \cup {<<r, i>>}
              /\ <<r, i>> \notin Slots(b)
  <2>1. Occurs(b, table'[r]) = 1
    BY <1>1, <1>2, <1>6, <1>10, OccursOnce
  <2>2. node[b] # Root
    BY <1>3, <1>10
  <2>3. Held(b)'
    BY <1>2, <1>10 DEF Held
  <2>4. \A x : x \in Slots(b)' <=> \E s \in Req : \E j \in DOMAIN table'[s] : table'[s][j] = b /\ x = <<s, j>>
    BY DEF Slots
  <2>5. <<r, i>> \notin Slots(b)
    BY <1>2, SlotsAre
  <2>6. ASSUME NEW x \in Slots(b)' PROVE x \in Slots(b) \cup {<<r, i>>}
    <3>1. PICK s \in Req : \E j \in DOMAIN table'[s] : table'[s][j] = b /\ x = <<s, j>>
      BY <2>4
    <3>2. PICK j \in DOMAIN table'[s] : table'[s][j] = b /\ x = <<s, j>>
      BY <3>1
    <3>3. CASE s = r
      BY <1>2, <1>6, <1>10, <3>2, <3>3
    <3>4. CASE s # r
      BY <1>1, <3>2, <3>4, SlotsAre
    <3> QED
      BY <3>3, <3>4
  <2>7. <<r, i>> \in Slots(b)'
    BY <1>2, <1>10, <2>4
  <2>8. ASSUME NEW x \in Slots(b) PROVE x \in Slots(b)'
    <3>1. PICK s \in Req : \E j \in DOMAIN table[s] : table[s][j] = b /\ x = <<s, j>>
      BY SlotsAre
    <3>2. s # r
      BY <1>2, <3>1
    <3> QED
      BY <1>1, <2>4, <3>1, <3>2
  <2>9. Slots(b)' = Slots(b) \cup {<<r, i>>}
    BY <2>6, <2>7, <2>8
  <2> QED
    BY <1>1, <1>2, <2>1, <2>2, <2>3, <2>5, <2>9
<1>11. ASSUME NEW b \in Block, ~ \E i \in 1..n : table'[r][i] = b
       PROVE  refs'[b] = refs[b] /\ (Held(b)' <=> Held(b)) /\ Slots(b)' = Slots(b)
  <2>1. Occurs(b, table'[r]) = 0
    BY <1>1, <1>2, <1>11, OccursHeld
  <2>4. \A x : x \in Slots(b)' <=> \E s \in Req : \E j \in DOMAIN table'[s] : table'[s][j] = b /\ x = <<s, j>>
    BY DEF Slots
  <2>5. ASSUME NEW x \in Slots(b)' PROVE x \in Slots(b)
    <3>1. PICK s \in Req : \E j \in DOMAIN table'[s] : table'[s][j] = b /\ x = <<s, j>>
      BY <2>4
    <3>2. s # r
      BY <1>2, <1>11, <3>1
    <3> QED
      BY <1>1, <3>1, <3>2, SlotsAre
  <2>3. ASSUME NEW x \in Slots(b) PROVE x \in Slots(b)'
    <3>1. PICK s \in Req : \E j \in DOMAIN table[s] : table[s][j] = b /\ x = <<s, j>>
      BY SlotsAre
    <3>2. s # r
      BY <1>2, <3>1
    <3> QED
      BY <1>1, <2>4, <3>1, <3>2
  <2>6. Slots(b)' = Slots(b)
    BY <2>3, <2>5
  <2>2. Held(b)' <=> Held(b)
    BY <2>6, SlotsHeld, SlotsHeldNext
  <2> QED
    BY <1>1, <1>2, <2>1, <2>2, <2>6
<1>12. FreeOrUsed' /\ RefsCount'
  <2> SUFFICES ASSUME NEW b \in Block
               PROVE  /\ \/ free[b] = 1 /\ ~ Held(b)' /\ node[b] = Root
                         \/ free[b] = 0 /\ (Held(b)' \/ node[b] # Root)
                      /\ IsFiniteSet(Slots(b)') /\ refs'[b] = Cardinality(Slots(b)')
    BY <1>1 DEF FreeOrUsed, RefsCount
  <2>1. CASE \E i \in 1..n : table'[r][i] = b
    <3>1. PICK i \in 1..n : table'[r][i] = b
      BY <2>1
    <3>2. /\ refs'[b] = refs[b] + 1 /\ node[b] # Root /\ Held(b)' /\ Slots(b)' = Slots(b) \cup {<<r, i>>}
          /\ <<r, i>> \notin Slots(b)
      BY <1>10, <3>1
    <3>3. IsFiniteSet(Slots(b)) /\ refs[b] = Cardinality(Slots(b))
      BY DEF BookInv, RefsCount
    <3>4. IsFiniteSet(Slots(b)') /\ Cardinality(Slots(b)') = Cardinality(Slots(b)) + 1
      <4>1. IsFiniteSet(Slots(b) \cup {<<r, i>>})
            /\ Cardinality(Slots(b) \cup {<<r, i>>}) = Cardinality(Slots(b)) + 1
        <5> DEFINE S == Slots(b)
                   x == <<r, i>>
        <5>1. IsFiniteSet(S) /\ x \notin S
          BY <3>2, <3>3
        <5> HIDE DEF S, x
        <5>2. IsFiniteSet(S \cup {x}) /\ Cardinality(S \cup {x}) = Cardinality(S) + 1
          BY <5>1, FS_AddElement
        <5> QED
          BY <5>2 DEF S, x
      <4> QED
        BY <3>2, <4>1
    <3> QED
      BY <3>2, <3>3, <3>4 DEF BookInv, FreeOrUsed
  <2>2. CASE ~ \E i \in 1..n : table'[r][i] = b
    <3>1. refs'[b] = refs[b] /\ (Held(b)' <=> Held(b)) /\ Slots(b)' = Slots(b)
      BY <1>11, <2>2
    <3> QED
      BY <3>1 DEF BookInv, FreeOrUsed, RefsCount
  <2> QED
    BY <2>1, <2>2
<1> QED
  BY <1>5, <1>7, <1>8, <1>9, <1>12 DEF BookInv

\* The blocks a prefill enters into the tree: those whose path no node has yet.
Entered(r, i) == Radix /\ i \in DOMAIN table[r] /\ Path(r, i) \notin DOMAIN tree

\* What the second half of drive_prefill does to the tree.  The table has as many
\* blocks as the prompt; the ones beyond the seeded ones that have no node get one
\* that leads to them, the others are referenced once more.
LEMMA FillEffect ==
  ASSUME BookInv, NEW r \in Req, r = call.req, FinishPrefill
  PROVE  /\ Begun(r) /\ Filling(r) /\ call' = Idle /\ PromptLen(r) \in Nat \ {0} /\ table[r] \in Seq(Block)
         /\ committed[r] + call.chunk = PromptLen(r)
         /\ Len(table[r]) = PromptBlocks(r)
         /\ kv' = Written(r, committed[r], PromptLen(r))
         /\ committed' = [committed EXCEPT ![r] = PromptLen(r)]
         /\ progress' = [progress EXCEPT ![r] = PromptLen(r)]
         /\ registered' = [registered EXCEPT ![r] = IF Radix THEN Len(table[r]) ELSE 0]
         /\ UNCHANGED <<free, refs, copy, table, seeded, status, offGpu>>
         /\ \A p : p \in DOMAIN tree' <=> p \in DOMAIN tree \/ \E i : Entered(r, i) /\ p = Path(r, i)
         /\ \A p \in DOMAIN tree :
              /\ tree'[p].bid = tree[p].bid
              /\ tree'[p].ref = IF Radix /\ \E i \in DOMAIN table[r] : i > seeded[r] /\ p = Path(r, i)
                                THEN tree[p].ref + 1 ELSE tree[p].ref
         /\ \A i : Entered(r, i) => /\ i > seeded[r] /\ i \in Nat /\ i >= 1
                                    /\ node[table[r][i]] = Root /\ node'[table[r][i]] = Path(r, i)
                                    /\ tree'[Path(r, i)].bid = table[r][i] /\ tree'[Path(r, i)].ref = 1
         /\ \A b \in Block : ~ (\E i : Entered(r, i) /\ table[r][i] = b) => node'[b] = node[b]
<1> DEFINE to   == committed[r] + call.chunk
           skip == seeded[r] + registered[r]
           reg  == Radix /\ Len(table[r]) > skip
           t    == IF reg THEN InsertTree(r, table[r], skip) ELSE tree
           m    == IF reg THEN InsertNode(r, table[r]) ELSE node
<1>1. /\ call.op = "prefill" /\ ~Reserving
      /\ kv' = Written(r, committed[r], to)
      /\ offGpu' \subseteq offGpu
      /\ committed' = [committed EXCEPT ![r] = to]
      /\ progress' = [progress EXCEPT ![r] = progress[r] + call.chunk]
      /\ registered' = [registered EXCEPT ![r] = IF reg THEN Len(table[r]) ELSE registered[r]]
      /\ tree' = (IF r \in Session THEN PinTree(r, t, m) ELSE t)
      /\ node' = m
      /\ call' = Idle
      /\ UNCHANGED <<free, refs, copy, table, seeded, status>>
  BY DEF FinishPrefill
<1>2. Filling(r) /\ Begun(r)
  BY <1>1 DEF Filling, BookInv, Phases
<1>3. /\ table \in [Req -> Seq(Block)] /\ table[r] \in Seq(Block) /\ Len(table[r]) \in Nat
      /\ seeded[r] \in Nat /\ registered[r] = 0 /\ skip = seeded[r]
      /\ PromptLen(r) \in Nat \ {0} /\ PromptBlocks(r) \in Nat \ {0} /\ seeded[r] < PromptBlocks(r)
      /\ to = PromptLen(r) /\ progress[r] = committed[r] /\ Len(table[r]) <= PromptBlocks(r)
  <2>1. PromptLen(r) \in Nat \ {0} /\ PromptBlocks(r) \in Nat \ {0}
    BY PromptBlocksPositive
  <2> QED
    BY <1>2, <2>1 DEF BookInv, PoolInv, ReqOK, Begun, Opened, Rest
<1>4. offGpu' = offGpu
  BY <1>1 DEF BookInv, Resident
<1>5. Len(table[r]) = PromptBlocks(r)
  <2>1. call # Idle
    BY <1>1 DEF Idle
  <2>2. ~ (Len(table[r]) < DivCeil(PromptLen(r)))
    BY <1>1, <1>3, <2>1 DEF Reserving
  <2> QED
    BY <1>3, <2>2 DEF PromptBlocks
<1>6. reg <=> Radix
  BY <1>3, <1>5
<1>8. registered' = [registered EXCEPT ![r] = IF Radix THEN Len(table[r]) ELSE 0]
  <2> HIDE DEF reg
  <2> QED
    BY <1>1, <1>3, <1>6
<1>9. TreeOK(tree) /\ MapOK(tree, node) /\ \A p \in DOMAIN tree : tree[p] \in NodeType
  BY DEF BookInv, PoolInv, TreeOK
<1>10. ASSUME NEW i, Entered(r, i)
       PROVE  /\ i > seeded[r] /\ i \in Nat /\ i >= 1 /\ node[table[r][i]] = Root /\ Len(Path(r, i)) = i
              /\ i \in DOMAIN table[r] /\ table[r][i] \in Block
  <2>1. i \in DOMAIN table[r] /\ Path(r, i) \notin DOMAIN tree /\ i \in Nat /\ i >= 1 /\ table[r][i] \in Block
    BY <1>3, <1>10 DEF Entered
  <2>2. i > seeded[r]
    <3> SUFFICES ASSUME ~ (i > seeded[r]) PROVE FALSE
      OBVIOUS
    <3>1. i \in 1..seeded[r]
      BY <1>3, <2>1
    <3> QED
      BY <1>2, <2>1, <3>1 DEF Begun, Opened
  <2>3. node[table[r][i]] = Root
    BY <1>2, <2>1, <2>2 DEF BookInv, Unshared, Private, Begun, Opened
  <2> QED
    BY <2>1, <2>2, <2>3, PathPrefix
<1>11. /\ \A p : p \in DOMAIN t <=> p \in DOMAIN tree \/ \E i : Entered(r, i) /\ p = Path(r, i)
       /\ \A p \in DOMAIN tree :
            /\ t[p].bid = tree[p].bid
            /\ t[p].ref = IF Radix /\ \E i \in DOMAIN table[r] : i > seeded[r] /\ p = Path(r, i)
                          THEN tree[p].ref + 1 ELSE tree[p].ref
       /\ \A i : Entered(r, i) => t[Path(r, i)].bid = table[r][i] /\ t[Path(r, i)].ref = 1
  <2>1. CASE ~ Radix
    <3>1. t = tree
      BY <1>6, <2>1
    <3>2. \A i : ~ Entered(r, i)
      BY <2>1 DEF Entered
    <3> HIDE DEF t
    <3> QED
      BY <2>1, <3>1, <3>2
  <2>2. CASE Radix
    <3> DEFINE new == {Path(r, i) : i \in DOMAIN table[r]}
    <3>1. t = InsertTree(r, table[r], skip)
      BY <1>6, <2>2
    <3> HIDE DEF skip, t
    <3>2. DOMAIN t = DOMAIN tree \cup new
      BY <3>1 DEF InsertTree
    <3>3. \A p \in DOMAIN tree : t[p] = IF p \in new /\ Len(p) > skip THEN [tree[p] EXCEPT !.ref = @ + 1] ELSE tree[p]
      BY <3>1 DEF InsertTree
    <3>4. \A p \in new : p \notin DOMAIN tree => t[p] = [bid |-> table[r][Len(p)], ref |-> 1, pin |-> NoReq]
      BY <3>1 DEF InsertTree
    <3>5. ASSUME NEW p PROVE p \in DOMAIN t <=> p \in DOMAIN tree \/ \E i : Entered(r, i) /\ p = Path(r, i)
      BY <2>2, <3>2 DEF Entered
    <3>6. ASSUME NEW p \in DOMAIN tree
          PROVE  (p \in new /\ Len(p) > skip) <=> \E i \in DOMAIN table[r] : i > seeded[r] /\ p = Path(r, i)
      <4>1. ASSUME NEW i \in DOMAIN table[r] PROVE Len(Path(r, i)) = i
        <5>1. i \in Nat
          BY <1>3
        <5> QED
          BY <5>1, PathPrefix
      <4> QED
        BY <1>3, <4>1
    <3>7. ASSUME NEW i, Entered(r, i) PROVE t[Path(r, i)].bid = table[r][i] /\ t[Path(r, i)].ref = 1
      <4>1. Path(r, i) \in new /\ Path(r, i) \notin DOMAIN tree /\ Len(Path(r, i)) = i
        BY <1>10, <3>7 DEF Entered
      <4> HIDE DEF new
      <4>2. t[Path(r, i)] = [bid |-> table[r][i], ref |-> 1, pin |-> NoReq]
        BY <3>4, <4>1
      <4> QED
        BY <4>2
    <3>8. ASSUME NEW p \in DOMAIN tree
          PROVE  /\ t[p].bid = tree[p].bid
                 /\ t[p].ref = IF Radix /\ \E i \in DOMAIN table[r] : i > seeded[r] /\ p = Path(r, i)
                               THEN tree[p].ref + 1 ELSE tree[p].ref
      <4> DEFINE X == p \in new /\ Len(p) > skip
                 Y == \E i \in DOMAIN table[r] : i > seeded[r] /\ p = Path(r, i)
      <4>1. X <=> Y
        BY <3>6
      <4>2. t[p] = IF X THEN [tree[p] EXCEPT !.ref = @ + 1] ELSE tree[p]
        BY <3>3
      <4> HIDE DEF X, new, Y
      <4>3. /\ t[p].bid = tree[p].bid /\ t[p].ref = IF Y THEN tree[p].ref + 1 ELSE tree[p].ref
        BY <1>9, <4>1, <4>2 DEF NodeType
      <4> QED
        BY <2>2, <4>3 DEF Y
    <3> HIDE DEF new
    <3> QED
      BY <3>5, <3>7, <3>8
  <2> QED
    BY <2>1, <2>2
<1>12. /\ \A i : Entered(r, i) => m[table[r][i]] = Path(r, i)
       /\ \A b \in Block : ~ (\E i : Entered(r, i) /\ table[r][i] = b) => m[b] = node[b]
  <2>1. CASE ~ Radix
    <3>1. m = node
      BY <1>6, <2>1
    <3>2. \A i : ~ Entered(r, i)
      BY <2>1 DEF Entered
    <3> HIDE DEF m
    <3> QED
      BY <3>1, <3>2
  <2>2. CASE Radix
    <3> DEFINE made(b) == {i \in DOMAIN table[r] : table[r][i] = b /\ Path(r, i) \notin DOMAIN tree}
               last(b) == CHOOSE i \in made(b) : \A j \in made(b) : j <= i
    <3>1. m = [b \in Block |-> IF made(b) = {} THEN node[b] ELSE Path(r, last(b))]
      BY <1>6, <2>2 DEF InsertNode
    <3> HIDE DEF m
    <3>2. ASSUME NEW i, Entered(r, i) PROVE m[table[r][i]] = Path(r, i)
      <4>1. i \in DOMAIN table[r] /\ Path(r, i) \notin DOMAIN tree /\ table[r][i] \in Block /\ i \in Nat
        BY <1>10, <3>2 DEF Entered
      <4>2. made(table[r][i]) = {i}
        BY <4>1 DEF BookInv, Apart
      <4>3. last(table[r][i]) = i
        <5>1. i <= i
          BY <4>1
        <5> HIDE DEF made
        <5> QED
          BY <4>2, <5>1
      <4>4. made(table[r][i]) # {}
        BY <4>2
      <4> HIDE DEF made, last
      <4> QED
        BY <3>1, <4>1, <4>3, <4>4
    <3>3. ASSUME NEW b \in Block, ~ \E i : Entered(r, i) /\ table[r][i] = b PROVE m[b] = node[b]
      <4>1. made(b) = {}
        BY <2>2, <3>3 DEF Entered
      <4> HIDE DEF made
      <4> QED
        BY <3>1, <4>1
    <3> QED
      BY <3>2, <3>3
  <2> QED
    BY <2>1, <2>2
<1>13. DOMAIN tree' = DOMAIN t /\ \A p \in DOMAIN t : tree'[p].bid = t[p].bid /\ tree'[p].ref = t[p].ref
  <2>1. ASSUME NEW p \in DOMAIN t PROVE t[p] \in NodeType
    <3>1. TreeOK(t)
      <4>1. CASE reg
        <5>1. Len(table[r]) <= KeyBlocks(r)
          BY <1>3, KeyBlocksCover
        <5>2. t = InsertTree(r, table[r], skip) /\ skip \in Nat
          BY <1>3, <4>1
        <5> HIDE DEF t, skip, reg
        <5> QED
          BY <1>3, <1>9, <5>1, <5>2, InsertTreeOK
      <4>2. CASE ~ reg
        BY <1>9, <4>2
      <4> QED
        BY <4>1, <4>2
    <3> HIDE DEF t
    <3> QED
      BY <3>1 DEF TreeOK
  <2> HIDE DEF t, m
  <2>2. CASE r \in Session
    <3>1. tree' = PinTree(r, t, m)
      BY <1>1, <2>2
    <3>2. DOMAIN tree' = DOMAIN t
      BY <3>1 DEF PinTree
    <3>3. ASSUME NEW p \in DOMAIN t PROVE tree'[p].bid = t[p].bid /\ tree'[p].ref = t[p].ref
      <4>1. tree'[p] = t[p] \/ tree'[p] = [t[p] EXCEPT !.pin = r]
        BY <3>1 DEF PinTree
      <4> QED
        BY <2>1, <4>1 DEF NodeType
    <3> QED
      BY <3>2, <3>3
  <2>3. CASE r \notin Session
    BY <1>1, <2>3
  <2> QED
    BY <2>2, <2>3
<1> HIDE DEF t, m, reg, skip
<1>14. /\ \A p : p \in DOMAIN tree' <=> p \in DOMAIN tree \/ \E i : Entered(r, i) /\ p = Path(r, i)
       /\ \A p \in DOMAIN tree :
            /\ tree'[p].bid = tree[p].bid
            /\ tree'[p].ref = IF Radix /\ \E i \in DOMAIN table[r] : i > seeded[r] /\ p = Path(r, i)
                              THEN tree[p].ref + 1 ELSE tree[p].ref
       /\ \A i : Entered(r, i) => tree'[Path(r, i)].bid = table[r][i] /\ tree'[Path(r, i)].ref = 1
  <2>1. \A p : p \in DOMAIN tree' <=> p \in DOMAIN tree \/ \E i : Entered(r, i) /\ p = Path(r, i)
    BY <1>11, <1>13
  <2>2. ASSUME NEW p \in DOMAIN tree
        PROVE  /\ tree'[p].bid = tree[p].bid
               /\ tree'[p].ref = IF Radix /\ \E i \in DOMAIN table[r] : i > seeded[r] /\ p = Path(r, i)
                                 THEN tree[p].ref + 1 ELSE tree[p].ref
    <3>1. tree'[p].bid = t[p].bid /\ tree'[p].ref = t[p].ref
      BY <1>11, <1>13
    <3> QED
      BY <1>11, <3>1
  <2>3. ASSUME NEW i, Entered(r, i) PROVE tree'[Path(r, i)].bid = table[r][i] /\ tree'[Path(r, i)].ref = 1
    BY <1>11, <1>13, <2>3
  <2> QED
    BY <2>1, <2>2, <2>3
<1>15. /\ \A i : Entered(r, i) => node'[table[r][i]] = Path(r, i)
       /\ \A b \in Block : ~ (\E i : Entered(r, i) /\ table[r][i] = b) => node'[b] = node[b]
  BY <1>1, <1>12
<1> HIDE DEF to
<1>16. /\ kv' = Written(r, committed[r], PromptLen(r))
       /\ committed' = [committed EXCEPT ![r] = PromptLen(r)]
       /\ progress' = [progress EXCEPT ![r] = PromptLen(r)]
       /\ committed[r] + call.chunk = PromptLen(r)
  BY <1>1, <1>3 DEF to
<1> QED
  BY <1>1, <1>2, <1>3, <1>4, <1>5, <1>8, <1>10, <1>14, <1>15, <1>16

LEMMA BookFill ==
  ASSUME BookInv, PoolInv', NEW r \in Req, r = call.req, FinishPrefill
  PROVE  BookInv'
<1>1. /\ Begun(r) /\ Filling(r) /\ call' = Idle /\ PromptLen(r) \in Nat \ {0} /\ table[r] \in Seq(Block)
      /\ Len(table[r]) = PromptBlocks(r)
      /\ committed' = [committed EXCEPT ![r] = PromptLen(r)]
      /\ progress' = [progress EXCEPT ![r] = PromptLen(r)]
      /\ registered' = [registered EXCEPT ![r] = IF Radix THEN Len(table[r]) ELSE 0]
      /\ UNCHANGED <<free, refs, copy, table, seeded, status, offGpu>>
      /\ \A p : p \in DOMAIN tree' <=> p \in DOMAIN tree \/ \E i : Entered(r, i) /\ p = Path(r, i)
      /\ \A p \in DOMAIN tree : tree'[p].bid = tree[p].bid
      /\ \A i : Entered(r, i) => /\ i > seeded[r] /\ node[table[r][i]] = Root /\ node'[table[r][i]] = Path(r, i)
                                 /\ tree'[Path(r, i)].bid = table[r][i] /\ i \in Nat /\ i >= 1
      /\ \A b \in Block : ~ (\E i : Entered(r, i) /\ table[r][i] = b) => node'[b] = node[b]
  BY FillEffect
<1>2. /\ table \in [Req -> Seq(Block)] /\ committed \in [Req -> Nat] /\ progress \in [Req -> Nat]
      /\ registered \in [Req -> Nat] /\ seeded[r] \in Nat /\ PromptBlocks(r) \in Nat \ {0}
      /\ seeded[r] < PromptBlocks(r) /\ Opening(r)
  BY <1>1, PromptBlocksPositive DEF BookInv, PoolInv, ReqOK, Begun, Opened
<1>3. /\ \A s \in Req : ~ Filling(s)' /\ (Filling(s) <=> s = r)
      /\ \A s \in Req : s # r => (Opening(s)' <=> Opening(s))
      /\ ~ Opening(r)'
  <2>1. \A s \in Req : ~ Filling(s)' /\ (Filling(s) <=> s = r)
    BY <1>1 DEF Filling, Idle
  <2>2. \A s \in Req : s # r => (Opening(s)' <=> Opening(s))
    BY <1>1, <1>2 DEF Opening
  <2>3. ~ Opening(r)'
    BY <1>1, <1>2 DEF Opening
  <2> QED
    BY <2>1, <2>2, <2>3
<1>4. Phases'
  <2>1. Filled(r)'
    <3>1. /\ progress'[r] = PromptLen(r) /\ committed'[r] = PromptLen(r) /\ status'[r] = "live"
          /\ registered'[r] = IF Radix THEN Len(table[r]) ELSE 0
      BY <1>1, <1>2 DEF Begun, Opened
    <3>2. PromptLen(r) >= PromptLen(r)
      BY <1>1
    <3>3. Radix => registered'[r] > 0
      BY <1>1, <1>2, <3>1
    <3> QED
      BY <3>1, <3>2, <3>3 DEF Filled
  <2>2. ASSUME NEW s \in Req, s # r PROVE Blank(s)' \/ Opened(s)' \/ Filled(s)'
    <3>1. /\ committed'[s] = committed[s] /\ progress'[s] = progress[s] /\ registered'[s] = registered[s]
      BY <1>1, <1>2, <2>2
    <3>2. Blank(s) \/ Opened(s) \/ Filled(s)
      BY <1>3, <2>2 DEF BookInv, Phases
    <3>3. Opened(s) => Opened(s)'
      BY <1>1, <1>3, <2>2, <3>1 DEF Opened
    <3> QED
      BY <1>1, <3>1, <3>2, <3>3 DEF Blank, Filled
  <2> QED
    BY <1>1, <1>3, <2>1, <2>2 DEF Phases, Idle
<1>5. Apart' /\ RefsCount' /\ Resident'
  BY <1>1 DEF BookInv, Apart, RefsCount, Slots, Resident, Uncopied
<1>6. NoZombie'
  <2> SUFFICES ASSUME NEW p \in DOMAIN tree' PROVE node'[tree'[p].bid] = p
    BY DEF NoZombie
  <2>1. CASE p \in DOMAIN tree
    <3>1. node[tree[p].bid] = p /\ p # Root /\ tree[p].bid \in Block
      BY <2>1, PathsShape DEF BookInv, NoZombie, PoolInv, TreeOK, NodeType
    <3>2. ~ \E i : Entered(r, i) /\ table[r][i] = tree[p].bid
      BY <1>1, <3>1
    <3> QED
      BY <1>1, <2>1, <3>1, <3>2
  <2>2. CASE p \notin DOMAIN tree
    <3>1. PICK i : Entered(r, i) /\ p = Path(r, i)
      BY <1>1, <2>2
    <3> QED
      BY <1>1, <3>1
  <2> QED
    BY <2>1, <2>2
<1>7. ASSUME NEW s \in Req, NEW i \in DOMAIN table[s], Private(s, i)' PROVE Private(s, i)
  <2>1. i \in Nat
    <3>1. table[s] \in Seq(Block)
      BY <1>2
    <3> QED
      BY <3>1
  <2>2. CASE s # r
    BY <1>1, <1>3, <1>7, <2>2 DEF Private
  <2>3. CASE s = r
    <3>0. i * BlockSize > PromptLen(r)
      BY <1>3, <1>7, <2>3 DEF Private
    <3>1. i >= PromptBlocks(r)
      <4> SUFFICES ASSUME i < PromptBlocks(r) PROVE FALSE
        BY <1>2, <2>1
      <4>1. i * BlockSize < PromptLen(r) /\ i * BlockSize \in Nat
        BY <1>1, <2>1, EndsInside, ProductNat, BlockSizeAssumption DEF PromptBlocks
      <4> QED
        BY <1>1, <2>1, <3>0, <4>1
    <3>2. i > seeded[r]
      BY <1>2, <2>1, <3>1
    <3> QED
      BY <1>2, <2>3, <3>2 DEF Private
  <2> QED
    BY <2>2, <2>3
<1>8. Unshared'
  <2> SUFFICES ASSUME NEW s \in Req, NEW i \in DOMAIN table[s], Private(s, i)'
               PROVE  /\ \A q \in Req : \A j \in DOMAIN table[q] : table[q][j] = table[s][i] => q = s
                      /\ \/ node'[table[s][i]] = Root
                         \/ ~ Opening(s)' /\ i = PromptBlocks(s) /\ node'[table[s][i]] = Path(s, i)
    BY <1>1 DEF Unshared
  <2>1. Private(s, i) /\ table[s] \in Seq(Block) /\ table[s][i] \in Block /\ i \in Nat /\ i \in DOMAIN table[s]
    BY <1>2, <1>7
  <2>2. /\ \A q \in Req : \A j \in DOMAIN table[q] : table[q][j] = table[s][i] => q = s
        /\ \/ node[table[s][i]] = Root
           \/ ~ Opening(s) /\ i = PromptBlocks(s) /\ node[table[s][i]] = Path(s, i)
    BY <2>1 DEF BookInv, Unshared
  <2>3. CASE ~ \E j : Entered(r, j) /\ table[r][j] = table[s][i]
    <3>1. node'[table[s][i]] = node[table[s][i]]
      BY <1>1, <2>1, <2>3
    <3>2. ~ Opening(s) => ~ Opening(s)'
      BY <1>3
    <3> QED
      BY <2>2, <3>1, <3>2
  <2>4. CASE \E j : Entered(r, j) /\ table[r][j] = table[s][i]
    <3>1. PICK j : Entered(r, j) /\ table[r][j] = table[s][i]
      BY <2>4
    <3>2. j \in DOMAIN table[r] /\ Radix
      BY <3>1 DEF Entered
    <3>3. s = r
      BY <2>2, <3>1, <3>2
    <3>4. j = i
      BY <2>1, <3>1, <3>2, <3>3 DEF BookInv, Apart
    <3>5. node'[table[s][i]] = Path(s, i)
      BY <1>1, <3>1, <3>3, <3>4
    <3>6. i = PromptBlocks(s)
      <4>1. i * BlockSize > PromptLen(s)
        BY <1>3, <3>3 DEF Private
      <4>2. i <= PromptBlocks(r)
        BY <1>1, <2>1, <3>2, <3>3
      <4>3. i >= PromptBlocks(r)
        <5> SUFFICES ASSUME i < PromptBlocks(r) PROVE FALSE
          BY <1>2, <2>1
        <5>1. i * BlockSize < PromptLen(r) /\ i * BlockSize \in Nat
          BY <1>1, <2>1, EndsInside, ProductNat, BlockSizeAssumption DEF PromptBlocks
        <5> QED
          BY <1>1, <3>3, <4>1, <5>1
      <4> QED
        BY <1>2, <2>1, <3>3, <4>2, <4>3
    <3> QED
      BY <1>3, <2>2, <3>3, <3>5, <3>6
  <2> QED
    BY <2>3, <2>4
<1>9. FreeOrUsed'
  <2> SUFFICES ASSUME NEW b \in Block
               PROVE  \/ free[b] = 1 /\ ~ Held(b)' /\ node'[b] = Root
                      \/ free[b] = 0 /\ (Held(b)' \/ node'[b] # Root)
    BY <1>1 DEF FreeOrUsed
  <2>1. Held(b)' <=> Held(b)
    BY <1>1 DEF Held
  <2>2. CASE ~ \E j : Entered(r, j) /\ table[r][j] = b
    BY <1>1, <2>1, <2>2 DEF BookInv, FreeOrUsed
  <2>3. CASE \E j : Entered(r, j) /\ table[r][j] = b
    <3>1. Held(b)
      BY <2>3 DEF Entered, Held
    <3> QED
      BY <2>1, <3>1 DEF BookInv, FreeOrUsed
  <2> QED
    BY <2>2, <2>3
<1> QED
  BY <1>4, <1>5, <1>6, <1>8, <1>9 DEF BookInv

LEMMA BookStep ==
  ASSUME BookInv, [Next]_vars, [Orderly]_vars, Spill = FALSE, Chunked = FALSE
  PROVE  BookInv'
<1>1. PoolInv'
  BY NextInv DEF BookInv
<1>2. CASE UNCHANGED vars
  BY <1>1, <1>2, BookQuiet
<1> SUFFICES ASSUME Next, Orderly PROVE BookInv'
  BY <1>2
<1>3. ASSUME NEW r \in Req, Enqueue(r) \/ StartDecode(r) \/ ExpirePins(r) PROVE BookInv'
  BY <1>1, <1>3, BookQuiet
<1>4. ASSUME AllocNoEvict \/ AllocFail \/ FinishDecode PROVE BookInv'
  BY <1>1, <1>4, BookQuiet
<1>5. ASSUME NEW r \in Req, NEW t \in 1..PromptLen(r), StartPrefill(r, t) PROVE BookInv'
  <2>1. t \in Nat
    BY PromptBlocksPositive
  <2> QED
    BY <1>1, <1>5, <2>1, BookStart, BookRetry DEF Orderly
<1>6. ASSUME NEW r \in Req, FinishRequest(r) PROVE BookInv'
  BY <1>1, <1>6, BookFinish
<1>7. ASSUME NEW b \in Block, AllocPop(b) PROVE BookInv'
  BY <1>1, <1>7, BookAllocPop
<1>8. ASSUME NEW b \in Block, AllocReclaim(b) PROVE BookInv'
  BY <1>8 DEF AllocReclaim, Reclaimable, BookInv, Resident
<1>9. ASSUME NEW p \in DOMAIN tree, AllocEvict(p) PROVE BookInv'
  <2>1. \A q \in Chain(p) : refs[tree[q].bid] = 0
    BY <1>9 DEF Orderly, SparesHeld
  <2> QED
    BY <1>1, <1>9, <2>1, BookEvict
<1>10. ASSUME FinishPrefill PROVE BookInv'
  <2>1. PICK r \in Req : r = call.req
    BY <1>10 DEF FinishPrefill, BookInv, PoolInv, CallOK, Idle
  <2> QED
    BY <1>1, <1>10, <2>1, BookFill
<1>11. ASSUME ResetPrefixCache PROVE BookInv'
  BY <1>1, <1>11, BookReset DEF Orderly
<1> QED
  BY <1>3, <1>4, <1>5, <1>6, <1>7, <1>8, <1>9, <1>10, <1>11 DEF Next

LEMMA BookGives == BookInv => RefsCountSlots /\ FreeIsUnused /\ NoStrandedBlock
<1> SUFFICES ASSUME BookInv, NEW b \in Block
             PROVE  /\ refs[b] = Cardinality(Slots(b))
                    /\ free[b] > 0 => free[b] = 1 /\ refs[b] = 0 /\ Slots(b) = {} /\ node[b] = Root
                    /\ free[b] = 0 => refs[b] > 0 \/ node[b] # Root \/ b \in offGpu
  BY DEF RefsCountSlots, FreeIsUnused, NoStrandedBlock
<1>1. (refs[b] = 0 <=> ~ Held(b)) /\ refs[b] \in Nat
  BY UnheldRefs
<1>2. Held(b) <=> Slots(b) # {}
  BY SlotsHeld
<1> QED
  BY <1>1, <1>2 DEF BookInv, RefsCount, FreeOrUsed

\* With the prefix cache on, in the orderly behaviours, the books stay right
\* through prefills and decodes that fail for want of a block and are tried again:
\* ref_counts counts the slots over every way a block is shared, a free block is
\* nobody's, and a block that is not free is in a table or in the tree.
THEOREM SharedBooks ==
  ASSUME Spill = FALSE, Chunked = FALSE
  PROVE  Spec /\ [][Orderly]_vars => [](RefsCountSlots /\ FreeIsUnused /\ NoStrandedBlock)
<1>1. BookInv /\ [Next]_vars /\ [Orderly]_vars => BookInv'
  BY BookStep
<1> QED
  BY <1>1, BookInit, BookGives, PTL DEF Spec

-----------------------------------------------------------------------------
(* Tree references protect what live requests have registered.             *)

Claims(r, b) == /\ r \in Live /\ seeded[r] + registered[r] > 0
                /\ \E i \in DOMAIN table[r] : table[r][i] = b

Claimants(b) == {r \in Req : Claims(r, b)}

LEMMA ClaimsAre == ClaimsProtect <=> \A p \in DOMAIN tree : tree[p].ref >= Cardinality(Claimants(tree[p].bid))
<1>1. ASSUME NEW b
      PROVE  Claimants(b) = {r \in Live : seeded[r] + registered[r] > 0 /\ \E i \in DOMAIN table[r] : table[r][i] = b}
  BY DEF Claimants, Claims, Live
<1> QED
  BY <1>1 DEF ClaimsProtect

LEMMA ClaimsAreNext ==
  (\A p \in DOMAIN tree' : \A b : b = tree'[p].bid => tree'[p].ref >= Cardinality(Claimants(b)')) => ClaimsProtect'
<1>1. ASSUME NEW b
      PROVE  Claimants(b)' = {r \in Live' : seeded'[r] + registered'[r] > 0 /\ \E i \in DOMAIN table'[r] : table'[r][i] = b}
  BY DEF Claimants, Claims, Live
<1> QED
  BY <1>1 DEF ClaimsProtect

LEMMA ClaimantsFinite ==
  ASSUME BookInv, NEW b \in Block
  PROVE  IsFiniteSet(Claimants(b)) /\ Cardinality(Claimants(b)) \in Nat
<1> DEFINE at(r) == CHOOSE i \in DOMAIN table[r] : table[r][i] = b
           f == [r \in Claimants(b) |-> <<r, at(r)>>]
<1>1. IsFiniteSet(Slots(b))
  BY DEF BookInv, RefsCount
<1>2. ASSUME NEW r \in Claimants(b) PROVE <<r, at(r)>> \in Slots(b)
  <2>1. r \in Req /\ \E i \in DOMAIN table[r] : table[r][i] = b
    BY DEF Claimants, Claims
  <2>2. at(r) \in DOMAIN table[r] /\ table[r][at(r)] = b
    BY <2>1
  <2> HIDE DEF at
  <2> QED
    BY <2>1, <2>2, SlotsAre
<1> HIDE DEF at
<1>3. f \in Injection(Claimants(b), Slots(b))
  <2>1. f \in [Claimants(b) -> Slots(b)]
    BY <1>2
  <2>2. ASSUME NEW x \in Claimants(b), NEW y \in Claimants(b), f[x] = f[y] PROVE x = y
    BY <2>2
  <2> HIDE DEF f
  <2> QED
    BY <2>1, <2>2 DEF Injection, IsInjective
<1> HIDE DEF f
<1> QED
  BY <1>1, <1>3, FS_Injection, FS_CardinalityType

ClaimInv == BookInv /\ ClaimsProtect

\* A step after which no node has lost a reference or won a claimant.
LEMMA ClaimsShrink ==
  ASSUME ClaimInv,
         \A p \in DOMAIN tree' : /\ p \in DOMAIN tree /\ tree'[p].bid = tree[p].bid
                                 /\ tree'[p].ref \in Nat /\ tree'[p].ref >= tree[p].ref,
         \A p \in DOMAIN tree' : \A r \in Req : \A b \in Block :
            b = tree[p].bid => (Claims(r, b)' => Claims(r, b))
  PROVE  ClaimsProtect'
<1> SUFFICES ASSUME NEW p \in DOMAIN tree', NEW b, b = tree'[p].bid
             PROVE  tree'[p].ref >= Cardinality(Claimants(b)')
  BY ClaimsAreNext
<1>1. p \in DOMAIN tree /\ tree[p].bid = b /\ tree'[p].ref >= tree[p].ref /\ tree'[p].ref \in Nat
  OBVIOUS
<1>2. tree[p] \in NodeType
  BY <1>1 DEF ClaimInv, BookInv, PoolInv, TreeOK
<1>3. b \in Block /\ tree[p].ref \in Nat
  BY <1>1, <1>2 DEF NodeType
<1>4. Claimants(b)' \subseteq Claimants(b)
  BY <1>1, <1>3 DEF Claimants
<1>5. IsFiniteSet(Claimants(b)) /\ Cardinality(Claimants(b)) \in Nat
  BY <1>3, ClaimantsFinite DEF ClaimInv
<1>6. Cardinality(Claimants(b)') <= Cardinality(Claimants(b)) /\ Cardinality(Claimants(b)') \in Nat
  BY <1>4, <1>5, FS_Subset, FS_CardinalityType
<1>7. tree[p].ref >= Cardinality(Claimants(b))
  BY <1>1, ClaimsAre DEF ClaimInv
<1> QED
  BY <1>1, <1>3, <1>5, <1>6, <1>7

\* The nodes with the counts they had, or some of them.
LEMMA ClaimsQuiet ==
  ASSUME ClaimInv,
         \/ \E r \in Req : Enqueue(r) \/ StartDecode(r) \/ ExpirePins(r)
         \/ AllocNoEvict \/ AllocFail \/ FinishDecode \/ ResetPrefixCache
         \/ \E p \in DOMAIN tree : AllocEvict(p)
         \/ \E b \in Block : AllocPop(b)
         \/ UNCHANGED <<tree, table, seeded, registered, status>>
  PROVE  ClaimsProtect'
<1>1. \A p \in DOMAIN tree : tree[p] \in NodeType /\ tree[p].ref \in Nat /\ tree[p].bid \in Block
  BY DEF ClaimInv, BookInv, PoolInv, TreeOK, NodeType
<1>2. ASSUME \A p \in DOMAIN tree' : p \in DOMAIN tree /\ tree'[p].bid = tree[p].bid /\ tree'[p].ref = tree[p].ref,
             UNCHANGED <<table, seeded, registered, status>>
      PROVE  ClaimsProtect'
  <2>1. \A p \in DOMAIN tree' : /\ p \in DOMAIN tree /\ tree'[p].bid = tree[p].bid
                                /\ tree'[p].ref \in Nat /\ tree'[p].ref >= tree[p].ref
    BY <1>1, <1>2
  <2>2. \A r \in Req : \A b : Claims(r, b)' => Claims(r, b)
    BY <1>2 DEF Claims, Live
  <2> QED
    BY <2>1, <2>2, ClaimsShrink
<1>3. ASSUME tree' = tree, UNCHANGED <<table, seeded, registered, status>> PROVE ClaimsProtect'
  BY <1>2, <1>3
<1>4. ASSUME NEW r \in Req, Enqueue(r) PROVE ClaimsProtect'
  <2>1. PICK S \in SUBSET Pinned :
          tree' = [p \in DOMAIN tree |-> IF p \in S THEN [tree[p] EXCEPT !.pin = NoReq] ELSE tree[p]]
    BY <1>4 DEF Enqueue
  <2>2. ASSUME NEW p \in DOMAIN tree'
        PROVE  /\ p \in DOMAIN tree /\ tree'[p].bid = tree[p].bid
               /\ tree'[p].ref \in Nat /\ tree'[p].ref >= tree[p].ref
    <3>1. p \in DOMAIN tree /\ (tree'[p] = tree[p] \/ tree'[p] = [tree[p] EXCEPT !.pin = NoReq])
      BY <2>1
    <3> QED
      BY <1>1, <3>1 DEF NodeType
  <2>3. UNCHANGED <<table, seeded, registered>> /\ status' = [status EXCEPT ![r] = "live"] /\ status[r] = "new"
    BY <1>4 DEF Enqueue
  <2>4. DOMAIN table[r] = {}
    <3>1. Blank(r)
      BY <2>3 DEF ClaimInv, BookInv, Phases, Begun, Opened, Filled
    <3> QED
      BY <3>1 DEF Blank
  <2>5. ASSUME NEW s \in Req, NEW b, Claims(s, b)' PROVE Claims(s, b)
    BY <2>3, <2>4, <2>5 DEF Claims, Live, ClaimInv, BookInv, PoolInv, ReqOK
  <2> QED
    BY <2>2, <2>5, ClaimsShrink
<1>5. ASSUME NEW r \in Req, ExpirePins(r) PROVE ClaimsProtect'
  <2>1. tree' = [p \in DOMAIN tree |-> IF tree[p].pin = r THEN [tree[p] EXCEPT !.pin = NoReq] ELSE tree[p]]
        /\ UNCHANGED <<table, seeded, registered, status>>
    BY <1>5 DEF ExpirePins, reqVars
  <2>2. ASSUME NEW p \in DOMAIN tree'
        PROVE  p \in DOMAIN tree /\ tree'[p].bid = tree[p].bid /\ tree'[p].ref = tree[p].ref
    <3>1. p \in DOMAIN tree /\ (tree'[p] = tree[p] \/ tree'[p] = [tree[p] EXCEPT !.pin = NoReq])
      BY <2>1
    <3> QED
      BY <1>1, <3>1 DEF NodeType
  <2> QED
    BY <1>2, <2>1, <2>2
<1>6. ASSUME NEW r \in Req, StartDecode(r) PROVE ClaimsProtect'
  BY <1>3, <1>6 DEF StartDecode, treeVars, reqVars
<1>7. ASSUME AllocNoEvict \/ AllocFail \/ FinishDecode PROVE ClaimsProtect'
  BY <1>3, <1>7 DEF AllocNoEvict, AllocFail, FinishDecode, treeVars, reqVars
<1>8. ASSUME ResetPrefixCache PROVE ClaimsProtect'
  BY <1>2, <1>8 DEF ResetPrefixCache, reqVars
<1>9. ASSUME NEW p \in DOMAIN tree, AllocEvict(p) PROVE ClaimsProtect'
  <2>1. tree' = [q \in DOMAIN tree \ Chain(p) |-> tree[q]] /\ UNCHANGED <<table, seeded, registered, status>>
    BY <1>9 DEF AllocEvict, reqVars
  <2> QED
    BY <1>2, <2>1
<1>10. ASSUME NEW b \in Block, AllocPop(b) PROVE ClaimsProtect'
  <2>1. /\ table' = [table EXCEPT ![call.req] = Append(table[call.req], b)]
        /\ UNCHANGED <<tree, seeded, registered, status>> /\ call.req \in Req
        /\ table \in [Req -> Seq(Block)]
    BY <1>10 DEF AllocPop, treeVars, reqVars, ClaimInv, BookInv, PoolInv, ReqOK, CallOK, Reserving
  <2>2. node[b] = Root
    BY <1>10 DEF AllocPop, ClaimInv, BookInv, FreeOrUsed
  <2>3. ASSUME NEW p \in DOMAIN tree PROVE tree[p].bid # b
    BY <2>2, PathsShape DEF ClaimInv, BookInv, NoZombie, PoolInv, TreeOK
  <2>4. ASSUME NEW r \in Req, NEW c \in Block, c # b, Claims(r, c)' PROVE Claims(r, c)
    <3>1. PICK i \in DOMAIN table'[r] : table'[r][i] = c
      BY <2>4 DEF Claims
    <3>2. i \in DOMAIN table[r] /\ table[r][i] = c
      BY <2>1, <2>4, <3>1
    <3> QED
      BY <2>1, <2>4, <3>2 DEF Claims, Live
  <2>5. \A p \in DOMAIN tree' : /\ p \in DOMAIN tree /\ tree'[p].bid = tree[p].bid
                                /\ tree'[p].ref \in Nat /\ tree'[p].ref >= tree[p].ref
    BY <1>1, <2>1
  <2> QED
    BY <2>1, <2>3, <2>4, <2>5, ClaimsShrink
<1>11. ASSUME UNCHANGED <<tree, table, seeded, registered, status>> PROVE ClaimsProtect'
  BY <1>3, <1>11
<1> QED
  BY <1>4, <1>5, <1>6, <1>7, <1>8, <1>9, <1>10, <1>11

\* Seeding takes a reference on every node whose block it enters into the table.
LEMMA ClaimsStart ==
  ASSUME ClaimInv, NEW r \in Req, NEW t \in Nat, StartPrefill(r, t), Chunked = FALSE, table[r] = <<>>
  PROVE  ClaimsProtect'
<1> DEFINE n == SeedBlocks(r)
           hit(p) == \E i \in 1..n : p = Path(r, i)
<1>1. BookInv
  BY DEF ClaimInv
<1>2. /\ Blank(r) /\ n \in Nat
      /\ \A i \in 1..n : Path(r, i) \in DOMAIN tree
      /\ table'[r] \in Seq(Block) /\ Len(table'[r]) = n
      /\ \A i \in 1..n : table'[r][i] = tree[Path(r, i)].bid
      /\ \A s \in Req : s # r => table'[s] = table[s]
      /\ SameNodes(tree, tree')
      /\ \A p \in DOMAIN tree : tree'[p] = IF hit(p) THEN [tree[p] EXCEPT !.ref = @ + 1] ELSE tree[p]
      /\ UNCHANGED <<registered, status>> /\ seeded' = [seeded EXCEPT ![r] = n]
  BY <1>1, StartEffect
<1>3. DOMAIN table[r] = {} /\ DOMAIN table'[r] = 1..n /\ seeded \in [Req -> Nat]
  BY <1>1, <1>2 DEF Blank, BookInv, PoolInv, ReqOK
<1> HIDE DEF n
<1>4. ASSUME NEW s \in Req, s # r, NEW b PROVE Claims(s, b)' <=> Claims(s, b)
  BY <1>2, <1>3, <1>4 DEF Claims, Live
<1>5. ASSUME NEW b PROVE ~ Claims(r, b)
  BY <1>3 DEF Claims
<1> SUFFICES ASSUME NEW p \in DOMAIN tree', NEW b, b = tree'[p].bid
             PROVE  tree'[p].ref >= Cardinality(Claimants(b)')
  BY ClaimsAreNext
<1>6. p \in DOMAIN tree /\ tree[p].bid = b /\ tree[p] \in NodeType
  BY <1>1, <1>2 DEF SameNodes, BookInv, PoolInv, TreeOK
<1>7. b \in Block /\ tree[p].ref \in Nat
  BY <1>6 DEF NodeType
<1> DEFINE C == Claimants(b)
           D == Claimants(b)'
<1>8. IsFiniteSet(C) /\ Cardinality(C) \in Nat /\ tree[p].ref >= Cardinality(C)
  BY <1>1, <1>6, <1>7, ClaimantsFinite, ClaimsAre DEF ClaimInv
<1>9. CASE hit(p)
  <2>1. tree'[p].ref = tree[p].ref + 1
    <3> HIDE DEF hit
    <3> QED
      BY <1>2, <1>6, <1>9 DEF NodeType
  <2>2. D \subseteq C \cup {r}
    BY <1>4 DEF Claimants
  <2> HIDE DEF C, D, hit
  <2>3. IsFiniteSet(C \cup {r}) /\ Cardinality(C \cup {r}) <= Cardinality(C) + 1 /\ Cardinality(C \cup {r}) \in Nat
    <3>1. IsFiniteSet(C \cup {r}) /\ Cardinality(C \cup {r}) = IF r \in C THEN Cardinality(C) ELSE Cardinality(C) + 1
      BY <1>8, FS_AddElement
    <3> QED
      BY <1>8, <3>1
  <2>4. Cardinality(D) <= Cardinality(C \cup {r}) /\ Cardinality(D) \in Nat
    BY <2>2, <2>3, FS_Subset, FS_CardinalityType
  <2> QED
    BY <1>7, <1>8, <2>1, <2>3, <2>4 DEF D
<1>10. CASE ~ hit(p)
  <2>1. tree'[p] = tree[p]
    <3> HIDE DEF hit
    <3> QED
      BY <1>2, <1>6, <1>10
  <2>2. ~ \E i \in DOMAIN table'[r] : table'[r][i] = b
    <3> SUFFICES ASSUME NEW i \in 1..n, table'[r][i] = b PROVE FALSE
      BY <1>3
    <3>1. tree[Path(r, i)].bid = b /\ Path(r, i) \in DOMAIN tree
      BY <1>2
    <3>2. node[b] = Path(r, i) /\ node[b] = p
      BY <1>1, <1>6, <3>1 DEF BookInv, NoZombie
    <3> QED
      BY <1>10, <3>2
  <2>3. ~ Claims(r, b)'
    BY <2>2 DEF Claims
  <2>4. D \subseteq C
    BY <1>4, <2>3 DEF Claimants
  <2> HIDE DEF C, D, hit
  <2>5. Cardinality(D) <= Cardinality(C) /\ Cardinality(D) \in Nat
    BY <1>8, <2>4, FS_Subset, FS_CardinalityType
  <2> QED
    BY <1>7, <1>8, <2>1, <2>5 DEF D
<1> QED
  BY <1>9, <1>10

\* Registration: an old node's block came in by seeding, so its claim counts
\* already; a new node starts with one reference and one claimant.
LEMMA ClaimsFill ==
  ASSUME ClaimInv, NEW r \in Req, r = call.req, FinishPrefill
  PROVE  ClaimsProtect'
<1>1. BookInv
  BY DEF ClaimInv
<1>2. /\ Begun(r) /\ Filling(r) /\ table[r] \in Seq(Block)
      /\ Opening(r)
      /\ registered' = [registered EXCEPT ![r] = IF Radix THEN Len(table[r]) ELSE 0]
      /\ UNCHANGED <<table, seeded, status>>
      /\ \A p : p \in DOMAIN tree' <=> p \in DOMAIN tree \/ \E i : Entered(r, i) /\ p = Path(r, i)
      /\ \A p \in DOMAIN tree :
           /\ tree'[p].bid = tree[p].bid
           /\ tree'[p].ref = IF Radix /\ \E i \in DOMAIN table[r] : i > seeded[r] /\ p = Path(r, i)
                             THEN tree[p].ref + 1 ELSE tree[p].ref
      /\ \A i : Entered(r, i) => /\ i > seeded[r]
                                 /\ tree'[Path(r, i)].bid = table[r][i] /\ tree'[Path(r, i)].ref = 1
  BY <1>1, FillEffect DEF Begun, Opened
<1>3. registered \in [Req -> Nat] /\ seeded \in [Req -> Nat] /\ registered[r] = 0 /\ table \in [Req -> Seq(Block)]
  BY <1>1, <1>2 DEF BookInv, PoolInv, ReqOK, Begun, Opened
<1>4. ASSUME NEW s \in Req, s # r, NEW b PROVE Claims(s, b)' <=> Claims(s, b)
  BY <1>2, <1>3, <1>4 DEF Claims, Live
<1>5. ASSUME NEW p \in DOMAIN tree, NEW b, b = tree[p].bid, Claims(r, b)' PROVE Claims(r, b)
  <2>1. PICK i \in DOMAIN table[r] : table[r][i] = b
    BY <1>2, <1>5 DEF Claims
  <2>2. node[b] = p /\ p # Root
    BY <1>1, <1>5, PathsShape DEF BookInv, NoZombie, PoolInv, TreeOK
  <2>3. ~ (i > seeded[r])
    BY <1>1, <1>2, <2>1, <2>2 DEF BookInv, Unshared, Private
  <2>4. seeded[r] > 0
    BY <1>2, <1>3, <2>1, <2>3
  <2>5. seeded[r] + registered[r] > 0
    BY <1>3, <2>4
  <2> QED
    BY <1>2, <1>5, <2>1, <2>5 DEF Claims, Live
<1> SUFFICES ASSUME NEW p \in DOMAIN tree', NEW b, b = tree'[p].bid
             PROVE  tree'[p].ref >= Cardinality(Claimants(b)')
  BY ClaimsAreNext
<1> DEFINE C == Claimants(b)
           D == Claimants(b)'
<1>6. CASE p \in DOMAIN tree
  <2>1. tree[p].bid = b /\ tree[p] \in NodeType
    BY <1>1, <1>2, <1>6 DEF BookInv, PoolInv, TreeOK
  <2>2. b \in Block /\ tree[p].ref \in Nat
    BY <2>1 DEF NodeType
  <2>3. IsFiniteSet(C) /\ Cardinality(C) \in Nat /\ tree[p].ref >= Cardinality(C)
    BY <1>1, <1>6, <2>1, <2>2, ClaimantsFinite, ClaimsAre DEF ClaimInv
  <2>4. D \subseteq C
    BY <1>4, <1>5, <1>6, <2>1 DEF Claimants
  <2>5. tree'[p].ref \in Nat /\ tree'[p].ref >= tree[p].ref
    BY <1>2, <1>6, <2>2
  <2> HIDE DEF C, D
  <2>6. Cardinality(D) <= Cardinality(C) /\ Cardinality(D) \in Nat
    BY <2>3, <2>4, FS_Subset, FS_CardinalityType
  <2> QED
    BY <2>2, <2>3, <2>5, <2>6 DEF D
<1>7. CASE p \notin DOMAIN tree
  <2>1. PICK i : Entered(r, i) /\ p = Path(r, i)
    BY <1>2, <1>7
  <2>2. i > seeded[r] /\ b = table[r][i] /\ tree'[p].ref = 1 /\ i \in DOMAIN table[r]
    BY <1>2, <2>1 DEF Entered
  <2>3. \A s \in Req : \A j \in DOMAIN table[s] : table[s][j] = b => s = r
    BY <1>1, <1>2, <2>2 DEF BookInv, Unshared, Private
  <2>4. D \subseteq {r}
    BY <1>2, <2>3 DEF Claimants, Claims
  <2> HIDE DEF D
  <2>5. IsFiniteSet({r}) /\ Cardinality({r}) = 1
    BY FS_Singleton
  <2>6. Cardinality(D) <= 1 /\ Cardinality(D) \in Nat
    BY <2>4, <2>5, FS_Subset, FS_CardinalityType
  <2> QED
    BY <2>2, <2>6 DEF D
<1> QED
  BY <1>6, <1>7

\* finish_request: the claim and its reference go together.
LEMMA ClaimsFinish ==
  ASSUME ClaimInv, NEW r \in Req, FinishRequest(r), Spill = FALSE
  PROVE  ClaimsProtect'
<1> DEFINE n(p) == IF Mapped(p) THEN Occurs(tree[p].bid, table[r]) ELSE 0
<1>1. BookInv
  BY DEF ClaimInv
<1>2. /\ DOMAIN table'[r] = {} /\ \A s \in Req : s # r => table'[s] = table[s]
      /\ SameNodes(tree, tree')
  BY <1>1, FinishEffect
<1>3. /\ seeded' = [seeded EXCEPT ![r] = 0] /\ registered' = [registered EXCEPT ![r] = 0]
      /\ status' = [status EXCEPT ![r] = "done"] /\ status[r] = "live"
      /\ tree' = IF Radix /\ seeded[r] + registered[r] > 0 THEN RemoveTree(table[r]) ELSE tree
  BY DEF FinishRequest
<1>4. /\ registered \in [Req -> Nat] /\ seeded \in [Req -> Nat] /\ status \in [Req -> {"new", "live", "done"}]
      /\ table[r] \in Seq(Block)
  BY <1>1 DEF BookInv, PoolInv, ReqOK
<1>5. ASSUME NEW s \in Req, s # r, NEW b PROVE Claims(s, b)' <=> Claims(s, b)
  BY <1>2, <1>3, <1>4, <1>5 DEF Claims, Live
<1>6. ASSUME NEW b PROVE ~ Claims(r, b)'
  BY <1>2 DEF Claims
<1> SUFFICES ASSUME NEW p \in DOMAIN tree', NEW b, b = tree'[p].bid
             PROVE  tree'[p].ref >= Cardinality(Claimants(b)')
  BY ClaimsAreNext
<1> DEFINE C == Claimants(b)
           D == Claimants(b)'
<1>7. p \in DOMAIN tree /\ tree[p].bid = b /\ tree[p] \in NodeType
  BY <1>1, <1>2 DEF SameNodes, BookInv, PoolInv, TreeOK
<1>8. b \in Block /\ tree[p].ref \in Nat
  BY <1>7 DEF NodeType
<1>9. IsFiniteSet(C) /\ Cardinality(C) \in Nat /\ tree[p].ref >= Cardinality(C)
  BY <1>1, <1>7, <1>8, ClaimantsFinite, ClaimsAre DEF ClaimInv
<1>10. D = C \ {r}
  BY <1>5, <1>6 DEF Claimants
<1>14. r \in C <=> Claims(r, b)
  BY DEF Claimants
<1> HIDE DEF C, D
<1>11. IsFiniteSet(D) /\ Cardinality(D) = IF r \in C THEN Cardinality(C) - 1 ELSE Cardinality(C)
  BY <1>9, <1>10, FS_RemoveElement
<1>12. CASE Radix /\ seeded[r] + registered[r] > 0
  <2>1. tree'[p] = [tree[p] EXCEPT !.ref = IF n(p) >= tree[p].ref THEN 0 ELSE tree[p].ref - n(p)]
    BY <1>3, <1>7, <1>12 DEF RemoveTree
  <2>2. n(p) = Occurs(b, table[r])
    BY <1>1, <1>7 DEF BookInv, NoZombie, Mapped
  <2> HIDE DEF n
  <2>3. tree'[p].ref = IF n(p) >= tree[p].ref THEN 0 ELSE tree[p].ref - n(p)
    BY <1>7, <2>1 DEF NodeType
  <2>4. CASE \E i \in DOMAIN table[r] : table[r][i] = b
    <3>1. Claims(r, b)
      BY <1>3, <1>12, <2>4 DEF Claims, Live
    <3>2. r \in C
      BY <1>14, <3>1
    <3>3. n(p) = 1
      <4>1. PICK i \in DOMAIN table[r] : table[r][i] = b
        BY <2>4
      <4>2. \A j \in DOMAIN table[r] : table[r][j] = table[r][i] => j = i
        BY <1>1 DEF BookInv, Apart
      <4> QED
        BY <1>4, <2>2, <4>1, <4>2, OccursOnce
    <3>4. Cardinality(D) = Cardinality(C) - 1
      BY <1>11, <3>2
    <3>5. Cardinality(C) # 0
      BY <1>9, <3>2, FS_EmptySet
    <3> QED
      BY <1>8, <1>9, <2>3, <3>3, <3>4, <3>5 DEF D
  <2>5. CASE ~ \E i \in DOMAIN table[r] : table[r][i] = b
    <3>1. n(p) = 0
      BY <1>4, <1>8, <2>2, <2>5, OccursHeld
    <3>2. r \notin C
      BY <1>14, <2>5 DEF Claims
    <3>3. tree'[p].ref = tree[p].ref
      BY <1>8, <2>3, <3>1
    <3> QED
      BY <1>9, <1>11, <3>2, <3>3 DEF D
  <2> QED
    BY <2>4, <2>5
<1>13. CASE ~ (Radix /\ seeded[r] + registered[r] > 0)
  <2>1. tree' = tree
    BY <1>3, <1>13
  <2>2. Cardinality(D) <= Cardinality(C) /\ Cardinality(D) \in Nat
    BY <1>9, <1>10, <1>11, FS_Subset, FS_CardinalityType
  <2> QED
    BY <1>8, <1>9, <2>1, <2>2 DEF D
<1> QED
  BY <1>12, <1>13

LEMMA ClaimInit == Init => ClaimInv
BY BookInit DEF Init, ClaimInv, ClaimsProtect

LEMMA ClaimStep ==
  ASSUME ClaimInv, [Next]_vars, [Orderly]_vars, Spill = FALSE, Chunked = FALSE
  PROVE  ClaimInv'
<1>1. BookInv'
  BY BookStep DEF ClaimInv
<1> SUFFICES ClaimsProtect'
  BY <1>1 DEF ClaimInv
<1>2. ASSUME NEW r \in Req, Enqueue(r) \/ StartDecode(r) \/ ExpirePins(r) PROVE ClaimsProtect'
  BY <1>2, ClaimsQuiet
<1>3. ASSUME AllocNoEvict \/ AllocFail \/ FinishDecode \/ ResetPrefixCache PROVE ClaimsProtect'
  BY <1>3, ClaimsQuiet
<1>10. ASSUME UNCHANGED vars PROVE ClaimsProtect'
  BY <1>10, ClaimsQuiet DEF vars, treeVars, reqVars
<1>4. ASSUME NEW p \in DOMAIN tree, AllocEvict(p) PROVE ClaimsProtect'
  BY <1>4, ClaimsQuiet
<1>5. ASSUME NEW b \in Block, AllocPop(b) PROVE ClaimsProtect'
  BY <1>5, ClaimsQuiet
<1>6. ASSUME NEW r \in Req, NEW t \in 1..PromptLen(r), StartPrefill(r, t) PROVE ClaimsProtect'
  <2>1. t \in Nat
    BY PromptBlocksPositive
  <2>2. CASE table[r] = <<>>
    BY <1>6, <2>1, <2>2, ClaimsStart
  <2>3. CASE table[r] # <<>> /\ Orderly
    <3>1. UNCHANGED <<tree, table, seeded, registered, status>>
      BY <1>6, <2>1, <2>3, RetryEffect DEF ClaimInv, Orderly
    <3> QED
      BY <3>1, ClaimsQuiet
  <2> QED
    BY <1>10, <2>2, <2>3
<1>7. ASSUME NEW r \in Req, FinishRequest(r) PROVE ClaimsProtect'
  BY <1>7, ClaimsFinish
<1>8. ASSUME NEW b \in Block, AllocReclaim(b) PROVE ClaimsProtect'
  BY <1>8 DEF AllocReclaim, Reclaimable, ClaimInv, BookInv, Resident
<1>9. ASSUME FinishPrefill PROVE ClaimsProtect'
  <2>1. PICK r \in Req : r = call.req
    BY <1>9 DEF FinishPrefill, ClaimInv, BookInv, PoolInv, CallOK, Idle
  <2> QED
    BY <1>9, <2>1, ClaimsFill
<1> QED
  BY <1>2, <1>3, <1>4, <1>5, <1>6, <1>7, <1>8, <1>9, <1>10 DEF Next

\* In the orderly behaviours the reference count of a node is at least the
\* number of live requests that registered and hold its block: seeding, a second
\* registration of the same prefix and every finish keep the two in step, so
\* eviction (which asks for a count of zero) passes those nodes by.
THEOREM ClaimsHold ==
  ASSUME Spill = FALSE, Chunked = FALSE
  PROVE  Spec /\ [][Orderly]_vars => []ClaimsProtect
<1>1. ClaimInv /\ [Next]_vars /\ [Orderly]_vars => ClaimInv'
  BY ClaimStep
<1>2. ClaimInv => ClaimsProtect
  BY DEF ClaimInv
<1> QED
  BY <1>1, <1>2, ClaimInit, PTL DEF Spec

-----------------------------------------------------------------------------
(* What shared blocks hold.                                                *)

\* Every committed position of a request is backed by KV of its own tokens.
Backed ==
  \A r \in Req : \A i \in 1..DivCeil(committed[r]) :
    i \in DOMAIN table[r] /\ Holds(table[r][i], r, Least(i * BlockSize, committed[r]))

ShareInv == BookInv /\ CachedContent /\ Backed

\* A block that ends inside m tokens is one of their full blocks.
LEMMA InsideFull ==
  ASSUME NEW m \in Nat, NEW i \in Nat, i * BlockSize <= m
  PROVE  i <= Full(m)
<1>1. BlockSize \in Nat /\ BlockSize > 0
  BY BlockSizeAssumption
<1> DEFINE q == Full(m)
<1>2. q \in Nat /\ m < (q + 1) * BlockSize
  BY <1>1, Z3 DEF Full
<1> HIDE DEF q
<1> SUFFICES ASSUME q + 1 <= i PROVE FALSE
  BY <1>2 DEF q
<1>3. (q + 1) * BlockSize <= i * BlockSize
  BY <1>1, <1>2, Z3
<1>4. PICK x \in Nat : x = i * BlockSize
  BY <1>1, ProductNat
<1>5. PICK y \in Nat : y = (q + 1) * BlockSize
  BY <1>1, <1>2, ProductNat
<1> QED
  BY <1>2, <1>3, <1>4, <1>5

\* The node a prompt matches lies inside that prompt.
LEMMA MatchInside ==
  ASSUME NEW s \in Req, NEW i \in Nat
  PROVE  /\ PromptLen(s) \in Nat /\ i * BlockSize \in Nat
         /\ i <= PromptLen(s) \div BlockSize <=> i * BlockSize <= PromptLen(s)
<1>1. BlockSize \in Nat /\ BlockSize > 0 /\ PromptLen(s) \in Nat
  BY BlockSizeAssumption, PromptBlocksPositive
<1>2. PICK m \in Nat : m = PromptLen(s)
  BY <1>1
<1>3. i <= Full(m) => i * BlockSize <= m
  BY FullBlocks
<1>4. i * BlockSize <= m => i <= Full(m)
  BY InsideFull
<1>5. i * BlockSize \in Nat
  BY <1>1, ProductNat
<1> QED
  BY <1>1, <1>2, <1>3, <1>4, <1>5 DEF Full

\* What a block holds depends on its contents only.
LEMMA HoldsNext ==
  ASSUME NEW b, NEW r, NEW n, Holds(b, r, n), kv'[b] = kv[b]
  PROVE  Holds(b, r, n)'
BY DEF Holds, SameStream

\* A step that overwrites neither a block of the tree nor one of a table that
\* goes on.
LEMMA ShareKeeps ==
  ASSUME ShareInv,
         \A p \in DOMAIN tree' : p \in DOMAIN tree /\ tree'[p].bid = tree[p].bid /\ kv'[tree[p].bid] = kv[tree[p].bid],
         \A r \in Req : \/ committed'[r] = 0
                        \/ /\ committed'[r] = committed[r]
                           /\ \A i \in DOMAIN table[r] : /\ i \in DOMAIN table'[r] /\ table'[r][i] = table[r][i]
                                                         /\ kv'[table[r][i]] = kv[table[r][i]]
  PROVE  CachedContent' /\ Backed'
<1>1. CachedContent'
  <2> SUFFICES ASSUME NEW p \in DOMAIN tree', NEW r \in Req,
                      Len(p) <= PromptLen(r) \div BlockSize, p = Path(r, Len(p)),
                      NEW b, b = tree'[p].bid
               PROVE  Holds(b, r, Len(p) * BlockSize)'
    BY DEF CachedContent, Holds
  <2>1. Holds(b, r, Len(p) * BlockSize)
    BY DEF ShareInv, CachedContent
  <2> QED
    BY <2>1, HoldsNext
<1>2. Backed'
  <2> SUFFICES ASSUME NEW r \in Req, NEW i \in 1..DivCeil(committed'[r])
               PROVE  /\ i \in DOMAIN table'[r]
                      /\ \A b, m : b = table'[r][i] /\ m = Least(i * BlockSize, committed'[r]) => Holds(b, r, m)'
    BY DEF Backed, Holds
  <2>1. CASE committed'[r] = 0
    <3>1. i \in 1..0
      BY <2>1, BlockBounds
    <3> QED
      BY <3>1
  <2>2. CASE committed'[r] # 0
    <3>1. committed'[r] = committed[r]
      BY <2>2
    <3>2. i \in DOMAIN table[r] /\ Holds(table[r][i], r, Least(i * BlockSize, committed[r]))
      BY <3>1 DEF ShareInv, Backed
    <3>3. i \in DOMAIN table'[r] /\ table'[r][i] = table[r][i] /\ kv'[table[r][i]] = kv[table[r][i]]
      BY <2>2, <3>2
    <3>4. ASSUME NEW b, b = table'[r][i], NEW m, m = Least(i * BlockSize, committed[r]) PROVE Holds(b, r, m)'
      BY <3>2, <3>3, <3>4, HoldsNext
    <3> QED
      BY <3>1, <3>3, <3>4
  <2> QED
    BY <2>1, <2>2
<1> QED
  BY <1>1, <1>2

\* The steps that write no block of the tree and none of a table that goes on.
LEMMA ShareQuiet ==
  ASSUME ShareInv, Spill = FALSE,
         \/ \E r \in Req : Enqueue(r) \/ StartDecode(r) \/ ExpirePins(r) \/ FinishRequest(r)
         \/ AllocNoEvict \/ AllocFail \/ ResetPrefixCache
         \/ \E p \in DOMAIN tree : AllocEvict(p) /\ \A q \in Chain(p) : refs[tree[q].bid] = 0
         \/ \E b \in Block : AllocPop(b)
         \/ UNCHANGED <<tree, kv, table, committed>>
  PROVE  CachedContent' /\ Backed'
<1>1. BookInv
  BY DEF ShareInv
<1>2. /\ table \in [Req -> Seq(Block)] /\ committed \in [Req -> Nat] /\ TreeOK(tree)
      /\ \A p \in DOMAIN tree : tree[p].bid \in Block
  BY <1>1 DEF BookInv, PoolInv, ReqOK, TreeOK, NodeType
<1>3. \A r \in Req : \A i \in DOMAIN table[r] : table[r][i] \in Block /\ Held(table[r][i])
  BY <1>2 DEF Held
<1>4. ASSUME SameNodes(tree, tree'), UNCHANGED <<kv, table, committed>> PROVE CachedContent' /\ Backed'
  BY <1>4, ShareKeeps DEF SameNodes
<1>5. SameNodes(tree, tree)
  BY DEF SameNodes
<1>6. ASSUME NEW r \in Req, Enqueue(r) PROVE CachedContent' /\ Backed'
  <2>1. PICK S \in SUBSET Pinned :
          tree' = [p \in DOMAIN tree |-> IF p \in S THEN [tree[p] EXCEPT !.pin = NoReq] ELSE tree[p]]
    BY <1>6 DEF Enqueue
  <2>2. SameNodes(tree, tree')
    BY <1>2, <2>1, UnpinOK
  <2> QED
    BY <1>4, <1>6, <2>2 DEF Enqueue, poolVars
<1>7. ASSUME NEW r \in Req, ExpirePins(r) PROVE CachedContent' /\ Backed'
  <2> DEFINE S == {p \in DOMAIN tree : tree[p].pin = r}
  <2>1. tree' = [p \in DOMAIN tree |-> IF p \in S THEN [tree[p] EXCEPT !.pin = NoReq] ELSE tree[p]]
    BY <1>7 DEF ExpirePins
  <2>2. SameNodes(tree, tree')
    <3> HIDE DEF S
    <3> QED
      BY <1>2, <2>1, UnpinOK
  <2> QED
    BY <1>4, <1>7, <2>2 DEF ExpirePins, poolVars, reqVars
<1>8. ASSUME NEW r \in Req, StartDecode(r) PROVE CachedContent' /\ Backed'
  BY <1>4, <1>5, <1>8 DEF StartDecode, poolVars, treeVars, reqVars
<1>9. ASSUME AllocNoEvict \/ AllocFail PROVE CachedContent' /\ Backed'
  BY <1>4, <1>5, <1>9 DEF AllocNoEvict, AllocFail, poolVars, treeVars, reqVars
<1>10. ASSUME UNCHANGED <<tree, kv, table, committed>> PROVE CachedContent' /\ Backed'
  BY <1>4, <1>5, <1>10
<1>11. ASSUME NEW b \in Block, AllocPop(b) PROVE CachedContent' /\ Backed'
  <2>1. /\ table' = [table EXCEPT ![call.req] = Append(table[call.req], b)]
        /\ UNCHANGED <<tree, kv, committed>> /\ call.req \in Req
    BY <1>1, <1>11 DEF AllocPop, treeVars, reqVars, BookInv, PoolInv, CallOK, Reserving
  <2>2. \A r \in Req : \A i \in DOMAIN table[r] : i \in DOMAIN table'[r] /\ table'[r][i] = table[r][i]
    BY <1>2, <2>1
  <2> QED
    BY <2>1, <2>2, ShareKeeps
<1>12. ASSUME NEW p \in DOMAIN tree, AllocEvict(p), \A q \in Chain(p) : refs[tree[q].bid] = 0
       PROVE  CachedContent' /\ Backed'
  <2> DEFINE gone(b) == \E q \in Chain(p) : tree[q].bid = b
  <2>1. /\ \A b \in Block : gone(b) => ~ Held(b)
        /\ \A b \in Block : ~ gone(b) => kv'[b] = kv[b]
    BY <1>1, <1>12, EvictEffect
  <2>2. tree' = [q \in DOMAIN tree \ Chain(p) |-> tree[q]] /\ UNCHANGED <<table, committed>>
    BY <1>12 DEF AllocEvict, reqVars
  <2>3. ASSUME NEW q \in DOMAIN tree, q \notin Chain(p) PROVE ~ gone(tree[q].bid)
    <3> SUFFICES ASSUME NEW d \in Chain(p), tree[d].bid = tree[q].bid PROVE FALSE
      OBVIOUS
    <3>1. d \in DOMAIN tree
      BY DEF Chain
    <3> QED
      BY <1>1, <2>3, <3>1 DEF BookInv, NoZombie
  <2> HIDE DEF gone
  <2>4. \A r \in Req : \A i \in DOMAIN table[r] : kv'[table[r][i]] = kv[table[r][i]]
    BY <1>3, <2>1
  <2>5. \A q \in DOMAIN tree' : q \in DOMAIN tree /\ tree'[q].bid = tree[q].bid /\ kv'[tree[q].bid] = kv[tree[q].bid]
    BY <1>2, <2>1, <2>2, <2>3
  <2> QED
    BY <2>2, <2>4, <2>5, ShareKeeps
<1>13. ASSUME ResetPrefixCache PROVE CachedContent' /\ Backed'
  <2>1. DOMAIN tree' = {} /\ UNCHANGED <<kv, table, committed>>
    BY <1>13 DEF ResetPrefixCache, reqVars
  <2> QED
    BY <2>1, ShareKeeps
<1>14. ASSUME NEW r \in Req, FinishRequest(r) PROVE CachedContent' /\ Backed'
  <2> DEFINE mine(b) == \E i \in DOMAIN table[r] : table[r][i] = b
  <2>1. /\ \A s \in Req : s # r => table'[s] = table[s]
        /\ SameNodes(tree, tree')
        /\ \A b \in Block : ~ mine(b) => kv'[b] = kv[b]
        /\ \A b \in Block : mine(b) =>
             /\ refs'[b] = refs[b] - 1 /\ IsFiniteSet(Slots(b)') /\ Cardinality(Slots(b)') = refs'[b]
             /\ IF refs[b] = 1 /\ node[b] = Root THEN kv'[b] = Empty ELSE kv'[b] = kv[b]
    BY <1>1, <1>14, FinishEffect
  <2>2. committed' = [committed EXCEPT ![r] = 0]
    BY <1>14 DEF FinishRequest
  <2> HIDE DEF mine
  <2>3. ASSUME NEW p \in DOMAIN tree PROVE kv'[tree[p].bid] = kv[tree[p].bid]
    <3>1. node[tree[p].bid] = p /\ p # Root /\ tree[p].bid \in Block
      BY <1>1, <1>2, PathsShape DEF BookInv, NoZombie, TreeOK
    <3> QED
      BY <2>1, <3>1
  <2>4. ASSUME NEW s \in Req, s # r, NEW i \in DOMAIN table[s] PROVE kv'[table[s][i]] = kv[table[s][i]]
    <3>1. PICK c \in Block : c = table[s][i]
      BY <1>3
    <3>2. Held(c)'
      BY <2>1, <2>4, <3>1 DEF Held
    <3>3. Slots(c)' # {}
      BY <3>2, SlotsHeldNext
    <3>4. mine(c) => refs[c] # 1
      <4> SUFFICES ASSUME mine(c), refs[c] = 1 PROVE FALSE
        OBVIOUS
      <4>1. IsFiniteSet(Slots(c)') /\ Cardinality(Slots(c)') = 0
        BY <2>1
      <4> QED
        BY <3>3, <4>1, FS_EmptySet
    <3> QED
      BY <2>1, <3>1, <3>4
  <2>5. committed'[r] = 0 /\ \A s \in Req : s # r => committed'[s] = committed[s]
    BY <1>2, <2>2
  <2>6. \A p \in DOMAIN tree' : p \in DOMAIN tree /\ tree'[p].bid = tree[p].bid /\ kv'[tree[p].bid] = kv[tree[p].bid]
    BY <2>1, <2>3 DEF SameNodes
  <2> QED
    BY <2>1, <2>4, <2>5, <2>6, ShareKeeps
<1> QED
  BY <1>6, <1>7, <1>8, <1>9, <1>10, <1>11, <1>12, <1>13, <1>14

\* Seeding: the blocks handed to the request hold the KV of its own prefix.
LEMMA ShareStart ==
  ASSUME ShareInv, NEW r \in Req, NEW t \in Nat, StartPrefill(r, t), Chunked = FALSE, table[r] = <<>>
  PROVE  CachedContent' /\ Backed'
<1> DEFINE n == SeedBlocks(r)
<1>1. BookInv
  BY DEF ShareInv
<1>2. /\ n \in Nat /\ n * BlockSize \in Nat
      /\ \A i \in 1..n : Path(r, i) \in DOMAIN tree /\ i * BlockSize \in Nat /\ i * BlockSize <= PromptLen(r)
      /\ table'[r] \in Seq(Block) /\ Len(table'[r]) = n
      /\ \A i \in 1..n : table'[r][i] = tree[Path(r, i)].bid
      /\ \A s \in Req : s # r => table'[s] = table[s]
      /\ SameNodes(tree, tree') /\ kv' = kv
      /\ committed' = [committed EXCEPT ![r] = n * BlockSize]
  BY <1>1, StartEffect
<1>3. committed \in [Req -> Nat]
  BY <1>1 DEF BookInv, PoolInv, ReqOK
<1> HIDE DEF n
<1>4. CachedContent'
  <2> SUFFICES ASSUME NEW p \in DOMAIN tree', NEW s \in Req,
                      Len(p) <= PromptLen(s) \div BlockSize, p = Path(s, Len(p)),
                      NEW b, b = tree'[p].bid
               PROVE  Holds(b, s, Len(p) * BlockSize)'
    BY DEF CachedContent, Holds
  <2>1. p \in DOMAIN tree /\ tree[p].bid = b
    BY <1>2 DEF SameNodes
  <2>2. Holds(b, s, Len(p) * BlockSize)
    BY <2>1 DEF ShareInv, CachedContent
  <2> QED
    BY <1>2, <2>2, HoldsNext
<1>5. Backed'
  <2> SUFFICES ASSUME NEW s \in Req, NEW i \in 1..DivCeil(committed'[s])
               PROVE  /\ i \in DOMAIN table'[s]
                      /\ \A b, m : b = table'[s][i] /\ m = Least(i * BlockSize, committed'[s]) => Holds(b, s, m)'
    BY DEF Backed, Holds
  <2>1. CASE s # r
    <3>1. committed'[s] = committed[s] /\ table'[s] = table[s]
      BY <1>2, <1>3, <2>1
    <3>2. i \in DOMAIN table[s] /\ Holds(table[s][i], s, Least(i * BlockSize, committed[s]))
      BY <3>1 DEF ShareInv, Backed
    <3> QED
      BY <1>2, <3>1, <3>2, HoldsNext
  <2>2. CASE s = r
    <3>1. committed'[r] = n * BlockSize
      BY <1>2, <1>3
    <3>2. PICK m \in Nat : m = n * BlockSize
      BY <1>2
    <3>3. DivCeil(m) <= n /\ DivCeil(m) \in Nat
      <4>1. DivCeil(m) \in Nat
        BY DivCeilNat
      <4>2. ~ (n < DivCeil(m))
        BY <1>2, <3>2, EndsInside
      <4> QED
        BY <1>2, <4>1, <4>2
    <3>4. i \in 1..n /\ i \in Nat /\ i >= 1 /\ i <= n
      BY <1>2, <2>2, <3>1, <3>2, <3>3
    <3>5. i \in DOMAIN table'[r] /\ table'[r][i] = tree[Path(r, i)].bid /\ Path(r, i) \in DOMAIN tree
      BY <1>2, <3>4
    <3>6. Len(Path(r, i)) = i
      BY <3>4, PathPrefix
    <3>7. i <= PromptLen(r) \div BlockSize
      BY <1>2, <3>4, MatchInside
    <3>8. Holds(tree[Path(r, i)].bid, r, i * BlockSize)
      BY <3>5, <3>6, <3>7 DEF ShareInv, CachedContent
    <3>9. i * BlockSize <= n * BlockSize
      BY <1>2, <3>4, BlockSizeAssumption, Z3
    <3>10. Least(i * BlockSize, committed'[r]) = i * BlockSize
      BY <3>1, <3>9 DEF Least
    <3> QED
      BY <1>2, <2>2, <3>5, <3>8, <3>10, HoldsNext
  <2> QED
    BY <2>1, <2>2
<1> QED
  BY <1>4, <1>5

\* A forward pass writes, of the blocks of its own table, the ones from the first
\* that is not full.
LEMMA WrittenSlots ==
  ASSUME BookInv, NEW r \in Req, NEW to \in Nat, DivCeil(to) <= Len(table[r]),
         kv' = Written(r, committed[r], to)
  PROVE  /\ \A i \in (Full(committed[r]) + 1)..DivCeil(to) :
              /\ i \in DOMAIN table[r] /\ i \in Nat /\ i >= 1
              /\ kv'[table[r][i]] = [by |-> r, upto |-> Least(i * BlockSize, to)]
         /\ \A b \in Block : ~ (\E i \in (Full(committed[r]) + 1)..DivCeil(to) : table[r][i] = b) => kv'[b] = kv[b]
<1> DEFINE first == Full(committed[r]) + 1
           at(b) == {i \in first..DivCeil(to) : table[r][i] = b}
           last(b) == CHOOSE i \in at(b) : \A j \in at(b) : j <= i
           new == [b \in Block |-> IF at(b) = {} THEN kv[b]
                                   ELSE [by |-> r, upto |-> Least(last(b) * BlockSize, to)]]
<1>1. committed[r] \in Nat /\ table[r] \in Seq(Block)
  BY DEF BookInv, PoolInv, ReqOK
<1>2. first \in Nat /\ first >= 1 /\ DivCeil(to) \in Nat
  <2>1. Full(committed[r]) \in Nat /\ DivCeil(to) \in Nat
    BY <1>1, BlockBounds
  <2> QED
    BY <2>1
<1>3. kv' = new
  <2>1. Spilled = {}
    BY DEF Spilled, BookInv, Resident, Uncopied
  <2>2. kv' = Promote(new, {})
    BY <2>1 DEF Written, Full
  <2> HIDE DEF new
  <2>3. Promote(new, {}) = [b \in Block |-> new[b]]
    BY DEF Promote
  <2>4. [b \in Block |-> new[b]] = new
    BY DEF new
  <2> QED
    BY <2>2, <2>3, <2>4
<1>4. ASSUME NEW i \in first..DivCeil(to) PROVE i \in DOMAIN table[r] /\ i \in Nat /\ i >= 1 /\ table[r][i] \in Block
  <2> HIDE DEF first
  <2>1. i \in DOMAIN table[r] /\ i \in Nat /\ i >= 1
    BY <1>1, <1>2
  <2> QED
    BY <1>1, <2>1
<1>5. ASSUME NEW i \in first..DivCeil(to)
      PROVE  kv'[table[r][i]] = [by |-> r, upto |-> Least(i * BlockSize, to)]
  <2> DEFINE b == table[r][i]
  <2>1. b \in Block
    BY <1>4
  <2>2. \A j \in at(b) : j = i
    BY <1>4 DEF BookInv, Apart
  <2>3. i \in at(b)
    OBVIOUS
  <2>4. at(b) = {i}
    BY <2>2, <2>3
  <2>5. last(b) = i
    <3>1. i <= i
      BY <1>4
    <3> HIDE DEF at, b
    <3> QED
      BY <2>4, <3>1
  <2>6. at(b) # {}
    BY <2>3
  <2>7. new[b] = [by |-> r, upto |-> Least(last(b) * BlockSize, to)]
    <3> HIDE DEF at, b, last
    <3> QED
      BY <2>1, <2>6
  <2> HIDE DEF new, last, at
  <2> QED
    BY <1>3, <2>5, <2>7
<1>6. ASSUME NEW b \in Block, ~ \E i \in first..DivCeil(to) : table[r][i] = b PROVE kv'[b] = kv[b]
  <2>1. at(b) = {}
    BY <1>6
  <2> HIDE DEF at, last
  <2> QED
    BY <1>3, <2>1
<1> QED
  BY <1>4, <1>5, <1>6

\* A forward pass that writes private slots only leaves every node that was there
\* and every committed position right.
LEMMA ShareWrite ==
  ASSUME ShareInv, NEW r \in Req, NEW to \in Nat, committed[r] <= to, DivCeil(to) <= Len(table[r]),
         kv' = Written(r, committed[r], to), table' = table,
         committed' = [committed EXCEPT ![r] = to],
         \A i \in (Full(committed[r]) + 1)..DivCeil(to) : Private(r, i)
  PROVE  /\ Backed'
         /\ \A p \in DOMAIN tree : \A s \in Req :
              (Len(p) <= PromptLen(s) \div BlockSize /\ p = Path(s, Len(p)))
                => \A b : b = tree[p].bid => Holds(b, s, Len(p) * BlockSize)'
<1> DEFINE first == Full(committed[r]) + 1
           wrote(b) == \E i \in first..DivCeil(to) : table[r][i] = b
<1>1. BookInv
  BY DEF ShareInv
<1>2. /\ committed \in [Req -> Nat] /\ table \in [Req -> Seq(Block)] /\ committed[r] \in Nat
      /\ DivCeil(to) \in Nat /\ Full(committed[r]) \in Nat /\ DivCeil(committed[r]) \in Nat
      /\ Full(committed[r]) <= DivCeil(committed[r])
  BY <1>1, BlockBounds DEF BookInv, PoolInv, ReqOK
<1>3. /\ \A i \in first..DivCeil(to) : /\ i \in DOMAIN table[r] /\ i \in Nat /\ i >= 1
                                       /\ kv'[table[r][i]] = [by |-> r, upto |-> Least(i * BlockSize, to)]
      /\ \A b \in Block : ~ wrote(b) => kv'[b] = kv[b]
  BY <1>1, WrittenSlots
<1>4. first \in Nat /\ first >= 1 /\ first - 1 = Full(committed[r])
  BY <1>2
<1>5. ASSUME NEW i \in first..DivCeil(to)
      PROVE  /\ \A s \in Req : \A j \in DOMAIN table[s] : table[s][j] = table[r][i] => s = r /\ j = i
             /\ \/ node[table[r][i]] = Root
                \/ ~ Opening(r) /\ node[table[r][i]] = Path(r, i)
             /\ Private(r, i)
  <2>1. i \in DOMAIN table[r] /\ Private(r, i)
    BY <1>3
  <2>2. /\ \A s \in Req : \A j \in DOMAIN table[s] : table[s][j] = table[r][i] => s = r
        /\ \/ node[table[r][i]] = Root
           \/ ~ Opening(r) /\ i = PromptBlocks(r) /\ node[table[r][i]] = Path(r, i)
    BY <1>1, <2>1 DEF BookInv, Unshared
  <2>3. \A j \in DOMAIN table[r] : table[r][j] = table[r][i] => j = i
    BY <1>1, <2>1 DEF BookInv, Apart
  <2> QED
    BY <2>1, <2>2, <2>3
<1> HIDE DEF first
<1>6. ASSUME NEW s \in Req, NEW i \in DOMAIN table[s], s # r \/ i < first
      PROVE  kv'[table[s][i]] = kv[table[s][i]]
  <2>1. table[s][i] \in Block /\ i \in Nat
    BY <1>2
  <2>2. ~ wrote(table[s][i])
    <3> SUFFICES ASSUME NEW j \in first..DivCeil(to), table[r][j] = table[s][i] PROVE FALSE
      OBVIOUS
    <3>1. s = r /\ i = j
      BY <1>5
    <3>2. j >= first
      BY <1>2, <1>4
    <3> QED
      BY <1>4, <1>6, <2>1, <3>1, <3>2
  <2> HIDE DEF wrote
  <2> QED
    BY <1>3, <2>1, <2>2
<1>7. Backed'
  <2> SUFFICES ASSUME NEW s \in Req, NEW i \in 1..DivCeil(committed'[s])
               PROVE  /\ i \in DOMAIN table[s]
                      /\ \A b, m : b = table[s][i] /\ m = Least(i * BlockSize, committed'[s]) => Holds(b, s, m)'
    BY DEF Backed, Holds
  <2>1. CASE s # r
    <3>1. committed'[s] = committed[s]
      BY <1>2, <2>1
    <3>2. i \in DOMAIN table[s] /\ Holds(table[s][i], s, Least(i * BlockSize, committed[s]))
      BY <3>1 DEF ShareInv, Backed
    <3> QED
      BY <1>6, <2>1, <3>1, <3>2, HoldsNext
  <2>2. CASE s = r /\ i >= first
    <3>1. committed'[r] = to
      BY <1>2
    <3>2. i \in first..DivCeil(to)
      BY <1>2, <1>4, <2>2, <3>1
    <3>3. i \in DOMAIN table[r] /\ kv'[table[r][i]] = [by |-> r, upto |-> Least(i * BlockSize, to)]
      BY <1>3, <3>2
    <3>4. ASSUME NEW b, NEW m, b = table[r][i], m = Least(i * BlockSize, to) PROVE Holds(b, r, m)'
      BY <3>3, <3>4 DEF Holds, SameStream
    <3> QED
      BY <2>2, <3>1, <3>3, <3>4
  <2>3. CASE s = r /\ ~ (i >= first)
    <3>1. committed'[r] = to
      BY <1>2
    <3>2. i \in Nat /\ i >= 1 /\ i < first /\ i <= Full(committed[r])
      BY <1>2, <1>4, <2>3, <3>1
    <3>3. i * BlockSize <= committed[r] /\ i * BlockSize \in Nat
      BY <1>2, <3>2, FullBlocks
    <3>4. i \in 1..DivCeil(committed[r])
      BY <1>2, <3>2
    <3>5. i \in DOMAIN table[r] /\ Holds(table[r][i], r, Least(i * BlockSize, committed[r]))
      BY <3>4 DEF ShareInv, Backed
    <3>6. Least(i * BlockSize, committed[r]) = i * BlockSize /\ Least(i * BlockSize, to) = i * BlockSize
      BY <1>2, <3>3 DEF Least
    <3>7. kv'[table[r][i]] = kv[table[r][i]]
      BY <1>6, <3>2, <3>5
    <3> QED
      BY <2>3, <3>1, <3>5, <3>6, <3>7, HoldsNext
  <2> QED
    BY <2>1, <2>2, <2>3
<1>8. ASSUME NEW p \in DOMAIN tree, NEW s \in Req, Len(p) <= PromptLen(s) \div BlockSize, p = Path(s, Len(p)),
             NEW b, b = tree[p].bid
      PROVE  Holds(b, s, Len(p) * BlockSize)'
  <2>1. Holds(b, s, Len(p) * BlockSize)
    BY <1>8 DEF ShareInv, CachedContent
  <2>2. node[b] = p /\ p # Root /\ b \in Block /\ Len(p) \in Nat /\ Len(p) >= 1
    <3>1. p \in Paths /\ tree[p] \in NodeType
      BY <1>1 DEF BookInv, PoolInv, TreeOK
    <3>2. p # Root /\ Len(p) \in Nat /\ Len(p) >= 1
      BY <3>1, PathsShape
    <3> QED
      BY <1>1, <1>8, <3>1, <3>2 DEF BookInv, NoZombie, NodeType
  <2>3. ~ wrote(b)
    <3> SUFFICES ASSUME NEW i \in first..DivCeil(to), table[r][i] = b PROVE FALSE
      OBVIOUS
    <3>1. ~ Opening(r) /\ p = Path(r, i) /\ Private(r, i) /\ i \in Nat
      BY <1>3, <1>5, <2>2
    <3>2. i * BlockSize > PromptLen(r)
      BY <3>1 DEF Private
    <3>3. Len(p) * BlockSize <= PromptLen(s)
      BY <1>8, <2>2, MatchInside
    <3> QED
      BY <1>8, <2>2, <3>1, <3>2, <3>3, ShortKey
  <2> HIDE DEF wrote
  <2> QED
    BY <1>3, <2>1, <2>2, <2>3, HoldsNext
<1> QED
  BY <1>7, <1>8

\* A decode step writes behind the prompt.
LEMMA ShareDecode ==
  ASSUME ShareInv, FinishDecode
  PROVE  CachedContent' /\ Backed'
<1>1. BookInv
  BY DEF ShareInv
<1>2. PICK r \in Req : r = call.req
  BY <1>1 DEF FinishDecode, BookInv, PoolInv, CallOK, Idle
<1>3. call.chunk = 1 /\ Filled(r) /\ call # Idle
  BY <1>1, <1>2 DEF FinishDecode, BookInv, Phases, Idle
<1>4. /\ committed \in [Req -> Nat] /\ committed[r] \in Nat /\ PromptLen(r) \in Nat /\ committed[r] >= PromptLen(r)
      /\ table[r] \in Seq(Block) /\ Len(table[r]) \in Nat
  BY <1>1, <1>3, PromptBlocksPositive DEF BookInv, PoolInv, ReqOK, Filled
<1>13. ~ Opening(r)
  BY <1>3, <1>4 DEF Filled, Opening
<1>5. PICK to \in Nat : to = committed[r] + 1
  BY <1>4
<1>6. /\ kv' = Written(r, committed[r], to) /\ table' = table /\ tree' = tree
      /\ committed' = [committed EXCEPT ![r] = to]
  BY <1>2, <1>5 DEF FinishDecode, treeVars
<1>7. DivCeil(to) <= Len(table[r])
  <2>1. ~ (Len(table[r]) < DivCeil(to))
    BY <1>2, <1>3, <1>5 DEF FinishDecode, Reserving
  <2>2. DivCeil(to) \in Nat
    BY BlockBounds
  <2> QED
    BY <1>4, <2>1, <2>2
<1>8. Full(committed[r]) \in Nat /\ DivCeil(to) \in Nat
  BY <1>4, BlockBounds
<1>9. ASSUME NEW i \in (Full(committed[r]) + 1)..DivCeil(to) PROVE Private(r, i)
  <2>1. i \in Nat /\ i > Full(committed[r])
    BY <1>8
  <2>2. ~ (i * BlockSize <= committed[r])
    BY <1>4, <1>8, <2>1, InsideFull
  <2>3. PICK x \in Nat : x = i * BlockSize
    BY <2>1, ProductNat, BlockSizeAssumption
  <2>4. i * BlockSize > PromptLen(r)
    BY <1>4, <2>2, <2>3
  <2> QED
    BY <1>13, <2>4 DEF Private
<1>10. committed[r] <= to
  BY <1>4, <1>5
<1>11. /\ Backed'
       /\ \A p \in DOMAIN tree : \A s \in Req :
            (Len(p) <= PromptLen(s) \div BlockSize /\ p = Path(s, Len(p)))
              => \A b : b = tree[p].bid => Holds(b, s, Len(p) * BlockSize)'
  BY <1>6, <1>7, <1>9, <1>10, ShareWrite
<1>12. CachedContent'
  <2> SUFFICES ASSUME NEW p \in DOMAIN tree', NEW s \in Req,
                      Len(p) <= PromptLen(s) \div BlockSize, p = Path(s, Len(p)),
                      NEW b, b = tree'[p].bid
               PROVE  Holds(b, s, Len(p) * BlockSize)'
    BY DEF CachedContent, Holds
  <2> QED
    BY <1>6, <1>11
<1> QED
  BY <1>11, <1>12

\* A prefill writes behind the seeded blocks, and a node it adds to the tree is
\* matched only by prompts with the tokens the block was computed from.
LEMMA ShareFill ==
  ASSUME ShareInv, NEW r \in Req, r = call.req, FinishPrefill
  PROVE  CachedContent' /\ Backed'
<1>1. BookInv
  BY DEF ShareInv
<1>2. PICK to \in Nat : to = PromptLen(r)
  BY PromptBlocksPositive
<1>3. /\ Begun(r) /\ Filling(r) /\ table[r] \in Seq(Block) /\ table' = table
      /\ Len(table[r]) = PromptBlocks(r) /\ Opening(r)
      /\ kv' = Written(r, committed[r], to)
      /\ committed' = [committed EXCEPT ![r] = to]
      /\ committed[r] + call.chunk = to
      /\ \A p : p \in DOMAIN tree' <=> p \in DOMAIN tree \/ \E i : Entered(r, i) /\ p = Path(r, i)
      /\ \A p \in DOMAIN tree : tree'[p].bid = tree[p].bid
      /\ \A i : Entered(r, i) => /\ i > seeded[r] /\ i \in Nat /\ i >= 1
                                 /\ tree'[Path(r, i)].bid = table[r][i]
  BY <1>1, <1>2, FillEffect DEF Begun, Opened
<1>4. /\ committed[r] \in Nat /\ seeded[r] \in Nat /\ call.chunk \in Nat /\ committed[r] = seeded[r] * BlockSize
  BY <1>1, <1>3 DEF BookInv, PoolInv, ReqOK, CallOK, Begun, Opened
<1>5. committed[r] <= to
  BY <1>3, <1>4
<1>6. DivCeil(to) <= Len(table[r]) /\ DivCeil(to) \in Nat /\ DivCeil(to) = PromptBlocks(r)
  BY <1>2, <1>3, BlockBounds DEF PromptBlocks
<1>7. Full(committed[r]) = seeded[r]
  BY <1>4, BlockSizeAssumption, Z3 DEF Full
<1>8. \A i \in (Full(committed[r]) + 1)..DivCeil(to) : Private(r, i)
  BY <1>3, <1>4, <1>6, <1>7 DEF Private
<1>9. /\ Backed'
      /\ \A p \in DOMAIN tree : \A s \in Req :
           (Len(p) <= PromptLen(s) \div BlockSize /\ p = Path(s, Len(p)))
             => \A b : b = tree[p].bid => Holds(b, s, Len(p) * BlockSize)'
  <2>1. /\ DivCeil(to) <= Len(table[r]) /\ kv' = Written(r, committed[r], to) /\ table' = table
        /\ committed' = [committed EXCEPT ![r] = to]
    BY <1>3, <1>6
  <2> QED
    BY <1>5, <1>8, <2>1, ShareWrite
<1>10. CachedContent'
  <2> SUFFICES ASSUME NEW p \in DOMAIN tree', NEW s \in Req,
                      Len(p) <= PromptLen(s) \div BlockSize, p = Path(s, Len(p)),
                      NEW b, b = tree'[p].bid
               PROVE  Holds(b, s, Len(p) * BlockSize)'
    BY DEF CachedContent, Holds
  <2>1. CASE p \in DOMAIN tree
    BY <1>3, <1>9, <2>1
  <2>2. CASE p \notin DOMAIN tree
    <3>1. PICK i : Entered(r, i) /\ p = Path(r, i)
      BY <1>3, <2>2
    <3>2. /\ i > seeded[r] /\ i \in Nat /\ i >= 1 /\ b = table[r][i]
          /\ Radix /\ i \in DOMAIN table[r]
      BY <1>3, <3>1 DEF Entered
    <3>3. i \in (Full(committed[r]) + 1)..DivCeil(to)
      BY <1>3, <1>4, <1>6, <1>7, <3>2
    <3>4. kv'[b] = [by |-> r, upto |-> Least(i * BlockSize, to)]
      BY <1>1, <1>3, <1>6, <3>2, <3>3, WrittenSlots
    <3>5. Len(p) = i
      BY <3>1, <3>2, PathPrefix
    <3>6. PICK x \in Nat : x = i * BlockSize
      BY <3>2, ProductNat, BlockSizeAssumption
    <3>7. i * BlockSize <= PromptLen(s)
      BY <3>2, <3>5, MatchInside
    <3>8. i * BlockSize <= PromptLen(r)
      <4>1. ~ (i * BlockSize > PromptLen(r))
        BY <3>1, <3>2, <3>5, <3>7, ShortKey
      <4> QED
        BY <1>2, <3>6, <4>1
    <3>9. Least(i * BlockSize, to) = i * BlockSize
      BY <1>2, <3>8 DEF Least
    <3>10. SameStream(r, s, i * BlockSize)
      BY <3>1, <3>2, <3>5, <3>7, <3>8, SamePath DEF SameStream
    <3>11. kv'[b].by = r /\ kv'[b].upto = i * BlockSize
      BY <3>4, <3>9
    <3> QED
      BY <3>5, <3>10, <3>11 DEF Holds, SameStream
  <2> QED
    BY <2>1, <2>2
<1> QED
  BY <1>9, <1>10

LEMMA ShareInit == Init => ShareInv
<1> SUFFICES ASSUME Init PROVE CachedContent /\ Backed
  BY BookInit DEF ShareInv
<1>1. CachedContent
  BY DEF Init, CachedContent
<1>2. ASSUME NEW r \in Req, NEW i \in 1..DivCeil(committed[r]) PROVE FALSE
  <2>1. i \in 1..0
    BY <1>2, BlockBounds DEF Init
  <2> QED
    BY <2>1
<1> QED
  BY <1>1, <1>2 DEF Backed

LEMMA ShareStep ==
  ASSUME ShareInv, [Next]_vars, [Orderly]_vars, Spill = FALSE, Chunked = FALSE
  PROVE  ShareInv'
<1>1. BookInv'
  BY BookStep DEF ShareInv
<1> DEFINE Good == CachedContent /\ Backed
<1> SUFFICES Good'
  BY <1>1 DEF ShareInv
<1>2. CASE UNCHANGED vars
  BY <1>2, ShareQuiet DEF vars, poolVars, treeVars, reqVars, ShareInv
<1> SUFFICES ASSUME Next, Orderly PROVE Good'
  BY <1>2
<1>3. ASSUME NEW r \in Req, Enqueue(r) \/ StartDecode(r) \/ ExpirePins(r) \/ FinishRequest(r) PROVE Good'
  BY <1>3, ShareQuiet
<1>4. ASSUME AllocNoEvict \/ AllocFail \/ ResetPrefixCache PROVE Good'
  BY <1>4, ShareQuiet
<1>5. ASSUME NEW p \in DOMAIN tree, AllocEvict(p) PROVE Good'
  <2>1. \A q \in Chain(p) : refs[tree[q].bid] = 0
    BY <1>5 DEF Orderly, SparesHeld
  <2> QED
    BY <1>5, <2>1, ShareQuiet
<1>6. ASSUME NEW b \in Block, AllocPop(b) PROVE Good'
  BY <1>6, ShareQuiet
<1>7. ASSUME NEW r \in Req, NEW t \in 1..PromptLen(r), StartPrefill(r, t) PROVE Good'
  <2>1. t \in Nat
    BY PromptBlocksPositive
  <2>2. CASE table[r] = <<>>
    BY <1>7, <2>1, <2>2, ShareStart
  <2>3. CASE table[r] # <<>>
    <3>1. UNCHANGED <<tree, kv, table, committed>>
      BY <1>7, <2>1, <2>3, RetryEffect DEF ShareInv, Orderly
    <3> QED
      BY <3>1, ShareQuiet
  <2> QED
    BY <2>2, <2>3
<1>8. ASSUME NEW b \in Block, AllocReclaim(b) PROVE Good'
  BY <1>8 DEF AllocReclaim, Reclaimable, ShareInv, BookInv, Resident
<1>9. ASSUME FinishPrefill PROVE Good'
  <2>1. PICK r \in Req : r = call.req
    BY <1>9 DEF FinishPrefill, ShareInv, BookInv, PoolInv, CallOK, Idle
  <2> QED
    BY <1>9, <2>1, ShareFill
<1>10. ASSUME FinishDecode PROVE Good'
  BY <1>10, ShareDecode
<1> HIDE DEF Good
<1> QED
  BY <1>3, <1>4, <1>5, <1>6, <1>7, <1>8, <1>9, <1>10 DEF Next

LEMMA ShareGives == ShareInv => CachedContent /\ LiveContent
<1> SUFFICES ASSUME ShareInv, NEW r \in Live, NEW i \in 1..DivCeil(committed[r])
             PROVE  i <= Len(table[r]) /\ Holds(table[r][i], r, Least(i * BlockSize, committed[r]))
  BY DEF ShareInv, LiveContent
<1>1. r \in Req
  BY DEF Live
<1>2. i \in DOMAIN table[r] /\ Holds(table[r][i], r, Least(i * BlockSize, committed[r]))
  BY <1>1 DEF ShareInv, Backed
<1>3. table[r] \in Seq(Block)
  BY <1>1 DEF ShareInv, BookInv, PoolInv, ReqOK
<1> QED
  BY <1>2, <1>3

\* In the orderly behaviours a node of the prefix cache holds, for every
\* prompt that match_prefix can lead to it, the KV of all that prompt's tokens up
\* to the node: a block's contents never go stale under the tree, whoever wrote
\* it and whoever goes on decoding behind it.
THEOREM CachedKv ==
  ASSUME Spill = FALSE, Chunked = FALSE
  PROVE  Spec /\ [][Orderly]_vars => []CachedContent
<1>1. ShareInv /\ [Next]_vars /\ [Orderly]_vars => ShareInv'
  BY ShareStep
<1> QED
  BY <1>1, ShareInit, ShareGives, PTL DEF Spec

\* In the orderly behaviours every committed position of a live request is
\* backed by KV of that request's own tokens, also where its table shares blocks
\* with other requests and with the tree.
THEOREM SharedKv ==
  ASSUME Spill = FALSE, Chunked = FALSE
  PROVE  Spec /\ [][Orderly]_vars => []LiveContent
<1>1. ShareInv /\ [Next]_vars /\ [Orderly]_vars => ShareInv'
  BY ShareStep
<1> QED
  BY <1>1, ShareInit, ShareGives, PTL DEF Spec

-----------------------------------------------------------------------------
(* An exhausted pool, with the prefix cache on.                            *)

\* While an allocation goes on without a free block, eviction has nothing to take.
Spent   == call.stage # "alloc" /\ NoFree => Evictable = {}
FullInv == BookInv /\ Spent

Under(q) == {d \in DOMAIN tree : Above(q, d)}

\* The tree has no more nodes than the pool has blocks.
LEMMA TreeFinite == ASSUME BookInv, IsFiniteSet(Block) PROVE IsFiniteSet(DOMAIN tree)
<1> DEFINE f == [p \in DOMAIN tree |-> tree[p].bid]
<1>1. \A p \in DOMAIN tree : tree[p].bid \in Block /\ node[tree[p].bid] = p
  BY DEF BookInv, NoZombie, PoolInv, TreeOK, NodeType
<1>2. f \in Injection(DOMAIN tree, Block)
  BY <1>1 DEF Injection, IsInjective
<1> HIDE DEF f
<1> QED
  BY <1>2, FS_Injection

\* Below every node of the tree, itself included, there is a leaf.
LEMMA LeafUnder ==
  ASSUME BookInv, IsFiniteSet(Block), NEW p \in DOMAIN tree
  PROVE  \E q \in DOMAIN tree : Above(p, q) /\ Childless(q)
<1>1. ASSUME NEW q \in DOMAIN tree PROVE q \in Seq(Keys) /\ Above(q, q)
  <2>1. q \in Seq(Keys)
    <3>1. q \in Paths
      BY DEF BookInv, PoolInv, TreeOK
    <3> QED
      BY <3>1, PathsShape
  <2> QED
    BY <2>1 DEF Above
<1>2. ASSUME NEW q PROVE IsFiniteSet(Under(q)) /\ Cardinality(Under(q)) \in Nat
  <2>1. IsFiniteSet(DOMAIN tree) /\ Under(q) \in SUBSET DOMAIN tree
    BY TreeFinite DEF Under
  <2> QED
    BY <2>1, FS_Subset, FS_CardinalityType
<1> DEFINE S == {Cardinality(Under(q)) : q \in Under(p)}
<1>3. S \in SUBSET Nat /\ S # {}
  <2>1. p \in Under(p)
    BY <1>1 DEF Under
  <2> QED
    BY <1>2, <2>1
<1>4. PICK x \in S : \A y \in S : ~ (<<y, x>> \in OpToRel(<, Nat))
  <2> HIDE DEF S
  <2> QED
    BY <1>3, NatLessThanWellFounded, WFMin
<1>5. \A y \in S : ~ (y < x)
  <2> HIDE DEF S
  <2> QED
    BY <1>3, <1>4 DEF OpToRel
<1>6. PICK q \in Under(p) : x = Cardinality(Under(q))
  BY <1>4
<1>7. q \in DOMAIN tree /\ Above(p, q)
  BY <1>6 DEF Under
<1>8. ASSUME NEW d \in DOMAIN tree, Above(q, d) PROVE d = q
  <2>1. Under(d) \subseteq Under(q) /\ d \in Under(p)
    BY <1>1, <1>7, <1>8, AboveTransitive DEF Under
  <2>2. ~ (Cardinality(Under(d)) < Cardinality(Under(q)))
    BY <1>5, <1>6, <2>1
  <2>3. Cardinality(Under(d)) <= Cardinality(Under(q))
    BY <1>2, <2>1, FS_Subset
  <2>4. Cardinality(Under(q)) = Cardinality(Under(d))
    BY <1>2, <2>2, <2>3
  <2>5. Under(q) = Under(d)
    BY <1>2, <2>1, <2>4, FS_Subset
  <2>6. Above(d, q)
    BY <1>1, <1>7, <2>5 DEF Under
  <2> QED
    BY <1>1, <1>7, <1>8, <2>6 DEF Above
<1> QED
  BY <1>7, <1>8 DEF Childless

LEMMA FullStep ==
  ASSUME FullInv, [Next]_vars, [Orderly]_vars, Spill = FALSE, Chunked = FALSE
  PROVE  FullInv'
<1>1. BookInv /\ BookInv'
  BY BookStep DEF FullInv
<1> SUFFICES Spent'
  BY <1>1 DEF FullInv
<1>2. ASSUME UNCHANGED <<call, tree, node, free>> PROVE Spent'
  BY <1>2 DEF FullInv, Spent, NoFree, Evictable, Mapped, Childless, Pinned
<1>3. ASSUME call'.stage = "alloc" PROVE Spent'
  BY <1>3 DEF Spent
<1>4. ASSUME NEW r \in Req, Enqueue(r) \/ FinishRequest(r) PROVE Spent'
  BY <1>3, <1>4 DEF Enqueue, FinishRequest, Idle
<1>5. ASSUME NEW r \in Req, StartDecode(r) \/ ExpirePins(r) PROVE Spent'
  BY <1>3, <1>5 DEF StartDecode, ExpirePins
<1>6. ASSUME NEW r \in Req, NEW t \in 1..PromptLen(r), StartPrefill(r, t) PROVE Spent'
  <2>1. call' = Idle \/ \E c : call' = [op |-> "prefill", req |-> r, chunk |-> c, stage |-> "alloc"]
    BY <1>6 DEF StartPrefill
  <2> QED
    BY <1>3, <2>1 DEF Idle
<1>7. ASSUME AllocFail \/ FinishPrefill \/ FinishDecode \/ ResetPrefixCache PROVE Spent'
  BY <1>3, <1>7 DEF AllocFail, FinishPrefill, FinishDecode, ResetPrefixCache, Idle
<1>8. ASSUME NEW b \in Block, AllocPop(b) PROVE Spent'
  <2>1. call' = [call EXCEPT !.stage = "alloc"]
    BY <1>8 DEF AllocPop
  <2>2. call'.stage = "alloc"
    BY <1>1, <2>1 DEF BookInv, PoolInv, CallOK
  <2> QED
    BY <1>3, <2>2
<1>9. ASSUME NEW b \in Block, AllocReclaim(b) PROVE Spent'
  BY <1>1, <1>9 DEF AllocReclaim, Reclaimable, BookInv, Resident
<1>10. ASSUME AllocNoEvict PROVE Spent'
  <2>1. Evictable = {} /\ UNCHANGED <<tree, node>>
    BY <1>10 DEF AllocNoEvict, treeVars
  <2> QED
    BY <2>1 DEF Spent, Evictable, Mapped, Childless, Pinned
<1>11. ASSUME NEW p \in DOMAIN tree, AllocEvict(p), Orderly PROVE Spent'
  <2>1. \A q \in Chain(p) : refs[tree[q].bid] = 0
    BY <1>11 DEF Orderly, SparesHeld
  <2>2. p \in Chain(p) /\ tree[p].bid \in Block
    <3>1. p \in Paths /\ tree[p] \in NodeType /\ Childless(p)
      BY <1>1, <1>11 DEF BookInv, PoolInv, TreeOK, AllocEvict, Evictable
    <3>2. p \in Seq(Keys)
      BY <3>1, PathsShape
    <3>3. Above(p, p)
      BY <3>2 DEF Above
    <3> QED
      BY <3>1, <3>3 DEF Childless, Chain, NodeType
  <2>3. free'[tree[p].bid] = 1
    BY <1>1, <1>11, <2>1, <2>2, EvictEffect
  <2> QED
    BY <2>2, <2>3 DEF Spent, NoFree
<1>12. ASSUME UNCHANGED vars PROVE Spent'
  BY <1>2, <1>12 DEF vars, treeVars, poolVars
<1>13. ASSUME Next, Orderly PROVE Spent'
  BY <1>4, <1>5, <1>6, <1>7, <1>8, <1>9, <1>10, <1>11, <1>13 DEF Next
<1> QED
  BY <1>12, <1>13

\* With the prefix cache on, in the orderly behaviours and for every finite pool,
\* a prefill or a decode that finds the pool exhausted finds every block in the
\* table of a live request or above a node that a reference or a pin protects:
\* alloc gives up only after eviction has looked at all it may take.
THEOREM ExhaustedMeansProtected ==
  ASSUME Spill = FALSE, Chunked = FALSE, IsFiniteSet(Block)
  PROVE  Spec /\ [][Orderly]_vars => FailsOnlyWhenFull
<1>1. Init => FullInv
  BY BookInit DEF FullInv, Spent, Init, Idle
<1>2. FullInv /\ [Next]_vars /\ [Orderly]_vars => FullInv'
  BY FullStep
<1>3. ASSUME FullInv, AllocFail, NEW b \in Block, ~ (refs[b] > 0)
      PROVE  node[b] # Root /\ \E q \in DOMAIN tree : Above(node[b], q) /\ (tree[q].ref > 0 \/ q \in Pinned)
  <2>1. BookInv /\ NoFree /\ Evictable = {}
    BY <1>3 DEF FullInv, Spent, AllocFail
  <2>2. ~ Held(b)
    BY <1>3, <2>1, UnheldRefs
  <2>3. node[b] # Root
    BY <2>1, <2>2 DEF BookInv, FreeOrUsed, NoFree
  <2>4. node[b] \in DOMAIN tree
    BY <2>1, <2>3 DEF BookInv, PoolInv, MapOK
  <2>5. PICK q \in DOMAIN tree : Above(node[b], q) /\ Childless(q)
    BY <2>1, <2>4, LeafUnder
  <2>6. Mapped(q) /\ q \notin Evictable /\ tree[q].ref \in Nat
    BY <2>1, <2>5 DEF BookInv, NoZombie, Mapped, PoolInv, TreeOK, NodeType
  <2>7. tree[q].ref > 0 \/ q \in Pinned
    BY <2>5, <2>6 DEF Evictable
  <2> QED
    BY <2>3, <2>5, <2>7
<1>4. FullInv => (AllocFail => \A b \in Block :
        \/ refs[b] > 0
        \/ /\ node[b] # Root
           /\ \E q \in DOMAIN tree : Above(node[b], q) /\ (tree[q].ref > 0 \/ q \in Pinned))
  BY <1>3
<1> QED
  BY <1>1, <1>2, <1>4, PTL DEF Spec, FailsOnlyWhenFull

-----------------------------------------------------------------------------
(* Prompts that have no block in common.                                   *)

\* No two prompts begin with the same block.
Strangers == \A r, s \in Req : BlockKey(r, 1) = BlockKey(s, 1) => r = s

\* A node is the work of the one request that can have its path: finished, or
\* past its prefill and holding the node's block at the node's place.
Own(r, i) == \/ status[r] = "done"
             \/ /\ status[r] = "live" /\ registered[r] > 0
                /\ i \in DOMAIN table[r] /\ tree[Path(r, i)].bid = table[r][i]
Owned == \A r \in Req : \A i \in Nat : Path(r, i) \in DOMAIN tree => Own(r, i)

\* A block of a node that a table holds is at the node's place of it.
InPlace == \A p \in DOMAIN tree : \A r \in Req : \A i \in DOMAIN table[r] :
             table[r][i] = tree[p].bid => p = Path(r, i)

Unseeded == \A r \in Req : seeded[r] = 0

LoneInv == FullInv /\ ClaimsProtect /\ Unseeded /\ Owned /\ InPlace

\* A path below or equal to a path of a request is a path of that request.
LEMMA StrangePaths ==
  ASSUME Strangers, NEW r \in Req, NEW s \in Req, NEW i \in Nat, NEW j \in Nat, i >= 1,
         Above(Path(r, i), Path(s, j))
  PROVE  r = s /\ i <= j
<1>1. Len(Path(r, i)) = i /\ Len(Path(s, j)) = j /\ Path(s, j) \in Seq(Keys)
  BY PathPrefix
<1>2. i <= j /\ Path(r, i) = SubSeq(Path(s, j), 1, i)
  BY <1>1 DEF Above
<1>3. Path(r, i) = Path(s, i)
  BY <1>2, PathPrefix
<1>4. Path(r, i)[1] = BlockKey(r, 1) /\ Path(s, i)[1] = BlockKey(s, 1)
  BY DEF Path
<1>5. BlockKey(r, 1) = BlockKey(s, 1)
  BY <1>3, <1>4
<1> QED
  BY <1>2, <1>5 DEF Strangers

LEMMA StrangePath ==
  ASSUME Strangers, NEW r \in Req, NEW s \in Req, NEW i \in Nat, NEW j \in Nat, i >= 1,
         Path(r, i) = Path(s, j)
  PROVE  r = s /\ i = j
<1>1. Len(Path(r, i)) = i /\ Len(Path(s, j)) = j /\ Path(s, j) \in Seq(Keys)
  BY PathPrefix
<1>2. Above(Path(r, i), Path(s, j))
  BY <1>1 DEF Above
<1> QED
  BY <1>1, <1>2, StrangePaths

\* Nothing of a prompt is in the tree before its prefill, so nothing is seeded.
LEMMA NoSeeds ==
  ASSUME LoneInv, NEW r \in Req, NEW t \in Nat, StartPrefill(r, t)
  PROVE  SeedBlocks(r) = 0
<1>1. status[r] = "live" /\ call = Idle /\ progress[r] < t /\ t <= PromptLen(r)
  BY DEF StartPrefill
<1>2. ~ Filling(r) /\ progress[r] \in Nat /\ PromptLen(r) \in Nat /\ registered[r] \in Nat
  BY <1>1, PromptBlocksPositive DEF Filling, Idle, LoneInv, FullInv, BookInv, PoolInv, ReqOK
<1>3. Blank(r) \/ Opened(r)
  BY <1>1, <1>2 DEF LoneInv, FullInv, BookInv, Phases, Filled
<1>4. registered[r] = 0
  BY <1>3 DEF Blank, Opened
<1>5. ASSUME NEW i \in 1..(PromptLen(r) \div BlockSize) PROVE Path(r, i) \notin DOMAIN tree
  <2>1. i \in Nat
    OBVIOUS
  <2>2. ~ Own(r, i)
    BY <1>1, <1>4 DEF Own
  <2> QED
    BY <2>1, <2>2 DEF LoneInv, Owned
<1>6. Matched(r) = 0
  <2>1. {i \in 1..(PromptLen(r) \div BlockSize) : Path(r, i) \in DOMAIN tree} = {}
    BY <1>5
  <2> QED
    BY <2>1, FS_EmptySet DEF Matched
<1>7. PromptBlocks(r) \in Nat \ {0}
  BY PromptBlocksPositive
<1> QED
  BY <1>6, <1>7 DEF SeedBlocks, Least

\* Eviction passes the blocks of live requests by.  A block held above an
\* evicted leaf is held by the request that made the leaf, and its registration
\* keeps a reference on the leaf.
LEMMA LoneSpares ==
  ASSUME LoneInv, Strangers, NEW p \in DOMAIN tree, AllocEvict(p), NEW q \in Chain(p)
  PROVE  refs[tree[q].bid] = 0
<1>1. /\ BookInv /\ p \in Evictable /\ q \in DOMAIN tree /\ Above(q, p)
      /\ tree[q].bid \in Block /\ tree[p].bid \in Block /\ tree[p].ref = 0
  BY DEF LoneInv, FullInv, BookInv, PoolInv, TreeOK, NodeType, AllocEvict, Evictable, Chain
<1> SUFFICES ASSUME Held(tree[q].bid) PROVE FALSE
  BY <1>1, UnheldRefs
<1>2. PICK r \in Req : \E i \in DOMAIN table[r] : table[r][i] = tree[q].bid
  BY DEF Held
<1>3. PICK i \in DOMAIN table[r] : table[r][i] = tree[q].bid
  BY <1>2
<1>4. table[r] \in Seq(Block) /\ i \in Nat /\ i >= 1
  BY <1>1, <1>3 DEF BookInv, PoolInv, ReqOK
<1>5. q = Path(r, i)
  BY <1>1, <1>3 DEF LoneInv, InPlace
<1>6. PICK s \in Req, j \in Nat : p = Path(s, j)
  BY <1>1, PathsShape DEF BookInv, PoolInv, TreeOK
<1>7. p = Path(r, j)
  BY <1>1, <1>4, <1>5, <1>6, StrangePaths
<1>8. status[r] = "live"
  BY <1>1, <1>3 DEF BookInv, Phases, Begun, Blank, Opened, Filled
<1>9. registered[r] > 0 /\ j \in DOMAIN table[r] /\ tree[p].bid = table[r][j]
  BY <1>1, <1>6, <1>7, <1>8 DEF LoneInv, Owned, Own
<1>10. r \in Claimants(tree[p].bid)
  <2>1. seeded[r] + registered[r] > 0
    BY <1>1, <1>9 DEF LoneInv, Unseeded, BookInv, PoolInv, ReqOK
  <2> QED
    BY <1>8, <1>9, <2>1 DEF Claimants, Claims, Live
<1>11. IsFiniteSet(Claimants(tree[p].bid)) /\ tree[p].ref >= Cardinality(Claimants(tree[p].bid))
  BY <1>1, ClaimantsFinite, ClaimsAre DEF LoneInv
<1>12. Cardinality(Claimants(tree[p].bid)) \in Nat /\ Cardinality(Claimants(tree[p].bid)) # 0
  BY <1>10, <1>11, FS_CardinalityType, FS_EmptySet
<1> QED
  BY <1>1, <1>11, <1>12

LEMMA LoneOrderly ==
  ASSUME LoneInv, Strangers
  PROVE  Orderly
<1>1. SparesHeld
  BY LoneSpares DEF SparesHeld
<1>2. SeedsOnce
  BY NoSeeds DEF SeedsOnce
<1>3. KeepsSeeds
  BY DEF KeepsSeeds, LoneInv, Unseeded, Live
<1> QED
  BY <1>1, <1>2, <1>3 DEF Orderly

\* A step after which the tree has the nodes it had, or some of them, and the
\* tables the blocks they had, and some of no node.
LEMMA LoneKeeps ==
  ASSUME Unseeded, Owned, InPlace,
         \A p \in DOMAIN tree' : p \in DOMAIN tree /\ tree'[p].bid = tree[p].bid,
         \A r \in Req : /\ seeded'[r] = seeded[r] /\ registered'[r] = registered[r]
                        /\ status'[r] = status[r] \/ status[r] = "new",
         \A r \in Req : \A i \in DOMAIN table[r] : i \in DOMAIN table'[r] /\ table'[r][i] = table[r][i],
         \A r \in Req : \A i \in DOMAIN table'[r] :
            i \in DOMAIN table[r] \/ \A p \in DOMAIN tree : tree[p].bid # table'[r][i]
  PROVE  Unseeded' /\ Owned' /\ InPlace'
<1>1. Unseeded'
  BY DEF Unseeded
<1>2. ASSUME NEW r \in Req, NEW i \in Nat, Path(r, i) \in DOMAIN tree' PROVE Own(r, i)'
  <2>1. Path(r, i) \in DOMAIN tree /\ tree'[Path(r, i)].bid = tree[Path(r, i)].bid
    BY <1>2
  <2>2. Own(r, i)
    BY <2>1 DEF Owned
  <2>3. status'[r] = status[r]
    BY <2>2 DEF Own
  <2>4. CASE status[r] = "done"
    BY <2>3, <2>4 DEF Own
  <2>5. CASE status[r] # "done"
    <3>1. /\ status'[r] = "live" /\ registered'[r] > 0
          /\ i \in DOMAIN table[r] /\ tree[Path(r, i)].bid = table[r][i]
      BY <2>2, <2>3, <2>5 DEF Own
    <3>2. i \in DOMAIN table'[r] /\ tree'[Path(r, i)].bid = table'[r][i]
      BY <2>1, <3>1
    <3> QED
      BY <3>1, <3>2 DEF Own
  <2> QED
    BY <2>4, <2>5
<1>3. Owned'
  BY <1>2 DEF Owned
<1>4. ASSUME NEW p \in DOMAIN tree', NEW r \in Req, NEW i \in DOMAIN table'[r], table'[r][i] = tree'[p].bid
      PROVE  p = Path(r, i)
  <2>1. p \in DOMAIN tree /\ tree'[p].bid = tree[p].bid
    OBVIOUS
  <2>2. i \in DOMAIN table[r] /\ table[r][i] = tree[p].bid
    BY <1>4, <2>1
  <2> QED
    BY <2>1, <2>2 DEF InPlace
<1>5. InPlace'
  BY <1>4 DEF InPlace
<1> QED
  BY <1>1, <1>3, <1>5

\* A prefill enters its own path into the tree, of which nothing was there, with
\* the blocks at their places; nobody else has these blocks.
LEMMA LoneFill ==
  ASSUME LoneInv, Strangers, NEW r \in Req, r = call.req, FinishPrefill
  PROVE  Unseeded' /\ Owned' /\ InPlace'
<1>1. BookInv /\ table \in [Req -> Seq(Block)] /\ registered \in [Req -> Nat]
  BY DEF LoneInv, FullInv, BookInv, PoolInv, ReqOK
<1>2. /\ Begun(r) /\ table[r] \in Seq(Block)
      /\ registered' = [registered EXCEPT ![r] = IF Radix THEN Len(table[r]) ELSE 0]
      /\ UNCHANGED <<table, seeded, status>>
      /\ \A p : p \in DOMAIN tree' <=> p \in DOMAIN tree \/ \E i : Entered(r, i) /\ p = Path(r, i)
      /\ \A p \in DOMAIN tree : tree'[p].bid = tree[p].bid
      /\ \A i : Entered(r, i) => i \in Nat /\ i >= 1 /\ tree'[Path(r, i)].bid = table[r][i]
  BY <1>1, FillEffect
<1>3. status[r] = "live" /\ registered[r] = 0 /\ Opening(r) /\ seeded[r] = 0
  BY <1>2 DEF Begun, Opened, LoneInv, Unseeded
<1>4. ASSUME NEW i \in Nat PROVE Path(r, i) \notin DOMAIN tree
  <2>1. ~ Own(r, i)
    BY <1>3 DEF Own
  <2> QED
    BY <2>1 DEF LoneInv, Owned
<1>5. Unseeded'
  BY <1>2 DEF LoneInv, Unseeded
<1>6. ASSUME NEW s \in Req, NEW i \in Nat, Path(s, i) \in DOMAIN tree' PROVE Own(s, i)'
  <2>1. CASE Path(s, i) \in DOMAIN tree
    <3>1. s # r /\ Own(s, i) /\ tree'[Path(s, i)].bid = tree[Path(s, i)].bid
      BY <1>2, <1>4, <2>1 DEF LoneInv, Owned
    <3>2. registered'[s] = registered[s]
      BY <1>1, <1>2, <3>1
    <3> QED
      BY <1>2, <3>1, <3>2 DEF Own
  <2>2. CASE Path(s, i) \notin DOMAIN tree
    <3>1. PICK j : Entered(r, j) /\ Path(s, i) = Path(r, j)
      BY <1>2, <1>6, <2>2
    <3>2. j \in Nat /\ j >= 1 /\ tree'[Path(r, j)].bid = table[r][j] /\ Radix /\ j \in DOMAIN table[r]
      BY <1>2, <3>1 DEF Entered
    <3>3. s = r /\ i = j
      BY <3>1, <3>2, StrangePath
    <3>4. registered'[r] > 0
      BY <1>1, <1>2, <3>2
    <3> QED
      BY <1>2, <1>3, <3>2, <3>3, <3>4 DEF Own
  <2> QED
    BY <2>1, <2>2
<1>7. Owned'
  BY <1>6 DEF Owned
<1>8. ASSUME NEW p \in DOMAIN tree', NEW s \in Req, NEW k \in DOMAIN table[s], table[s][k] = tree'[p].bid
      PROVE  p = Path(s, k)
  <2>1. CASE p \in DOMAIN tree
    BY <1>2, <1>8, <2>1 DEF LoneInv, InPlace
  <2>2. CASE p \notin DOMAIN tree
    <3>1. PICK j : Entered(r, j) /\ p = Path(r, j)
      BY <1>2, <2>2
    <3>2. j \in DOMAIN table[r] /\ j > seeded[r] /\ table[s][k] = table[r][j]
      BY <1>2, <1>3, <1>8, <3>1 DEF Entered
    <3>3. Private(r, j)
      BY <1>3, <3>2 DEF Private
    <3>4. s = r
      BY <1>1, <3>2, <3>3 DEF BookInv, Unshared
    <3>5. k = j
      BY <1>1, <1>8, <3>2, <3>4 DEF BookInv, Apart
    <3> QED
      BY <3>1, <3>4, <3>5
  <2> QED
    BY <2>1, <2>2
<1>9. InPlace'
  BY <1>2, <1>8 DEF InPlace
<1> QED
  BY <1>5, <1>7, <1>9

\* One step per action; every step is an orderly one.
LEMMA LoneStep ==
  ASSUME LoneInv, [Next]_vars, Strangers, Spill = FALSE, Chunked = FALSE
  PROVE  LoneInv' /\ [Orderly]_vars
<1>1. Orderly
  BY LoneOrderly
<1>2. FullInv' /\ ClaimsProtect'
  BY <1>1, FullStep, ClaimStep DEF LoneInv, ClaimInv, FullInv
<1>3. /\ BookInv /\ Unseeded /\ Owned /\ InPlace
      /\ table \in [Req -> Seq(Block)] /\ registered \in [Req -> Nat]
      /\ status \in [Req -> {"new", "live", "done"}] /\ tree \in [DOMAIN tree -> NodeType]
  BY DEF LoneInv, FullInv, BookInv, PoolInv, ReqOK, TreeOK
<1> DEFINE Kept == Unseeded' /\ Owned' /\ InPlace'
<1> SUFFICES Kept
  BY <1>1, <1>2 DEF LoneInv
<1>4. ASSUME \A p \in DOMAIN tree' : p \in DOMAIN tree /\ tree'[p].bid = tree[p].bid,
             UNCHANGED <<table, seeded, registered, status>>
      PROVE  Kept
  BY <1>3, <1>4, LoneKeeps
<1>5. ASSUME UNCHANGED <<tree, table, seeded, registered, status>> PROVE Kept
  BY <1>4, <1>5
<1>6. ASSUME NEW r \in Req, Enqueue(r) PROVE Kept
  <2>1. PICK S \in SUBSET Pinned :
          tree' = [p \in DOMAIN tree |-> IF p \in S THEN [tree[p] EXCEPT !.pin = NoReq] ELSE tree[p]]
    BY <1>6 DEF Enqueue
  <2>2. ASSUME NEW p \in DOMAIN tree' PROVE p \in DOMAIN tree /\ tree'[p].bid = tree[p].bid
    <3>1. p \in DOMAIN tree /\ (tree'[p] = tree[p] \/ tree'[p] = [tree[p] EXCEPT !.pin = NoReq])
      BY <2>1
    <3> QED
      BY <1>3, <3>1 DEF NodeType
  <2>3. UNCHANGED <<table, seeded, registered>> /\ status' = [status EXCEPT ![r] = "live"] /\ status[r] = "new"
    BY <1>6 DEF Enqueue
  <2>4. \A s \in Req : status'[s] = status[s] \/ status[s] = "new"
    BY <1>3, <2>3
  <2> QED
    BY <1>3, <2>2, <2>3, <2>4, LoneKeeps
<1>7. ASSUME NEW r \in Req, ExpirePins(r) PROVE Kept
  <2>1. tree' = [p \in DOMAIN tree |-> IF tree[p].pin = r THEN [tree[p] EXCEPT !.pin = NoReq] ELSE tree[p]]
        /\ UNCHANGED <<table, seeded, registered, status>>
    BY <1>7 DEF ExpirePins, reqVars
  <2>2. ASSUME NEW p \in DOMAIN tree' PROVE p \in DOMAIN tree /\ tree'[p].bid = tree[p].bid
    <3>1. p \in DOMAIN tree /\ (tree'[p] = tree[p] \/ tree'[p] = [tree[p] EXCEPT !.pin = NoReq])
      BY <2>1
    <3> QED
      BY <1>3, <3>1 DEF NodeType
  <2> QED
    BY <1>4, <2>1, <2>2
<1>8. ASSUME NEW r \in Req, StartDecode(r) PROVE Kept
  BY <1>5, <1>8 DEF StartDecode, treeVars, reqVars
<1>9. ASSUME AllocNoEvict \/ AllocFail \/ FinishDecode PROVE Kept
  BY <1>5, <1>9 DEF AllocNoEvict, AllocFail, FinishDecode, treeVars, reqVars
<1>10. ASSUME NEW p \in DOMAIN tree, AllocEvict(p) PROVE Kept
  <2>1. tree' = [q \in DOMAIN tree \ Chain(p) |-> tree[q]] /\ UNCHANGED <<table, seeded, registered, status>>
    BY <1>10 DEF AllocEvict, reqVars
  <2> QED
    BY <1>4, <2>1
<1>11. ASSUME NEW b \in Block, AllocReclaim(b) PROVE Kept
  BY <1>3, <1>11 DEF AllocReclaim, Reclaimable, BookInv, Resident
<1>12. ASSUME NEW b \in Block, AllocPop(b) PROVE Kept
  <2>1. /\ table' = [table EXCEPT ![call.req] = Append(table[call.req], b)]
        /\ UNCHANGED <<tree, seeded, registered, status>> /\ call.req \in Req
    BY <1>3, <1>12 DEF AllocPop, treeVars, reqVars, BookInv, PoolInv, CallOK, Reserving
  <2>2. node[b] = Root
    BY <1>3, <1>12 DEF AllocPop, BookInv, FreeOrUsed
  <2>3. ASSUME NEW p \in DOMAIN tree PROVE tree[p].bid # b
    BY <1>3, <2>2, PathsShape DEF BookInv, NoZombie, PoolInv, TreeOK
  <2>4. ASSUME NEW r \in Req, NEW i \in DOMAIN table[r] PROVE i \in DOMAIN table'[r] /\ table'[r][i] = table[r][i]
    BY <1>3, <2>1
  <2>5. ASSUME NEW r \in Req, NEW i \in DOMAIN table'[r], i \notin DOMAIN table[r] PROVE table'[r][i] = b
    BY <1>3, <2>1, <2>5
  <2> QED
    BY <1>3, <2>1, <2>3, <2>4, <2>5, LoneKeeps
<1>13. ASSUME NEW r \in Req, NEW t \in 1..PromptLen(r), StartPrefill(r, t) PROVE Kept
  <2>1. t \in Nat /\ SeedBlocks(r) = 0
    <3>1. t \in Nat
      BY PromptBlocksPositive
    <3> QED
      BY <1>13, <3>1, NoSeeds
  <2>2. CASE table[r] # <<>>
    <3>1. UNCHANGED <<tree, table, seeded, registered, status>>
      BY <1>1, <1>3, <1>13, <2>1, <2>2, RetryEffect DEF Orderly
    <3> QED
      BY <1>5, <3>1
  <2>3. CASE table[r] = <<>>
    <3>1. /\ SameNodes(tree, tree') /\ UNCHANGED <<registered, status>>
          /\ table'[r] \in Seq(Block) /\ Len(table'[r]) = 0
          /\ \A s \in Req : s # r => table'[s] = table[s]
          /\ seeded' = [seeded EXCEPT ![r] = 0] /\ Blank(r)
      BY <1>3, <1>13, <2>1, <2>3, StartEffect
    <3>2. \A s \in Req : table'[s] = table[s]
      BY <2>3, <3>1
    <3>3. \A s \in Req : seeded'[s] = seeded[s]
      BY <1>3, <3>1 DEF BookInv, PoolInv, ReqOK, Blank
    <3>4. \A p \in DOMAIN tree' : p \in DOMAIN tree /\ tree'[p].bid = tree[p].bid
      BY <3>1 DEF SameNodes
    <3> QED
      BY <1>3, <3>1, <3>2, <3>3, <3>4, LoneKeeps
  <2> QED
    BY <2>2, <2>3
<1>14. ASSUME NEW r \in Req, FinishRequest(r) PROVE Kept
  <2>1. /\ tree' = (IF Radix /\ seeded[r] + registered[r] > 0 THEN RemoveTree(table[r]) ELSE tree)
        /\ table' = [table EXCEPT ![r] = <<>>]
        /\ seeded' = [seeded EXCEPT ![r] = 0] /\ registered' = [registered EXCEPT ![r] = 0]
        /\ status' = [status EXCEPT ![r] = "done"]
    BY <1>14 DEF FinishRequest
  <2>2. ASSUME NEW p \in DOMAIN tree' PROVE p \in DOMAIN tree /\ tree'[p].bid = tree[p].bid
    <3>1. p \in DOMAIN tree /\ (tree'[p] = tree[p] \/ \E x : tree'[p] = [tree[p] EXCEPT !.ref = x])
      BY <2>1 DEF RemoveTree
    <3> QED
      BY <1>3, <3>1 DEF NodeType
  <2>3. Unseeded'
    BY <1>3, <2>1 DEF Unseeded, BookInv, PoolInv, ReqOK
  <2>4. ASSUME NEW s \in Req, NEW i \in Nat, Path(s, i) \in DOMAIN tree' PROVE Own(s, i)'
    <3>1. CASE s = r
      BY <1>3, <2>1, <3>1 DEF Own
    <3>2. CASE s # r
      <4>1. Own(s, i) /\ tree'[Path(s, i)].bid = tree[Path(s, i)].bid
        BY <1>3, <2>2, <2>4 DEF Owned
      <4>2. table'[s] = table[s] /\ registered'[s] = registered[s] /\ status'[s] = status[s]
        BY <1>3, <2>1, <3>2
      <4> QED
        BY <4>1, <4>2 DEF Own
    <3> QED
      BY <3>1, <3>2
  <2>5. Owned'
    BY <2>4 DEF Owned
  <2>6. ASSUME NEW p \in DOMAIN tree', NEW s \in Req, NEW i \in DOMAIN table'[s], table'[s][i] = tree'[p].bid
        PROVE  p = Path(s, i)
    <3>1. s # r /\ table'[s] = table[s]
      BY <1>3, <2>1
    <3> QED
      BY <1>3, <2>2, <2>6, <3>1 DEF InPlace
  <2>7. InPlace'
    BY <2>6 DEF InPlace
  <2> QED
    BY <2>3, <2>5, <2>7
<1>15. ASSUME FinishPrefill PROVE Kept
  <2>1. PICK r \in Req : r = call.req
    BY <1>3, <1>15 DEF FinishPrefill, BookInv, PoolInv, CallOK, Idle
  <2> QED
    BY <1>15, <2>1, LoneFill
<1>16. ASSUME ResetPrefixCache PROVE Kept
  BY <1>4, <1>16 DEF ResetPrefixCache, reqVars
<1>17. ASSUME UNCHANGED vars PROVE Kept
  BY <1>5, <1>17 DEF vars, treeVars, reqVars
<1> HIDE DEF Kept
<1> QED
  BY <1>6, <1>7, <1>8, <1>9, <1>10, <1>11, <1>12, <1>13, <1>14, <1>15, <1>16, <1>17 DEF Next

LEMMA LoneInit == Init => LoneInv
<1> SUFFICES ASSUME Init PROVE LoneInv
  OBVIOUS
<1>1. FullInv /\ ClaimsProtect
  BY BookInit, ClaimInit DEF FullInv, Spent, ClaimInv, Init, Idle
<1>2. Unseeded /\ DOMAIN tree = {}
  BY DEF Init, Unseeded
<1> QED
  BY <1>1, <1>2 DEF LoneInv, Owned, InPlace

\* When no two prompts begin with the same block, every behaviour is orderly,
\* those with failed allocations, evictions, cancels and resets included: nothing
\* is assumed of them.
THEOREM StrangersAreOrderly ==
  ASSUME Strangers, Spill = FALSE, Chunked = FALSE
  PROVE  Spec => [][Orderly]_vars
<1>1. LoneInv /\ [Next]_vars => LoneInv' /\ [Orderly]_vars
  BY LoneStep
<1> QED
  BY <1>1, LoneInit, PTL DEF Spec

\* So for such prompts a prefill or a decode never reports "block pool exhausted"
\* while the cache holds a block that eviction may take.
THEOREM ExhaustedAmongStrangers ==
  ASSUME Strangers, Spill = FALSE, Chunked = FALSE, IsFiniteSet(Block)
  PROVE  Spec => FailsOnlyWhenFull
<1>1. Spec => [][Orderly]_vars
  BY StrangersAreOrderly
<1>2. Spec /\ [][Orderly]_vars => FailsOnlyWhenFull
  BY ExhaustedMeansProtected
<1> QED
  BY <1>1, <1>2

\* And the books stay right: no block is handed out twice, none is lost and none
\* is taken from a live request, whatever fails and is tried again.
THEOREM BooksOfStrangers ==
  ASSUME Strangers, Spill = FALSE, Chunked = FALSE
  PROVE  Spec => [](RefsCountSlots /\ FreeIsUnused /\ NoStrandedBlock)
<1>1. Spec => [][Orderly]_vars
  BY StrangersAreOrderly
<1>2. Spec /\ [][Orderly]_vars => [](RefsCountSlots /\ FreeIsUnused /\ NoStrandedBlock)
  BY SharedBooks
<1> QED
  BY <1>1, <1>2
=============================================================================
