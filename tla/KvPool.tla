------------------------------- MODULE KvPool -------------------------------
(***************************************************************************)
(* The paged KV block pool of grim-memory (KvBlockPool), its prefix cache  *)
(* (RadixTree), and the per-request block tables (PagedKvCache), driven by *)
(* the engine handlers that call them: admission, prefill, decode, finish  *)
(* and the cache reset.                                                    *)
(*                                                                         *)
(* The engine runs one handler at a time (&mut self).  A prefill or decode *)
(* handler is split here into the calls it makes on the pool; `call` holds *)
(* the handler in progress, and no other handler starts until it returns.  *)
(*                                                                         *)
(* Abstractions.  A token is a value of Prompt; a block key is the token   *)
(* subsequence it hashes (no FNV collisions), a tree node is the path of   *)
(* keys from the root.  Block contents are the request that wrote them and *)
(* the position written up to.  The order of the free list and the LRU     *)
(* clock are choices; the free list keeps how often a block is on it.      *)
(***************************************************************************)
EXTENDS Naturals, Sequences, FiniteSets, Functions

CONSTANTS
  Block,        \* physical block ids of the pool
  Req,          \* requests, each admitted at most once
  NoReq,        \* no request
  NoCopy,       \* the spill manager holds nothing for a block
  Prompt,       \* Req -> non-empty sequence of tokens (input_ids)
  BlockSize,    \* tokens per block (BLOCK_SIZE)
  MaxNew,       \* tokens a request may generate (max_new_tokens)
  Session,      \* requests tagged with a session: their blocks are pinned
  Radix,        \* GRIM_RADIX: prefix cache enabled
  Spill,        \* GRIM_KV_SPILL: spill manager attached
  Chunked,      \* TRUE: the scheduler may budget a part of the prompt
  CanReset      \* TRUE: an operator may call /reset_prefix_cache

ASSUME ReqAssumption       == NoReq \notin Req
ASSUME PromptAssumption    == Prompt \in [Req -> Seq(Nat) \ {<<>>}]
ASSUME BlockSizeAssumption == BlockSize \in Nat \ {0}
ASSUME MaxNewAssumption    == MaxNew \in Nat
ASSUME SwitchAssumption    == /\ Session \subseteq Req
                              /\ {Radix, Spill, Chunked, CanReset} \subseteq BOOLEAN

VARIABLES
  free,         \* block -> number of times it is on free_list
  refs,         \* block -> ref_counts entry, 0 when absent
  kv,           \* block -> what key_data/value_data hold
  copy,         \* block -> what the spill manager holds for it
  offGpu,       \* blocks whose location is not CacheTier::Gpu
  tree,         \* path -> attached RadixNode
  node,         \* block -> block_to_node entry, Root when absent
  table,        \* request -> its BlockTable
  committed,    \* request -> committed_tokens of its PagedKvCache
  progress,     \* request -> prefill_progress of the engine
  seeded,       \* request -> radix_seeded_blocks, 0 when absent
  registered,   \* request -> radix_registered_blocks, 0 when absent
  status,       \* request -> "new", "live" or "done"
  call          \* the handler in progress

poolVars  == <<free, refs, kv, copy, offGpu>>
treeVars  == <<tree, node>>
reqVars   == <<committed, progress, seeded, registered, status>>
vars      == <<poolVars, treeVars, table, reqVars, call>>

-----------------------------------------------------------------------------
(* Tokens, blocks and paths.                                               *)

Least(m, n) == IF m <= n THEN m ELSE n

DivCeil(n) == (n + BlockSize - 1) \div BlockSize

PromptLen(r) == Len(Prompt[r])

PromptBlocks(r) == DivCeil(PromptLen(r))

\* The content hash of block i of the prompt; a short last block hashes
\* only the tokens it has, so it never equals a full block.
BlockKey(r, i) == SubSeq(Prompt[r], (i - 1) * BlockSize + 1,
                                    Least(i * BlockSize, PromptLen(r)))

Path(r, i) == [j \in 1..i |-> BlockKey(r, j)]

\* Blocks a key can be cut for: the slice starts inside the prompt, or at its
\* end when the last block is full, where it is empty.
KeyBlocks(r) == PromptLen(r) \div BlockSize + 1

Paths == UNION {{Path(r, i) : i \in 1..KeyBlocks(r)} : r \in Req}

Root == <<>>

\* pin is the session request whose prefill set pinned_until last.
NodeType == [bid : Block, ref : Nat, pin : Req \cup {NoReq}]

Empty == [by |-> NoReq, upto |-> 0]

Content == [by : Req \cup {NoReq}, upto : Nat]

Idle == [op |-> "idle", req |-> NoReq, chunk |-> 0, stage |-> "alloc"]

\* Times block b occurs in sequence s.
Occurs(b, s) == Cardinality({i \in DOMAIN s : s[i] = b})

\* The KV at position n is the same for two requests whose first n tokens
\* are: it is a function of those tokens.
SameStream(r, s, n) ==
  \/ r = s
  \/ /\ n <= PromptLen(r) /\ n <= PromptLen(s)
     /\ SubSeq(Prompt[r], 1, n) = SubSeq(Prompt[s], 1, n)

\* Block b holds the KV of request r up to position n.
Holds(b, r, n) == /\ kv[b].by \in Req
                  /\ kv[b].upto = n
                  /\ SameStream(kv[b].by, r, n)

Live == {r \in Req : status[r] = "live"}

-----------------------------------------------------------------------------
(* RadixTree.                                                              *)

\* Path p is q or an ancestor of q.
Above(p, q) == Len(p) <= Len(q) /\ p = SubSeq(q, 1, Len(p))

\* block_to_node maps the node's block to this node: it is no zombie.
Mapped(p) == node[tree[p].bid] = p

Childless(p) == \A q \in DOMAIN tree : Above(p, q) => q = p

Pinned == {p \in DOMAIN tree : tree[p].pin # NoReq}

\* Number of leading blocks of r's prompt that match_prefix finds.  The
\* while loop stops at the last full block; a short block has a key of its own.
Matched(r) ==
  Cardinality({i \in 1..(PromptLen(r) \div BlockSize) : Path(r, i) \in DOMAIN tree})

\* Mutant of Evictable: the deadline is not looked at.
EvictableIgnoresPins == {p \in DOMAIN tree : Mapped(p) /\ Childless(p) /\ tree[p].ref = 0}

\* evict_coldest_chain and coldest_leaf: any candidate may be the coldest.
Evictable == {p \in DOMAIN tree :
                Mapped(p) /\ Childless(p) /\ tree[p].ref = 0 /\ p \notin Pinned}

\* Mutant of Chain: the walk-up starts at the parent and forgets the leaf.
ChainSkipsLeaf(p) == {q \in DOMAIN tree :
                        /\ Above(q, p) /\ q # p
                        /\ \A d \in DOMAIN tree : Above(q, d) => Above(d, p)}

\* The nodes detached with leaf p: the walk-up prunes every ancestor that
\* is left without a child, and looks at nothing else.
Chain(p) == {q \in DOMAIN tree :
               Above(q, p) /\ \A d \in DOMAIN tree : Above(q, d) => Above(d, p)}

\* Mutant of InsertTree: an existing node is not referenced.
InsertTreeNoClaim(r, blocks, skip) ==
  LET new == {Path(r, i) : i \in DOMAIN blocks}
  IN  [p \in DOMAIN tree \cup new |->
         IF p \in DOMAIN tree THEN tree[p]
         ELSE [bid |-> blocks[Len(p)], ref |-> 1, pin |-> NoReq]]

\* insert_at: descend the first `skip` blocks, then take one reference on
\* every node that exists and create the ones that do not.
InsertTree(r, blocks, skip) ==
  LET new == {Path(r, i) : i \in DOMAIN blocks}
  IN  [p \in DOMAIN tree \cup new |->
         IF p \in DOMAIN tree
         THEN IF p \in new /\ Len(p) > skip
              THEN [tree[p] EXCEPT !.ref = @ + 1]
              ELSE tree[p]
         ELSE [bid |-> blocks[Len(p)], ref |-> 1, pin |-> NoReq]]

\* block_to_node after insert_at: only created nodes are entered, and the
\* last of them that carries the block wins.
InsertNode(r, blocks) ==
  LET made(b) == {i \in DOMAIN blocks : blocks[i] = b /\ Path(r, i) \notin DOMAIN tree}
  IN  [b \in Block |->
         IF made(b) = {} THEN node[b]
         ELSE Path(r, CHOOSE i \in made(b) : \A j \in made(b) : j <= i)]

\* remove: one saturating decrement for every block that maps to a node.
RemoveTree(blocks) ==
  [p \in DOMAIN tree |->
     LET n == IF Mapped(p) THEN Occurs(tree[p].bid, blocks) ELSE 0
     IN  [tree[p] EXCEPT !.ref = IF n >= @ THEN 0 ELSE @ - n]]

\* pin_blocks over the table of r, on the tree t and its reverse map m: the
\* deadline is now plus a constant, so the last call sets it.
PinTree(r, t, m) ==
  [p \in DOMAIN t |->
     IF \E i \in DOMAIN table[r] : m[table[r][i]] = p THEN [t[p] EXCEPT !.pin = r] ELSE t[p]]

-----------------------------------------------------------------------------
(* KvBlockPool.                                                            *)

NoFree == \A b \in Block : free[b] = 0

\* Spilled pages reclaim_spilled_coldest may take.
Reclaimable == {b \in offGpu : refs[b] = 0 /\ node[b] \notin Pinned}

\* allocatable_blocks: free list + evictable nodes + spilled pages.
AllocatableBlocks ==
  SumFunction(free)
  + Cardinality({p \in DOMAIN tree : Mapped(p) /\ tree[p].ref = 0 /\ p \notin Pinned})
  + Cardinality(Reclaimable)

\* Mutant of Releases: the first holder to finish releases a shared block.
ReleasesShared(blocks) == {b \in Block : refs[b] > 0 /\ Occurs(b, blocks) > 0}

\* free_with_tier over a whole table: the last reference releases the block.
Releases(blocks) == {b \in Block : refs[b] > 0 /\ Occurs(b, blocks) >= refs[b]}

\* A released block is demoted when a spill manager is attached.
Demoted(blocks) == IF Spill THEN Releases(blocks) ELSE {}

\* Mutants of Frees: blocks of the tree are freed too; a released block is
\* forgotten.
FreesCached(blocks) == IF Spill THEN {} ELSE Releases(blocks)

FreesNothing(blocks) == {}

\* Otherwise it stays resident while the tree maps it, and is zeroed and put
\* on the free list when it does not.
Frees(blocks) == IF Spill THEN {} ELSE {b \in Releases(blocks) : node[b] = Root}

FreeTable(blocks) ==
  LET gone == Releases(blocks)
      back == Frees(blocks)
      down == Demoted(blocks)
  IN  /\ refs' = [b \in Block |-> IF b \in gone THEN 0
                                  ELSE IF refs[b] = 0 THEN 0
                                  ELSE refs[b] - Occurs(b, blocks)]
      /\ free' = [b \in Block |-> IF b \in back THEN free[b] + 1 ELSE free[b]]
      /\ kv' = [b \in Block |-> IF b \in back THEN Empty ELSE kv[b]]
      /\ copy' = [b \in Block |-> IF b \in down THEN kv[b] ELSE copy[b]]
      /\ offGpu' = (offGpu \cup down) \ back

\* promote_to_gpu over a set of blocks the spill manager holds.
Promote(k, S) == [b \in Block |-> IF b \in S THEN copy[b] ELSE k[b]]

\* Blocks with an entry in the spill manager; nothing ever removes one.
Spilled == {b \in Block : copy[b] # NoCopy}

-----------------------------------------------------------------------------
(* Handlers of the engine.                                                 *)

Init ==
  /\ free = [b \in Block |-> 1]
  /\ refs = [b \in Block |-> 0]
  /\ kv = [b \in Block |-> Empty]
  /\ copy = [b \in Block |-> NoCopy]
  /\ offGpu = {}
  /\ tree = [p \in {} |-> Empty]
  /\ node = [b \in Block |-> Root]
  /\ table = [r \in Req |-> <<>>]
  /\ committed = [r \in Req |-> 0]
  /\ progress = [r \in Req |-> 0]
  /\ seeded = [r \in Req |-> 0]
  /\ registered = [r \in Req |-> 0]
  /\ status = [r \in Req |-> "new"]
  /\ call = Idle

\* admit_placed_request: when the pool looks short, the oldest pins are
\* dropped, one for each missing block.  Detached nodes keep their pins and
\* may use up some of the drops, so at most that many attached ones go; of
\* equal deadlines the node created first, the ancestor, goes first.
Enqueue(r) ==
  LET needed == DivCeil(PromptLen(r) + MaxNew)
  IN  /\ call = Idle
      /\ status[r] = "new"
      /\ status' = [status EXCEPT ![r] = "live"]
      /\ \E S \in SUBSET Pinned :
           /\ Cardinality(S) + AllocatableBlocks <= needed \/ S = {}
           /\ \A p \in S : \A q \in Pinned :
                Above(q, p) /\ tree[q].pin = tree[p].pin => q \in S
           /\ tree' = [p \in DOMAIN tree |->
                         IF p \in S THEN [tree[p] EXCEPT !.pin = NoReq] ELSE tree[p]]
      /\ UNCHANGED <<poolVars, node, table, committed, progress, seeded, registered, call>>

\* How many blocks drive_prefill seeds: on the first pass only, and never
\* the last block of the prompt.
SeedBlocks(r) ==
  IF Radix /\ progress[r] = 0 THEN Least(Matched(r), PromptBlocks(r) - 1) ELSE 0

\* First half of drive_prefill, for a request whose budget reaches token t:
\* match the prefix cache (promoting what was demoted), claim the matched
\* nodes, seed the block table with them, and enter the forward pass unless
\* the budget is already covered.
StartPrefill(r, t) ==
  LET n     == SeedBlocks(r)
      found == IF Radix /\ progress[r] = 0 THEN Matched(r) ELSE 0
      hits  == [i \in 1..n |-> tree[Path(r, i)].bid]
      warm  == {tree[Path(r, i)].bid : i \in 1..found} \cap offGpu \cap Spilled
      start == IF n > 0 THEN n * BlockSize ELSE progress[r]
  IN  /\ call = Idle
      /\ status[r] = "live"
      /\ progress[r] < t /\ t <= PromptLen(r)
      /\ Chunked \/ t = PromptLen(r)
      /\ kv' = Promote(kv, warm)
      /\ offGpu' = offGpu \ warm
      /\ tree' = InsertTree(r, hits, 0)
      /\ refs' = [b \in Block |-> refs[b] + Occurs(b, hits)]
      /\ table' = [table EXCEPT ![r] = @ \o hits]
      /\ committed' = [committed EXCEPT ![r] =
                         IF n > 0 THEN Len(table'[r]) * BlockSize ELSE @]
      /\ progress' = [progress EXCEPT ![r] = start]
      /\ seeded' = [seeded EXCEPT ![r] = IF n > 0 THEN n ELSE @]
      /\ call' = IF t <= start THEN Idle
                 ELSE [op |-> "prefill", req |-> r, chunk |-> t - start, stage |-> "alloc"]
      /\ UNCHANGED <<free, copy, node, registered, status>>

\* A decode step appends one token.
StartDecode(r) ==
  /\ call = Idle
  /\ status[r] = "live"
  /\ progress[r] = PromptLen(r)
  /\ committed[r] < PromptLen(r) + MaxNew
  /\ call' = [op |-> "decode", req |-> r, chunk |-> 1, stage |-> "alloc"]
  /\ UNCHANGED <<poolVars, treeVars, table, reqVars>>

\* append_kv_layer on layer 0 reserves every block before any write.
Reserving ==
  /\ call # Idle
  /\ Len(table[call.req]) < DivCeil(committed[call.req] + call.chunk)

\* Mutant of AllocPop: the block is read from the free list, not removed.
AllocPopPeeks(b) ==
  /\ Reserving
  /\ free[b] > 0
  /\ refs' = [refs EXCEPT ![b] = 1]
  /\ table' = [table EXCEPT ![call.req] = Append(@, b)]
  /\ call' = [call EXCEPT !.stage = "alloc"]
  /\ UNCHANGED <<free, kv, copy, offGpu, treeVars, reqVars>>

\* Mutant of AllocPop: the free list is not tested for a block.
AllocPopUnchecked(b) ==
  /\ Reserving
  /\ free' = [free EXCEPT ![b] = @ - 1]
  /\ refs' = [refs EXCEPT ![b] = 1]
  /\ table' = [table EXCEPT ![call.req] = Append(@, b)]
  /\ call' = [call EXCEPT !.stage = "alloc"]
  /\ UNCHANGED <<kv, copy, offGpu, treeVars, reqVars>>

\* alloc: the free list has a block.
AllocPop(b) ==
  /\ Reserving
  /\ free[b] > 0
  /\ free' = [free EXCEPT ![b] = @ - 1]
  /\ refs' = [refs EXCEPT ![b] = 1]
  /\ table' = [table EXCEPT ![call.req] = Append(@, b)]
  /\ call' = [call EXCEPT !.stage = "alloc"]
  /\ UNCHANGED <<kv, copy, offGpu, treeVars, reqVars>>

\* alloc: the free list is empty, evict_cold detaches a chain.  A leaf some
\* sequence still holds stops the reclaim of the whole chain.
AllocEvict(p) ==
  LET chain == Chain(p)
      leaf  == tree[p].bid
      live  == refs[leaf] > 0
      up(b) == Cardinality({q \in chain \ {p} : tree[q].bid = b})
      zero  == {b \in Block : up(b) > 0} \cup (IF Spill THEN {} ELSE {leaf})
  IN  /\ Reserving
      /\ NoFree
      /\ call.stage = "alloc"
      /\ p \in Evictable
      /\ tree' = [q \in DOMAIN tree \ chain |-> tree[q]]
      /\ node' = [b \in Block |-> IF \E q \in chain : tree[q].bid = b THEN Root ELSE node[b]]
      /\ refs' = [b \in Block |-> IF ~live /\ (b = leaf \/ up(b) > 0) THEN 0 ELSE refs[b]]
      /\ free' = [b \in Block |-> IF live THEN free[b]
                                  ELSE free[b] + up(b) + (IF b = leaf /\ ~Spill THEN 1 ELSE 0)]
      /\ copy' = IF Spill /\ ~live THEN [copy EXCEPT ![leaf] = IF up(leaf) > 0 THEN Empty ELSE kv[leaf]]
                 ELSE copy
      /\ offGpu' = IF Spill /\ ~live THEN offGpu \cup {leaf} ELSE offGpu
      /\ kv' = [b \in Block |-> IF ~live /\ b \in zero THEN Empty ELSE kv[b]]
      /\ call' = [call EXCEPT !.stage = "evicted"]
      /\ UNCHANGED <<table, reqVars>>

\* alloc: nothing to evict.
AllocNoEvict ==
  /\ Reserving
  /\ NoFree
  /\ call.stage = "alloc"
  /\ Evictable = {}
  /\ call' = [call EXCEPT !.stage = "evicted"]
  /\ UNCHANGED <<poolVars, treeVars, table, reqVars>>

\* alloc: still nothing free, reclaim_spilled_coldest takes a spilled page.
\* The tree reference is dropped; the mapping, the location and the spill
\* manager's copy stay.
AllocReclaim(b) ==
  /\ Reserving
  /\ NoFree
  /\ call.stage = "evicted"
  /\ b \in Reclaimable
  /\ tree' = RemoveTree(<<b>>)
  /\ free' = [free EXCEPT ![b] = @ + 1]
  /\ call' = [call EXCEPT !.stage = "reclaimed"]
  /\ UNCHANGED <<refs, kv, copy, offGpu, node, table, reqVars>>

\* Mutant of AllocFail: the free list is not looked at again after an
\* eviction or a reclaim.
AllocFailEarly ==
  /\ Reserving
  /\ \/ call.stage = "reclaimed"
     \/ call.stage = "evicted" /\ Reclaimable = {}
  /\ call' = Idle
  /\ UNCHANGED <<poolVars, treeVars, table, reqVars>>

\* alloc: "block pool exhausted".  The handler returns the error; blocks
\* already pushed stay in the table, and no progress is recorded.
AllocFail ==
  /\ Reserving
  /\ NoFree
  /\ \/ call.stage = "reclaimed"
     \/ call.stage = "evicted" /\ Reclaimable = {}
  /\ call' = Idle
  /\ UNCHANGED <<poolVars, treeVars, table, reqVars>>

\* Mutant of Written: the append starts at the first slot of the table.
WrittenFromZero(r, from, to) ==
  LET blocks == table[r]
      at(b)  == {i \in 1..DivCeil(to - from) : blocks[i] = b}
  IN  [b \in Block |-> IF at(b) = {} THEN kv[b] ELSE [by |-> r, upto |-> to]]

\* The contents after the tokens from..to of request r are written, and the
\* append has re-promoted every block of the table the spill manager knows.
Written(r, from, to) ==
  LET blocks == table[r]
      at(b)  == {i \in (from \div BlockSize + 1)..DivCeil(to) : blocks[i] = b}
      last(b) == CHOOSE i \in at(b) : \A j \in at(b) : j <= i
      new    == [b \in Block |-> IF at(b) = {} THEN kv[b]
                                 ELSE [by |-> r, upto |-> Least(last(b) * BlockSize, to)]]
  IN  Promote(new, {b \in Spilled : \E i \in DOMAIN blocks : blocks[i] = b})

\* Second half of drive_prefill: the forward pass succeeded.  Progress is
\* recorded, the blocks beyond the seeded and registered ones enter the
\* prefix cache, and a session's blocks are pinned.  (A table with more
\* blocks than keys makes the key slice of insert_at panic: no step.)
FinishPrefill ==
  LET r    == call.req
      to   == committed[r] + call.chunk
      skip == seeded[r] + registered[r]
      reg  == Radix /\ Len(table[r]) > skip
      t    == IF reg THEN InsertTree(r, table[r], skip) ELSE tree
      m    == IF reg THEN InsertNode(r, table[r]) ELSE node
  IN  /\ call.op = "prefill"
      /\ ~Reserving
      /\ reg => Len(table[r]) <= KeyBlocks(r)
      /\ kv' = Written(r, committed[r], to)
      /\ offGpu' = offGpu \ {b \in Spilled : \E i \in DOMAIN table[r] : table[r][i] = b}
      /\ committed' = [committed EXCEPT ![r] = to]
      /\ progress' = [progress EXCEPT ![r] = @ + call.chunk]
      /\ registered' = [registered EXCEPT ![r] = IF reg THEN Len(table[r]) ELSE @]
      /\ tree' = IF r \in Session THEN PinTree(r, t, m) ELSE t
      /\ node' = m
      /\ call' = Idle
      /\ UNCHANGED <<free, refs, copy, table, seeded, status>>

FinishDecode ==
  LET r == call.req
  IN  /\ call.op = "decode"
      /\ ~Reserving
      /\ kv' = Written(r, committed[r], committed[r] + 1)
      /\ offGpu' = offGpu \ {b \in Spilled : \E i \in DOMAIN table[r] : table[r][i] = b}
      /\ committed' = [committed EXCEPT ![r] = @ + 1]
      /\ call' = Idle
      /\ UNCHANGED <<free, refs, copy, treeVars, table, progress, seeded, registered, status>>

\* finish_request, at completion or on a cancel between two ticks: the tree
\* claims over the full block table go first, then the table is rolled back.
FinishRequest(r) ==
  /\ call = Idle
  /\ status[r] = "live"
  /\ tree' = IF Radix /\ seeded[r] + registered[r] > 0 THEN RemoveTree(table[r]) ELSE tree
  /\ FreeTable(table[r])
  /\ table' = [table EXCEPT ![r] = <<>>]
  /\ committed' = [committed EXCEPT ![r] = 0]
  /\ progress' = [progress EXCEPT ![r] = 0]
  /\ seeded' = [seeded EXCEPT ![r] = 0]
  /\ registered' = [registered EXCEPT ![r] = 0]
  /\ status' = [status EXCEPT ![r] = "done"]
  /\ UNCHANGED <<node, call>>

\* Mutant of ResetPrefixCache: only the reverse map is cleared.
ResetKeepsNodes ==
  LET lost == {b \in Block : refs[b] = 0 /\ free[b] = 0}
  IN  /\ CanReset
      /\ call = Idle
      /\ node' = [b \in Block |-> Root]
      /\ free' = [b \in Block |-> IF b \in lost THEN 1 ELSE free[b]]
      /\ UNCHANGED <<refs, kv, copy, offGpu, tree, table, reqVars, call>>

\* reset_prefix_cache: a new tree; every page nothing references is freed,
\* with what it holds.
ResetPrefixCache ==
  LET lost == {b \in Block : refs[b] = 0 /\ free[b] = 0}
  IN  /\ CanReset
      /\ call = Idle
      /\ tree' = [p \in {} |-> Empty]
      /\ node' = [b \in Block |-> Root]
      /\ free' = [b \in Block |-> IF b \in lost THEN 1 ELSE free[b]]
      /\ UNCHANGED <<refs, kv, copy, offGpu, table, reqVars, call>>

\* The deadline r's prefill set passes: pinned_until is no longer after now.
\* One alloc call reads one time: the clock does not move inside it.
ExpirePins(r) ==
  /\ call.stage = "alloc"
  /\ \E p \in Pinned : tree[p].pin = r
  /\ tree' = [p \in DOMAIN tree |->
                IF tree[p].pin = r THEN [tree[p] EXCEPT !.pin = NoReq] ELSE tree[p]]
  /\ UNCHANGED <<poolVars, node, table, reqVars, call>>

Next ==
  \/ \E r \in Req : \/ Enqueue(r)
                    \/ \E t \in 1..PromptLen(r) : StartPrefill(r, t)
                    \/ StartDecode(r)
                    \/ FinishRequest(r)
                    \/ ExpirePins(r)
  \/ \E b \in Block : AllocPop(b) \/ AllocReclaim(b)
  \/ \E p \in DOMAIN tree : AllocEvict(p)
  \/ AllocNoEvict
  \/ AllocFail
  \/ FinishPrefill
  \/ FinishDecode
  \/ ResetPrefixCache

Spec == Init /\ [][Next]_vars

-----------------------------------------------------------------------------
(* Properties.                                                             *)

\* Type of the state.
TypeOK ==
  /\ free \in [Block -> Nat]
  /\ refs \in [Block -> Nat]
  /\ kv \in [Block -> Content]
  /\ copy \in [Block -> Content \cup {NoCopy}]
  /\ offGpu \subseteq Block
  /\ DOMAIN tree \subseteq Paths
  /\ tree \in [DOMAIN tree -> NodeType]
  /\ node \in [Block -> Paths \cup {Root}]
  /\ table \in [Req -> Seq(Block)]
  /\ committed \in [Req -> Nat]
  /\ progress \in [Req -> Nat]
  /\ seeded \in [Req -> Nat]
  /\ registered \in [Req -> Nat]
  /\ status \in [Req -> {"new", "live", "done"}]
  /\ call \in [op : {"idle", "prefill", "decode"}, req : Req \cup {NoReq},
               chunk : Nat, stage : {"alloc", "evicted", "reclaimed"}]

\* Table slots that hold block b.
Slots(b) == UNION {{<<r, i>> : i \in {j \in DOMAIN table[r] : table[r][j] = b}} : r \in Req}

\* Without the prefix cache (GRIM_RADIX=0) every block is on the free list
\* once, or is one slot of one table, or is parked in the spill tier with no
\* holder: exactly one of the three, whatever interleaving of admissions,
\* failed allocations, decode growth, demotions and cancels ran before.
\* alloc never hands out a block twice and finish never loses one.
Ownership ==
  \A b \in Block : \/ free[b] = 1 /\ refs[b] = 0 /\ Slots(b) = {}
                   \/ free[b] = 0 /\ refs[b] = 1 /\ Cardinality(Slots(b)) = 1
                   \/ free[b] = 0 /\ refs[b] = 0 /\ Slots(b) = {} /\ b \in offGpu

\* ref_counts equals the number of table slots that hold the block, however
\* it got there: alloc, seed_prefix, a failed append that kept its blocks.
RefsCountSlots == \A b \in Block : refs[b] = Cardinality(Slots(b))

\* A block on the free list is there once, belongs to no sequence, and is not
\* cached content of the tree ("it never zeroes/free-lists a block the tree
\* can still match against").
FreeIsUnused ==
  \A b \in Block : free[b] > 0 => /\ free[b] = 1
                                  /\ refs[b] = 0
                                  /\ Slots(b) = {}
                                  /\ node[b] = Root

\* No page is stranded: what is not free is held by a table or is cached
\* by a tree node that eviction or a reset can give back.
NoStrandedBlock ==
  \A b \in Block : free[b] = 0 => refs[b] > 0 \/ node[b] # Root \/ b \in offGpu

\* Every committed position of a live request is backed by KV computed from
\* that request's own tokens, through seeding, retries and re-registration.
LiveContent ==
  \A r \in Live : \A i \in 1..DivCeil(committed[r]) :
     i <= Len(table[r]) /\ Holds(table[r][i], r, Least(i * BlockSize, committed[r]))

\* Every node that a later prompt can match holds the KV of its whole path.
CachedContent ==
  \A p \in DOMAIN tree : \A r \in Req :
     (Len(p) <= PromptLen(r) \div BlockSize /\ p = Path(r, Len(p)))
       => Holds(tree[p].bid, r, Len(p) * BlockSize)

\* The nodes a live request's blocks map to are protected by at least one
\* tree reference per request that passed its registration.
ClaimsProtect ==
  \A p \in DOMAIN tree :
     tree[p].ref >= Cardinality({r \in Live : seeded[r] + registered[r] > 0 /\
                                   \E i \in DOMAIN table[r] : table[r][i] = tree[p].bid})

\* block_to_node and the tree agree: an entry leads to an attached node of
\* that block, and every attached node has its parent.
MapLeadsToNode ==
  /\ \A b \in Block : node[b] # Root => node[b] \in DOMAIN tree /\ tree[node[b]].bid = b
  /\ \A p \in DOMAIN tree : \A i \in 1..(Len(p) - 1) : SubSeq(p, 1, i) \in DOMAIN tree

\* "Never reclaim a block still attached to a live sequence" (evict_cold).
NeverReclaimLive == \A r \in Live : \A i \in DOMAIN table[r] : free[table[r][i]] = 0

\* The tree's refcounts "balance exactly one remove_prefix over the full
\* block table, after which unreferenced cached prefixes become
\* LRU-evictable again" (finish_request).
ClaimsBalance == Live = {} => \A p \in DOMAIN tree : tree[p].ref = 0

\* While a pin is in force, eviction "skips this node" (pinned_until).
PinnedIsKept ==
  [][(call # Idle /\ \E p \in DOMAIN tree : AllocEvict(p)) => Pinned \subseteq DOMAIN tree']_vars

\* "block pool exhausted" is only reported when every block is in use by a
\* live request or protected by a tree reference or a pin below it.
FailsOnlyWhenFull ==
  [][AllocFail => \A b \in Block :
        \/ refs[b] > 0
        \/ /\ node[b] # Root
           /\ \E q \in DOMAIN tree : Above(node[b], q) /\ (tree[q].ref > 0 \/ q \in Pinned)]_vars

=============================================================================
