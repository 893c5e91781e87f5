--------------------------- MODULE DeviceAllocator ---------------------------
(***************************************************************************)
(* RocmCachingAllocator of grim-backend-rocm: device memory for every      *)
(* RocmStorage, called from any thread.  By default small requests are     *)
(* bump-allocated from slabs and large ones go to the driver; with         *)
(* GRIM_ALLOC_POOL=1 freed blocks are kept in a pool instead.              *)
(*                                                                         *)
(* Each of `pool`, `live`, `slabs` and `slab_free` has a mutex of its own, *)
(* and a call takes them one after the other: a step is what a call does   *)
(* while it holds one (with those it nests in it).                         *)
(*                                                                         *)
(* Abstractions.  An address is a unit of the size of the smallest slot.   *)
(* The driver hands out any free range and may fail at any time (another   *)
(* process holds the memory).  hipFree of an address that is not the start *)
(* of a mapped range is an error the code ignores.  The free lists are     *)
(* sets; synchronisation and fences with the streams are left out.         *)
(*                                                                         *)
(* Every block has one owner, a RocmStorage, which frees it once, in Drop. *)
(* The comment of free() says that the pool mode has met blocks with a     *)
(* second owner, at a place it does not name; a caller that frees a block  *)
(* twice, or keeps one it has freed, is not in this model.                 *)
(*                                                                         *)
(* `torn` is a history variable: no step reads it.  It records that the    *)
(* driver was made to unmap memory somebody still counts on, which         *)
(* empty_cache does when another thread allocates after it copied `live`   *)
(* (AllocRace) and free does with the block of a fallback slab             *)
(* (AllocFragment).  From then on addresses have two meanings and nothing  *)
(* is promised any more.                                                   *)
(***************************************************************************)
EXTENDS Naturals, Sequences, FiniteSets, FiniteSetsExt, SequencesExt

CONSTANTS
  Thread,      \* threads that allocate and free
  Memory,      \* units of device memory
  SlabSize,    \* units of a slab
  Small,       \* request sizes up to SMALL_MAX
  Large,       \* the other request sizes
  PoolCap,     \* cap_bytes, in units
  MaxSlabs     \* bound: entries of the slab list

ASSUME AllocAssumption ==
  /\ Memory \in Nat /\ SlabSize \in Nat \ {0} /\ PoolCap \in Nat /\ MaxSlabs \in Nat
  /\ Small \subseteq 1..SlabSize /\ Large \subseteq Nat \ {0}
  /\ \A s \in Small, l \in Large : s < l

Size    == Small \cup Large
Address == 0..(Memory - 1)
Block   == [ptr : Address, size : Size]

VARIABLES
  pooling,   \* GRIM_ALLOC_POOL=1
  mapped,    \* ranges the driver has handed out
  slabs,     \* slabs, in order of creation
  slabFree,  \* slab_free: recycled slots
  pool,      \* pool: freed blocks
  cached,    \* cached_bytes
  live,      \* live: blocks handed out, as the allocator records them
  owned,     \* blocks a RocmStorage holds
  call,      \* thread -> the call it is in
  snapshot,  \* thread -> addresses empty_cache copied from live
  torn       \* history: memory somebody counts on was unmapped

vars == <<pooling, mapped, slabs, slabFree, pool, cached, live, owned, call, snapshot, torn>>

Idle      == [at |-> "idle"]
At(a, b)  == [at |-> a, block |-> b]
Want(a, n) == [at |-> a, size |-> n]

Init ==
  /\ pooling \in BOOLEAN
  /\ mapped = {} /\ slabs = <<>> /\ slabFree = {} /\ pool = {}
  /\ cached = 0 /\ live = {} /\ owned = {}
  /\ call = [t \in Thread |-> Idle]
  /\ snapshot = [t \in Thread |-> {}]
  /\ torn = FALSE

Goto(t, c) == call' = [call EXCEPT ![t] = c]

Within(b, base, size) == base <= b.ptr /\ b.ptr + b.size <= base + size

Disjoint(b, c) == b.ptr + b.size <= c.ptr \/ c.ptr + c.size <= b.ptr

\* What hipMalloc(n) can return.
Fits(n) == {a \in Address : /\ a + n <= Memory
                            /\ \A m \in mapped : Disjoint([ptr |-> a, size |-> n], m)}

\* What hipFree leaves mapped.
Unmap(ptr, m) == {r \in m : r.ptr # ptr}

\* audit_insert: the map is keyed by address.
Recorded(b) == {c \in live : c.ptr # b.ptr} \cup {b}

\* The call returns block b.
HandOut(t, b) ==
  /\ live' = Recorded(b)
  /\ owned' = owned \cup {b}
  /\ Goto(t, Idle)

\* The blocks that calls in progress have in their hands: popped from the pool
\* and not yet recorded, or freed and not yet put anywhere.
Holding(t) == call[t].at \in {"popped", "free", "push"}
InHands    == {call[t].block : t \in {u \in Thread : Holding(u)}}

Mapped(b) == \E r \in mapped : Within(b, r.ptr, r.size)

\* All memory somebody counts on is mapped: what is held, in the hands of a call
\* or waiting to be handed out again, and the slabs the next requests come from.
Backed ==
  /\ \A b \in owned \cup slabFree \cup pool \cup InHands : Mapped(b)
  /\ \A i \in DOMAIN slabs : [ptr |-> slabs[i].base, size |-> SlabSize] \in mapped

\* What the history remembers of a step that unmaps.
Noted == torn' = (torn \/ ~Backed')

-----------------------------------------------------------------------------
(* alloc.                                                                  *)

\* Mutant of Popped: the slot stays in the list.
PoppedNot(b) == slabFree

\* slab_free without the slot handed out.
Popped(b) == slabFree \ {b}

\* A recycled slot of the class.
AllocSlot(t, n) ==
  /\ call[t] = Idle
  /\ ~pooling /\ n \in Small
  /\ \E b \in slabFree :
       /\ b.size = n
       /\ slabFree' = Popped(b)
       /\ HandOut(t, b)
  /\ UNCHANGED <<pooling, mapped, slabs, pool, cached, snapshot, torn>>

\* A block of the pool; it is recorded as live after the lock is released.
AllocPooled(t, n) ==
  /\ call[t] = Idle
  /\ \E b \in pool :
       /\ b.size = n
       /\ pool' = pool \ {b}
       /\ Goto(t, At("popped", b))
  /\ UNCHANGED <<pooling, mapped, slabs, slabFree, cached, live, owned, snapshot, torn>>

\* Mutant of Uncache: the pop does not lower the count.
UncacheNothing(n) == cached

\* saturating_sub.
Uncache(n) == IF cached >= n THEN cached - n ELSE 0

TakePooled(t) ==
  /\ call[t].at = "popped"
  /\ HandOut(t, call[t].block)
  /\ cached' = Uncache(call[t].block.size)
  /\ UNCHANGED <<pooling, mapped, slabs, slabFree, pool, snapshot, torn>>

\* Nothing to reuse: on to the slabs, or to the driver.
AllocMiss(t, n) ==
  /\ call[t] = Idle
  /\ IF ~pooling /\ n \in Small
     THEN /\ ~\E b \in slabFree : b.size = n
          /\ Goto(t, Want("bump", n))
     ELSE /\ ~\E b \in pool : b.size = n
          /\ Goto(t, Want("malloc", n))
  /\ UNCHANGED <<pooling, mapped, slabs, slabFree, pool, cached, live, owned, snapshot, torn>>

\* The last slab has room.
LastFits(n) == slabs # <<>> /\ Last(slabs).bump + n <= SlabSize

Bump(t) ==
  /\ call[t].at = "bump"
  /\ LET n == call[t].size IN
       /\ LastFits(n)
       /\ slabs' = [slabs EXCEPT ![Len(slabs)].bump = @ + n]
       /\ HandOut(t, [ptr |-> Last(slabs).base + Last(slabs).bump, size |-> n])
  /\ UNCHANGED <<pooling, mapped, slabFree, pool, cached, snapshot, torn>>

\* A fresh slab with the request at its start.
AddSlab(t, n) ==
  \E a \in Fits(SlabSize) :
    /\ Len(slabs) < MaxSlabs
    /\ mapped' = mapped \cup {[ptr |-> a, size |-> SlabSize]}
    /\ slabs' = Append(slabs, [base |-> a, bump |-> n])
    /\ HandOut(t, [ptr |-> a, size |-> n])

NewSlab(t) ==
  /\ call[t].at = "bump"
  /\ ~LastFits(call[t].size)
  /\ AddSlab(t, call[t].size)
  /\ UNCHANGED <<pooling, slabFree, pool, cached, snapshot, torn>>

\* A block of its own from the driver, at the first try or the retry.
Malloc(t) ==
  /\ call[t].at \in {"malloc", "retry"}
  /\ \E a \in Fits(call[t].size) :
       LET b == [ptr |-> a, size |-> call[t].size] IN
       /\ mapped' = mapped \cup {b}
       /\ HandOut(t, b)
  /\ UNCHANGED <<pooling, slabs, slabFree, pool, cached, snapshot, torn>>

\* The first try fails: empty_cache, then the retry.
MallocFails(t) ==
  /\ call[t].at = "malloc"
  /\ Goto(t, Want("empty", call[t].size))
  /\ UNCHANGED <<pooling, mapped, slabs, slabFree, pool, cached, live, owned, snapshot, torn>>

\* The retry fails, and the request is served from a new slab.
FragmentationSlab(t) ==
  /\ call[t].at = "retry"
  /\ call[t].size <= SlabSize
  /\ AddSlab(t, call[t].size)
  /\ UNCHANGED <<pooling, slabFree, pool, cached, snapshot, torn>>

\* alloc returns an error.
AllocFails(t) ==
  /\ call[t].at \in {"bump", "retry"}
  /\ call[t].at = "bump" => ~LastFits(call[t].size)
  /\ Goto(t, Idle)
  /\ UNCHANGED <<pooling, mapped, slabs, slabFree, pool, cached, live, owned, snapshot, torn>>

-----------------------------------------------------------------------------
(* free.                                                                   *)

\* A storage is dropped: the block leaves live first.
Free(t, b) ==
  /\ call[t] = Idle
  /\ owned' = owned \ {b}
  /\ live' = {c \in live : c.ptr # b.ptr}
  /\ Goto(t, At("free", b))
  /\ UNCHANGED <<pooling, mapped, slabs, slabFree, pool, cached, snapshot, torn>>

InSlab(b) == \E i \in DOMAIN slabs : Within(b, slabs[i].base, SlabSize)

\* Mutant of IsSlot: the tests of the size and of the range are dropped.
IsSlotAny(b) == ~pooling

\* A small block inside a slab is recycled.
IsSlot(b) == ~pooling /\ b.size \in Small /\ InSlab(b)

FreeSlot(t) ==
  /\ call[t].at = "free"
  /\ IsSlot(call[t].block)
  /\ slabFree' = slabFree \cup {call[t].block}
  /\ Goto(t, Idle)
  /\ UNCHANGED <<pooling, mapped, slabs, pool, cached, live, owned, snapshot, torn>>

OverCap(b) == cached + b.size > PoolCap

\* Anything else without the pool, or over its cap, goes back to the driver.
FreeDriver(t) ==
  /\ call[t].at = "free"
  /\ IF pooling THEN OverCap(call[t].block) ELSE ~IsSlot(call[t].block)
  /\ mapped' = Unmap(call[t].block.ptr, mapped)
  /\ Goto(t, Idle)
  /\ UNCHANGED <<pooling, slabs, slabFree, pool, cached, live, owned, snapshot>>
  /\ Noted

\* Under the cap: the lock on the count is released before the push.
FreePool(t) ==
  /\ call[t].at = "free"
  /\ pooling /\ ~OverCap(call[t].block)
  /\ Goto(t, At("push", call[t].block))
  /\ UNCHANGED <<pooling, mapped, slabs, slabFree, pool, cached, live, owned, snapshot, torn>>

PushPool(t) ==
  /\ call[t].at = "push"
  /\ pool' = pool \cup {call[t].block}
  /\ cached' = cached + call[t].block.size
  /\ Goto(t, Idle)
  /\ UNCHANGED <<pooling, mapped, slabs, slabFree, live, owned, snapshot, torn>>

-----------------------------------------------------------------------------
(* empty_cache; a call made by alloc goes on to the retry (size # 0).      *)

EmptyCache(t) ==
  /\ call[t] = Idle
  /\ Goto(t, Want("empty", 0))
  /\ UNCHANGED <<pooling, mapped, slabs, slabFree, pool, cached, live, owned, snapshot, torn>>

\* live is copied and its lock released.
CopyLive(t) ==
  /\ call[t].at = "empty"
  /\ snapshot' = [snapshot EXCEPT ![t] = {b.ptr : b \in live}]
  /\ Goto(t, [call[t] EXCEPT !.at = "clear"])
  /\ UNCHANGED <<pooling, mapped, slabs, slabFree, pool, cached, live, owned, torn>>

ClearSlots(t) ==
  /\ call[t].at = "clear"
  /\ slabFree' = {}
  /\ Goto(t, [call[t] EXCEPT !.at = "slabs"])
  /\ UNCHANGED <<pooling, mapped, slabs, pool, cached, live, owned, snapshot, torn>>

\* Mutant of Referenced: only a block at the start counts.
ReferencedAtBase(s, ptrs) == s.base \in ptrs

\* A live block starts in the slab.
Referenced(s, ptrs) == \E p \in ptrs : s.base <= p /\ p < s.base + SlabSize

\* The entries of q at the positions in keep, in their order.
Kept(q, keep) ==
  LET Nth(k) == CHOOSE i \in keep : Cardinality({j \in keep : j <= i}) = k
  IN  [k \in 1..Cardinality(keep) |-> q[Nth(k)]]

DrainSlabs(t) ==
  /\ call[t].at = "slabs"
  /\ LET keep == {i \in DOMAIN slabs : Referenced(slabs[i], snapshot[t])}
         gone == {slabs[i].base : i \in DOMAIN slabs \ keep}
     IN /\ slabs' = Kept(slabs, keep)
        /\ mapped' = {r \in mapped : r.ptr \notin gone}
  /\ Goto(t, [call[t] EXCEPT !.at = "pool"])
  /\ UNCHANGED <<pooling, slabFree, pool, cached, live, owned, snapshot>>
  /\ Noted

\* hipFree of the pooled blocks that are not live.
Drained(t) == {r \in mapped : ~\E b \in pool : b.ptr = r.ptr /\ b.ptr \notin snapshot[t]}

DrainPool(t) ==
  /\ call[t].at = "pool"
  /\ mapped' = Drained(t)
  /\ pool' = {}
  /\ cached' = 0
  /\ snapshot' = [snapshot EXCEPT ![t] = {}]
  /\ Goto(t, IF call[t].size = 0 THEN Idle ELSE Want("retry", call[t].size))
  /\ UNCHANGED <<pooling, slabs, slabFree, live, owned>>
  /\ Noted

Next ==
  \E t \in Thread :
    \/ \E n \in Size : AllocSlot(t, n) \/ AllocPooled(t, n) \/ AllocMiss(t, n)
    \/ TakePooled(t) \/ Bump(t) \/ NewSlab(t) \/ Malloc(t) \/ MallocFails(t)
    \/ FragmentationSlab(t) \/ AllocFails(t)
    \/ \E b \in owned : Free(t, b)
    \/ FreeSlot(t) \/ FreeDriver(t) \/ FreePool(t) \/ PushPool(t)
    \/ EmptyCache(t) \/ CopyLive(t) \/ ClearSlots(t) \/ DrainSlabs(t) \/ DrainPool(t)

Spec == Init /\ [][Next]_vars

-----------------------------------------------------------------------------
(* Properties.                                                             *)

\* Type of the state.
TypeOK ==
  /\ pooling \in BOOLEAN
  /\ mapped \subseteq [ptr : Address, size : Size \cup {SlabSize}]
  /\ slabs \in Seq([base : Address, bump : 1..SlabSize])
  /\ slabFree \subseteq Block /\ pool \subseteq Block
  /\ live \subseteq Block /\ owned \subseteq Block
  /\ cached \in Nat
  /\ snapshot \in [Thread -> SUBSET Address]

\* A block a storage holds lies inside a range the driver has mapped.  This does
\* not hold of the code: AllocRace and AllocFragment show the two ways it fails.
OwnedIsMapped == \A b \in owned : Mapped(b)

\* "A slab may only be unmapped once NOTHING live points into it", and "the same
\* guard covers pool buffers": whatever other threads do, the copy of live has
\* every block held at that moment, and empty_cache leaves those it has mapped.
LiveSurvives ==
  [][\A t \in Thread : ~torn =>
       /\ CopyLive(t) => \A b \in owned : b.ptr \in snapshot'[t]
       /\ DrainSlabs(t) \/ DrainPool(t) =>
            \A b \in owned : b.ptr \in snapshot[t] => Mapped(b)']_vars

\* "handed out while live": as long as nothing that counts was unmapped, no two
\* blocks overlap, be they held or waiting to be handed out again.
NoDoubleBooking ==
  ~torn => /\ owned \cap (slabFree \cup pool) = {}
           /\ \A b, c \in owned \cup slabFree \cup pool : b # c => Disjoint(b, c)

Quiet == \A t \in Thread : call[t] = Idle

\* Without the pool, alloc, free and empty_cache lose no device memory, however
\* they interleave: what the driver has mapped is held or a slab.
NoneLeaked ==
  ~pooling /\ Quiet =>
    \A r \in mapped : \/ \E b \in owned : b.ptr = r.ptr
                      \/ \E i \in DOMAIN slabs : slabs[i].base = r.ptr

\* With it they may: a block freed to the pool after empty_cache copied live is
\* dropped from the pool and not unmapped (AllocRace).
NoneLeakedEver ==
  Quiet =>
    \A r \in mapped : \/ \E b \in owned \cup pool : b.ptr = r.ptr
                      \/ \E i \in DOMAIN slabs : slabs[i].base = r.ptr

\* "Total bytes currently held in `pool`": between calls the count is never more
\* than the pool holds, so that free sends nothing to the driver for want of room
\* the pool has.  It may be less: empty_cache zeroes it between the pop of a block
\* and its subtraction.
CachedWithinPool ==
  ~torn /\ Quiet => cached <= MapThenSumSet(LAMBDA b : b.size, pool)

=============================================================================
