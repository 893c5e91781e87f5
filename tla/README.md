# TLA+ model of grim's serving core

grim is an LLM inference server in Rust. An engine loop asks a scheduler which
requests to prefill and which to decode, and runs them against a pool of fixed
size KV blocks that requests share through a prefix cache and that spill to host
RAM and disk. Around it are an HTTP server that admits, streams and cancels
requests, a hand-off of KV blocks from a prefill node to a decode node, and a
ROCm backend with a task ring that a resident kernel drains and an allocator of
its own. This directory models those parts, checks them with TLC and proves part
of the results with TLAPS.

## Inventory

| Component | State | Operations | What makes it correct |
|---|---|---|---|
| `KvBlockPool`, `BlockTable`, `PagedKvCache` (`grim-memory/src/lib.rs`) | free list, reference counts, block contents and location, one table and `committed_tokens` per request | alloc (pop, evict, reclaim, fail), append, seed, release, demote, promote, reset | a block is never given out twice or lost; a committed position is backed by the request's own KV; exhaustion is reported only when there is nothing left |
| `RadixTree` (`grim-memory/src/radix.rs`) | nodes with block, reference count, pin; `block_to_node` | match, insert, remove, pin, expire, evict a chain | tree and reverse map agree; a matched node holds the KV of its whole path; references and pins protect |
| Engine handlers (`grim-engine/src/engine/{requests,scheduler}.rs`) | sessions, `prefill_progress`, seeded and registered block counts | admit, prefill, decode, finish or cancel | claims are released once; a failed pass can be retried |
| `Scheduler`, `AdmissionController` (`grim-scheduler/src/lib.rs`) | waiting, running, swapped, paused | `schedule`, enqueue, finish, pause, resume | nobody is lost, duplicated or starved; limits hold; order is by priority and arrival; chunks resume at their offset |
| `LocalSpillManager` (`grim-kvtransport/src/lib.rs`) | three host maps, three NVMe maps, tier map, spill files | demote, write to disk, retrieve, evict | what comes back is what went in last, through failed I/O; no file is forgotten |
| Disaggregation (`grim-disagg`, network half of `grim-kvtransport`, `drive_prefill`) | messages to send, attempts, role, age of the heartbeat; accept queue, inbox file, received blocks | hand-off with retries over TCP or shared memory, receive, poll, failover | a success means the block is stored; content never gets older; a hand-off ends and a dead peer is given up |
| Server (`grim-server`) | admission counter and tickets, cancel tokens, histories, sampler parameters, the inference queue | admit, generate (chat and text, streamed or not), disconnect, time out, cancel, shut down | tickets and registries follow their handlers on every exit path; tokens come from the request's own context |
| Task ring (`grim-backend-rocm/src/kernels/task_ring.rs`, `scythe_persistent.rs`) | slots, head, tail, stop flag, two streams, host bookkeeping | enqueue, wait, verify, launch, relaunch, stop, drop; the wave's poll, claim, execute, exit | a verified step ran; one wave at a time; no node without a wave; buffers outlive the wave; a step ends |
| Device allocator (`grim-backend-rocm/src/memory/allocator.rs`) | slabs, slot and block pools, `live`, cached bytes | alloc, free, `empty_cache` | owned memory is mapped, owned once and accounted for |
| Speculation, self-tuning, readiness dispatch, scythe placement | - | - | not modelled yet |
| Tensors, layers, backends, models, formats, quantisation, training, CLI | - | - | numerical code, device drivers or I/O: not modelled |

Interaction: the server's loop owns the engine (`&mut self`), so one handler
runs at a time. `Engine::tick` calls `schedule`, then `drive_prefill` and
`step_batch` for the ids it returns; these lock the pool for each call. Between
two ticks requests are admitted, cancelled, paused and resumed, and the operator
may reset the prefix cache. Inside the engine the hard behaviours are therefore
not data races but long sequences of legal calls: a request that is in two
queues, an allocation that fails half way, an eviction below a shared prefix, a
copy that outlives its page, disk I/O that fails between two map updates. Real
concurrency is around it: HTTP handlers that queue steps for one inference
thread and may be dropped at any await; a sender and a receiver in two
processes, with acknowledgements that come late and files renamed under a poll;
a wave on the device that gives up while the host still counts on it; threads
that share an allocator with one lock per map.

## Modules

| Module | Content |
|---|---|
| `KvPool` | pool, prefix cache, block tables and the engine handlers that drive them |
| `MCKvPool` | three prompt workloads, block symmetry |
| `KvPoolProofs` | type correctness and tree/map agreement, for all constants |
| `KvOwnershipProofs` | block ownership, reference counts, exhaustion and contents, without sharing and with it; tree claims and cached contents; prompts that have no block in common |
| `Scheduler` | queues, admission controller, `schedule()` |
| `MCScheduler` | prompt lengths and priorities |
| `SchedulerProofs` | one running entry, nobody lost but over budget, offsets, decode after prefill, a finished request stays out unless it was found waiting, a paused one stays out, who starts first, type correctness |
| `SpillManager` | host and NVMe tiers |
| `MCSpillManager` | symmetry of blocks and contents |
| `SpillStore` | what a spill manager promises: the last contents of every block |
| `SpillProofs` | type correctness, latest contents, file tracking, `SpillManager` implements `SpillStore` |
| `ServerRequests`, `MCServerRequests` | handlers, inference thread, cancel, shutdown |
| `ServerProofs` | admission, tickets, clean-up, tokens sampled in their own context, type correctness |
| `KvHandoff`, `MCKvHandoff` | hand-off, receiver, inbox poller, failover |
| `HandoffProofs` | success means stored, no older content over TCP, type correctness |
| `TaskRing`, `MCTaskRing` | task ring, resident and bounded waves, a decode step |
| `TaskRingProofs` | verified steps ran, one wave, buffers outlive the wave, no node without a wave |
| `DeviceAllocator`, `MCDeviceAllocator` | caching allocator shared by threads |
| `AllocProofs` | type correctness, memory handed out once, none leaked, `empty_cache` spares what it knows of, the byte count is within the pool's |

### KvPool

A prefill or decode handler is a sequence of actions: `StartPrefill` or
`StartDecode`, one allocation step at a time (`AllocPop`, `AllocEvict`,
`AllocNoEvict`, `AllocReclaim`, `AllocFail`), then `FinishPrefill` or
`FinishDecode`. `call` names the handler in progress and keeps every other one
out, as `&mut self` does; only the clock (`ExpirePins`) may move inside it, and
not inside one `alloc`. `Enqueue`, `FinishRequest` (completion and cancel) and
`ResetPrefixCache` are single steps.

A block key is the token subsequence it hashes, a node is its path of keys. A
block's contents are the request that wrote it and the position written up to:
`Holds` compares contents up to equal token prefixes, because KV is a function
of the tokens before it. The free list counts how often a block is on it, so
that a double free is visible. `copy` is what the spill manager would return for
a block; its inner life is `SpillManager`.

Left out: the order of the free list and the LRU clock (any choice is allowed,
which includes the code's), hash collisions, compressed and packed demotion
(see `SpillManager`), watermark demotion of live prefixes
(`GRIM_KV_WATERMARK_BLOCKS`), `resize_capacity`, `tentative_append` and
`commit`, recurrent-state anchors and hybrid models (no seeding), the hand-off
of `drive_prefill`, and errors of the forward pass after the reservation. A table
may be one block longer than a prompt that ends with a full block: the key slice
of `insert_at` is empty there, and a node is inserted (`KeyBlocks`). Beyond that the
slice panics; the model has no step there.

### Scheduler

`schedule()` is `BeginPass`, `AdmitWaiting`, `Preempt`, one `Fill...` step per
iteration of its loop, and `EndPass`; `pass` holds its locals. Other operations
happen between two passes. `KvPressure` is the set of readings the occupancy
test may give. `reached` is a history variable: where the last chunk of a
request ended, and so is `caught`. `Finish` is what every way to end a request
comes to: the end token, a stop sequence or `max_tokens` in a sampled token, which
may be one sampled after a partial prefill; an error; a cancel; a dropped stream.
It may happen between any two passes, wherever the request is, and leaves `waiting`
alone as the code does; `caught` collects the requests it found there. A finished
request with an entry in `waiting` is scheduled again (`SchedulerCancelled`);
`FinishedStaysOut` says that no other one is.
Left out: the LoRA grouping of the output (nothing reads it), the
readiness dispatcher (never installed), changes of the limits by the self-tuner,
and the throughput estimate, which nothing in the program updates.

### SpillManager

One action per map operation; a disk operation is a start step, which takes the
entry out of its map, and a success or failure step. `Form` gives the three
variants of each operation one definition, `Supersedes` what each demotion
removes of the others. A file whose removal fails stays without a map entry, as in
the code, which ignores the error: `stuck` is a history variable that remembers
which, `temp` the temporary files left by failed writes. `last` is a history
variable: what was demoted last.
`Promoted` is what `promote_to_gpu` would load. `Implements` maps the manager to
`SpillStore`: `given` is `last`, `kept` is what promotion loads or, during a disk
operation, the contents in transit. Moving an entry between tiers and failing to
do so are stuttering steps of the store.

### ServerRequests

A request is one handler: it takes a ticket (`Arrive`, `Count`, and `Uncount` when
the optimistic increment went over the limit), begins, submits steps to the
inference queue, receives tokens and ends. `kind` is one of the four handlers;
what differs between them (who registers a cancel token, who has a guard, when
the ticket goes) is in `Begin`, `Finish`, `CleanUp`, `Disconnect` and `Timeout`.
The inference thread is `Work` (one `sample_next_token`, with its tick) and
`WorkFails` (a tick that leaves by `?`). A tick drives every request the engine
has. An engine entry keeps the number of tokens in its context and the last
recorded token, so that `wrong` collects the requests that were given a token of
logits that are not those of their own text. `Faults` switches the environment.
Left out: parsing, formatting, the text itself (whether it ends or parses as tool
calls is a choice), embeddings, model management, metrics.

### KvHandoff

One prefill node and one decode node. `Prefill` starts a hand-off: every layer of
every block, one message after the other, each with the attempts of
`retry_with_policy`. `UsesTcp` splits the two transports: TCP connects, writes and
waits for the acknowledgement; shared memory publishes a file and polls, in the
code's order, for its absence (`PathExists`), for the rejection marker and for the
deadline, then falls back to TCP. `Receive` is the accept loop, the `Poll...` steps
the inbox poller. A message whose sender gave up stays in the accept queue and is
stored later. A write that fails half way (`WriteFails`) is a broken connection, which
is tried again, or an expired deadline, which is not; the receiver may have a message
that is not whole. A handoff file that cannot be created, written or renamed
(`PublishFails`) leads to TCP. Both, like a refused connection, are the fault
"refuse". The content of a block is the number of the pass that wrote it.
`committed` and `unsound` are history variables: what the receiver stored in this
hand-off, and what its inbox refused or lost at teardown. Left out: the pull path
`drive_decode`, which the server does not call, prompt and fetch messages, and the
encoding of payloads.

### TaskRing

A stream is the queue of operations launched on it; the host launches, the device
executes. `Enqueue` writes a slot and publishes the head, `WaitNode` launches the
kernel that spins on the slot's status, `Verify` is the synchronize and
`verify_waits`. A bounded wave follows each node on the caller's stream; a resident
wave parks on its own stream and leaves after `WaveIdle` ticks, while the host
relaunches after `HostIdle`. `Gaps` is the workload: the silences after which the
host enqueues again. `StopWave` raises the stop flag also of a ring that never had a
resident wave. `AbortStep` is an error of a launch of the step, behind a node and its
wait. Left out: an error before the first node, which leaves only the zeroed words; a
launch of `drain`, or of the wait, that fails behind the published head (the node
stays in the ring for the next wave, and the caller has an error); the staged
launches of the boundary hand-off; the device-side enqueue of dynamic MoE; counters
that wrap.

### DeviceAllocator

A call is a sequence of steps, each what it does under one lock, and the calls of
several threads interleave between any two steps, those of `empty_cache` included.
Addresses are units of a slot; the driver hands out any free range and may fail.
`pooling` is `GRIM_ALLOC_POOL=1`. `empty_cache` works from a copy of `live`, and a
large request that the driver refuses may be served from a slab in either mode: in
both ways the code can unmap memory that somebody counts on (`AllocRace`,
`AllocFragment`). `torn` is a history variable that remembers the first such step.
The properties about overlap, about the copy and about the byte count are about the
states before it; `NoneLeaked` is about every state of the mode without the pool.
With the pool a block is lost without any unmapping of memory in use: freed to the
pool after the copy, it is dropped from the pool and not unmapped
(`NoneLeakedEver`, which `AllocRace` refutes too). The byte count may
fall below the pool's sum, when `empty_cache` zeroes it between a pop and its
subtraction, and is never above it.

An assumption: every block has one owner, a `RocmStorage`, which frees it once, in
`Drop`. The comment of `free` (`allocator.rs:340`) reports that with
the pool a block was found pooled while a second owner still held it, and names no
place where such an owner comes from. A caller that frees a block twice is not in the
model, so `NoDoubleBooking` says that the allocator does not create a second owner, not
that no caller does. Left out: stream synchronisation and fences.

## Runs

Every passing run explores its instance completely, `AllocShared` up to its
constraint:

| Run | Instance | Shows |
|---|---|---|
| `KvPoolEvict` | 4 blocks, disjoint prompts of 5, 2 and 3 tokens, block size 2, chunked, cache on, two sessions | eviction of chains of up to three nodes frees unused pages only, strands none, leaves pinned nodes alone and keeps tree and reverse map in agreement |
| `KvPoolShare` | 6 blocks, prompts that share their first block, whole-prompt prefills | reference counts, contents and claims under sharing without eviction |
| `KvPoolSpill` | 4 blocks, spill on, cache off | every block is free once, in one slot, or demoted and reclaimable; exhaustion means exhausted |
| `SchedulerServe` | strict order, 3 slots, changing pressure | every request is served, in chunks that resume at their offset |
| `SchedulerControl` | mixed priorities, 2 slots, no pressure (so no chunks), finish, pause and resume between any two passes | a paused request stays out, requests start in order |
| `SchedulerSwap` | prompts of 5, budget 4, 3 slots, requests finished between any two passes | preemption and swap-in lose and double nobody, a finished request comes back only if it was found waiting |
| `SpillRaw` | 2 blocks, 2 contents, raw form | latest contents and files through failing reads, writes and removals; `SpillStore` is implemented |
| `TaskRing` | 2 slots, steps of 2 nodes, 4 nodes, the wave's budget shorter than the host's, silences outside the window between the two | verified steps ran, one wave, no stranded node, no early release, every step ends |
| `AllocShared` | 2 threads, 4 units, slabs of 2, small and large requests, both modes, up to the first unmapping of memory in use (`Intact`) | no memory is handed out twice, blocks in the copy of `live` survive `empty_cache`, none leaked without the pool, byte count within the pool's |
| `Server` | 2 requests of any kinds, limit 1, 2 tokens, every fault | admission and tickets, nothing left behind, wrong contexts only where the engine was shared, refused, failed or cancelled |
| `Handoff` | 1 block, 2 passes, 2 attempts, both transports, room for the block or not, every fault | success means stored, content gets no older over TCP, failover, every hand-off ends |

The bounds are the smallest with the interesting cases: a prompt with a short
last block, one of exactly a block, one of three blocks; fewer blocks than the
workload wants (exhaustion and eviction) or enough for all (sharing); budgets
below the sum of the prompts (pressure), chunks below a prompt; a ring that wraps
once and a second step over the slots of the first; a slab with two slots and
memory for two of them; one handler over the limit and one below it;
a second pass whose messages meet those of the first in the accept queue, and a
retry after a late acknowledgement. Each request is admitted once, with at most
`MaxNew` or `MaxTokens` tokens, so the runs are finite; passes after the last send
its content again. Blocks, threads and requests are symmetric where a run says
so: the modules compare them only for equality. Deadlock is checked except in
`TaskRing`, `AllocShared` and `Server`, whose workloads end (the ring is closed,
all memory is held, all requests are over), and in the by-hand configurations of
the same modules and `KvPoolStale`. The type invariants of `Scheduler`,
`SpillManager`, `TaskRing`, `DeviceAllocator`, `ServerRequests` and `KvHandoff`
hold on the same instances and can be added to any of the configurations.

One run refutes what the repository says of itself; the finding in
`PROJECT.json` quotes the lines:

| Run | What the code does |
|---|---|
| `HandoffRejected` | the shared-memory sender takes the disappearance of its file for an acknowledgement, and a rejection renames that file |

Two more passing configurations are run by hand: `SchedulerPressure` (prompts of
4 tokens, budget 3, 2 slots, chunk 1, a TTFT target that defers: nobody is lost,
`SeqLimit` holds, chunks resume at their offset) and `ServerLive` (a cancelled
chat stream ends; every handler ends unless it repeats its tool calls).

Further counterexamples are kept as configurations and are run by hand
(`tlc -config X.cfg M` with the MC module of the prefix). Each checks one
property, which TLC finds violated:

| Configuration | What the code does |
|---|---|
| `KvPoolReclaimLive` | eviction frees a pruned ancestor that a live request holds ("Never reclaim a block still attached to a live sequence", `grim-memory/src/lib.rs:836`) |
| `KvPoolStale` | the spill copy of a reclaimed page overwrites its new owner ("the bid can never be attended stale", `lib.rs:534`) |
| `KvPoolClaims` | identical prompts prefilled together leave a reference behind |
| `KvPoolHalfBlock` | a half-written block is registered and reused |
| `SchedulerLost` | the budget `break` drops admitted requests |
| `SchedulerPausedRuns` | a request paused between two chunks runs on |
| `SchedulerCancelled` | a request that is finished or cancelled while it waits is scheduled later (`FinishedForGood`) |
| `SchedulerOffset` | a swapped-in request repeats tokens it has prefilled |
| `SchedulerStuck` | partly prefilled requests hold all slots and cannot go on |
| `SpillFallback` | a raw demotion keeps an older compressed entry, which promotion prefers; on the same instance `FilesAreTracked` fails too, because a compressed demotion forgets the raw file |
| `SpillPacked` | promotion never looks for packed blocks |
| `TaskRingGap` | the wave gives up after about 6.5 s, the host relaunches after 30 s: a node enqueued in between has no wave ("a node is never stranded by an expired wave", `task_ring.rs:1401`) |
| `TaskRingReuse` | `launch_resident` after `stop_wave` leaves `stopped` set, so `Drop` does not wait for the new wave |
| `AllocFragment` | a block served from a fragmentation slab is freed to the driver by its address, which unmaps the slab under its other slots (`allocator.rs:474`) |
| `AllocRace` | a slab made after `empty_cache` copied `live` is unmapped with its first block in use; on the same instance `NoneLeakedEver` fails too |
| `ServerInContext` | two generations at once: a step of one decodes the last token of the other a second time |
| `ServerGhost` | a client that disconnects while its first step is queued is enqueued in the engine after its clean-up (`RequestCleanupGuard`, `grim-server/src/lib.rs:100`, means to cover all exit paths) |
| `ServerTools` | a chat stream that parses as tool calls at `max_tokens` repeats them and never ends |
| `ServerLate` | a handler between the flag test and the increment is admitted after the drain saw zero ("so admission stops immediately", `lib.rs:200`) |
| `HandoffLost` | a lost layer leaves its block marked as received by layer 0 |
| `HandoffFailover` | only a landed transfer is a heartbeat and a colocated node sends none: failover is for good |

Together with the passing runs they delimit where each property holds: for
instance `LiveContent` holds with the cache on and whole-prompt prefills, and
fails once a chunk may end inside a block; `DecodeAfterPrefill` holds without
swap-in and is not checked in `SchedulerSwap`, where a stale copy of the request
can stay in `waiting`; `FreeIsUnused` holds with the cache or the spill manager
on, and fails with both (`AllocReclaim` frees a page that `block_to_node` still
knows); `PinnedIsKept` holds for disjoint prompts and fails when a pinned node has
an unpinned leaf below it; `NoStaleStore` holds over TCP only, because the inbox
poller and the accept loop store without an order between them.

Seen while modelling and not stated as properties: a failed `enqueue` is ignored
and the request is answered with token 0; a prompt in several chunks is sampled
after its first one; the first poll of a chat stream takes its sampler parameters;
the histories of the other three handlers are never removed; a streamed text
completion gives its ticket back before it generates; a cancel token registered
after `cancel_all_active_requests` is not cancelled.

### Fairness

`FairSpec` is weak fairness of `Schedule` (the engine loop ticks while it has
requests, and a pass always runs to its end) and strong fairness of
`Complete(r)`, the `Finish` of a request that decoded in the last pass (one that
decodes again and again reaches `max_new_tokens`). No fairness is assumed of
arrivals, of any other way to finish, of pauses or of the pressure reading.

`TaskRing`: the host finishes the call it is in, each stream executes what was
launched on it, a wait ends, and time passes while nothing else does. Nothing is
assumed of the host starting a step. `ServerRequests`: the inference thread serves
its queue, and a handler that can go on is polled (its client reads). No fairness
of faults. `KvHandoff`: requests keep coming and time passes (`FailsOver` is about
a node in use), the engine thread, the accept loop and the poller run; strong
fairness only of `ShmDeadline`, because the sender's loop looks at the clock in
every round although the disjunct is not enabled throughout.

## Proofs

All proofs hold for every value of the constants that satisfies the ASSUMEs of
the modules.

- `KvPoolProofs!PoolTypeOK`, `MapLeads`: `Spec => []TypeOK`, `Spec =>
  []MapLeadsToNode`, with every switch free. `MapLeadsToNode` is not inductive
  alone: eviction keeps it only if the pruned set is closed downwards, insertion
  only if the table is no longer than the prompt and its matched prefix is in the
  tree, and reservation must end before a write. `PoolInv` adds these as
  `PoolOK` (counts and contents), `TreeOK` (paths, parents), `MapOK` (reverse
  map), `ReqOK` (per request counters and tables) and `CallOK` (the handler in
  progress). One lemma per action shows `PoolInv` preserved; lemmas about
  `InsertTree`, `Chain`, `Matched` and `Written` carry the set and sequence
  reasoning.
- `KvOwnershipProofs!BlockOwnership`, `ExhaustedMeansFull`, `RefsAreSlots`,
  `FreeStaysUnused` and `NoneStranded`, under `Radix = FALSE` and with the spill
  manager on or off: `OwnInv` is `PoolInv` with
  an empty tree (`NoCache`), every block in at most one slot (`OneSlot`) and free,
  held or parked in the spill tier, never two of them (`FreeOrHeld`); a reclaim
  leaves a free block behind, so the retry of `alloc` after it cannot fail.
  `OwnKvOnly` (`Spill = FALSE` too) is about contents: `OwnContent` says that the
  slots a request has written hold its own KV up to the position it committed, and
  needs `OneSlot`, since a write to a shared block would change another request's.
  The assumptions are needed: with sharing a block has several slots, with the
  cache `KvPoolReclaimLive` refutes ownership, with the spill manager `KvPoolStale`
  refutes contents.
- The same module, with the prefix cache on, no spill manager and whole prompts:
  `SharedBooks` (`RefsCountSlots`, `FreeIsUnused`, `NoStrandedBlock`), `ClaimsHold`
  (`ClaimsProtect`), `CachedKv` (`CachedContent`), `SharedKv` (`LiveContent`) and
  `ExhaustedMeansProtected` (`FailsOnlyWhenFull`).
  They are about the behaviours in which every step satisfies `Orderly`; prefills and
  decodes may fail for want of a block and be tried again:
  - `evict_cold` takes no block that a table still holds. Its comment promises that
    (`grim-memory/src/lib.rs:836`); the code looks at the leaf only, and
    `KvPoolReclaimLive` is the step that breaks it. So the theorems say what the
    promise is worth: with it, nothing else goes wrong.
  - A prefill that is tried again seeds nothing on top of blocks it has. One that
    failed without having seeded keeps the blocks it was given; if others registered
    its prefix meanwhile, the retry seeds that prefix behind them, and its table no
    longer follows its prompt.
  - No reset comes between the seeding of a live request and its registration: it
    would leave the request with seeded blocks whose nodes are gone.

  `BookInv` is the common invariant: beside `PoolInv`, the phases of a request
  (`Phases`: before, in and after its prefill, with the counters each implies), no
  block twice in a table (`Apart`), and who may write: a slot that is not seeded, or
  not inside the prompt, has a block nobody else has and no prompt can match
  (`Unshared`). `NoZombie` and `FreeOrUsed` keep tree, map and free list in step. To
  it `ClaimInv` adds the claims, counted over the requests that hold the block;
  `ShareInv` the contents, which survive a write only because of `Unshared`; and
  `FullInv` that an allocation past its eviction has nothing left to evict, from
  which every node of a finite tree has a protected leaf below it (`LeafUnder`).
- The same module, without a hypothesis on the behaviour, for prompts of which no two
  begin with the same block (`Strangers`), again with no spill manager and whole
  prompts: `StrangersAreOrderly`, `Spec => [][Orderly]_vars`, so that
  `ExhaustedAmongStrangers` (`FailsOnlyWhenFull`) and `BooksOfStrangers`
  (`RefsCountSlots`, `FreeIsUnused`, `NoStrandedBlock`) need not assume it. `LoneInv`
  is the invariant: nothing is ever seeded (`Unseeded`), a node belongs to the one
  request whose prompt it is a part of, which has ended or holds its block (`Owned`), a
  node's block is in a table only at the node's own place (`InPlace`), and
  `ClaimsProtect`. An evictable leaf that a table held would be claimed, so it belongs
  to a request that has ended, and so does every ancestor the walk-up prunes with it.
- `SpillProofs!SpillTypeOK`, and `LatestPromoted`, `FilesTracked` when the pool
  demotes to one form, raw or compressed. `Kept` says that nothing of another
  form exists, that the entry in transit is the one missing from its map, and
  that every entry has its file and a file without an entry is being read or could
  not be removed. A file left by a failed removal is never loaded: the next write
  of the block replaces it. `SpillFallback` and `SpillPacked` show
  that more forms, or the packed one, break the statements.
- `SpillProofs!SpillImplements`: `Spec => Implements`, under the same assumption
  of one form. From `Kept`, `VisibleIsLast` shows that what a promotion loads, or
  what is in transit, is what was demoted last; a demotion is then a `Put`, an
  eviction a `Forget`, and every other step a stutter of the store.
- `ServerProofs!AdmissionHeld`, `TicketsFollowHandlers`, for any finite set of
  requests, any limit and every fault. `Core` joins the two: the counter is the
  tickets plus the handlers about to take their increment back, and the tickets
  are those of the handlers that run. Neither is inductive alone, since a release
  counts down only for the holder of a ticket. `ServerTypeOK` needs `WaitsForMore`
  in addition: a handler that waits for an answer is below `MaxTokens`.
- `HandoffProofs!SuccessMeansStored`, for any number of blocks, layers, passes and
  attempts and every fault: `Reported` adds to the statement that the connection
  the sender waits on is the last one, carries its message, and is answered after
  the store (`Wire`), and that the inbox file is the sender's message and goes away
  only after a store, a refusal or the teardown (`Inbox`). `NoStaleStoreHolds`:
  `Order` says that over TCP the accept queue is in order of passes and that the
  store is no newer than anything in it. `HandoffTypeOK` comes from `Reported`.

- `ServerProofs!EndedIsSwept`: `Spec => []NothingLeft`. A request that ended leaves
  nothing only if its queued step is known: `Queue` says that a handler has at most
  one step in the channel, of the number it waits for and with no answer yet, and
  `Registry` that only streamed chats register a cancel token.
- `ServerProofs!TokensInContext`: `Spec => []OnlyDisturbedAreWrong` when a prompt is
  one pass (`Chunks = 1`; with more the code samples after the first chunk, and TLC
  refutes the statement). `Undisturbed` ties the engine's context
  to the handler: whenever an undisturbed request can ask for a token, has one
  queued or has an answer, the engine has read its prompt and all but its last token.
- `TaskRingProofs!VerifiedStepRan`, for any capacity, step length, budgets, errors
  and aborted steps. The verdict reads words that kernels still in the stream will
  write, so the invariant speaks about the queue: `WaitsIn` says that every wait no
  later zeroing wipes out will find its node in its slot (`SeenIn` follows the
  writes queued before it), `WordsIn` that a word whose wait is over is complete
  only if its node ran. `NeverTwoWaves`: `Residence` ties `resident` and `resolved`
  to the stream that has waves. `ReleasedAfterWave`, without use after `stop_wave`
  (`TaskRingReuse` refutes it otherwise): `Closing`.
- `TaskRingProofs!NodesAreServed`: `Spec => []NoStrandedNode`, if nothing follows
  `stop_wave`, a step ends at an error only with a resident wave, and a silence is
  below the wave's idle budget or reaches the host's (`TaskRingGap` is a silence in
  between). `RingInv` relates what each side counts: heads and tails to the nodes
  published and claimed (`Numbers`, `Claims`, `LastDone`), and the clocks, so that a
  wave that may have given up is one the host has been silent for long enough to
  relaunch (`ResidentWave`, `BoundedWave`).
- `AllocProofs!AllocatorTypeOK`, `NeverTwoOwners`, `NothingIsLeaked`, `LiveIsSpared`
  (`LiveSurvives`), for any number of threads, amount of memory and sizes, in both
  modes, with every interleaving and with the fallback of a large request; no
  hypothesis. `AllocInv` has two parts. `Types`, `Ranges` and `Accounted` hold in every
  state: ranges of the driver do not overlap, and without the pool each is a slab or
  belongs to a large block that is held or being freed, which is why nothing is leaked
  even after memory in use was unmapped. `Sound` holds until then: all memory somebody
  counts on is mapped (`Backed`), stored blocks and those in the hands of a call are
  disjoint (`Apart`) and out of the unused part of a slab (`Unused`), with the pool
  each is at the start of a range (`Heads`), and every held block is recorded in `live`
  (`Known`). The step that ends it is excluded by no assumption: `torn` remembers it,
  and the statements say `~torn` where they depend on it.
- `AllocProofs!CountWithinPool`: `Spec => []CachedWithinPool`.
  `Counts` adds the blocks popped by threads that have not lowered the count yet. The
  sum is the fold `MapThenSumSet`; that adding or removing a block changes it by the
  block's size is proved from the recursive function the fold stands for, with
  induction over cardinalities stated as a set of naturals (`NatSetInduction`).
- `SchedulerProofs!OneEntry`: `Spec => []OneRunningEntry` when nobody pauses (`Resume`
  appends without looking). `OnlyCaughtReturn`: `Spec => FinishedStaysOut`, with
  everything that may happen and no hypothesis: a finished request that comes back is
  one `finish` found waiting. `Over` says that the others (`Off`) are in no queue, in no
  hands of the pass and not in its output. The theorems below hold with pauses and
  requests finished at any time, and
  have a hypothesis on the behaviour, an action that does not happen:
  - `LostOnlyOverBudget`, `Spec /\ [][~Drops]_vars => []NoneLost`: the budget break with
    more requests admitted is the only step that loses one (`SchedulerLost` is that
    step). `Tracked` counts the requests in the hands of the pass too.
  - `DecodesPrefilled` (`[]DecodeAfterPrefill`) and `ResumesAtOffset` (`TrueOffset`), as
    long as no pass swaps a request back in (`~SwapsBack`; `SchedulerOffset` shows the
    swapped copy with an old offset). `Queued` says that a waiting request has one
    entry, at its offset and short of its end; `Behind` that nothing that runs or is
    paused is ahead of what was scheduled.
  - `PausedStays` (`PausedStaysOut`), without swap-ins and without a prompt that is
    split (`~Splits`; `SchedulerPausedRuns` pauses between two chunks): `OnePlace`.
  - `BestStartsFirst` (`AdmissionOrder`), outside strict mode and as long as no pass
    defers a request, which sends it to the back (`~Defers`), and none gives more than
    two admitted requests back under pressure, which it does last first
    (`~Reverses`). `Orderly` says that waiting and admitted requests that have not
    started are never the wrong way round: in the full order during a pass, in the
    order of arrival among equals between passes, since a later arrival of higher
    priority waits behind until the next sort. `Started` and `Arrivals` say whom the
    order is about.

  Sorting and filtering are written with cardinalities (`StableSort`, `Kept`); that
  they return each entry once is proved from a bijection between the positions and
  their ranks (`RankBijection`), which every action of the pass rests on.

Every safety property a passing run checks is stated by a theorem, except
`PinnedIsKept`: TLC checks it for disjoint prompts, and in general the walk-up of
`evict_coldest_chain` does prune a pinned ancestor of an unpinned leaf, as after a
second turn that extends the first one's prompt. The theorems with the cache on cover
less than the runs in one more respect: TLC also checks `FreeIsUnused`,
`NoStrandedBlock` and `FailsOnlyWhenFull` with chunks (`KvPoolEvict`), which
`Chunked = FALSE` leaves out.

Only model-checked besides: liveness (`Served`, `StepEnds`, `FailsOver`,
`HandoffEnds`), which is out of this prover's reach. The prover has no backend for
induction over data either, nor for recursive operators; the modules with theorems
declare none.

## Not modelled

Speculative decoding's `tentative_append` and `commit`, the self-tuner, the scythe
waitlist and the encoder cache are candidates for further modules. The readiness
dispatcher is never installed. Tensors, graphs, layers, models, quantisation,
training and the kernels of the four backends, which are most of the
repository's lines, compute on floating-point data without a protocol; formats,
plugins and the command line are parsing and I/O. Neither has states a model
checker would explore to advantage.

## Plan

1. Done: pool with prefix cache, scheduler, spill manager; server, hand-off, task
   ring, device allocator; the spill manager's abstract specification.
2. Engine composition: scheduler and pool in one tick, with the retry of a chunk
   after a failed layer, seeding after a failed first pass, and the waitlist of
   scythe.
3. Speculative decoding: `tentative_append`, `commit`, `rollback_to`.
4. Self-tuner: limits that change between passes.
5. An abstract pool that gives and takes blocks, which `KvPool` without sharing
   implements.
6. Proofs: `ClaimsProtect`, `CachedContent` and `LiveContent` for prompts that share
   blocks, with `Orderly` replaced by conditions on the workload; `PinnedIsKept` for
   disjoint prompts; both with chunks.
