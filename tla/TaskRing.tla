------------------------------ MODULE TaskRing ------------------------------
(***************************************************************************)
(* TaskRingContext of grim-backend-rocm and the wave that drains it.  The  *)
(* host launches kernels that write a descriptor into a slot and publish   *)
(* the head counter; a wave on the device claims the slots in tail order.  *)
(* A bounded wave is launched behind every node on the caller's stream; a  *)
(* resident wave parks on the ring's own stream and gives up after an idle *)
(* budget.  The decode step waits for each node with a kernel that spins   *)
(* on the slot's status, synchronises the device, and reads one word per   *)
(* wait back.                                                              *)
(*                                                                         *)
(* Each stream is a queue of launched operations, executed in order; the   *)
(* two streams run concurrently.  Time is counted in ticks that are long   *)
(* against any device step: it passes only while every stream is idle, or  *)
(* held by a parked wave or by a wait whose node is not complete.          *)
(*                                                                         *)
(* Abstractions.  A descriptor is the number of its node.  The head and    *)
(* tail counters do not wrap (the capacity divides 2^32).  The staged      *)
(* launches, which the boundary handoff uses on a ring of its own, and the *)
(* device-side enqueue of dynamic MoE are left out.                        *)
(***************************************************************************)
EXTENDS Naturals, Sequences

CONSTANTS
  Cap,        \* slots of the ring, and words of wait_observed
  StepNodes,  \* ring nodes of a decode step
  MaxNodes,   \* bound: nodes enqueued in a behaviour
  WaveIdle,   \* ticks in RESIDENT_IDLE_POLL_BUDGET polls
  HostIdle,   \* ticks in RESIDENT_WAVE_MAX_IDLE_MS
  WaitSpins,  \* ticks in RESIDENT_WAVE_WAIT_SPINS spins
  Gaps,       \* workload: silences after which the host enqueues
  Reuse,      \* workload: the ring is used again after stop_wave
  Abort       \* workload: values of `resident` with which a step may end at an error

ASSUME RingAssumption ==
  /\ Cap \in Nat \ {0} /\ StepNodes \in 1..Cap /\ MaxNodes \in Nat
  /\ WaveIdle \in Nat \ {0} /\ HostIdle \in Nat /\ WaitSpins \in Nat
  /\ Gaps \subseteq Nat /\ Reuse \in BOOLEAN /\ Abort \subseteq BOOLEAN

Slot   == 0..(Cap - 1)
Node   == 0..(MaxNodes - 1)
Stream == {"caller", "own"}
Free   == Cap                   \* a wave that has claimed no slot

VARIABLES
  pc,        \* where the host is: idle, step, relaunch, wait, launch, sync, stop, drop, closed, gone
  nextHead,  \* next_head
  resident,  \* resident
  resolved,  \* wave_resolved
  stream,    \* ensure_stream has made the ring's own stream
  stopped,   \* stopped
  silence,   \* ticks since wave_last_work_ms
  issued,    \* nodes of the current step, each with its wait
  words,     \* wait_observed
  queue,     \* stream -> operations launched and not finished
  slots,     \* slot -> descriptor and status
  head,      \* head counter on the device
  tail,      \* tail counter on the device
  stop,      \* stop flag on the device
  claimed,   \* stream -> slot its wave is executing
  idle,      \* ticks the parked wave has been idle
  spin,      \* ticks the current wait has been spinning
  freed,     \* the ring's buffers are released
  bad,       \* nodes whose opcode arm reports ST_ERROR
  ran,       \* nodes a wave has executed to ST_COMPLETE
  verdict    \* the nodes of the last verified step, and whether it verified

hostVars == <<pc, nextHead, resident, resolved, stream, stopped, silence, issued, freed, verdict>>
waveVars == <<slots, tail, claimed, idle, ran>>
vars == <<hostVars, waveVars, words, queue, head, stop, spin, bad>>

Write(s, n)  == [op |-> "write", slot |-> s, node |-> n]
Publish(h)   == [op |-> "publish", head |-> h]
Zero         == [op |-> "zero"]
Clear        == [op |-> "clear"]
Wave(r)      == [op |-> "wave", resident |-> r]
Wait(s, w)   == [op |-> "wait", slot |-> s, word |-> w]

Init ==
  /\ pc = "idle" /\ nextHead = 0 /\ resident = FALSE /\ resolved = FALSE
  /\ stream = FALSE /\ stopped = FALSE /\ silence = 0 /\ issued = 0
  /\ words = [w \in Slot |-> "pending"]
  /\ queue = [s \in Stream |-> <<>>]
  /\ slots = [s \in Slot |-> [node |-> MaxNodes, status |-> "pending"]]
  /\ head = 0 /\ tail = 0 /\ stop = FALSE
  /\ claimed = [s \in Stream |-> Free]
  /\ idle = 0 /\ spin = 0 /\ freed = FALSE
  /\ bad \in {{}} \cup {{n} : n \in Node}
  /\ ran = {}
  /\ verdict = [ok |-> FALSE, nodes |-> {}]

Launch(s, ops) == queue' = [queue EXCEPT ![s] = @ \o ops]

-----------------------------------------------------------------------------
(* The decode step.                                                        *)

\* begin_step_waits: the words are zeroed on the caller's stream.
BeginStep ==
  /\ pc = "idle"
  /\ nextHead + StepNodes <= MaxNodes
  /\ pc' = "step"
  /\ issued' = 0
  /\ Launch("caller", <<Zero>>)
  /\ UNCHANGED <<nextHead, resident, resolved, stream, stopped, silence, freed, verdict,
                 waveVars, words, head, stop, spin, bad>>

\* The launches of one node: slot write, head publish and, without a resident
\* wave, the clear of the stop flag and a bounded wave.
NodeLaunches ==
  <<Write(nextHead % Cap, nextHead), Publish(nextHead + 1)>>
    \o IF resident THEN <<>> ELSE <<Clear, Wave(FALSE)>>

\* enqueue_recurrent and drain; a wave believed to be gone is told to stop.
Enqueue ==
  /\ pc = "step"
  /\ issued < StepNodes
  /\ silence \in Gaps
  /\ nextHead' = nextHead + 1
  /\ Launch("caller", NodeLaunches)
  /\ IF resident /\ silence >= HostIdle
     THEN /\ pc' = "relaunch"
          /\ stop' = TRUE
          /\ UNCHANGED silence
     ELSE /\ pc' = "wait"
          /\ silence' = IF resident THEN 0 ELSE silence
          /\ UNCHANGED stop
  /\ UNCHANGED <<resident, resolved, stream, stopped, issued, freed, verdict,
                 waveVars, words, head, spin, bad>>

\* Mutant of FreshWave: the stop flag is not cleared.
FreshWaveStopped == <<Wave(TRUE)>>

\* launch_resident_wave: the clear and the wave.
FreshWave == <<Clear, Wave(TRUE)>>

\* Mutant of WaveStream: the stream the node was launched on.
WaveStreamCaller == "caller"

\* The stream of a resident wave.
WaveStream == "own"

\* The rest of relaunch_expired_wave, whether or not the exit was observed.
Relaunch ==
  /\ pc = "relaunch"
  /\ Launch(WaveStream, FreshWave)
  /\ silence' = 0
  /\ pc' = "wait"
  /\ UNCHANGED <<nextHead, resident, resolved, stream, stopped, issued, freed, verdict,
                 waveVars, words, head, stop, spin, bad>>

\* wait_device_slot_deferred on last_slot.
WaitNode ==
  /\ pc = "wait"
  /\ Launch("caller", <<Wait((nextHead - 1) % Cap, issued)>>)
  /\ issued' = issued + 1
  /\ pc' = IF issued' = StepNodes THEN "sync" ELSE "step"
  /\ UNCHANGED <<nextHead, resident, resolved, stream, stopped, silence, freed, verdict,
                 waveVars, words, head, stop, spin, bad>>

\* Mutant of AllComplete: the last word stands for the step.
LastComplete == words[issued - 1] = "complete"

\* verify_waits: every word of the step.
AllComplete == \A w \in 0..(issued - 1) : words[w] = "complete"

\* synchronize waits for every stream of the device; then verify_waits.
Verify ==
  /\ pc = "sync"
  /\ \A s \in Stream : queue[s] = <<>>
  /\ verdict' = [ok    |-> AllComplete,
                 nodes |-> (nextHead - issued)..(nextHead - 1)]
  /\ issued' = 0
  /\ pc' = "idle"
  /\ UNCHANGED <<nextHead, resident, resolved, stream, stopped, silence, freed,
                 waveVars, words, queue, head, stop, spin, bad>>

\* An error of a launch of the walk, behind a node and its wait, returns from the
\* step.  Left out: an error before the first node, which leaves only the zeroing,
\* and a launch of drain or of the wait that fails behind the published head: the
\* node stays in the ring for the next wave, and the caller has an error.
AbortStep ==
  /\ resident \in Abort
  /\ pc \in {"step", "sync"} /\ issued > 0
  /\ pc' = "idle"
  /\ UNCHANGED <<nextHead, resident, resolved, stream, stopped, silence, issued, freed, verdict,
                 waveVars, words, queue, head, stop, spin, bad>>

-----------------------------------------------------------------------------
(* The life of the resident wave, and of the ring.                         *)

\* launch_resident: the stream is made and the clear of the stop flag
\* launched ...
LaunchResident ==
  /\ pc = "idle"
  /\ ~resident
  /\ stream' = TRUE
  /\ Launch("own", <<Clear>>)
  /\ pc' = "launch"
  /\ UNCHANGED <<nextHead, resident, resolved, stopped, silence, issued, freed, verdict,
                 waveVars, words, head, stop, spin, bad>>

\* resolve_wave_kernel runs a wave over a scratch ring on the caller's stream
\* and waits for it, once per ring.
Resolved == resolved \/ queue["caller"] = <<>>

\* ... then the wave.
LaunchWave ==
  /\ pc = "launch"
  /\ Resolved
  /\ resolved' = TRUE
  /\ resident' = TRUE
  /\ Launch("own", <<Wave(TRUE)>>)
  /\ pc' = "idle"
  /\ UNCHANGED <<nextHead, stream, stopped, silence, issued, freed, verdict,
                 waveVars, words, head, stop, spin, bad>>

\* stop_wave: no work when an earlier call has confirmed the exit.
StopWave ==
  /\ pc = "idle"
  /\ ~stopped
  /\ stop' = TRUE
  /\ pc' = "stop"
  /\ UNCHANGED <<nextHead, resident, resolved, stream, stopped, silence, issued, freed, verdict,
                 waveVars, words, queue, head, spin, bad>>

\* Drop: the wave is stopped first, unless there never was one.
Drop ==
  /\ pc \in {"idle", "closed"}
  /\ IF stream /\ ~stopped
     THEN /\ stop' = TRUE
          /\ pc' = "drop"
          /\ UNCHANGED freed
     ELSE /\ pc' = "gone"
          /\ freed' = TRUE
          /\ UNCHANGED stop
  /\ UNCHANGED <<nextHead, resident, resolved, stream, stopped, silence, issued, verdict,
                 waveVars, words, queue, head, spin, bad>>

\* Mutant of ExitConfirmed: the flag is set, so the wave is taken to be gone.
ExitConfirmedByFlag == stop

\* wait_for_wave_exit: hipStreamQuery finds the ring's stream idle.
ExitConfirmed == queue["own"] = <<>>

\* The poll for the exit ends: confirmed, or not (budget spent, query error).
\* Without a stream there is nothing to ask.
PollExit ==
  /\ pc \in {"stop", "drop"}
  /\ \E gone \in IF stream THEN {ExitConfirmed, FALSE} ELSE {TRUE} :
       /\ stopped' = gone
       /\ freed' = (gone /\ pc = "drop")
  /\ pc' = IF pc = "drop" THEN "gone" ELSE IF Reuse THEN "idle" ELSE "closed"
  /\ UNCHANGED <<nextHead, resident, resolved, stream, silence, issued, verdict,
                 waveVars, words, queue, head, stop, spin, bad>>

-----------------------------------------------------------------------------
(* The device: the operation at the head of a stream.                      *)

AtHead(s, o) == queue[s] # <<>> /\ Head(queue[s]).op = o

Pop(s) == queue' = [queue EXCEPT ![s] = Tail(@)]

\* grim_scythe_write_slot, grim_scythe_publish_head, the memset, the clear.
Execute(s) ==
  /\ \E o \in {"write", "publish", "zero", "clear"} : AtHead(s, o)
  /\ LET o == Head(queue[s]) IN
       /\ slots' = IF o.op = "write"
                   THEN [slots EXCEPT ![o.slot] = [node |-> o.node, status |-> "pending"]]
                   ELSE slots
       /\ head' = IF o.op = "publish" THEN o.head ELSE head
       /\ words' = IF o.op = "zero" THEN [w \in Slot |-> "pending"] ELSE words
       /\ stop' = IF o.op = "clear" THEN FALSE ELSE stop
  /\ Pop(s)
  /\ UNCHANGED <<hostVars, tail, claimed, idle, ran, spin, bad>>

\* grim_scythe_wait_descriptor: the slot is complete, or the spins are spent.
WaitEnds ==
  /\ AtHead("caller", "wait")
  /\ LET o == Head(queue["caller"]) IN
       /\ slots[o.slot].status = "complete" \/ spin = WaitSpins
       /\ words' = [words EXCEPT ![o.word] = slots[o.slot].status]
  /\ spin' = 0
  /\ Pop("caller")
  /\ UNCHANGED <<hostVars, waveVars, head, stop, bad>>

Polls(s) == AtHead(s, "wave") /\ claimed[s] = Free

\* Mutant of Expired: the wave parks for as long as it is not stopped.
ExpiredNever == FALSE

\* The idle budget is spent.
Expired == idle >= WaveIdle

\* The wave leaves its poll loop and leaves the stop flag set.
WaveExit(s) ==
  /\ Polls(s)
  /\ \/ Expired
     \/ stop
     \/ head = tail /\ ~Head(queue[s]).resident
  /\ stop' = TRUE
  /\ idle' = 0
  /\ Pop(s)
  /\ UNCHANGED <<hostVars, slots, tail, claimed, ran, words, head, spin, bad>>

\* The queue is not empty.
HasWork == tail # head

\* The slot at the tail is claimed, or skipped when it is not pending.
WaveClaim(s) ==
  /\ Polls(s)
  /\ ~Expired /\ ~stop
  /\ HasWork
  /\ LET c == tail % Cap IN
       IF slots[c].status = "pending"
       THEN /\ slots' = [slots EXCEPT ![c].status = "running"]
            /\ claimed' = [claimed EXCEPT ![s] = c]
            /\ UNCHANGED tail
       ELSE /\ tail' = tail + 1
            /\ UNCHANGED <<slots, claimed>>
  /\ UNCHANGED <<hostVars, idle, ran, words, queue, head, stop, spin, bad>>

\* The task ends, complete or in error; the tail advances for both.
WaveDone(s) ==
  /\ claimed[s] # Free
  /\ LET c == claimed[s]
         n == slots[c].node
     IN /\ slots' = [slots EXCEPT ![c].status = IF n \in bad THEN "error" ELSE "complete"]
        /\ ran' = IF n \in bad THEN ran ELSE ran \cup {n}
  /\ claimed' = [claimed EXCEPT ![s] = Free]
  /\ tail' = tail + 1
  /\ idle' = 0
  /\ UNCHANGED <<hostVars, words, queue, head, stop, spin, bad>>

\* A stream that holds nothing up: empty, a parked wave, or a wait that spins.
Parked(s) == /\ Polls(s) /\ Head(queue[s]).resident
             /\ ~stop /\ head = tail /\ ~Expired
Spins     == /\ AtHead("caller", "wait") /\ spin < WaitSpins
             /\ slots[Head(queue["caller"]).slot].status # "complete"
Resting(s) == queue[s] = <<>> \/ Parked(s) \/ (s = "caller" /\ Spins)

\* Time passes.
Tick ==
  /\ \A s \in Stream : Resting(s)
  /\ pc \notin {"relaunch", "wait", "launch"}
  /\ silence < HostIdle \/ Spins \/ Parked("own")
  /\ silence' = IF silence < HostIdle THEN silence + 1 ELSE silence
  /\ idle' = IF idle < WaveIdle /\ \E s \in Stream : Parked(s) THEN idle + 1 ELSE idle
  /\ spin' = IF Spins THEN spin + 1 ELSE spin
  /\ UNCHANGED <<pc, nextHead, resident, resolved, stream, stopped, issued, freed, verdict,
                 slots, tail, claimed, ran, words, queue, head, stop, bad>>

HostStep == Relaunch \/ WaitNode \/ Verify \/ LaunchWave \/ PollExit

DeviceStep(s) == Execute(s) \/ WaveExit(s) \/ WaveClaim(s) \/ WaveDone(s)

Next ==
  \/ BeginStep \/ Enqueue \/ AbortStep \/ LaunchResident \/ StopWave \/ Drop
  \/ HostStep
  \/ \E s \in Stream : DeviceStep(s)
  \/ WaitEnds
  \/ Tick

\* The host finishes the call it is in and the device what was launched.
Fairness ==
  /\ WF_vars(HostStep)
  /\ \A s \in Stream : WF_vars(DeviceStep(s))
  /\ WF_vars(WaitEnds)
  /\ WF_vars(Tick)

Spec == Init /\ [][Next]_vars
FairSpec == Spec /\ Fairness

-----------------------------------------------------------------------------
(* Properties.                                                             *)

\* Type of the state.
TypeOK ==
  /\ pc \in {"idle", "step", "relaunch", "wait", "launch", "sync", "stop", "drop", "closed", "gone"}
  /\ nextHead \in 0..MaxNodes /\ issued \in 0..StepNodes /\ silence \in 0..HostIdle
  /\ {resident, resolved, stream, stopped, stop, freed} \subseteq BOOLEAN
  /\ head \in 0..MaxNodes /\ tail \in 0..MaxNodes
  /\ idle \in 0..WaveIdle /\ spin \in 0..WaitSpins
  /\ words \in [Slot -> {"pending", "running", "complete", "error"}]
  /\ slots \in [Slot -> [node : 0..MaxNodes, status : {"pending", "running", "complete", "error"}]]
  /\ claimed \in [Stream -> 0..Cap]
  /\ ran \subseteq Node /\ bad \subseteq Node

\* verify_waits: "2 (ST_COMPLETE) when EVERY wait saw its descriptor finish":
\* a step that verifies has had every one of its nodes executed, whatever
\* errors, expiries and timeouts happened in it and before it.
VerifiedMeansRan == verdict.ok => verdict.nodes \subseteq ran

\* "there is never a second wave racing the first for the ring's slots".
OneWave == \A s, t \in Stream : AtHead(s, "wave") /\ AtHead(t, "wave") => s = t

\* Drop: "freeing device memory under a live kernel is a use-after-free that
\* wedges the device".
BuffersOutliveWave == freed => queue["own"] = <<>>

\* drain: "a node is never stranded by an expired wave": with every stream at
\* rest, no node is left in the ring unless an errored node held its step up
\* or the wave was told to stop.
NoStrandedNode ==
  /\ bad = {}
  /\ pc \in {"idle", "step", "sync"}
  /\ \A s \in Stream : Resting(s)
  => head = tail

\* "A host that synchronises the device while the wave is parked waits for the
\* wave, and the wave waits for the host": every step still gets its verdict.
StepEnds == pc = "sync" ~> pc # "sync"

=============================================================================
