--------------------------- MODULE TaskRingProofs ---------------------------
(***************************************************************************)
(* Proofs about TaskRing, for any capacity, step length and idle budgets:  *)
(* a step that verifies ran all of its nodes, there is never a second wave *)
(* at work and, when the ring is not used after stop_wave, its buffers are *)
(* released only after the wave is gone and no node is stranded by a wave  *)
(* that gave up.                                                           *)
(***************************************************************************)
EXTENDS TaskRing, SequenceTheorems, TLAPS

Status == {"pending", "running", "complete", "error"}

CallerOps ==
  [op : {"write"}, slot : Slot, node : Nat] \cup [op : {"publish"}, head : Nat]
    \cup {Zero, Clear, Wave(FALSE)} \cup [op : {"wait"}, slot : Slot, word : Slot]
OwnOps == {Clear, Wave(TRUE)}

Caller == queue["caller"]
Own    == queue["own"]

\* What the proofs need of the types: the ring's own stream only ever carries
\* resident waves and the clears in front of them.
Types ==
  /\ nextHead \in Nat /\ issued \in 0..StepNodes /\ tail \in Nat
  /\ words \in [Slot -> Status]
  /\ slots \in [Slot -> [node : Nat, status : Status]]
  /\ DOMAIN queue = Stream
  /\ Caller \in Seq(CallerOps) /\ Own \in Seq(OwnOps)
  /\ claimed \in [Stream -> 0..Cap]
  /\ pc \in {"wait", "relaunch"} => issued < StepNodes /\ nextHead > 0

Writes(q, i, s) == q[i].op = "write" /\ q[i].slot = s
ZeroAfter(q, i) == \E j \in 1..Len(q) : j > i /\ q[j].op = "zero"

\* A stream with the launches q over the slots sl finds node n in slot s when
\* it reaches its position i.
SeenIn(q, sl, s, i, n) ==
  \/ /\ sl[s].node = n
     /\ \A k \in 1..Len(q) : k < i => ~ Writes(q, k, s)
  \/ \E j \in 1..Len(q) :
       /\ j < i /\ Writes(q, j, s) /\ q[j].node = n
       /\ \A k \in 1..Len(q) : j < k /\ k < i => ~ Writes(q, k, s)

\* The waits that no zeroing of the words follows are among the m waits of a
\* step whose first node is b, and find the node they are for.
WaitsIn(q, sl, b, m) ==
  \A i \in 1..Len(q) :
    q[i].op = "wait" /\ ~ ZeroAfter(q, i) =>
      q[i].word < m /\ SeenIn(q, sl, q[i].slot, i, b + q[i].word)

\* A word whose wait is over is complete only if its node is in r.
WordsIn(q, ws, b, m, r) ==
  \A w \in 0..(m - 1) :
    /\ ~ ZeroAfter(q, 0)
    /\ \A i \in 1..Len(q) : q[i].op = "wait" => q[i].word # w
    /\ ws[w] = "complete"
    => b + w \in r

\* The first node of the current step.
Base == nextHead - issued - (IF pc \in {"wait", "relaunch"} THEN 1 ELSE 0)

\* A completed slot holds a node that ran.
CompleteRan == \A s \in Slot : slots[s].status = "complete" => slots[s].node \in ran

\* The waits of the current step find their nodes, and so will the one about
\* to be launched; their words say complete only of nodes that ran.
WaitsSee == WaitsIn(Caller, slots, Base, issued)
NextWaitSees ==
  pc \in {"wait", "relaunch"} =>
    SeenIn(Caller, slots, (nextHead - 1) % Cap, Len(Caller) + 1, nextHead - 1)
WordsRan == WordsIn(Caller, words, Base, issued, ran)

Verified == Types /\ CompleteRan /\ WaitsSee /\ NextWaitSees /\ WordsRan /\ VerifiedMeansRan

\* Who has a wave: the caller's stream before launch_resident, the ring's own
\* stream after it.
HasWave(q) == \E i \in 1..Len(q) : q[i].op = "wave"
Residence ==
  /\ resolved = resident
  /\ pc = "relaunch" => resident
  /\ pc = "launch" => ~ resident
  /\ HasWave(Caller) => ~ resident
  /\ HasWave(Own) => resident

\* The ring's own stream is empty before it is made and after a confirmed stop.
Closing ==
  /\ Own # <<>> => stream /\ ~ stopped
  /\ resident => stream
  /\ pc = "launch" => stream
  /\ pc = "drop" => ~ freed
  /\ stopped => pc \in {"closed", "gone"}
  /\ freed => pc = "gone"
  /\ BuffersOutliveWave

-----------------------------------------------------------------------------
(* The two queues.                                                         *)

\* What a launch appends is typed for the stream it is launched on.
LEMMA OpTypes ==
  /\ Zero \in CallerOps /\ Clear \in CallerOps /\ Wave(FALSE) \in CallerOps
  /\ \A s \in Slot, n \in Nat : Write(s, n) \in CallerOps
  /\ \A h \in Nat : Publish(h) \in CallerOps
  /\ \A s, w \in Slot : Wait(s, w) \in CallerOps
  /\ Clear \in OwnOps /\ Wave(TRUE) \in OwnOps
BY DEF CallerOps, OwnOps, Zero, Clear, Wave, Write, Publish, Wait

LEMMA WaveOps ==
  /\ <<Clear>> \in Seq(OwnOps) /\ <<Wave(TRUE)>> \in Seq(OwnOps) /\ FreshWave \in Seq(OwnOps)
  /\ Len(FreshWave) = 2 /\ FreshWave[2] = Wave(TRUE)
<1> DEFINE c == Clear
           w == Wave(TRUE)
<1>1. c \in OwnOps /\ w \in OwnOps
  BY OpTypes
<1>2. FreshWave = <<c, w>>
  BY DEF FreshWave
<1> HIDE DEF c, w
<1>3. <<c>> \in Seq(OwnOps) /\ <<w>> \in Seq(OwnOps) /\ <<c, w>> \in Seq(OwnOps)
  BY <1>1
<1>4. Len(<<c, w>>) = 2 /\ <<c, w>>[2] = w
  OBVIOUS
<1>5. /\ <<c>> \in Seq(OwnOps) /\ <<w>> \in Seq(OwnOps) /\ FreshWave \in Seq(OwnOps)
      /\ Len(FreshWave) = 2 /\ FreshWave[2] = w
  BY <1>2, <1>3, <1>4
<1> QED
  BY <1>5, Zenon DEF c, w

\* What an operation of the caller's stream is, by its kind.
LEMMA CallerOp ==
  ASSUME NEW o \in CallerOps
  PROVE  /\ o.op \in {"write", "publish", "zero", "clear", "wave", "wait"}
         /\ o.op = "write" => o.slot \in Slot /\ o.node \in Nat
         /\ o.op = "wait" => o.slot \in Slot /\ o.word \in Slot
BY DEF CallerOps, Zero, Clear, Wave

\* What an operation of the ring's own stream is.
LEMMA OwnOp ==
  ASSUME NEW o \in OwnOps
  PROVE  o.op \in {"clear", "wave"}
BY DEF OwnOps, Clear, Wave

\* A launch on the caller's stream.
LEMMA LaunchCaller ==
  ASSUME Types, NEW ops \in Seq(CallerOps), Launch("caller", ops)
  PROVE  /\ DOMAIN queue' = Stream /\ Own' = Own /\ Caller' \in Seq(CallerOps)
         /\ Caller' = Caller \o ops /\ Len(Caller') = Len(Caller) + Len(ops)
         /\ \A i \in 1..Len(Caller) : Caller'[i] = Caller[i]
         /\ \A i \in 1..Len(ops) : Caller'[Len(Caller) + i] = ops[i]
<1>1. Caller' = Caller \o ops /\ Own' = Own /\ DOMAIN queue' = Stream
  BY DEF Launch, Types, Caller, Own, Stream
<1>2. Caller \in Seq(CallerOps)
  BY DEF Types
<1> QED
  BY <1>1, <1>2

\* A launch on the ring's own stream.
LEMMA LaunchOwn ==
  ASSUME Types, NEW ops \in Seq(OwnOps), Launch("own", ops)
  PROVE  /\ DOMAIN queue' = Stream /\ Caller' = Caller
         /\ Own' = Own \o ops /\ Own' \in Seq(OwnOps)
<1>1. Own' = Own \o ops /\ Caller' = Caller /\ DOMAIN queue' = Stream
  BY DEF Launch, Types, Caller, Own, Stream
<1>2. Own \in Seq(OwnOps)
  BY DEF Types
<1> QED
  BY <1>1, <1>2

\* The end of the operation at the head of the caller's stream.
LEMMA PopCaller ==
  ASSUME Types, Caller # <<>>, Pop("caller")
  PROVE  /\ DOMAIN queue' = Stream /\ Own' = Own /\ Caller' \in Seq(CallerOps)
         /\ Len(Caller) > 0 /\ Len(Caller') = Len(Caller) - 1
         /\ Head(Caller) = Caller[1] /\ Caller[1] \in CallerOps
         /\ \A i \in 1..Len(Caller') : Caller'[i] = Caller[i + 1]
<1>1. Caller' = Tail(Caller) /\ Own' = Own /\ DOMAIN queue' = Stream
  BY DEF Pop, Types, Caller, Own, Stream
<1>2. Caller \in Seq(CallerOps)
  BY DEF Types
<1>3. Len(Caller) \in Nat /\ Len(Caller) > 0
  BY <1>2
<1>4. Tail(Caller) \in Seq(CallerOps) /\ Len(Tail(Caller)) = Len(Caller) - 1
  BY <1>2, <1>3
<1>5. \A i \in 1..Len(Tail(Caller)) : Tail(Caller)[i] = Caller[i + 1]
  BY <1>2, <1>3
<1>6. Head(Caller) = Caller[1] /\ Caller[1] \in CallerOps
  BY <1>2, <1>3
<1> QED
  BY <1>1, <1>3, <1>4, <1>5, <1>6

\* The end of the operation at the head of the ring's own stream.
LEMMA PopOwn ==
  ASSUME Types, Own # <<>>, Pop("own")
  PROVE  /\ DOMAIN queue' = Stream /\ Caller' = Caller /\ Own' \in Seq(OwnOps)
         /\ Len(Own) > 0 /\ Len(Own') = Len(Own) - 1
         /\ Head(Own) = Own[1] /\ Own[1] \in OwnOps
         /\ \A i \in 1..Len(Own') : Own'[i] = Own[i + 1]
<1>1. Own' = Tail(Own) /\ Caller' = Caller /\ DOMAIN queue' = Stream
  BY DEF Pop, Types, Caller, Own, Stream
<1>2. Own \in Seq(OwnOps)
  BY DEF Types
<1>3. Len(Own) \in Nat /\ Len(Own) > 0
  BY <1>2
<1>4. Tail(Own) \in Seq(OwnOps) /\ Len(Tail(Own)) = Len(Own) - 1
  BY <1>2, <1>3
<1>5. \A i \in 1..Len(Tail(Own)) : Tail(Own)[i] = Own[i + 1]
  BY <1>2, <1>3
<1>6. Head(Own) = Own[1] /\ Own[1] \in OwnOps
  BY <1>2, <1>3
<1> QED
  BY <1>1, <1>3, <1>4, <1>5, <1>6

\* Two pairs of operations, one behind the other.
LEMMA PairsConcat ==
  ASSUME NEW S, NEW a \in S, NEW b \in S, NEW c \in S, NEW d \in S
  PROVE  /\ <<a, b>> \o <<c, d>> \in Seq(S) /\ Len(<<a, b>> \o <<c, d>>) = 4
         /\ (<<a, b>> \o <<c, d>>)[1] = a /\ (<<a, b>> \o <<c, d>>)[2] = b
         /\ (<<a, b>> \o <<c, d>>)[3] = c /\ (<<a, b>> \o <<c, d>>)[4] = d
<1> DEFINE q == <<a, b>>
           r == <<c, d>>
<1>1. q \in Seq(S) /\ r \in Seq(S) /\ Len(q) = 2 /\ Len(r) = 2
  OBVIOUS
<1>2. q[1] = a /\ q[2] = b /\ r[1] = c /\ r[2] = d
  OBVIOUS
<1> HIDE DEF q, r
<1>3. q \o r \in Seq(S) /\ Len(q \o r) = Len(q) + Len(r)
  BY <1>1, ConcatProperties
<1>5. \A i \in 1..(Len(q) + Len(r)) : (q \o r)[i] = IF i <= Len(q) THEN q[i] ELSE r[i - Len(q)]
  BY <1>1, ConcatProperties
<1>6. 1 \in 1..4 /\ 2 \in 1..4 /\ 3 \in 1..4 /\ 4 \in 1..4
  OBVIOUS
<1>4. /\ q \o r \in Seq(S) /\ Len(q \o r) = 4
      /\ (q \o r)[1] = a /\ (q \o r)[2] = b /\ (q \o r)[3] = c /\ (q \o r)[4] = d
  BY <1>1, <1>2, <1>3, <1>5, <1>6
<1> QED
  BY <1>4, Zenon DEF q, r

\* The launches of a node.
LEMMA NodeOps ==
  ASSUME Types
  PROVE  /\ NodeLaunches \in Seq(CallerOps) /\ Len(NodeLaunches) \in {2, 4}
         /\ NodeLaunches[1] = Write(nextHead % Cap, nextHead)
         /\ \A i \in 2..Len(NodeLaunches) : NodeLaunches[i].op \in {"publish", "clear", "wave"}
         /\ resident => \A i \in 1..Len(NodeLaunches) : NodeLaunches[i].op # "wave"
<1>1. nextHead \in Nat /\ nextHead + 1 \in Nat /\ nextHead % Cap \in Slot
  BY RingAssumption DEF Types, Slot
<1> DEFINE a == Write(nextHead % Cap, nextHead)
           b == Publish(nextHead + 1)
<1>2. a \in CallerOps /\ b \in CallerOps /\ Clear \in CallerOps /\ Wave(FALSE) \in CallerOps
  BY <1>1, OpTypes
<1>3. b.op = "publish" /\ Clear.op = "clear" /\ Wave(FALSE).op = "wave" /\ a.op = "write"
  BY DEF Publish, Clear, Wave, Write
<1>4. NodeLaunches = <<a, b>> \o IF resident THEN <<>> ELSE <<Clear, Wave(FALSE)>>
  BY DEF NodeLaunches
<1> HIDE DEF a, b
<1>5. CASE resident
  <2>1. NodeLaunches = <<a, b>>
    BY <1>4, <1>5, <1>2, ConcatEmptySeq
  <2> QED
    BY <2>1, <1>2, <1>3, <1>5 DEF a
<1>6. CASE ~ resident
  <2> DEFINE c == Clear
             d == Wave(FALSE)
  <2>1. NodeLaunches = <<a, b>> \o <<c, d>>
    BY <1>4, <1>6
  <2>2. c \in CallerOps /\ d \in CallerOps /\ c.op = "clear" /\ d.op = "wave"
    BY <1>2, <1>3
  <2> HIDE DEF c, d
  <2>4. NodeLaunches \in Seq(CallerOps) /\ Len(NodeLaunches) = 4
    BY <1>2, <2>1, <2>2, PairsConcat
  <2>5. NodeLaunches[1] = a /\ NodeLaunches[2] = b /\ NodeLaunches[3] = c /\ NodeLaunches[4] = d
    BY <1>2, <2>1, <2>2, PairsConcat
  <2>6. \A i \in 2..4 : i = 2 \/ i = 3 \/ i = 4
    OBVIOUS
  <2>7. \A i \in 2..Len(NodeLaunches) : NodeLaunches[i].op \in {"publish", "clear", "wave"}
    BY <2>2, <2>4, <2>5, <2>6, <1>3
  <2> QED
    BY <2>4, <2>5, <2>7, <1>6 DEF a
<1> QED
  BY <1>5, <1>6

-----------------------------------------------------------------------------
(* Types.                                                                  *)

LEMMA SlotFacts ==
  /\ Cap \in Nat /\ Cap > 0 /\ StepNodes \in Nat /\ StepNodes > 0 /\ StepNodes <= Cap
  /\ \A n \in Nat : n % Cap \in Slot
  /\ \A w \in Nat : w < StepNodes => w \in Slot
BY RingAssumption DEF Slot

LEMMA TypesInit == Init => Types
<1> SUFFICES ASSUME Init PROVE Types
  OBVIOUS
<1>1. Caller = <<>> /\ Own = <<>> /\ DOMAIN queue = Stream
  BY DEF Init, Caller, Own, Stream
<1>2. Caller \in Seq(CallerOps) /\ Own \in Seq(OwnOps)
  BY <1>1
<1>3. slots \in [Slot -> [node : Nat, status : Status]] /\ words \in [Slot -> Status]
  BY RingAssumption DEF Init, Status
<1>4. claimed \in [Stream -> 0..Cap]
  BY RingAssumption DEF Init, Free
<1>5. nextHead \in Nat /\ issued \in 0..StepNodes /\ tail \in Nat /\ pc = "idle"
  BY RingAssumption DEF Init
<1> QED
  BY <1>1, <1>2, <1>3, <1>4, <1>5 DEF Types

\* The launches of the host are typed.
LEMMA TypesHost ==
  ASSUME Types, BeginStep \/ Enqueue \/ WaitNode \/ Relaunch \/ LaunchResident \/ LaunchWave
  PROVE  Types'
<1>0. words' = words /\ slots' = slots /\ claimed' = claimed /\ tail' = tail
  BY DEF BeginStep, Enqueue, WaitNode, Relaunch, LaunchResident, LaunchWave, waveVars
<1>1. CASE BeginStep
  <2>1. <<Zero>> \in Seq(CallerOps)
    BY OpTypes
  <2>2. DOMAIN queue' = Stream /\ Own' = Own /\ Caller' \in Seq(CallerOps)
    BY <1>1, <2>1, LaunchCaller DEF BeginStep
  <2>3. pc' = "step" /\ issued' = 0 /\ nextHead' = nextHead
    BY <1>1 DEF BeginStep
  <2>4. issued' \in 0..StepNodes
    BY <2>3, SlotFacts
  <2> QED
    BY <1>0, <2>2, <2>3, <2>4 DEF Types
<1>2. CASE Enqueue
  <2>0. Launch("caller", NodeLaunches)
    BY <1>2, Zenon DEF Enqueue
  <2>4. NodeLaunches \in Seq(CallerOps)
    BY NodeOps
  <2>1. DOMAIN queue' = Stream /\ Own' = Own /\ Caller' \in Seq(CallerOps)
    BY <2>0, <2>4, LaunchCaller, Zenon
  <2>2. nextHead' = nextHead + 1 /\ issued < StepNodes /\ issued' = issued
    BY <1>2 DEF Enqueue
  <2>3. nextHead' \in Nat /\ nextHead' > 0
    BY <2>2 DEF Types
  <2> QED
    BY <1>0, <2>1, <2>2, <2>3 DEF Types
<1>3. CASE WaitNode
  <2>1. nextHead \in Nat /\ nextHead > 0 /\ issued \in Nat /\ issued < StepNodes
    BY <1>3, SlotFacts DEF WaitNode, Types
  <2>2. (nextHead - 1) % Cap \in Slot /\ issued \in Slot
    BY <2>1, SlotFacts
  <2>3. <<Wait((nextHead - 1) % Cap, issued)>> \in Seq(CallerOps)
    BY <2>2, OpTypes
  <2>4. DOMAIN queue' = Stream /\ Own' = Own /\ Caller' \in Seq(CallerOps)
    BY <1>3, <2>3, LaunchCaller DEF WaitNode
  <2>5. nextHead' = nextHead /\ issued' = issued + 1 /\ pc' \in {"sync", "step"}
    BY <1>3 DEF WaitNode
  <2>6. issued' \in 0..StepNodes
    BY <2>1, <2>5, SlotFacts
  <2> QED
    BY <1>0, <2>1, <2>4, <2>5, <2>6 DEF Types
<1>4. CASE Relaunch
  <2>1. FreshWave \in Seq(OwnOps)
    BY WaveOps
  <2>2. DOMAIN queue' = Stream /\ Caller' = Caller /\ Own' \in Seq(OwnOps)
    BY <1>4, <2>1, LaunchOwn DEF Relaunch, WaveStream
  <2>3. nextHead' = nextHead /\ issued' = issued /\ pc = "relaunch" /\ pc' = "wait"
    BY <1>4 DEF Relaunch
  <2> QED
    BY <1>0, <2>2, <2>3 DEF Types
<1>5. CASE LaunchResident
  <2>1. <<Clear>> \in Seq(OwnOps)
    BY OpTypes
  <2>2. DOMAIN queue' = Stream /\ Caller' = Caller /\ Own' \in Seq(OwnOps)
    BY <1>5, <2>1, LaunchOwn DEF LaunchResident
  <2>3. nextHead' = nextHead /\ issued' = issued /\ pc' = "launch"
    BY <1>5 DEF LaunchResident
  <2> QED
    BY <1>0, <2>2, <2>3 DEF Types
<1>6. CASE LaunchWave
  <2>1. <<Wave(TRUE)>> \in Seq(OwnOps)
    BY WaveOps
  <2>2. DOMAIN queue' = Stream /\ Caller' = Caller /\ Own' \in Seq(OwnOps)
    BY <1>6, <2>1, LaunchOwn DEF LaunchWave
  <2>3. nextHead' = nextHead /\ issued' = issued /\ pc' = "idle"
    BY <1>6 DEF LaunchWave
  <2> QED
    BY <1>0, <2>2, <2>3 DEF Types
<1> QED
  BY <1>1, <1>2, <1>3, <1>4, <1>5, <1>6

\* The steps of the host that launch nothing.
LEMMA TypesQuiet ==
  ASSUME Types, Verify \/ AbortStep \/ StopWave \/ Drop \/ PollExit \/ Tick \/ UNCHANGED vars
  PROVE  Types'
<1>1. /\ words' = words /\ slots' = slots /\ claimed' = claimed /\ queue' = queue
      /\ nextHead' = nextHead /\ tail' = tail
  BY DEF Verify, AbortStep, StopWave, Drop, PollExit, Tick, vars, hostVars, waveVars
<1>2. issued' \in {0, issued} /\ (pc' \in {"wait", "relaunch"} => pc' = pc /\ issued' = issued)
  BY DEF Verify, AbortStep, StopWave, Drop, PollExit, Tick, vars, hostVars
<1>3. issued' \in 0..StepNodes
  BY <1>2, SlotFacts DEF Types
<1> QED
  BY <1>1, <1>2, <1>3 DEF Types, Caller, Own

\* The device.
LEMMA TypesDevice ==
  ASSUME Types, NEW s \in Stream, DeviceStep(s) \/ WaitEnds
  PROVE  Types'
<1>0. UNCHANGED <<pc, nextHead, issued>>
  BY DEF DeviceStep, Execute, WaveExit, WaveClaim, WaveDone, WaitEnds, hostVars
<1>7. tail' \in Nat
  <2>1. tail' \in {tail, tail + 1}
    BY DEF DeviceStep, Execute, WaveExit, WaveClaim, WaveDone, WaitEnds, waveVars
  <2> QED
    BY <2>1 DEF Types
<1> SUFFICES /\ words' \in [Slot -> Status] /\ slots' \in [Slot -> [node : Nat, status : Status]]
             /\ claimed' \in [Stream -> 0..Cap]
             /\ DOMAIN queue' = Stream /\ Caller' \in Seq(CallerOps) /\ Own' \in Seq(OwnOps)
  BY <1>0, <1>7 DEF Types
<1>1. ASSUME NEW t \in Stream, queue[t] # <<>>, Pop(t)
      PROVE  /\ DOMAIN queue' = Stream /\ Caller' \in Seq(CallerOps) /\ Own' \in Seq(OwnOps)
             /\ t = "caller" => Head(queue[t]) \in CallerOps
             /\ t = "own" => Head(queue[t]) \in OwnOps
  <2>1. CASE t = "caller"
    BY <1>1, <2>1, PopCaller DEF Caller, Types
  <2>2. CASE t = "own"
    BY <1>1, <2>2, PopOwn DEF Own, Types
  <2> QED
    BY <2>1, <2>2 DEF Stream
<1>2. CASE Execute(s)
  <2> DEFINE o == Head(queue[s])
  <2>1. queue[s] # <<>> /\ Pop(s) /\ o.op \in {"write", "publish", "zero", "clear"} /\ claimed' = claimed
    BY <1>2 DEF Execute, AtHead
  <2>2. o.op = "write" => o.slot \in Slot /\ o.node \in Nat
    BY <2>1, <1>1, CallerOp, OwnOp DEF Stream
  <2>3. slots' = (IF o.op = "write" THEN [slots EXCEPT ![o.slot] = [node |-> o.node, status |-> "pending"]]
                  ELSE slots)
    BY <1>2 DEF Execute
  <2>4. words' = (IF o.op = "zero" THEN [w \in Slot |-> "pending"] ELSE words)
    BY <1>2 DEF Execute
  <2> HIDE DEF o
  <2>5. slots' \in [Slot -> [node : Nat, status : Status]]
    BY <2>2, <2>3 DEF Types, Status
  <2>6. words' \in [Slot -> Status]
    BY <2>4 DEF Types, Status
  <2> QED
    BY <1>1, <2>1, <2>5, <2>6 DEF Types
<1>3. CASE WaveExit(s)
  <2>1. queue[s] # <<>> /\ Pop(s) /\ UNCHANGED <<slots, words, claimed>>
    BY <1>3 DEF WaveExit, Polls, AtHead
  <2> QED
    BY <1>1, <2>1 DEF Types
<1>4. CASE WaveClaim(s)
  <2> DEFINE c == tail % Cap
  <2>1. UNCHANGED <<words, queue>>
    BY <1>4 DEF WaveClaim
  <2>2. \/ slots' = slots /\ claimed' = claimed
        \/ /\ slots' = [slots EXCEPT ![c].status = "running"]
           /\ claimed' = [claimed EXCEPT ![s] = c]
    BY <1>4 DEF WaveClaim
  <2>3. c \in 0..Cap
    BY SlotFacts DEF Types, Slot
  <2> HIDE DEF c
  <2>4. slots' \in [Slot -> [node : Nat, status : Status]]
    <3>1. CASE slots' = slots
      BY <3>1 DEF Types
    <3>2. CASE slots' = [slots EXCEPT ![c].status = "running"]
      BY <3>2 DEF Types, Status
    <3> QED
      BY <2>2, <3>1, <3>2
  <2>5. claimed' \in [Stream -> 0..Cap]
    <3>1. claimed \in [Stream -> 0..Cap] /\ (claimed' = claimed \/ claimed' = [claimed EXCEPT ![s] = c])
      BY <2>2 DEF Types
    <3> QED
      BY <3>1, <2>3
  <2> QED
    BY <2>1, <2>4, <2>5 DEF Types, Caller, Own
<1>5. CASE WaveDone(s)
  <2> DEFINE c == claimed[s]
             n == slots[c].node
  <2>1. UNCHANGED <<words, queue>>
    BY <1>5 DEF WaveDone
  <2>2. /\ slots' = [slots EXCEPT ![c].status = IF n \in bad THEN "error" ELSE "complete"]
        /\ claimed' = [claimed EXCEPT ![s] = Free]
    BY <1>5 DEF WaveDone
  <2>3. slots' \in [Slot -> [node : Nat, status : Status]]
    BY <2>2 DEF Types, Status
  <2>4. claimed' \in [Stream -> 0..Cap]
    <3>1. Free \in 0..Cap
      BY SlotFacts DEF Free
    <3>2. claimed \in [Stream -> 0..Cap]
      BY DEF Types
    <3> QED
      BY <2>2, <3>1, <3>2
  <2> QED
    BY <2>1, <2>3, <2>4 DEF Types, Caller, Own
<1>6. CASE WaitEnds
  <2> DEFINE o == Head(queue["caller"])
  <2>1. queue["caller"] # <<>> /\ Pop("caller") /\ o.op = "wait" /\ UNCHANGED <<slots, claimed>>
    BY <1>6 DEF WaitEnds, AtHead, waveVars
  <2>2. words' = [words EXCEPT ![o.word] = slots[o.slot].status]
    BY <1>6 DEF WaitEnds
  <2>3. o \in CallerOps /\ DOMAIN queue' = Stream /\ Caller' \in Seq(CallerOps) /\ Own' \in Seq(OwnOps)
    BY <2>1, <1>1 DEF Stream
  <2>4. o.slot \in Slot
    BY <2>1, <2>3, CallerOp
  <2> HIDE DEF o
  <2>6. slots[o.slot].status \in Status
    BY <2>4 DEF Types
  <2>5. words' \in [Slot -> Status]
    BY <2>2, <2>6 DEF Types
  <2> QED
    BY <2>1, <2>3, <2>5 DEF Types
<1> QED
  BY <1>2, <1>3, <1>4, <1>5, <1>6 DEF DeviceStep

-----------------------------------------------------------------------------
(* What the caller's stream will find, across its launches and its steps.  *)

\* Launches behind a position do not change what it finds.
LEMMA AppendSees ==
  ASSUME NEW q \in Seq(CallerOps), NEW e \in Seq(CallerOps), NEW sl, NEW s, NEW n,
         NEW i \in 1..(Len(q) + 1), SeenIn(q, sl, s, i, n)
  PROVE  SeenIn(q \o e, sl, s, i, n)
<1>1. /\ Len(q \o e) = Len(q) + Len(e) /\ Len(e) \in Nat /\ Len(q) \in Nat
      /\ \A k \in 1..Len(q) : (q \o e)[k] = q[k]
  BY ConcatProperties
<1> DEFINE p == q \o e
<1>2. \A k \in 1..Len(p) : k < i => k \in 1..Len(q) /\ p[k] = q[k]
  BY <1>1
<1>3. \A k \in 1..Len(q) : k \in 1..Len(p) /\ p[k] = q[k]
  BY <1>1
<1> HIDE DEF p
<1>4. SeenIn(p, sl, s, i, n)
  BY <1>2, <1>3 DEF SeenIn, Writes
<1> QED
  BY <1>4 DEF p

\* The step of the stream moves every position forward by one.
LEMMA PopSees ==
  ASSUME NEW q \in Seq(CallerOps), NEW p \in Seq(CallerOps), Len(q) > 0, Len(p) = Len(q) - 1,
         \A k \in 1..Len(p) : p[k] = q[k + 1],
         NEW sl, NEW tl, NEW s, NEW n, NEW i \in Nat, i >= 1,
         tl[s].node = (IF Writes(q, 1, s) THEN q[1].node ELSE sl[s].node),
         SeenIn(q, sl, s, i + 1, n)
  PROVE  SeenIn(p, tl, s, i, n)
<1>1. Len(q) \in Nat /\ Len(p) \in Nat
  OBVIOUS
<1>2. \A k \in 1..Len(p) : k + 1 \in 1..Len(q) /\ (Writes(p, k, s) <=> Writes(q, k + 1, s))
  BY <1>1 DEF Writes
<1>3. CASE sl[s].node = n /\ \A k \in 1..Len(q) : k < i + 1 => ~ Writes(q, k, s)
  <2>1. ~ Writes(q, 1, s)
    BY <1>1, <1>3
  <2>2. \A k \in 1..Len(p) : k < i => ~ Writes(p, k, s)
    BY <1>1, <1>2, <1>3
  <2> QED
    BY <1>3, <2>1, <2>2 DEF SeenIn
<1>4. ASSUME NEW j \in 1..Len(q), j < i + 1, Writes(q, j, s), q[j].node = n,
             \A k \in 1..Len(q) : j < k /\ k < i + 1 => ~ Writes(q, k, s)
      PROVE  SeenIn(p, tl, s, i, n)
  <2>1. \A k \in 1..Len(p) : j - 1 < k /\ k < i => ~ Writes(p, k, s)
    BY <1>1, <1>2, <1>4
  <2>2. CASE j = 1
    BY <1>1, <1>4, <2>1, <2>2 DEF SeenIn
  <2>3. CASE j > 1
    <3>1. j - 1 \in 1..Len(p) /\ j - 1 < i /\ Writes(p, j - 1, s) /\ p[j - 1].node = n
      BY <1>1, <1>2, <1>4, <2>3
    <3> QED
      BY <3>1, <2>1 DEF SeenIn
  <2> QED
    BY <2>2, <2>3
<1> QED
  BY <1>3, <1>4 DEF SeenIn

\* The device changes the status of a slot, not its node.
LEMMA SlotsSee ==
  ASSUME NEW q, NEW sl, NEW tl, NEW s, NEW i, NEW n, tl[s].node = sl[s].node, SeenIn(q, sl, s, i, n)
  PROVE  SeenIn(q, tl, s, i, n)
BY DEF SeenIn

\* Positions of a queue and of the queue with e behind it.
LEMMA AppendAt ==
  ASSUME NEW q \in Seq(CallerOps), NEW e \in Seq(CallerOps)
  PROVE  /\ Len(q \o e) = Len(q) + Len(e) /\ Len(e) \in Nat /\ Len(q) \in Nat
         /\ \A k \in 1..Len(q) : k \in 1..Len(q \o e) /\ (q \o e)[k] = q[k]
         /\ \A k \in 1..Len(e) : Len(q) + k \in 1..Len(q \o e) /\ (q \o e)[Len(q) + k] = e[k]
         /\ \A k \in 1..Len(q \o e) : k \in 1..Len(q) \/ k - Len(q) \in 1..Len(e)
         /\ \A k \in 1..Len(q \o e) : k \notin 1..Len(q) => (q \o e)[k] = e[k - Len(q)]
         /\ \A i \in Nat : ZeroAfter(q, i) => ZeroAfter(q \o e, i)
<1>1. /\ q \o e \in Seq(CallerOps) /\ Len(q \o e) = Len(q) + Len(e)
      /\ Len(e) \in Nat /\ Len(q) \in Nat
  BY ConcatProperties
<1>2. \A k \in 1..(Len(q) + Len(e)) : (q \o e)[k] = IF k <= Len(q) THEN q[k] ELSE e[k - Len(q)]
  BY ConcatProperties
<1> DEFINE p == q \o e
<1>3. Len(p) = Len(q) + Len(e) /\ \A k \in 1..(Len(q) + Len(e)) : p[k] = IF k <= Len(q) THEN q[k] ELSE e[k - Len(q)]
  BY <1>1, <1>2
<1> HIDE DEF p
<1>4. \A k \in 1..Len(q) : k \in 1..Len(p) /\ p[k] = q[k]
  BY <1>1, <1>3
<1>5. ASSUME NEW k \in 1..Len(e) PROVE Len(q) + k \in 1..Len(p) /\ p[Len(q) + k] = e[k]
  <2>1. PICK m \in Nat : m = Len(q)
    BY <1>1
  <2>2. PICK j \in Nat : j = m + k
    BY <2>1
  <2>3. j \in 1..(Len(q) + Len(e)) /\ ~ (j <= Len(q)) /\ j - Len(q) = k
    BY <1>1, <2>1, <2>2
  <2>4. p[j] = e[k]
    BY <1>3, <2>3
  <2> QED
    BY <1>3, <2>1, <2>2, <2>3, <2>4
<1>6. \A k \in 1..Len(p) : k \in 1..Len(q) \/ k - Len(q) \in 1..Len(e)
  BY <1>1, <1>3
<1>7. \A k \in 1..Len(p) : k \notin 1..Len(q) => p[k] = e[k - Len(q)]
  BY <1>1, <1>3
<1>8. \A i \in Nat : ZeroAfter(q, i) => ZeroAfter(p, i)
  BY <1>4 DEF ZeroAfter
<1> QED
  BY <1>1, <1>3, <1>4, <1>5, <1>6, <1>7, <1>8 DEF p

\* Launches without a wait leave the waits what they found.
LEMMA AppendWaits ==
  ASSUME NEW q \in Seq(CallerOps), NEW e \in Seq(CallerOps), NEW sl, NEW b, NEW m,
         \A k \in 1..Len(e) : e[k].op # "wait", WaitsIn(q, sl, b, m)
  PROVE  WaitsIn(q \o e, sl, b, m)
<1> SUFFICES ASSUME NEW i \in 1..Len(q \o e), (q \o e)[i].op = "wait", ~ ZeroAfter(q \o e, i)
             PROVE  (q \o e)[i].word < m /\ SeenIn(q \o e, sl, (q \o e)[i].slot, i, b + (q \o e)[i].word)
  BY DEF WaitsIn
<1>1. i \in 1..Len(q) /\ (q \o e)[i] = q[i] /\ i \in 1..(Len(q) + 1) /\ i \in Nat
  BY AppendAt
<1>2. ~ ZeroAfter(q, i)
  BY <1>1, AppendAt
<1>3. q[i].word < m /\ SeenIn(q, sl, q[i].slot, i, b + q[i].word)
  BY <1>1, <1>2 DEF WaitsIn
<1> QED
  BY <1>1, <1>3, AppendSees

\* A zeroing of the words ends the claims of every wait in front of it.
LEMMA AppendZero ==
  ASSUME NEW q \in Seq(CallerOps), NEW sl, NEW b, NEW m
  PROVE  WaitsIn(q \o <<Zero>>, sl, b, m)
<1>1. <<Zero>> \in Seq(CallerOps) /\ Len(<<Zero>>) = 1 /\ <<Zero>>[1] = Zero /\ Zero.op = "zero"
  BY OpTypes DEF Zero
<1> DEFINE p == q \o <<Zero>>
<1>2. /\ Len(p) = Len(q) + 1 /\ Len(q) \in Nat /\ p[Len(q) + 1] = Zero
      /\ \A k \in 1..Len(q) : p[k] = q[k]
  BY <1>1, AppendAt
<1> HIDE DEF p
<1>3. ASSUME NEW i \in 1..Len(p), p[i].op = "wait" PROVE ZeroAfter(p, i)
  <2>1. i # Len(p)
    BY <1>1, <1>2, <1>3
  <2>2. Len(p) \in 1..Len(p) /\ Len(p) > i /\ p[Len(p)].op = "zero"
    BY <1>1, <1>2, <2>1
  <2> QED
    BY <2>2 DEF ZeroAfter
<1> QED
  BY <1>3 DEF WaitsIn, p

\* A wait behind the write of its node.
LEMMA AppendWait ==
  ASSUME NEW q \in Seq(CallerOps), NEW sl, NEW b \in Int, NEW m \in Slot, NEW s \in Slot,
         WaitsIn(q, sl, b, m), SeenIn(q, sl, s, Len(q) + 1, b + m)
  PROVE  WaitsIn(q \o <<Wait(s, m)>>, sl, b, m + 1)
<1> DEFINE o == Wait(s, m)
           e == <<o>>
           p == q \o e
<1>1. o \in CallerOps /\ o.op = "wait" /\ o.slot = s /\ o.word = m
  BY OpTypes DEF Wait
<1> HIDE DEF o
<1>2. e \in Seq(CallerOps) /\ Len(e) = 1 /\ e[1] = o
  BY <1>1
<1> HIDE DEF e
<1>3. Len(q) \in Nat /\ m \in Nat
  BY RingAssumption DEF Slot
<1>4. SUFFICES ASSUME NEW i \in 1..Len(p), p[i].op = "wait", ~ ZeroAfter(p, i)
             PROVE  p[i].word < m + 1 /\ SeenIn(p, sl, p[i].slot, i, b + p[i].word)
  BY DEF WaitsIn, e, o
<1>5. CASE i \in 1..Len(q)
  <2>1. p[i] = q[i] /\ i \in 1..(Len(q) + 1) /\ ~ ZeroAfter(q, i)
    BY <1>2, <1>3, <1>4, <1>5, AppendAt
  <2>2. q[i].word < m /\ SeenIn(q, sl, q[i].slot, i, b + q[i].word)
    BY <1>4, <1>5, <2>1 DEF WaitsIn
  <2>3. q[i] \in CallerOps /\ q[i].op = "wait"
    BY <1>4, <1>5, <2>1
  <2>4. q[i].word \in Nat
    BY <2>3, CallerOp, RingAssumption DEF Slot
  <2> QED
    BY <1>2, <1>3, <2>1, <2>2, <2>4, AppendSees
<1>6. CASE i \notin 1..Len(q)
  <2>1. i = Len(q) + 1 /\ p[i] = o
    BY <1>2, <1>3, <1>4, <1>6, AppendAt
  <2>2. SeenIn(p, sl, s, i, b + m)
    BY <1>2, <1>3, <2>1, AppendSees
  <2> QED
    BY <1>1, <1>3, <2>1, <2>2
<1> QED
  BY <1>5, <1>6

\* The step of the stream, with the slots as it leaves them.
LEMMA PopWaits ==
  ASSUME NEW q \in Seq(CallerOps), NEW p \in Seq(CallerOps), Len(q) > 0, Len(p) = Len(q) - 1,
         \A k \in 1..Len(p) : p[k] = q[k + 1], NEW sl, NEW tl, NEW b, NEW m,
         \A s \in Slot : tl[s].node = (IF Writes(q, 1, s) THEN q[1].node ELSE sl[s].node),
         WaitsIn(q, sl, b, m)
  PROVE  WaitsIn(p, tl, b, m)
<1> SUFFICES ASSUME NEW i \in 1..Len(p), p[i].op = "wait", ~ ZeroAfter(p, i)
             PROVE  p[i].word < m /\ SeenIn(p, tl, p[i].slot, i, b + p[i].word)
  BY DEF WaitsIn
<1>1. i + 1 \in 1..Len(q) /\ p[i] = q[i + 1] /\ i \in Nat /\ i >= 1 /\ p[i] \in CallerOps
  OBVIOUS
<1>2. ~ ZeroAfter(q, i + 1)
  <2> SUFFICES ASSUME NEW j \in 1..Len(q), j > i + 1, q[j].op = "zero" PROVE FALSE
    BY DEF ZeroAfter
  <2>1. j - 1 \in 1..Len(p) /\ j - 1 > i /\ p[j - 1] = q[j]
    BY <1>1
  <2> QED
    BY <2>1 DEF ZeroAfter
<1>3. p[i].word < m /\ SeenIn(q, sl, p[i].slot, i + 1, b + p[i].word)
  BY <1>1, <1>2 DEF WaitsIn
<1>4. p[i].slot \in Slot
  BY <1>1, CallerOp
<1> QED
  BY <1>1, <1>3, <1>4, PopSees

\* A status of a slot is not its node.
LEMMA SlotsWaits ==
  ASSUME NEW q \in Seq(CallerOps), NEW sl, NEW tl, NEW b, NEW m,
         \A s \in Slot : tl[s].node = sl[s].node, WaitsIn(q, sl, b, m)
  PROVE  WaitsIn(q, tl, b, m)
<1> SUFFICES ASSUME NEW i \in 1..Len(q), q[i].op = "wait", ~ ZeroAfter(q, i)
             PROVE  q[i].word < m /\ SeenIn(q, tl, q[i].slot, i, b + q[i].word)
  BY DEF WaitsIn
<1>1. q[i].word < m /\ SeenIn(q, sl, q[i].slot, i, b + q[i].word)
  BY DEF WaitsIn
<1>2. q[i] \in CallerOps /\ q[i].slot \in Slot
  BY CallerOp
<1> QED
  BY <1>1, <1>2, SlotsSee

\* The words, when nothing is launched that touches them ...
LEMMA AppendWords ==
  ASSUME NEW q \in Seq(CallerOps), NEW e \in Seq(CallerOps), NEW ws, NEW b, NEW m \in Nat, NEW r,
         WordsIn(q, ws, b, m, r)
  PROVE  WordsIn(q \o e, ws, b, m, r)
<1> DEFINE p == q \o e
<1>1. /\ \A k \in 1..Len(q) : k \in 1..Len(p) /\ p[k] = q[k]
      /\ ZeroAfter(q, 0) => ZeroAfter(p, 0)
  BY AppendAt
<1> HIDE DEF p
<1>2. WordsIn(p, ws, b, m, r)
  BY <1>1 DEF WordsIn
<1> QED
  BY <1>2 DEF p

\* ... when the next wait is launched ...
LEMMA AppendWord ==
  ASSUME NEW q \in Seq(CallerOps), NEW ws, NEW b, NEW m \in Slot, NEW s \in Slot, NEW r,
         WordsIn(q, ws, b, m, r)
  PROVE  WordsIn(q \o <<Wait(s, m)>>, ws, b, m + 1, r)
<1> DEFINE o == Wait(s, m)
           e == <<o>>
           p == q \o e
<1>1. o \in CallerOps /\ o.op = "wait" /\ o.word = m
  BY OpTypes DEF Wait
<1> HIDE DEF o
<1>2. e \in Seq(CallerOps) /\ Len(e) = 1 /\ e[1] = o
  BY <1>1
<1> HIDE DEF e
<1>3. Len(q) \in Nat /\ m \in Nat
  BY RingAssumption DEF Slot
<1>4. Len(q) + 1 \in 1..Len(p) /\ p[Len(q) + 1] = o
  BY <1>2, AppendAt
<1>5. WordsIn(p, ws, b, m, r)
  BY <1>2, <1>3, AppendWords
<1> HIDE DEF p
<1> DEFINE z == m + 1
<1>6. \A w \in 0..(z - 1) : w = m \/ w \in 0..(m - 1)
  BY <1>3
<1> HIDE DEF z
<1>7. WordsIn(p, ws, b, z, r)
  <2> SUFFICES ASSUME NEW w \in 0..(z - 1), ~ ZeroAfter(p, 0), ws[w] = "complete",
                      \A i \in 1..Len(p) : p[i].op = "wait" => p[i].word # w
               PROVE  b + w \in r
    BY DEF WordsIn
  <2>1. w # m
    BY <1>1, <1>4
  <2> QED
    BY <1>5, <1>6, <2>1 DEF WordsIn
<1> QED
  BY <1>7 DEF p, e, o, z

\* ... and when the stream takes a step: a wait leaves in its word the status
\* of the slot, complete only for a node of r; a zeroing leaves none complete.
LEMMA PopWords ==
  ASSUME NEW q \in Seq(CallerOps), NEW p \in Seq(CallerOps), Len(q) > 0, Len(p) = Len(q) - 1,
         \A k \in 1..Len(p) : p[k] = q[k + 1],
         NEW ws, NEW vs, NEW b, NEW m \in Nat, NEW r, WordsIn(q, ws, b, m, r),
         q[1].op = "zero" => \A w \in 0..(m - 1) : vs[w] # "complete",
         q[1].op \notin {"zero", "wait"} => vs = ws,
         q[1].op = "wait" => \A w \in 0..(m - 1) : w # q[1].word => vs[w] = ws[w],
         q[1].op = "wait" /\ ~ ZeroAfter(q, 1) /\ vs[q[1].word] = "complete" => b + q[1].word \in r
  PROVE  WordsIn(p, vs, b, m, r)
<1>1. Len(q) \in Nat /\ Len(p) \in Nat
  OBVIOUS
<1> SUFFICES ASSUME NEW w \in 0..(m - 1), ~ ZeroAfter(p, 0), vs[w] = "complete",
                    \A i \in 1..Len(p) : p[i].op = "wait" => p[i].word # w
             PROVE  b + w \in r
  BY DEF WordsIn
<1>2. ~ ZeroAfter(q, 1)
  <2> SUFFICES ASSUME NEW j \in 1..Len(q), j > 1, q[j].op = "zero" PROVE FALSE
    BY DEF ZeroAfter
  <2>1. j - 1 \in 1..Len(p) /\ j - 1 > 0 /\ p[j - 1] = q[j]
    BY <1>1
  <2> QED
    BY <2>1 DEF ZeroAfter
<1>3. CASE q[1].op = "zero"
  BY <1>3
<1>4. CASE q[1].op = "wait" /\ q[1].word = w
  BY <1>2, <1>4
<1>5. CASE q[1].op # "zero" /\ (q[1].op = "wait" => q[1].word # w)
  <2>1. ws[w] = "complete"
    BY <1>5
  <2>2. ~ ZeroAfter(q, 0)
    <3> SUFFICES ASSUME NEW j \in 1..Len(q), j > 0, q[j].op = "zero" PROVE FALSE
      BY DEF ZeroAfter
    <3>1. j > 1
      BY <1>5
    <3> QED
      BY <1>2, <3>1 DEF ZeroAfter
  <2>3. \A i \in 1..Len(q) : q[i].op = "wait" => q[i].word # w
    <3> SUFFICES ASSUME NEW i \in 1..Len(q), q[i].op = "wait" PROVE q[i].word # w
      OBVIOUS
    <3>1. CASE i = 1
      BY <1>5, <3>1
    <3>2. CASE i > 1
      <4>1. i - 1 \in 1..Len(p) /\ p[i - 1] = q[i]
        BY <1>1, <3>2
      <4> QED
        BY <4>1
    <3> QED
      BY <3>1, <3>2
  <2> QED
    BY <2>1, <2>2, <2>3 DEF WordsIn
<1> QED
  BY <1>3, <1>4, <1>5

-----------------------------------------------------------------------------
(* A step that verifies ran its nodes.                                     *)

LEMMA VerifiedInit == Init => Verified
<1> SUFFICES ASSUME Init PROVE Verified
  OBVIOUS
<1>1. Types
  BY TypesInit
<1>2. Len(Caller) = 0 /\ issued = 0 /\ pc = "idle" /\ ~ verdict.ok
  BY DEF Init, Caller, Stream
<1>3. \A s \in Slot : slots[s].status = "pending"
  BY DEF Init
<1> QED
  BY <1>1, <1>2, <1>3 DEF Verified, CompleteRan, WaitsSee, WaitsIn, NextWaitSees, WordsRan, WordsIn,
                          VerifiedMeansRan

LEMMA BaseType == ASSUME Types PROVE Base \in Int /\ issued \in Nat /\ nextHead \in Nat
BY SlotFacts DEF Types, Base

\* Steps that launch nothing on the caller's stream and leave the step alone.
LEMMA VerifiedQuiet ==
  ASSUME Verified, Types', Caller' = Caller, words' = words, verdict' = verdict,
         nextHead' = nextHead, issued' = issued, ran \subseteq ran', CompleteRan',
         pc' \in {"wait", "relaunch"} <=> pc \in {"wait", "relaunch"},
         \A s \in Slot : slots'[s].node = slots[s].node
  PROVE  Verified'
<1>1. Base' = Base
  BY DEF Base
<1>2. Caller \in Seq(CallerOps) /\ WaitsIn(Caller, slots, Base, issued)
  BY DEF Verified, Types, WaitsSee
<1>3. WaitsIn(Caller, slots', Base, issued)
  BY <1>2, SlotsWaits
<1>4. WaitsSee'
  BY <1>1, <1>3 DEF WaitsSee
<1>5. NextWaitSees'
  <2> SUFFICES ASSUME pc \in {"wait", "relaunch"}
               PROVE  SeenIn(Caller, slots', (nextHead - 1) % Cap, Len(Caller) + 1, nextHead - 1)
    BY DEF NextWaitSees
  <2>1. SeenIn(Caller, slots, (nextHead - 1) % Cap, Len(Caller) + 1, nextHead - 1)
    BY DEF Verified, NextWaitSees
  <2>2. (nextHead - 1) % Cap \in Slot
    BY SlotFacts DEF Verified, Types
  <2> QED
    BY <2>1, <2>2, SlotsSee
<1>6. WordsRan'
  <2>1. WordsIn(Caller, words, Base, issued, ran)
    BY DEF Verified, WordsRan
  <2>2. WordsIn(Caller, words, Base, issued, ran')
    BY <2>1 DEF WordsIn
  <2> QED
    BY <1>1, <2>2 DEF WordsRan
<1>7. VerifiedMeansRan'
  BY DEF Verified, VerifiedMeansRan
<1> QED
  BY <1>4, <1>5, <1>6, <1>7 DEF Verified

LEMMA VerifiedHost ==
  ASSUME Verified, Types', BeginStep \/ Enqueue \/ WaitNode \/ Verify
  PROVE  Verified'
<1>1. /\ words' = words /\ slots' = slots /\ ran' = ran /\ Types
  BY DEF BeginStep, Enqueue, WaitNode, Verify, waveVars, Verified
<1>2. CompleteRan' /\ Caller \in Seq(CallerOps)
  BY <1>1 DEF Verified, CompleteRan, Types
<1>3. Base \in Int /\ issued \in Nat /\ nextHead \in Nat
  BY <1>1, BaseType
<1>4. WaitsIn(Caller, slots, Base, issued) /\ WordsIn(Caller, words, Base, issued, ran)
  BY DEF Verified, WaitsSee, WordsRan
<1>5. CASE BeginStep
  <2>1. issued' = 0 /\ pc' = "step" /\ verdict' = verdict /\ Launch("caller", <<Zero>>)
    BY <1>5 DEF BeginStep
  <2>2. <<Zero>> \in Seq(CallerOps)
    BY OpTypes
  <2>3. Caller' = Caller \o <<Zero>>
    BY <1>1, <2>1, <2>2, LaunchCaller
  <2>4. WaitsSee'
    BY <1>1, <1>2, <2>3, AppendZero DEF WaitsSee
  <2>5. WordsRan'
    BY <2>1 DEF WordsRan, WordsIn
  <2>6. NextWaitSees' /\ VerifiedMeansRan'
    BY <1>1, <2>1 DEF NextWaitSees, VerifiedMeansRan, Verified
  <2> QED
    BY <1>2, <2>4, <2>5, <2>6 DEF Verified
<1>6. CASE Enqueue
  <2> DEFINE e == NodeLaunches
  <2>1. /\ nextHead' = nextHead + 1 /\ issued' = issued /\ pc = "step" /\ verdict' = verdict
        /\ pc' \in {"wait", "relaunch"}
    BY <1>6 DEF Enqueue
  <2>2. Launch("caller", e)
    BY <1>6, Zenon DEF Enqueue
  <2>3. /\ e \in Seq(CallerOps) /\ Len(e) \in {2, 4} /\ e[1] = Write(nextHead % Cap, nextHead)
        /\ \A i \in 2..Len(e) : e[i].op \in {"publish", "clear", "wave"}
    BY <1>1, NodeOps
  <2> HIDE DEF e
  <2>4. Caller' = Caller \o e
    BY <1>1, <2>2, <2>3, LaunchCaller, Zenon
  <2>5. e[1].op = "write" /\ e[1].slot = nextHead % Cap /\ e[1].node = nextHead
    BY <2>3 DEF Write
  <2>6. \A i \in 1..Len(e) : e[i].op \notin {"wait", "zero"} /\ (i > 1 => e[i].op # "write")
    BY <2>3, <2>5
  <2>7. Base' = Base
    BY <1>3, <2>1 DEF Base
  <2>8. WaitsSee' /\ WordsRan'
    BY <1>1, <1>2, <1>3, <1>4, <2>1, <2>3, <2>4, <2>6, <2>7, AppendWaits, AppendWords DEF WaitsSee, WordsRan
  <2>9. SeenIn(Caller \o e, slots, nextHead % Cap, Len(Caller \o e) + 1, nextHead)
    <3> DEFINE j == Len(Caller) + 1
               p == Caller \o e
    <3>1. j \in 1..Len(p) /\ j < Len(p) + 1 /\ p[j] = e[1]
      BY <1>2, <2>3, AppendAt
    <3>2. ASSUME NEW k \in 1..Len(p), j < k PROVE p[k].op # "write"
      <4>1. k - Len(Caller) \in 1..Len(e) /\ k - Len(Caller) > 1 /\ p[k] = e[k - Len(Caller)]
        BY <1>2, <2>3, <3>2, AppendAt
      <4> QED
        BY <4>1, <2>6
    <3> QED
      BY <2>5, <3>1, <3>2 DEF SeenIn, Writes
  <2>10. NextWaitSees'
    <3>1. nextHead' - 1 = nextHead
      BY <1>3, <2>1
    <3> QED
      BY <1>1, <2>4, <2>9, <3>1 DEF NextWaitSees
  <2>11. VerifiedMeansRan'
    BY <1>1, <2>1 DEF Verified, VerifiedMeansRan
  <2> QED
    BY <1>2, <2>8, <2>10, <2>11 DEF Verified
<1>7. CASE WaitNode
  <2> DEFINE s == (nextHead - 1) % Cap
             e == <<Wait(s, issued)>>
  <2>1. /\ nextHead' = nextHead /\ issued' = issued + 1 /\ pc = "wait" /\ verdict' = verdict
        /\ pc' \in {"step", "sync"} /\ Launch("caller", e)
    BY <1>7 DEF WaitNode
  <2>2. s \in Slot /\ issued \in Slot
    BY <1>1, <1>3, <2>1, SlotFacts DEF Types
  <2>3. e \in Seq(CallerOps)
    BY <2>2, OpTypes
  <2>4. Caller' = Caller \o e
    BY <1>1, <2>1, <2>3, LaunchCaller
  <2>5. Base' = Base /\ Base + issued = nextHead - 1
    BY <1>3, <2>1 DEF Base
  <2>6. SeenIn(Caller, slots, s, Len(Caller) + 1, Base + issued)
    BY <2>1, <2>5 DEF Verified, NextWaitSees
  <2> HIDE DEF s
  <2>7. WaitsIn(Caller \o e, slots, Base, issued + 1)
    BY <1>2, <1>3, <1>4, <2>2, <2>6, AppendWait
  <2>8. WordsIn(Caller \o e, words, Base, issued + 1, ran)
    BY <1>2, <1>4, <2>2, AppendWord
  <2>9. WaitsSee' /\ WordsRan'
    BY <1>1, <2>1, <2>4, <2>5, <2>7, <2>8 DEF WaitsSee, WordsRan
  <2>10. NextWaitSees' /\ VerifiedMeansRan'
    BY <1>1, <2>1 DEF NextWaitSees, VerifiedMeansRan, Verified
  <2> QED
    BY <1>2, <2>9, <2>10 DEF Verified
<1>8. CASE Verify
  <2>1. /\ nextHead' = nextHead /\ issued' = 0 /\ pc = "sync" /\ pc' = "idle" /\ queue' = queue
        /\ Caller = <<>>
        /\ verdict' = [ok |-> AllComplete, nodes |-> (nextHead - issued)..(nextHead - 1)]
    BY <1>8 DEF Verify, Stream, Caller
  <2>2. Base = nextHead - issued
    BY <1>3, <2>1 DEF Base
  <2>3. ASSUME AllComplete, NEW n \in (nextHead - issued)..(nextHead - 1) PROVE n \in ran
    <3> DEFINE w == n - Base
    <3>1. w \in 0..(issued - 1) /\ Base + w = n
      BY <1>3, <2>2
    <3>2. words[w] = "complete"
      BY <2>3, <3>1 DEF AllComplete
    <3>3. Len(Caller) = 0
      BY <2>1
    <3> HIDE DEF w
    <3> QED
      BY <1>4, <3>1, <3>2, <3>3 DEF WordsIn, ZeroAfter
  <2>4. VerifiedMeansRan'
    BY <1>1, <2>1, <2>3 DEF VerifiedMeansRan
  <2>5. Len(Caller') = 0
    BY <2>1 DEF Caller
  <2>6. WaitsSee' /\ WordsRan' /\ NextWaitSees'
    BY <2>1, <2>5 DEF WaitsSee, WordsRan, NextWaitSees, WaitsIn, WordsIn
  <2> QED
    BY <1>2, <2>4, <2>6 DEF Verified
<1> QED
  BY <1>5, <1>6, <1>7, <1>8

\* An operation of the caller's stream ends.
LEMMA VerifiedPop ==
  ASSUME Verified, Types', Caller # <<>>, Pop("caller"),
         UNCHANGED <<pc, nextHead, issued, verdict, ran>>, CompleteRan',
         \A s \in Slot : slots'[s].node = (IF Writes(Caller, 1, s) THEN Caller[1].node ELSE slots[s].node),
         Caller[1].op = "zero" => \A w \in Slot : words'[w] # "complete",
         Caller[1].op \notin {"zero", "wait"} => words' = words,
         Caller[1].op = "wait" =>
           /\ \A w \in Slot : w # Caller[1].word => words'[w] = words[w]
           /\ words'[Caller[1].word] = "complete" => slots[Caller[1].slot].node \in ran
  PROVE  Verified'
<1>1. Types
  BY DEF Verified
<1>2. /\ Caller \in Seq(CallerOps) /\ Caller' \in Seq(CallerOps) /\ Len(Caller) > 0
      /\ Len(Caller') = Len(Caller) - 1 /\ \A i \in 1..Len(Caller') : Caller'[i] = Caller[i + 1]
  BY <1>1, PopCaller DEF Types
<1>3. Base' = Base
  BY DEF Base
<1>4. Base \in Int /\ issued \in Nat /\ nextHead \in Nat /\ issued <= StepNodes
  BY <1>1, BaseType, SlotFacts DEF Types
<1>5. WaitsIn(Caller, slots, Base, issued) /\ WordsIn(Caller, words, Base, issued, ran)
  BY DEF Verified, WaitsSee, WordsRan
<1>6. WaitsIn(Caller', slots', Base, issued)
  BY <1>2, <1>5, PopWaits
<1>7. \A w \in 0..(issued - 1) : w \in Slot
  BY <1>4, SlotFacts
<1>8. ASSUME Caller[1].op = "wait", ~ ZeroAfter(Caller, 1), words'[Caller[1].word] = "complete"
      PROVE  Base + Caller[1].word \in ran
  <2>1. 1 \in 1..Len(Caller) /\ Len(Caller) \in Nat
    BY <1>2
  <2>2. SeenIn(Caller, slots, Caller[1].slot, 1, Base + Caller[1].word)
    BY <1>5, <1>8, <2>1 DEF WaitsIn
  <2>3. slots[Caller[1].slot].node = Base + Caller[1].word
    BY <2>1, <2>2 DEF SeenIn
  <2> QED
    BY <1>8, <2>3
<1>9. WordsIn(Caller', words', Base, issued, ran)
  BY <1>2, <1>4, <1>5, <1>7, <1>8, PopWords
<1>10. NextWaitSees'
  <2> SUFFICES ASSUME pc \in {"wait", "relaunch"}
               PROVE  SeenIn(Caller', slots', (nextHead - 1) % Cap, Len(Caller') + 1, nextHead - 1)
    BY DEF NextWaitSees
  <2>1. SeenIn(Caller, slots, (nextHead - 1) % Cap, Len(Caller) + 1, nextHead - 1)
    BY DEF Verified, NextWaitSees
  <2>2. (nextHead - 1) % Cap \in Slot
    BY <1>1, SlotFacts DEF Types
  <2> DEFINE i == Len(Caller') + 1
             c == (nextHead - 1) % Cap
             n == nextHead - 1
  <2>3. i \in Nat /\ i >= 1 /\ i + 1 = Len(Caller) + 1
    BY <1>2
  <2>4. SeenIn(Caller, slots, c, i + 1, n) /\ c \in Slot
    BY <2>1, <2>2, <2>3
  <2> HIDE DEF i, c, n
  <2>5. SeenIn(Caller', slots', c, i, n)
    BY <1>2, <2>3, <2>4, PopSees
  <2> QED
    BY <2>5 DEF i, c, n
<1>11. VerifiedMeansRan'
  BY DEF Verified, VerifiedMeansRan
<1> QED
  BY <1>3, <1>6, <1>9, <1>10, <1>11 DEF Verified, WaitsSee, WordsRan

LEMMA VerifiedDevice ==
  ASSUME Verified, Types', NEW s \in Stream, DeviceStep(s) \/ WaitEnds
  PROVE  Verified'
<1>0. /\ UNCHANGED <<pc, nextHead, issued, verdict>> /\ Types /\ CompleteRan
  BY DEF DeviceStep, Execute, WaveExit, WaveClaim, WaveDone, WaitEnds, hostVars, Verified
<1>1. slots \in [Slot -> [node : Nat, status : Status]]
  BY <1>0 DEF Types
<1>2. CASE Execute(s)
  <2> DEFINE o == Head(queue[s])
  <2>1. queue[s] # <<>> /\ Pop(s) /\ o.op \in {"write", "publish", "zero", "clear"} /\ ran' = ran
    BY <1>2 DEF Execute, AtHead
  <2>2. slots' = (IF o.op = "write" THEN [slots EXCEPT ![o.slot] = [node |-> o.node, status |-> "pending"]]
                  ELSE slots)
    BY <1>2 DEF Execute
  <2>3. words' = (IF o.op = "zero" THEN [w \in Slot |-> "pending"] ELSE words)
    BY <1>2 DEF Execute
  <2>4. CompleteRan'
    BY <1>0, <1>1, <2>1, <2>2 DEF CompleteRan
  <2>5. CASE s = "caller"
    <3>1. Caller # <<>> /\ Pop("caller") /\ o = Caller[1] /\ Caller[1] \in CallerOps
      BY <1>0, <2>1, <2>5, PopCaller DEF Caller
    <3>2. o.op = "write" => o.slot \in Slot
      BY <3>1, CallerOp
    <3>3. \A t \in Slot : slots'[t].node = (IF Writes(Caller, 1, t) THEN Caller[1].node ELSE slots[t].node)
      BY <1>1, <2>2, <3>1, <3>2 DEF Writes
    <3>4. /\ o.op = "zero" => \A w \in Slot : words'[w] # "complete"
          /\ o.op # "zero" => words' = words
      BY <2>3
    <3> QED
      BY <1>0, <2>1, <2>4, <3>1, <3>3, <3>4, VerifiedPop
  <2>6. CASE s = "own"
    <3>1. o.op \in {"clear", "wave"} /\ Caller' = Caller
      BY <1>0, <2>1, <2>6, PopOwn, OwnOp DEF Own
    <3>2. slots' = slots /\ words' = words
      BY <2>2, <2>3, <3>1
    <3> QED
      BY <1>0, <2>1, <2>4, <3>1, <3>2, VerifiedQuiet
  <2> QED
    BY <2>5, <2>6 DEF Stream
<1>3. CASE WaveExit(s)
  <2>1. queue[s] # <<>> /\ Pop(s) /\ Head(queue[s]).op = "wave" /\ UNCHANGED <<slots, words, ran>>
    BY <1>3 DEF WaveExit, Polls, AtHead
  <2>2. CompleteRan'
    BY <1>0, <2>1 DEF CompleteRan
  <2>3. CASE s = "caller"
    <3>1. Caller # <<>> /\ Pop("caller") /\ Caller[1].op = "wave"
      BY <1>0, <2>1, <2>3, PopCaller DEF Caller
    <3>2. \A t \in Slot : ~ Writes(Caller, 1, t)
      BY <3>1 DEF Writes
    <3> QED
      BY <1>0, <2>1, <2>2, <3>1, <3>2, VerifiedPop
  <2>4. CASE s = "own"
    <3>1. Caller' = Caller
      BY <1>0, <2>1, <2>4, PopOwn DEF Own
    <3> QED
      BY <1>0, <2>1, <2>2, <3>1, VerifiedQuiet
  <2> QED
    BY <2>3, <2>4 DEF Stream
<1>4. CASE WaveClaim(s)
  <2>1. UNCHANGED <<words, queue, ran>>
    BY <1>4 DEF WaveClaim
  <2>2. slots' = slots \/ slots' = [slots EXCEPT ![tail % Cap].status = "running"]
    BY <1>4 DEF WaveClaim
  <2>3. CompleteRan' /\ \A t \in Slot : slots'[t].node = slots[t].node
    BY <1>0, <1>1, <2>1, <2>2 DEF CompleteRan
  <2> QED
    BY <1>0, <2>1, <2>3, VerifiedQuiet DEF Caller
<1>5. CASE WaveDone(s)
  <2> DEFINE c == claimed[s]
             n == slots[c].node
  <2>1. UNCHANGED <<words, queue>>
    BY <1>5 DEF WaveDone
  <2>2. /\ slots' = [slots EXCEPT ![c].status = IF n \in bad THEN "error" ELSE "complete"]
        /\ ran' = IF n \in bad THEN ran ELSE ran \cup {n}
    BY <1>5 DEF WaveDone
  <2>3. CompleteRan' /\ ran \subseteq ran' /\ \A t \in Slot : slots'[t].node = slots[t].node
    BY <1>0, <1>1, <2>2 DEF CompleteRan
  <2> QED
    BY <1>0, <2>1, <2>3, VerifiedQuiet DEF Caller
<1>6. CASE WaitEnds
  <2> DEFINE o == Head(queue["caller"])
  <2>1. Caller # <<>> /\ Pop("caller") /\ o.op = "wait" /\ UNCHANGED <<slots, ran>>
    BY <1>6 DEF WaitEnds, AtHead, waveVars, Caller
  <2>2. words' = [words EXCEPT ![o.word] = slots[o.slot].status]
    BY <1>6 DEF WaitEnds
  <2>3. o = Caller[1] /\ Caller[1] \in CallerOps
    BY <1>0, <2>1, PopCaller DEF Caller
  <2>4. o.slot \in Slot /\ o.word \in Slot
    BY <2>1, <2>3, CallerOp
  <2> HIDE DEF o
  <2>5. /\ \A w \in Slot : w # o.word => words'[w] = words[w]
        /\ words'[o.word] = slots[o.slot].status
    BY <1>0, <2>2, <2>4 DEF Types
  <2>6. words'[o.word] = "complete" => slots[o.slot].node \in ran
    BY <1>0, <2>4, <2>5 DEF CompleteRan
  <2>7. CompleteRan' /\ \A t \in Slot : ~ Writes(Caller, 1, t)
    BY <1>0, <2>1, <2>3 DEF CompleteRan, Writes
  <2> QED
    BY <1>0, <2>1, <2>3, <2>5, <2>6, <2>7, VerifiedPop
<1> QED
  BY <1>2, <1>3, <1>4, <1>5, <1>6 DEF DeviceStep

LEMMA VerifiedNext == Verified /\ [Next]_vars => Verified'
<1> SUFFICES ASSUME Verified, [Next]_vars PROVE Verified'
  OBVIOUS
<1>1. Types
  BY DEF Verified
<1>2. CASE BeginStep \/ Enqueue \/ WaitNode
  BY <1>1, <1>2, TypesHost, VerifiedHost
<1>3. CASE Verify
  BY <1>1, <1>3, TypesQuiet, VerifiedHost
<1>4. CASE Relaunch \/ LaunchResident \/ LaunchWave
  <2>1. Types'
    BY <1>1, <1>4, TypesHost
  <2>2. /\ UNCHANGED <<words, verdict, nextHead, issued, ran, slots>>
        /\ pc' \in {"wait", "relaunch"} <=> pc \in {"wait", "relaunch"}
    BY <1>4 DEF Relaunch, LaunchResident, LaunchWave, waveVars
  <2>3. Caller' = Caller
    BY <1>1, <1>4, WaveOps, LaunchOwn DEF Relaunch, LaunchResident, LaunchWave, WaveStream
  <2>4. CompleteRan'
    BY <2>2 DEF Verified, CompleteRan
  <2> QED
    BY <2>1, <2>2, <2>3, <2>4, VerifiedQuiet
<1>5. CASE AbortStep \/ StopWave \/ Drop \/ PollExit \/ Tick \/ UNCHANGED vars
  <2>1. Types'
    BY <1>1, <1>5, TypesQuiet
  <2>2. /\ UNCHANGED <<words, verdict, nextHead, issued, ran, slots, queue>>
        /\ pc' \in {"wait", "relaunch"} <=> pc \in {"wait", "relaunch"}
    BY <1>5 DEF AbortStep, StopWave, Drop, PollExit, Tick, vars, hostVars, waveVars
  <2>4. CompleteRan' /\ Caller' = Caller
    BY <2>2 DEF Verified, CompleteRan, Caller
  <2> QED
    BY <2>1, <2>2, <2>4, VerifiedQuiet
<1>6. ASSUME NEW s \in Stream, DeviceStep(s) \/ WaitEnds PROVE Verified'
  BY <1>1, <1>6, TypesDevice, VerifiedDevice
<1>7. WaitEnds => Verified'
  BY <1>6 DEF Stream
<1> QED
  BY <1>2, <1>3, <1>4, <1>5, <1>6, <1>7 DEF Next, HostStep

\* A step whose verify_waits reports success has had every one of its nodes
\* executed, with any number of slots and nodes, any budgets, any errored nodes
\* and however often steps were given up before: the words of an earlier step
\* and the slots of overwritten nodes are never taken for this step's.
THEOREM VerifiedStepRan == Spec => []VerifiedMeansRan
<1>1. Verified => VerifiedMeansRan
  BY DEF Verified
<1> QED
  BY <1>1, VerifiedInit, VerifiedNext, PTL DEF Spec

-----------------------------------------------------------------------------
(* One wave.                                                               *)

\* A queue has the waves it had and those that are launched.
LEMMA AppendWave ==
  ASSUME NEW S, NEW q \in Seq(S), NEW e \in Seq(S), HasWave(q \o e)
  PROVE  HasWave(q) \/ HasWave(e)
<1>1. /\ Len(q \o e) = Len(q) + Len(e) /\ Len(q) \in Nat /\ Len(e) \in Nat
      /\ \A k \in 1..(Len(q) + Len(e)) : (q \o e)[k] = IF k <= Len(q) THEN q[k] ELSE e[k - Len(q)]
  BY ConcatProperties
<1>2. PICK i \in 1..(Len(q) + Len(e)) : (q \o e)[i].op = "wave"
  BY <1>1 DEF HasWave
<1>3. CASE i <= Len(q)
  BY <1>1, <1>2, <1>3 DEF HasWave
<1>4. CASE ~ (i <= Len(q))
  <2>1. i - Len(q) \in 1..Len(e) /\ e[i - Len(q)].op = "wave"
    BY <1>1, <1>2, <1>4
  <2> QED
    BY <2>1 DEF HasWave
<1> QED
  BY <1>3, <1>4

LEMMA PopWave ==
  ASSUME NEW q, NEW p, Len(q) \in Nat, Len(q) > 0, Len(p) = Len(q) - 1,
         \A i \in 1..Len(p) : p[i] = q[i + 1], HasWave(p)
  PROVE  HasWave(q)
<1>1. PICK i \in 1..Len(p) : p[i].op = "wave"
  BY DEF HasWave
<1>2. i + 1 \in 1..Len(q) /\ q[i + 1].op = "wave"
  BY <1>1
<1> QED
  BY <1>2 DEF HasWave

LEMMA ResidenceInit == Init => Residence
<1> SUFFICES ASSUME Init PROVE Residence
  OBVIOUS
<1>1. Len(Caller) = 0 /\ Len(Own) = 0 /\ pc = "idle" /\ resolved = resident
  BY DEF Init, Caller, Own, Stream
<1> QED
  BY <1>1 DEF Residence, HasWave

LEMMA ResidenceNext == Types /\ Residence /\ [Next]_vars => Residence'
<1> SUFFICES ASSUME Types, Residence, [Next]_vars PROVE Residence'
  OBVIOUS
<1>0. Caller \in Seq(CallerOps) /\ Own \in Seq(OwnOps) /\ Len(Caller) \in Nat /\ Len(Own) \in Nat
  BY DEF Types
<1>1. CASE BeginStep
  <2>1. UNCHANGED <<resolved, resident>> /\ pc' = "step" /\ Launch("caller", <<Zero>>)
    BY <1>1 DEF BeginStep
  <2>2. <<Zero>> \in Seq(CallerOps) /\ ~ HasWave(<<Zero>>)
    BY OpTypes DEF HasWave, Zero
  <2>3. Own' = Own /\ (HasWave(Caller') => HasWave(Caller))
    BY <1>0, <2>1, <2>2, LaunchCaller, AppendWave
  <2> QED
    BY <2>1, <2>3 DEF Residence
<1>2. CASE Enqueue
  <2>1. UNCHANGED <<resolved, resident>> /\ pc' \in {"wait", "relaunch"} /\ (pc' = "relaunch" => resident)
    BY <1>2 DEF Enqueue
  <2>2. Launch("caller", NodeLaunches)
    BY <1>2, Zenon DEF Enqueue
  <2>3. NodeLaunches \in Seq(CallerOps) /\ (resident => ~ HasWave(NodeLaunches))
    BY NodeOps DEF HasWave
  <2>4. Own' = Own /\ Caller' = Caller \o NodeLaunches
    BY <2>2, <2>3, LaunchCaller, Zenon
  <2>5. HasWave(Caller') => HasWave(Caller) \/ ~ resident
    BY <1>0, <2>3, <2>4, AppendWave
  <2> QED
    BY <2>1, <2>4, <2>5 DEF Residence
<1>3. CASE WaitNode
  <2> DEFINE o == Wait((nextHead - 1) % Cap, issued)
  <2>1. /\ UNCHANGED <<resolved, resident>> /\ pc = "wait" /\ pc' \in {"step", "sync"}
        /\ Launch("caller", <<o>>)
    BY <1>3 DEF WaitNode
  <2>2. o \in CallerOps /\ o.op = "wait"
    BY <2>1, OpTypes, SlotFacts DEF Types, Wait
  <2> HIDE DEF o
  <2>3. <<o>> \in Seq(CallerOps) /\ ~ HasWave(<<o>>)
    BY <2>2 DEF HasWave
  <2>4. Own' = Own /\ (HasWave(Caller') => HasWave(Caller))
    BY <1>0, <2>1, <2>3, LaunchCaller, AppendWave
  <2> QED
    BY <2>1, <2>4 DEF Residence
<1>4. CASE Relaunch
  <2>1. UNCHANGED <<resolved, resident>> /\ pc = "relaunch" /\ pc' = "wait"
    BY <1>4 DEF Relaunch
  <2>2. Caller' = Caller
    BY <1>4, WaveOps, LaunchOwn DEF Relaunch, WaveStream
  <2> QED
    BY <2>1, <2>2 DEF Residence
<1>5. CASE LaunchResident
  <2>1. UNCHANGED <<resolved, resident>> /\ ~ resident /\ pc' = "launch" /\ Launch("own", <<Clear>>)
    BY <1>5 DEF LaunchResident
  <2>2. <<Clear>> \in Seq(OwnOps) /\ ~ HasWave(<<Clear>>)
    BY OpTypes DEF HasWave, Clear
  <2>3. Caller' = Caller /\ (HasWave(Own') => HasWave(Own))
    BY <1>0, <2>1, <2>2, LaunchOwn, AppendWave
  <2> QED
    BY <2>1, <2>3 DEF Residence
<1>6. CASE LaunchWave
  <2>1. resolved' = TRUE /\ resident' = TRUE /\ pc = "launch" /\ pc' = "idle" /\ Resolved
    BY <1>6 DEF LaunchWave
  <2>2. Caller' = Caller
    BY <1>6, WaveOps, LaunchOwn DEF LaunchWave
  <2>3. Caller = <<>>
    BY <2>1 DEF Residence, Resolved, Caller
  <2>4. ~ HasWave(Caller)
    BY <2>3 DEF HasWave
  <2> QED
    BY <2>1, <2>2, <2>4 DEF Residence
<1>7. CASE Verify \/ AbortStep \/ StopWave \/ Drop \/ PollExit \/ Tick \/ UNCHANGED vars
  <2>1. /\ UNCHANGED <<resolved, resident, queue>>
        /\ pc' \notin {"relaunch", "launch"} \/ pc' = pc
    BY <1>7 DEF Verify, AbortStep, StopWave, Drop, PollExit, Tick, vars, hostVars
  <2> QED
    BY <2>1 DEF Residence, Caller, Own
<1>8. ASSUME NEW s \in Stream, queue[s] # <<>>, Pop(s), UNCHANGED <<resolved, resident, pc>>
      PROVE  Residence'
  <2>1. CASE s = "caller"
    <3>1. Caller # <<>>
      BY <1>8, <2>1 DEF Caller
    <3>2. Own' = Own /\ (HasWave(Caller') => HasWave(Caller))
      BY <1>0, <1>8, <2>1, <3>1, PopCaller, PopWave
    <3> QED
      BY <1>8, <3>2 DEF Residence
  <2>2. CASE s = "own"
    <3>1. Own # <<>>
      BY <1>8, <2>2 DEF Own
    <3>2. Caller' = Caller /\ (HasWave(Own') => HasWave(Own))
      BY <1>0, <1>8, <2>2, <3>1, PopOwn, PopWave
    <3> QED
      BY <1>8, <3>2 DEF Residence
  <2> QED
    BY <2>1, <2>2 DEF Stream
<1>9. ASSUME NEW s \in Stream, DeviceStep(s) PROVE Residence'
  <2>1. UNCHANGED <<resolved, resident, pc>>
    BY <1>9 DEF DeviceStep, Execute, WaveExit, WaveClaim, WaveDone, hostVars
  <2>2. queue' = queue \/ (queue[s] # <<>> /\ Pop(s))
    BY <1>9 DEF DeviceStep, Execute, WaveExit, WaveClaim, WaveDone, Polls, AtHead
  <2>3. CASE queue' = queue
    BY <2>1, <2>3 DEF Residence, Caller, Own
  <2> QED
    BY <1>8, <2>1, <2>2, <2>3
<1>10. CASE WaitEnds
  <2>1. UNCHANGED <<resolved, resident, pc>> /\ queue["caller"] # <<>> /\ Pop("caller")
    BY <1>10 DEF WaitEnds, hostVars, AtHead
  <2> QED
    BY <1>8, <2>1 DEF Stream
<1> QED
  BY <1>1, <1>2, <1>3, <1>4, <1>5, <1>6, <1>7, <1>9, <1>10 DEF Next, HostStep

\* "There is never a second wave racing the first for the ring's slots": a wave
\* is at the head of at most one of the two streams, because launch_resident
\* waits for the caller's stream before the first resident wave and nothing is
\* launched with a bounded wave after it.
THEOREM NeverTwoWaves == Spec => []OneWave
<1>1. Types /\ Residence => OneWave
  <2> SUFFICES ASSUME Types, Residence, NEW s \in Stream, NEW t \in Stream,
                      AtHead(s, "wave"), AtHead(t, "wave")
               PROVE  s = t
    BY DEF OneWave
  <2>1. ASSUME AtHead("caller", "wave"), AtHead("own", "wave") PROVE FALSE
    <3>1. Caller \in Seq(CallerOps) /\ Caller # <<>> /\ Head(Caller).op = "wave"
      BY <2>1 DEF Types, AtHead, Caller
    <3>2. Own \in Seq(OwnOps) /\ Own # <<>> /\ Head(Own).op = "wave"
      BY <2>1 DEF Types, AtHead, Own
    <3>3. 1 \in 1..Len(Caller) /\ Caller[1].op = "wave"
      BY <3>1
    <3>4. 1 \in 1..Len(Own) /\ Own[1].op = "wave"
      BY <3>2
    <3> QED
      BY <3>3, <3>4 DEF Residence, HasWave
  <2> QED
    BY <2>1 DEF Stream
<1>2. Verified => Types
  BY DEF Verified
<1> QED
  BY <1>1, <1>2, VerifiedInit, VerifiedNext, ResidenceInit, ResidenceNext, PTL DEF Spec

-----------------------------------------------------------------------------
(* The release of the buffers.                                             *)

LEMMA ClosingInit == Init => Closing
BY DEF Init, Closing, Own, Stream, BuffersOutliveWave

LEMMA ClosingNext ==
  ASSUME Reuse = FALSE, Types, Residence, Closing, [Next]_vars
  PROVE  Closing'
<1>1. CASE BeginStep \/ Enqueue \/ WaitNode
  <2>1. /\ UNCHANGED <<stream, stopped, resident, freed>>
        /\ pc \in {"idle", "step", "wait"} /\ pc' \in {"step", "wait", "relaunch", "sync"}
    BY <1>1 DEF BeginStep, Enqueue, WaitNode
  <2>2. queue'["own"] = queue["own"]
    BY <1>1 DEF BeginStep, Enqueue, WaitNode, Launch, Types, Stream
  <2> QED
    BY <2>1, <2>2 DEF Closing, Own, BuffersOutliveWave
<1>2. CASE Relaunch \/ LaunchResident \/ LaunchWave
  <2>1. pc \in {"relaunch", "idle", "launch"} /\ pc' \in {"wait", "launch", "idle"} /\ stream'
    BY <1>2 DEF Relaunch, LaunchResident, LaunchWave, Residence, Closing
  <2>2. UNCHANGED <<stopped, freed>> /\ ~ stopped /\ ~ freed
    BY <1>2, <2>1 DEF Relaunch, LaunchResident, LaunchWave, Closing
  <2> QED
    BY <2>1, <2>2 DEF Closing, BuffersOutliveWave
<1>3. CASE Verify \/ AbortStep \/ StopWave \/ Tick \/ UNCHANGED vars
  <2>1. /\ UNCHANGED <<stream, stopped, resident, freed, queue>>
        /\ pc' = pc \/ (pc \in {"idle", "step", "sync"} /\ pc' \in {"idle", "stop"})
    BY <1>3 DEF Verify, AbortStep, StopWave, Tick, vars, hostVars
  <2> QED
    BY <2>1 DEF Closing, Own, BuffersOutliveWave
<1>4. CASE Drop
  <2>1. UNCHANGED <<stream, stopped, resident, queue>> /\ pc \in {"idle", "closed"}
    BY <1>4 DEF Drop
  <2>2. CASE stream /\ ~ stopped
    <3>1. pc' = "drop" /\ freed' = freed
      BY <1>4, <2>2 DEF Drop
    <3> QED
      BY <2>1, <2>2, <3>1 DEF Closing, Own, BuffersOutliveWave
  <2>3. CASE ~ (stream /\ ~ stopped)
    <3>1. pc' = "gone" /\ freed' = TRUE
      BY <1>4, <2>3 DEF Drop
    <3> QED
      BY <2>1, <2>3, <3>1 DEF Closing, Own, BuffersOutliveWave
  <2> QED
    BY <2>2, <2>3
<1>5. CASE PollExit
  <2>1. UNCHANGED <<stream, resident, queue>> /\ pc \in {"stop", "drop"} /\ pc' \in {"closed", "gone"}
    BY <1>5 DEF PollExit
  <2>2. /\ stopped' => ExitConfirmed
        /\ freed' => ExitConfirmed /\ pc = "drop"
    <3>1. PICK gone \in IF stream THEN {ExitConfirmed, FALSE} ELSE {TRUE} :
            stopped' = gone /\ freed' = (gone /\ pc = "drop")
      BY <1>5, Zenon DEF PollExit
    <3>2. ~ stream => ExitConfirmed
      BY DEF Closing, ExitConfirmed, Own
    <3>3. gone => ExitConfirmed
      BY <3>2, Zenon
    <3> QED
      BY <3>1, <3>3, Zenon
  <2>3. pc = "drop" => pc' = "gone"
    BY <1>5 DEF PollExit
  <2>4. Own # <<>> => stream
    BY DEF Closing
  <2> QED
    BY <2>1, <2>2, <2>3, <2>4 DEF Closing, Own, BuffersOutliveWave, ExitConfirmed
<1>6. ASSUME NEW s \in Stream, DeviceStep(s) \/ WaitEnds PROVE Closing'
  <2>1. UNCHANGED <<stream, stopped, resident, freed, pc>>
    BY <1>6 DEF DeviceStep, Execute, WaveExit, WaveClaim, WaveDone, WaitEnds, hostVars
  <2>2. \/ queue' = queue
        \/ \E t \in Stream : queue[t] # <<>> /\ Pop(t)
    BY <1>6 DEF DeviceStep, Execute, WaveExit, WaveClaim, WaveDone, WaitEnds, Polls, AtHead, Stream
  <2>3. Own' # <<>> => Own # <<>>
    BY <2>2, PopCaller DEF Own, Caller, Stream
  <2> QED
    BY <2>1, <2>3 DEF Closing, Own, BuffersOutliveWave
<1>7. WaitEnds => Closing'
  BY <1>6 DEF Stream
<1> QED
  BY <1>1, <1>2, <1>3, <1>4, <1>5, <1>6, <1>7 DEF Next, HostStep

\* Drop: "freeing device memory under a live kernel is a use-after-free": the
\* buffers are released only when the ring's own stream is empty, if the ring is
\* not used again after stop_wave (TaskRingReuse shows what happens if it is).
THEOREM ReleasedAfterWave == ASSUME Reuse = FALSE PROVE Spec => []BuffersOutliveWave
<1>1. Verified /\ Residence /\ Closing /\ [Next]_vars => Closing'
  BY ClosingNext DEF Verified
<1>2. Verified => Types
  BY DEF Verified
<1>3. Closing => BuffersOutliveWave
  BY DEF Closing
<1> QED
  BY <1>1, <1>2, <1>3, VerifiedInit, VerifiedNext, ResidenceInit, ResidenceNext, ClosingInit, PTL DEF Spec

-----------------------------------------------------------------------------
(* Stranded nodes: what the caller's stream does to the head counter.      *)

\* The head counter is v when the stream with the launches q reaches i.
HeadAt(q, h, i, v) ==
  \/ v = h /\ \A k \in 1..Len(q) : k < i => q[k].op # "publish"
  \/ \E j \in 1..Len(q) :
       /\ j < i /\ q[j].op = "publish" /\ q[j].head = v
       /\ \A k \in 1..Len(q) : j < k /\ k < i => q[k].op # "publish"

\* A node is written at the head, then published, then waited for.
NumberedAt(q, h, i) ==
  /\ q[i].op = "write" => /\ q[i].slot = q[i].node % Cap /\ HeadAt(q, h, i, q[i].node)
                          /\ i < Len(q) /\ q[i + 1].op = "publish"
  /\ q[i].op = "publish" => HeadAt(q, h, i, q[i].head - 1) /\ (i > 1 => q[i - 1].op = "write")
  /\ q[i].op = "wait" => \E n \in Nat : q[i].slot = n % Cap /\ HeadAt(q, h, i, n + 1)

\* The launches q take the head counter from h to n.
Takes(q, h, n) ==
  /\ \A i \in 1..Len(q) : NumberedAt(q, h, i)
  /\ HeadAt(q, h, Len(q) + 1, n)

LEMMA PublishOp == \A o \in CallerOps : o.op = "publish" => o.head \in Nat
BY DEF CallerOps, Zero, Clear, Wave

LEMMA HeadAppend ==
  ASSUME NEW q \in Seq(CallerOps), NEW e \in Seq(CallerOps), NEW h, NEW v,
         NEW i \in 1..(Len(q) + 1), HeadAt(q, h, i, v)
  PROVE  HeadAt(q \o e, h, i, v)
<1> DEFINE p == q \o e
<1>1. Len(q) \in Nat /\ Len(p) \in Nat /\ \A k \in 1..Len(q) : k \in 1..Len(p) /\ p[k] = q[k]
  BY AppendAt
<1>2. \A k \in 1..Len(p) : k < i => k \in 1..Len(q)
  BY <1>1
<1> HIDE DEF p
<1>3. HeadAt(p, h, i, v)
  BY <1>1, <1>2 DEF HeadAt
<1> QED
  BY <1>3 DEF p

\* ... and past launches that publish nothing.
LEMMA HeadBeyond ==
  ASSUME NEW q \in Seq(CallerOps), NEW h, NEW v, NEW i \in Nat, NEW j \in Nat, i <= j,
         \A k \in 1..Len(q) : i <= k /\ k < j => q[k].op # "publish", HeadAt(q, h, i, v)
  PROVE  HeadAt(q, h, j, v)
BY DEF HeadAt

LEMMA HeadPop ==
  ASSUME NEW q \in Seq(CallerOps), NEW p \in Seq(CallerOps), Len(q) > 0, Len(p) = Len(q) - 1,
         \A k \in 1..Len(p) : p[k] = q[k + 1],
         NEW h, NEW g, NEW v, NEW i \in Nat, i >= 1,
         g = (IF q[1].op = "publish" THEN q[1].head ELSE h), HeadAt(q, h, i + 1, v)
  PROVE  HeadAt(p, g, i, v)
<1>1. Len(q) \in Nat /\ Len(p) \in Nat
  OBVIOUS
<1>2. \A k \in 1..Len(p) : k + 1 \in 1..Len(q)
  BY <1>1
<1>3. CASE v = h /\ \A k \in 1..Len(q) : k < i + 1 => q[k].op # "publish"
  <2>1. q[1].op # "publish"
    BY <1>1, <1>3
  <2>2. \A k \in 1..Len(p) : k < i => p[k].op # "publish"
    BY <1>1, <1>2, <1>3
  <2> QED
    BY <1>3, <2>1, <2>2 DEF HeadAt
<1>4. ASSUME NEW j \in 1..Len(q), j < i + 1, q[j].op = "publish", q[j].head = v,
             \A k \in 1..Len(q) : j < k /\ k < i + 1 => q[k].op # "publish"
      PROVE  HeadAt(p, g, i, v)
  <2>1. \A k \in 1..Len(p) : j - 1 < k /\ k < i => p[k].op # "publish"
    BY <1>1, <1>2, <1>4
  <2>2. CASE j = 1
    BY <1>1, <1>4, <2>1, <2>2 DEF HeadAt
  <2>3. CASE j > 1
    <3>1. j - 1 \in 1..Len(p) /\ j - 1 < i /\ p[j - 1].op = "publish" /\ p[j - 1].head = v
      BY <1>1, <1>2, <1>4, <2>3
    <3> QED
      BY <3>1, <2>1 DEF HeadAt
  <2> QED
    BY <2>2, <2>3
<1> QED
  BY <1>3, <1>4 DEF HeadAt

\* The launches in front keep their numbers.
LEMMA TakesFront ==
  ASSUME NEW q \in Seq(CallerOps), NEW e \in Seq(CallerOps), NEW h, NEW n, Takes(q, h, n)
  PROVE  \A i \in 1..Len(q) : NumberedAt(q \o e, h, i)
<1> DEFINE p == q \o e
<1> SUFFICES ASSUME NEW i \in 1..Len(q) PROVE NumberedAt(p, h, i)
  OBVIOUS
<1>1. Len(q) \in Nat /\ Len(p) \in Nat /\ Len(q) <= Len(p) /\ \A k \in 1..Len(q) : p[k] = q[k]
  BY AppendAt
<1>2. /\ p[i] = q[i] /\ (i > 1 => p[i - 1] = q[i - 1]) /\ i \in 1..(Len(q) + 1)
      /\ i < Len(q) => i < Len(p) /\ p[i + 1] = q[i + 1]
  BY <1>1
<1>3. \A v : HeadAt(q, h, i, v) => HeadAt(p, h, i, v)
  BY <1>2, HeadAppend
<1>4. NumberedAt(q, h, i)
  BY DEF Takes
<1> HIDE DEF p
<1> QED
  BY <1>2, <1>3, <1>4 DEF NumberedAt

\* A launch that neither writes nor publishes; a wait is for the last node.
LEMMA TakesOne ==
  ASSUME NEW q \in Seq(CallerOps), NEW o \in CallerOps, NEW h, NEW n \in Nat, Takes(q, h, n),
         o.op \notin {"write", "publish"}, o.op = "wait" => n > 0 /\ o.slot = (n - 1) % Cap
  PROVE  Takes(q \o <<o>>, h, n)
<1> DEFINE p == q \o <<o>>
<1>0. <<o>> \in Seq(CallerOps) /\ Len(<<o>>) = 1 /\ <<o>>[1] = o
  OBVIOUS
<1>1. Len(q) \in Nat /\ Len(p) = Len(q) + 1 /\ p[Len(q) + 1] = o /\ p \in Seq(CallerOps)
  BY <1>0, AppendAt, ConcatProperties
<1>2. HeadAt(p, h, Len(q) + 1, n)
  <2>1. PICK m \in Nat : m = Len(q) + 1
    BY <1>1
  <2>2. m \in 1..(Len(q) + 1) /\ HeadAt(q, h, m, n)
    BY <1>1, <2>1 DEF Takes
  <2>3. HeadAt(p, h, m, n)
    BY <1>0, <2>2, HeadAppend
  <2> QED
    BY <2>1, <2>3
<1>3. \A i \in 1..Len(q) : NumberedAt(p, h, i)
  BY <1>0, TakesFront
<1> HIDE DEF p
<1>4. NumberedAt(p, h, Len(q) + 1)
  <2>1. n > 0 => n - 1 \in Nat /\ (n - 1) + 1 = n
    OBVIOUS
  <2> QED
    BY <1>1, <1>2, <2>1 DEF NumberedAt
<1>5. HeadAt(p, h, Len(p) + 1, n)
  BY <1>1, <1>2, HeadBeyond
<1>6. \A i \in 1..Len(p) : i \in 1..Len(q) \/ i = Len(q) + 1
  BY <1>1
<1> QED
  BY <1>3, <1>4, <1>5, <1>6 DEF Takes, p

\* The launches of a node.
LEMMA TakesNode ==
  ASSUME NEW q \in Seq(CallerOps), NEW e \in Seq(CallerOps), NEW h, NEW n \in Nat, Takes(q, h, n),
         Len(e) >= 2, e[1] = Write(n % Cap, n), e[2] = Publish(n + 1),
         \A k \in 3..Len(e) : e[k].op \in {"clear", "wave"}
  PROVE  Takes(q \o e, h, n + 1)
<1> DEFINE p == q \o e
<1>1. PICK m \in Nat : m = Len(q)
  OBVIOUS
<1>2. /\ p \in Seq(CallerOps) /\ Len(p) = m + Len(e) /\ Len(e) \in Nat
      /\ \A k \in 1..Len(e) : p[m + k] = e[k]
      /\ \A k \in 1..Len(p) : k \notin 1..m => k - m \in 1..Len(e) /\ p[k] = e[k - m]
  BY <1>1, AppendAt, ConcatProperties
<1>3. HeadAt(p, h, m + 1, n)
  BY <1>1, HeadAppend DEF Takes
<1>4. \A i \in 1..m : NumberedAt(p, h, i)
  BY <1>1, TakesFront
<1> HIDE DEF p
<1>5. p[m + 1] = Write(n % Cap, n) /\ p[m + 2] = Publish(n + 1)
  BY <1>2
<1>6. p[m + 1].op = "write" /\ p[m + 1].slot = n % Cap /\ p[m + 1].node = n
  BY <1>5 DEF Write
<1>7. p[m + 2].op = "publish" /\ p[m + 2].head = n + 1
  BY <1>5 DEF Publish
<1>8. ASSUME NEW k \in 1..Len(p), k > m + 2 PROVE p[k].op \in {"clear", "wave"}
  <2>1. PICK j \in Nat : j = k - m
    BY <1>8
  <2>2. k \notin 1..m /\ j \in 3..Len(e)
    BY <1>2, <1>8, <2>1
  <2> QED
    BY <1>2, <2>1, <2>2
<1>9. NumberedAt(p, h, m + 1)
  <2>1. (m + 1) + 1 = m + 2 /\ m + 1 < Len(p)
    BY <1>2
  <2> QED
    BY <1>3, <1>6, <1>7, <2>1 DEF NumberedAt
<1>10. NumberedAt(p, h, m + 2)
  <2>1. HeadAt(p, h, m + 2, n)
    BY <1>2, <1>3, <1>6, HeadBeyond
  <2>2. (m + 2) - 1 = m + 1 /\ (n + 1) - 1 = n
    OBVIOUS
  <2> QED
    BY <1>6, <1>7, <2>1, <2>2 DEF NumberedAt
<1>11. \A i \in 1..Len(p) : i > m + 2 => NumberedAt(p, h, i)
  BY <1>8 DEF NumberedAt
<1>12. HeadAt(p, h, Len(p) + 1, n + 1)
  <2>1. PICK j \in 1..Len(p) : j = m + 2
    BY <1>2
  <2>2. j < Len(p) + 1 /\ p[j].op = "publish" /\ p[j].head = n + 1
    BY <1>2, <1>7, <2>1
  <2>3. \A k \in 1..Len(p) : j < k => p[k].op # "publish"
    BY <1>8, <2>1
  <2> QED
    BY <2>2, <2>3 DEF HeadAt
<1>13. \A i \in 1..Len(p) : i \in 1..m \/ i = m + 1 \/ i = m + 2 \/ i > m + 2
  BY <1>2
<1> QED
  BY <1>4, <1>9, <1>10, <1>11, <1>12, <1>13 DEF Takes, p

\* A step of the stream.
LEMMA TakesPop ==
  ASSUME NEW q \in Seq(CallerOps), NEW p \in Seq(CallerOps), Len(q) > 0, Len(p) = Len(q) - 1,
         \A k \in 1..Len(p) : p[k] = q[k + 1],
         NEW h, NEW g, NEW n, g = (IF q[1].op = "publish" THEN q[1].head ELSE h), Takes(q, h, n)
  PROVE  Takes(p, g, n)
<1>1. Len(q) \in Nat /\ Len(p) \in Nat
  OBVIOUS
<1>2. ASSUME NEW i \in 1..Len(p) PROVE NumberedAt(p, g, i)
  <2>1. p[i] = q[i + 1] /\ i + 1 \in 1..Len(q) /\ i \in Nat /\ i >= 1
    BY <1>1
  <2>4. ASSUME i > 1 PROVE p[i - 1] = q[(i + 1) - 1]
    <3>1. PICK j \in 1..Len(p) : j = i - 1
      BY <1>1, <2>4
    <3>2. p[j] = q[j + 1] /\ j + 1 = (i + 1) - 1
      BY <3>1
    <3> QED
      BY <3>1, <3>2
  <2>5. ASSUME i + 1 < Len(q) PROVE i < Len(p) /\ p[i + 1] = q[(i + 1) + 1]
    BY <1>1, <2>5
  <2>2. \A v : HeadAt(q, h, i + 1, v) => HeadAt(p, g, i, v)
    BY <2>1, HeadPop
  <2>3. NumberedAt(q, h, i + 1)
    BY <2>1 DEF Takes
  <2> QED
    BY <2>1, <2>2, <2>3, <2>4, <2>5 DEF NumberedAt
<1>3. HeadAt(q, h, (Len(p) + 1) + 1, n)
  BY <1>1 DEF Takes
<1>4. HeadAt(p, g, Len(p) + 1, n)
  BY <1>1, <1>3, HeadPop
<1> QED
  BY <1>2, <1>4 DEF Takes

\* The operation at the head of the stream.
LEMMA TakesFirst ==
  ASSUME NEW q \in Seq(CallerOps), NEW h \in Nat, NEW n, Takes(q, h, n), Len(q) > 0
  PROVE  /\ q[1].op = "write" => q[1].slot = h % Cap /\ q[1].node = h /\ 1 < Len(q) /\ q[2].op = "publish"
         /\ q[1].op = "publish" => q[1].head = h + 1
         /\ q[1].op = "wait" => h > 0 /\ q[1].slot = (h - 1) % Cap
         /\ Len(q) > 1 /\ q[2].op = "publish" => q[1].op = "write"
<1>1. 1 \in 1..Len(q) /\ q[1] \in CallerOps
  OBVIOUS
<1>2. \A v : HeadAt(q, h, 1, v) => v = h
  BY DEF HeadAt
<1>3. NumberedAt(q, h, 1)
  BY <1>1 DEF Takes
<1>4. ASSUME q[1].op = "write" PROVE q[1].slot = h % Cap /\ q[1].node = h /\ 1 < Len(q) /\ q[2].op = "publish"
  <2>1. 1 + 1 = 2
    OBVIOUS
  <2> QED
    BY <1>2, <1>3, <1>4, <2>1 DEF NumberedAt
<1>7. ASSUME Len(q) > 1, q[2].op = "publish" PROVE q[1].op = "write"
  <2>1. NumberedAt(q, h, 2) /\ 2 - 1 = 1
    BY <1>7 DEF Takes
  <2> QED
    BY <1>7, <2>1 DEF NumberedAt
<1>5. ASSUME q[1].op = "publish" PROVE q[1].head = h + 1
  <2>1. q[1].head - 1 = h /\ q[1].head \in Nat
    BY <1>1, <1>2, <1>3, <1>5, PublishOp DEF NumberedAt
  <2> QED
    BY <1>5, <2>1
<1>6. ASSUME q[1].op = "wait" PROVE h > 0 /\ q[1].slot = (h - 1) % Cap
  <2>1. PICK k \in Nat : q[1].slot = k % Cap /\ k + 1 = h
    BY <1>2, <1>3, <1>6 DEF NumberedAt
  <2>2. k = h - 1 /\ h > 0
    BY <2>1
  <2> QED
    BY <1>6, <2>1, <2>2
<1> QED
  BY <1>4, <1>5, <1>6, <1>7

-----------------------------------------------------------------------------
(* Stranded nodes: the invariant.                                          *)

Live == pc \in {"idle", "step", "relaunch", "wait", "launch", "sync"}

Front(o)    == Len(Caller) > 0 /\ Caller[1].op = o
OwnFront(o) == Len(Own) > 0 /\ Own[1].op = o

Clocks  == head \in Nat /\ silence \in Nat /\ idle \in Nat
Numbers == Takes(Caller, head, nextHead) /\ tail <= head

\* The wave that executes a slot is the one at work, and executes the tail.
Claims ==
  /\ claimed["caller"] # Free => Front("wave")
  /\ claimed["own"] # Free => OwnFront("wave")
  /\ \A s \in Stream : claimed[s] # Free => claimed[s] = tail % Cap /\ tail < head
  /\ \A c \in Slot : slots[c].status = "running" => \E s \in Stream : claimed[s] = c
  /\ \A c \in Slot : slots[c].status # "error"

\* With no work left, the last node of the ring is complete.
LastDone ==
  head = tail /\ head > 0 /\ ~ Front("publish") => slots[(head - 1) % Cap].status = "complete"

\* Before launch_resident: a bounded wave follows every publish, behind a clear
\* of the stop flag, and a step that ends has drained its stream.
Follows(q, i) ==
  /\ q[i].op = "publish" => i + 2 <= Len(q) /\ q[i + 1].op = "clear" /\ q[i + 2].op = "wave"
  /\ q[i].op = "wave" /\ i > 1 => q[i - 1].op = "clear"
BoundedWave ==
  ~ resident =>
    /\ pc # "launch" => Len(Own) = 0
    /\ pc = "launch" => \/ Len(Own) = 1 /\ Own[1].op = "clear"
                        \/ Len(Own) = 0 /\ ~ stop
    /\ pc \in {"idle", "launch"} => Len(Caller) = 0
    /\ idle = 0
    /\ \A i \in 1..Len(Caller) : Follows(Caller, i)
    /\ Front("wave") => ~ stop
    /\ head # tail => \/ Front("wave")
                      \/ Front("clear") /\ Len(Caller) >= 2 /\ Caller[2].op = "wave"

\* After it: a wave that will serve the ring, or nothing to serve and a host
\* that has been silent for long enough to know.
Quiet == head = tail /\ \A i \in 1..Len(Caller) : Caller[i].op # "publish"
Alive == Len(Own) >= 2 \/ (Len(Own) = 1 /\ ~ stop /\ idle < WaveIdle)
Busy  == \E s \in Stream : claimed[s] # Free
ResidentWave ==
  resident =>
    /\ Len(Own) > 0 => Own[Len(Own)].op = "wave"
    /\ \A i \in 1..Len(Own) : i > 1 => Own[i].op # Own[i - 1].op
    /\ idle > 0 => OwnFront("wave")
    /\ idle > 0 /\ (head # tail \/ Front("publish")) => slots[tail % Cap].status = "pending" \/ Busy
    /\ pc # "relaunch" => Alive \/ (Quiet /\ (silence >= WaveIdle \/ silence >= HostIdle))
    /\ Quiet /\ pc = "relaunch" => idle = 0
    /\ Quiet /\ pc # "relaunch" => idle <= silence \/ silence >= HostIdle

RingInv == Clocks /\ Numbers /\ Claims /\ LastDone /\ BoundedWave /\ ResidentWave
Unstranded == bad = {} /\ Live => RingInv

\* The lengths of the two streams.
LEMMA Lens ==
  ASSUME Types
  PROVE  /\ Len(Caller) \in Nat /\ Len(Own) \in Nat
         /\ \A i \in 1..Len(Caller) : Caller[i] \in CallerOps
         /\ \A i \in 1..Len(Own) : Own[i] \in OwnOps /\ Own[i].op \in {"clear", "wave"}
         /\ Len(Caller) = 0 <=> Caller = <<>>
         /\ Len(Own) = 0 <=> Own = <<>>
<1>1. Caller \in Seq(CallerOps) /\ Own \in Seq(OwnOps)
  BY DEF Types
<1>2. \A i \in 1..Len(Own) : Own[i] \in OwnOps
  BY <1>1
<1>3. \A i \in 1..Len(Own) : Own[i].op \in {"clear", "wave"}
  BY <1>2, OwnOp
<1> QED
  BY <1>1, <1>2, <1>3

LEMMA Fronts ==
  ASSUME Types
  PROVE  /\ \A o : AtHead("caller", o) <=> Front(o)
         /\ \A o : AtHead("own", o) <=> OwnFront(o)
         /\ Len(Caller) > 0 => Head(Caller) = Caller[1]
         /\ Len(Own) > 0 => Head(Own) = Own[1]
<1>1. Caller \in Seq(CallerOps) /\ Own \in Seq(OwnOps)
  BY DEF Types
<1> QED
  BY <1>1 DEF AtHead, Front, OwnFront, Caller, Own

\* Only one of the streams has a wave at its head.
LEMMA OneFront ==
  ASSUME Types, Residence
  PROVE  ~ (Front("wave") /\ OwnFront("wave")) /\ (resident => ~ Front("wave"))
BY Lens DEF Residence, HasWave, Front, OwnFront

\* A launch behind what is in the caller's stream.
LEMMA AppendFront ==
  ASSUME Types, NEW e \in Seq(CallerOps), Len(e) > 0, e[1].op \notin {"wave", "publish"},
         Caller' = Caller \o e, Types'
  PROVE  /\ Len(Caller') = Len(Caller) + Len(e) /\ Len(e) \in Nat
         /\ \A i \in 1..Len(Caller) : Caller'[i] = Caller[i]
         /\ \A i \in 1..Len(e) : Caller'[Len(Caller) + i] = e[i]
         /\ \A i \in 1..Len(Caller') : i \in 1..Len(Caller) \/ (i - Len(Caller) \in 1..Len(e) /\ Caller'[i] = e[i - Len(Caller)])
         /\ Front("wave")' <=> Front("wave")
         /\ Front("publish")' <=> Front("publish")
<1>1. Caller \in Seq(CallerOps)
  BY DEF Types
<1>2. /\ Len(Caller') = Len(Caller) + Len(e) /\ Len(e) \in Nat /\ Len(Caller) \in Nat
      /\ \A i \in 1..Len(Caller) : Caller'[i] = Caller[i]
      /\ \A i \in 1..Len(e) : Caller'[Len(Caller) + i] = e[i]
      /\ \A i \in 1..Len(Caller') : i \in 1..Len(Caller) \/ i - Len(Caller) \in 1..Len(e)
      /\ \A i \in 1..Len(Caller') : i \notin 1..Len(Caller) => Caller'[i] = e[i - Len(Caller)]
  BY <1>1, AppendAt
<1>3. CASE Len(Caller) = 0
  <2>1. Caller'[1] = e[1]
    BY <1>2, <1>3
  <2> QED
    BY <1>2, <1>3, <2>1 DEF Front
<1>4. CASE Len(Caller) > 0
  <2>1. Caller'[1] = Caller[1]
    BY <1>2, <1>4
  <2> QED
    BY <1>2, <1>4, <2>1 DEF Front
<1> QED
  BY <1>2, <1>3, <1>4

\* The zeroing of the words and the waits.
LEMMA RingAppendOne ==
  ASSUME Types, Types', Residence, RingInv, NEW o \in CallerOps, Caller' = Caller \o <<o>>,
         o.op \in {"zero", "wait"}, o.op = "wait" => nextHead > 0 /\ o.slot = (nextHead - 1) % Cap,
         Own' = Own, UNCHANGED <<resident, stop, silence, idle, head, tail, slots, claimed, nextHead>>,
         pc \notin {"launch", "relaunch"}, pc' \notin {"launch", "relaunch", "idle"}
  PROVE  RingInv'
<1>8. <<o>> \in Seq(CallerOps) /\ Len(<<o>>) = 1 /\ <<o>>[1] = o
  OBVIOUS
<1>0. PICK e \in Seq(CallerOps) : e = <<o>> /\ Len(e) = 1 /\ e[1] = o
  BY <1>8
<1>1. /\ Len(Caller') = Len(Caller) + 1 /\ Len(Caller) \in Nat
      /\ \A i \in 1..Len(Caller) : Caller'[i] = Caller[i]
      /\ \A i \in 1..Len(Caller') : i \in 1..Len(Caller) \/ Caller'[i] = o
      /\ Front("wave")' <=> Front("wave")
      /\ Front("publish")' <=> Front("publish")
  <2>1. Caller' = Caller \o e /\ e[1].op \notin {"wave", "publish"} /\ Len(e) > 0
    BY <1>0
  <2>2. Len(Caller) \in Nat
    BY Lens
  <2>3. /\ Len(Caller') = Len(Caller) + Len(e)
        /\ \A i \in 1..Len(Caller) : Caller'[i] = Caller[i]
        /\ \A i \in 1..Len(Caller') : i \in 1..Len(Caller) \/ (i - Len(Caller) \in 1..Len(e) /\ Caller'[i] = e[i - Len(Caller)])
        /\ Front("wave")' <=> Front("wave")
        /\ Front("publish")' <=> Front("publish")
    BY <2>1, AppendFront
  <2>4. ASSUME NEW i \in 1..Len(Caller'), i \notin 1..Len(Caller) PROVE Caller'[i] = o
    <3>1. i - Len(Caller) = 1
      BY <1>0, <2>2, <2>3, <2>4
    <3> QED
      BY <1>0, <2>3, <2>4, <3>1
  <2> QED
    BY <1>0, <2>2, <2>3, <2>4
<1>2. Clocks'
  BY DEF RingInv, Clocks
<1>3. Numbers'
  BY TakesOne DEF RingInv, Numbers, Types
<1>4. Claims'
  BY <1>1 DEF RingInv, Claims, OwnFront
<1>5. LastDone'
  BY <1>1 DEF RingInv, LastDone
<1>6. BoundedWave'
  <2>1. ASSUME ~ resident, NEW i \in 1..Len(Caller') PROVE Follows(Caller', i)
    <3>1. CASE i \in 1..Len(Caller)
      <4>1. Follows(Caller, i) /\ Caller'[i] = Caller[i]
        BY <1>1, <2>1, <3>1 DEF RingInv, BoundedWave
      <4> QED
        BY <1>1, <3>1, <4>1 DEF Follows
    <3>2. CASE Caller'[i] = o
      BY <3>2 DEF Follows
    <3> QED
      BY <1>1, <3>1, <3>2
  <2>2. Front("clear") => Front("clear")'
    BY <1>1 DEF Front
  <2> QED
    BY <1>1, <2>1, <2>2 DEF RingInv, BoundedWave
<1>7. ResidentWave'
  <2>1. Quiet' <=> Quiet
    BY <1>1 DEF Quiet
  <2> QED
    BY <1>1, <2>1 DEF RingInv, ResidentWave, Alive, Busy, OwnFront
<1> QED
  BY <1>2, <1>3, <1>4, <1>5, <1>6, <1>7 DEF RingInv

LEMMA RingBeginStep ==
  ASSUME Types, Types', Residence, RingInv, BeginStep
  PROVE  RingInv'
<1>1. /\ Launch("caller", <<Zero>>) /\ pc = "idle" /\ pc' = "step"
      /\ UNCHANGED <<resident, stop, silence, idle, head, tail, slots, claimed, nextHead>>
  BY DEF BeginStep, waveVars
<1>2. Zero \in CallerOps /\ Zero.op = "zero" /\ <<Zero>> \in Seq(CallerOps)
  BY OpTypes DEF Zero
<1>3. Caller' = Caller \o <<Zero>> /\ Own' = Own
  BY <1>1, <1>2, LaunchCaller
<1> QED
  BY <1>1, <1>2, <1>3, RingAppendOne

LEMMA RingWaitNode ==
  ASSUME Types, Types', Residence, RingInv, WaitNode
  PROVE  RingInv'
<1> DEFINE o == Wait((nextHead - 1) % Cap, issued)
<1>1. /\ Launch("caller", <<o>>) /\ pc = "wait" /\ pc' \in {"step", "sync"}
      /\ UNCHANGED <<resident, stop, silence, idle, head, tail, slots, claimed, nextHead>>
  BY DEF WaitNode, waveVars
<1>2. nextHead \in Nat /\ nextHead > 0 /\ nextHead - 1 \in Nat /\ issued \in Nat /\ issued < StepNodes
  BY <1>1, SlotFacts DEF Types
<1>3. o \in CallerOps /\ o.op = "wait" /\ o.slot = (nextHead - 1) % Cap
  BY <1>2, OpTypes, SlotFacts DEF Wait
<1> HIDE DEF o
<1>4. <<o>> \in Seq(CallerOps)
  BY <1>3
<1>5. Caller' = Caller \o <<o>> /\ Own' = Own
  BY <1>1, <1>4, LaunchCaller
<1> QED
  BY <1>1, <1>2, <1>3, <1>5, RingAppendOne

\* The launches of a node, one by one.
LEMMA NodeEach ==
  ASSUME Types
  PROVE  /\ NodeLaunches[1] = Write(nextHead % Cap, nextHead)
         /\ NodeLaunches[2] = Publish(nextHead + 1)
         /\ resident => Len(NodeLaunches) = 2
         /\ ~ resident => /\ Len(NodeLaunches) = 4
                          /\ NodeLaunches[3].op = "clear" /\ NodeLaunches[4].op = "wave"
<1>1. nextHead \in Nat /\ nextHead + 1 \in Nat /\ nextHead % Cap \in Slot
  BY SlotFacts DEF Types
<1> DEFINE a == Write(nextHead % Cap, nextHead)
           b == Publish(nextHead + 1)
<1>2. a \in CallerOps /\ b \in CallerOps /\ Clear \in CallerOps /\ Wave(FALSE) \in CallerOps
  BY <1>1, OpTypes
<1>3. Clear.op = "clear" /\ Wave(FALSE).op = "wave"
  BY DEF Clear, Wave
<1>4. NodeLaunches = <<a, b>> \o IF resident THEN <<>> ELSE <<Clear, Wave(FALSE)>>
  BY DEF NodeLaunches
<1> HIDE DEF a, b
<1>5. CASE resident
  <2>1. NodeLaunches = <<a, b>>
    BY <1>2, <1>4, <1>5, ConcatEmptySeq
  <2> QED
    BY <1>5, <2>1 DEF a, b
<1>6. CASE ~ resident
  <2> DEFINE c == Clear
             d == Wave(FALSE)
  <2>1. NodeLaunches = <<a, b>> \o <<c, d>> /\ c \in CallerOps /\ d \in CallerOps
    BY <1>2, <1>4, <1>6
  <2>2. c.op = "clear" /\ d.op = "wave"
    BY <1>3
  <2> HIDE DEF c, d
  <2>3. /\ Len(NodeLaunches) = 4 /\ NodeLaunches[1] = a /\ NodeLaunches[2] = b
        /\ NodeLaunches[3] = c /\ NodeLaunches[4] = d
    BY <1>2, <2>1, PairsConcat
  <2> QED
    BY <1>6, <2>2, <2>3 DEF a, b
<1> QED
  BY <1>5, <1>6

LEMMA RingEnqueue ==
  ASSUME \A g \in Gaps : g < WaveIdle \/ g >= HostIdle,
         Types, Types', Residence, RingInv, Enqueue
  PROVE  RingInv'
<1>1. PICK e \in Seq(CallerOps) : e = NodeLaunches
  BY NodeOps
<1>2. /\ Len(e) \in {2, 4} /\ e[1] = Write(nextHead % Cap, nextHead) /\ e[2] = Publish(nextHead + 1)
      /\ resident => Len(e) = 2
      /\ ~ resident => Len(e) = 4 /\ e[3].op = "clear" /\ e[4].op = "wave"
  BY <1>1, NodeOps, NodeEach
<1>3. e[1].op = "write" /\ e[2].op = "publish"
  BY <1>2 DEF Write, Publish
<1>4. /\ pc = "step" /\ silence \in Gaps /\ nextHead' = nextHead + 1
      /\ UNCHANGED <<resident, idle, head, tail, slots, claimed>>
  BY DEF Enqueue, waveVars
<1>5. /\ pc' \in {"wait", "relaunch"} /\ silence' \in {0, silence}
      /\ ~ resident => pc' = "wait" /\ stop' = stop
      /\ resident /\ pc' = "wait" => silence < HostIdle /\ silence' = 0 /\ stop' = stop
      /\ pc' = "relaunch" => silence' = silence
  BY RingAssumption DEF Enqueue, RingInv, Clocks
<1>6. Launch("caller", e)
  BY <1>1, Zenon DEF Enqueue
<1>7. Caller' = Caller \o e /\ Own' = Own
  BY <1>6, LaunchCaller
<1>8. /\ Len(Caller') = Len(Caller) + Len(e) /\ Len(e) \in Nat /\ Len(Caller) \in Nat
      /\ \A i \in 1..Len(Caller) : Caller'[i] = Caller[i]
      /\ \A i \in 1..Len(e) : Caller'[Len(Caller) + i] = e[i]
      /\ \A i \in 1..Len(Caller') : i \in 1..Len(Caller) \/ (i - Len(Caller) \in 1..Len(e) /\ Caller'[i] = e[i - Len(Caller)])
      /\ Front("wave")' <=> Front("wave")
      /\ Front("publish")' <=> Front("publish")
  <2>1. Len(e) > 0 /\ e[1].op \notin {"wave", "publish"}
    BY <1>2, <1>3
  <2>2. Len(Caller) \in Nat
    BY Lens
  <2> QED
    BY <1>7, <2>1, <2>2, AppendFront
<1>9. Clocks'
  BY <1>4, <1>5 DEF RingInv, Clocks
<1>10. Numbers'
  <2>1. \A k \in 3..Len(e) : e[k].op \in {"clear", "wave"}
    <3> SUFFICES ASSUME NEW k \in 3..Len(e) PROVE e[k].op \in {"clear", "wave"}
      OBVIOUS
    <3>4. Len(e) \in {2, 4}
      BY <1>2, Zenon
    <3>3. Len(e) # 2
      <4>1. PICK n \in {2, 4} : n = Len(e)
        BY <3>4
      <4>2. k \in 3..n
        BY <4>1
      <4> QED
        BY <4>1, <4>2
    <3>1. Len(e) = 4 /\ ~ resident
      BY <1>2, <3>3, Zenon
    <3>2. k = 3 \/ k = 4
      BY <3>1
    <3> QED
      BY <1>2, <3>1, <3>2
  <2>3. Len(e) >= 2 /\ nextHead \in Nat /\ Caller \in Seq(CallerOps)
    BY <1>2 DEF Types
  <2>2. Takes(Caller \o e, head, nextHead + 1)
    BY <1>2, <2>1, <2>3, TakesNode DEF RingInv, Numbers
  <2> QED
    BY <1>4, <1>7, <2>2 DEF RingInv, Numbers
<1>11. Claims'
  BY <1>4, <1>7, <1>8 DEF RingInv, Claims, OwnFront
<1>12. LastDone'
  BY <1>4, <1>8 DEF RingInv, LastDone
<1>13. BoundedWave'
  <2> SUFFICES ASSUME ~ resident PROVE BoundedWave'
    BY <1>4 DEF BoundedWave
  <2> DEFINE m == Len(Caller)
  <2>1. Caller'[m + 1].op = "write" /\ Caller'[m + 2].op = "publish" /\ Caller'[m + 3].op = "clear" /\ Caller'[m + 4].op = "wave"
    <3>2. Len(e) = 4
      BY <1>2, Zenon
    <3>1. 1 \in 1..Len(e) /\ 2 \in 1..Len(e) /\ 3 \in 1..Len(e) /\ 4 \in 1..Len(e)
      BY <3>2
    <3> QED
      BY <1>2, <1>3, <1>8, <3>1
  <2>2. Len(Caller') = m + 4 /\ m \in Nat
    BY <1>2, <1>8
  <2>3. ASSUME NEW i \in 1..Len(Caller') PROVE Follows(Caller', i)
    <3>1. CASE i \in 1..Len(Caller)
      <4>1. Follows(Caller, i) /\ Caller'[i] = Caller[i]
        BY <1>8, <3>1 DEF RingInv, BoundedWave
      <4> QED
        BY <1>8, <3>1, <4>1 DEF Follows
    <3>2. CASE i \notin 1..Len(Caller)
      <4>1. i = m + 1 \/ i = m + 2 \/ i = m + 3 \/ i = m + 4
        BY <2>2, <3>2
      <4>2. (m + 2) + 1 = m + 3 /\ (m + 2) + 2 = m + 4 /\ (m + 4) - 1 = m + 3
        BY <2>2
      <4> HIDE DEF m
      <4> QED
        BY <2>1, <2>2, <4>1, <4>2 DEF Follows
    <3> QED
      BY <3>1, <3>2
  <2>4. Front("clear") => Front("clear")'
    BY <1>8 DEF Front
  <2> QED
    BY <1>4, <1>5, <1>7, <1>8, <2>3, <2>4 DEF RingInv, BoundedWave
<1>14. ResidentWave'
  <2> SUFFICES ASSUME resident PROVE ResidentWave'
    BY <1>4 DEF ResidentWave
  <2>1. ~ Quiet'
    <3>5. Len(e) \in {2, 4}
      BY <1>2, Zenon
    <3>2. 2 \in 1..Len(e)
      BY <3>5
    <3>3. Caller'[Len(Caller) + 2].op = "publish"
      BY <1>3, <1>8, <3>2
    <3>4. Len(Caller) + 2 \in 1..Len(Caller')
      BY <1>8, <3>2
    <3>1. Len(Caller) + 2 \in 1..Len(Caller') /\ Caller'[Len(Caller) + 2].op = "publish"
      BY <3>3, <3>4
    <3> QED
      BY <3>1 DEF Quiet
  <2>2. pc' = "wait" => Alive
    <3>1. pc' = "wait" => ~ (silence >= WaveIdle \/ silence >= HostIdle)
      BY <1>4, <1>5, RingAssumption DEF RingInv, Clocks
    <3> QED
      BY <1>4, <3>1 DEF RingInv, ResidentWave
  <2>3. pc' = "wait" => Alive'
    BY <1>4, <1>5, <1>7, <2>2 DEF Alive
  <2> QED
    BY <1>4, <1>5, <1>7, <1>8, <2>1, <2>3 DEF RingInv, ResidentWave, Busy, OwnFront
<1> QED
  BY <1>9, <1>10, <1>11, <1>12, <1>13, <1>14 DEF RingInv

LEMMA RingRelaunch ==
  ASSUME Types, Types', Residence, RingInv, Relaunch
  PROVE  RingInv'
<1>1. /\ Launch("own", FreshWave) /\ pc = "relaunch" /\ pc' = "wait" /\ silence' = 0 /\ resident
      /\ UNCHANGED <<resident, stop, idle, head, tail, slots, claimed, nextHead>>
  BY DEF Relaunch, waveVars, WaveStream, Residence
<1>2. PICK e \in Seq(OwnOps) : e = FreshWave /\ Len(e) = 2 /\ e[1].op = "clear" /\ e[2].op = "wave"
  <2> DEFINE c == Clear
             w == Wave(TRUE)
  <2>1. c.op = "clear" /\ w.op = "wave" /\ FreshWave = <<c, w>>
    BY DEF Clear, Wave, FreshWave
  <2> HIDE DEF c, w
  <2>2. Len(<<c, w>>) = 2 /\ <<c, w>>[1] = c /\ <<c, w>>[2] = w
    OBVIOUS
  <2> QED
    BY <2>1, <2>2, WaveOps
<1>3. Caller' = Caller /\ Own' = Own \o e /\ Own \in Seq(OwnOps)
  BY <1>1, <1>2, LaunchOwn DEF Types
<1>4. PICK m \in Nat : m = Len(Own)
  BY Lens
<1>5. /\ Len(Own') = m + 2
      /\ \A i \in 1..(m + 2) : Own'[i] = IF i <= m THEN Own[i] ELSE e[i - m]
  <2>1. /\ Len(Own \o e) = Len(Own) + Len(e)
        /\ \A i \in 1..(Len(Own) + Len(e)) : (Own \o e)[i] = IF i <= Len(Own) THEN Own[i] ELSE e[i - Len(Own)]
    BY <1>3, ConcatProperties
  <2>2. Len(e) = 2
    BY <1>2, Zenon
  <2> QED
    BY <1>3, <1>4, <2>1, <2>2
<1>6. Own'[m + 1].op = "clear" /\ Own'[m + 2].op = "wave" /\ \A i \in 1..m : Own'[i] = Own[i]
  BY <1>2, <1>5
<1>7. OwnFront("wave") => OwnFront("wave")'
  BY <1>4, <1>5, <1>6 DEF OwnFront
<1>8. Clocks' /\ Numbers' /\ LastDone' /\ BoundedWave'
  BY <1>1, <1>3 DEF RingInv, Clocks, Numbers, LastDone, BoundedWave, Front
<1>9. Claims'
  BY <1>1, <1>3, <1>7 DEF RingInv, Claims, Front
<1>10. ResidentWave'
  <2>1. ASSUME NEW i \in 1..Len(Own'), i > 1 PROVE Own'[i].op # Own'[i - 1].op
    <3>1. CASE i <= m
      <4>1. i \in 1..m /\ i - 1 \in 1..m
        BY <2>1, <3>1
      <4> QED
        BY <1>1, <1>4, <1>6, <2>1, <4>1 DEF RingInv, ResidentWave
    <3>2. CASE i = m + 1
      <4>1. i - 1 = m /\ m \in 1..m /\ m > 0
        BY <2>1, <3>2
      <4>2. Own[m].op = "wave"
        BY <1>1, <1>4, <4>1 DEF RingInv, ResidentWave
      <4> QED
        BY <1>6, <3>2, <4>1, <4>2
    <3>3. CASE i = m + 2
      <4>1. i - 1 = m + 1
        BY <3>3
      <4> QED
        BY <1>6, <3>3, <4>1
    <3> QED
      BY <1>5, <3>1, <3>2, <3>3
  <2>2. Own'[Len(Own')].op = "wave" /\ Len(Own') >= 2
    BY <1>5, <1>6
  <2>3. Quiet' => Quiet
    BY <1>1, <1>3 DEF Quiet
  <2> QED
    BY <1>1, <1>3, <1>7, <2>1, <2>2, <2>3 DEF RingInv, ResidentWave, Alive, Busy, Front, Clocks
<1> QED
  BY <1>8, <1>9, <1>10 DEF RingInv

LEMMA RingLaunchResident ==
  ASSUME Types, Types', Residence, RingInv, LaunchResident
  PROVE  RingInv'
<1>1. /\ Launch("own", <<Clear>>) /\ pc = "idle" /\ pc' = "launch" /\ ~ resident
      /\ UNCHANGED <<resident, stop, silence, idle, head, tail, slots, claimed, nextHead>>
  BY DEF LaunchResident, waveVars
<1>2. <<Clear>> \in Seq(OwnOps) /\ Len(<<Clear>>) = 1 /\ <<Clear>>[1].op = "clear"
  BY OpTypes DEF Clear
<1>3. Caller' = Caller /\ Own' = Own \o <<Clear>> /\ Own \in Seq(OwnOps)
  BY <1>1, <1>2, LaunchOwn DEF Types
<1>4. Own = <<>>
  BY <1>1, Lens DEF RingInv, BoundedWave
<1>5. Own' = <<Clear>>
  BY <1>2, <1>3, <1>4, ConcatEmptySeq
<1>6. Len(Own') = 1 /\ Own'[1].op = "clear"
  BY <1>2, <1>5
<1>7. Clocks' /\ Numbers' /\ LastDone' /\ BoundedWave' /\ ResidentWave'
  BY <1>1, <1>3, <1>6 DEF RingInv, Clocks, Numbers, LastDone, BoundedWave, ResidentWave, Front
<1>8. Claims'
  BY <1>1, <1>3, <1>4, Lens DEF RingInv, Claims, Front, OwnFront
<1> QED
  BY <1>7, <1>8 DEF RingInv

LEMMA RingLaunchWave ==
  ASSUME Types, Types', Residence, RingInv, LaunchWave
  PROVE  RingInv'
<1> DEFINE w == Wave(TRUE)
<1>1. /\ Launch("own", <<w>>) /\ pc = "launch" /\ pc' = "idle" /\ resident' /\ ~ resident
      /\ UNCHANGED <<stop, silence, idle, head, tail, slots, claimed, nextHead>>
  BY DEF LaunchWave, waveVars, Residence
<1>2. w \in OwnOps /\ w.op = "wave"
  BY OpTypes DEF Wave
<1> HIDE DEF w
<1>3. <<w>> \in Seq(OwnOps) /\ Len(<<w>>) = 1 /\ <<w>>[1] = w
  BY <1>2
<1>4. Caller' = Caller /\ Own' = Own \o <<w>> /\ Own \in Seq(OwnOps)
  BY <1>1, <1>3, LaunchOwn DEF Types
<1>5. PICK m \in Nat : m = Len(Own)
  BY Lens
<1>6. Len(Own') = m + 1 /\ Own'[m + 1] = w /\ \A i \in 1..m : Own'[i] = Own[i]
  BY <1>3, <1>4, <1>5, ConcatProperties
<1>7. (m = 1 /\ Own[1].op = "clear") \/ (m = 0 /\ ~ stop)
  BY <1>1, <1>5 DEF RingInv, BoundedWave
<1>8. Len(Caller) = 0 /\ head = tail /\ idle = 0
  BY <1>1 DEF RingInv, BoundedWave, Front
<1>9. ~ OwnFront("wave")
  BY <1>5, <1>7 DEF OwnFront
<1>10. Clocks' /\ Numbers' /\ LastDone' /\ BoundedWave'
  BY <1>1, <1>4 DEF RingInv, Clocks, Numbers, LastDone, BoundedWave, Front
<1>11. Claims'
  BY <1>1, <1>4, <1>9 DEF RingInv, Claims, Front
<1>12. ResidentWave'
  <2>1. \A i \in 1..Len(Own') : i > 1 => i = 2 /\ m = 1
    BY <1>5, <1>6, <1>7
  <2>2. m = 1 => Own'[2].op = "wave" /\ Own'[1].op = "clear"
    BY <1>2, <1>6, <1>7
  <2>3. Own'[Len(Own')].op = "wave"
    BY <1>2, <1>6
  <2>4. Alive'
    BY <1>1, <1>6, <1>7, <1>8, RingAssumption DEF Alive
  <2>5. \A i \in 1..Len(Own') : i > 1 => Own'[i].op # Own'[i - 1].op
    BY <2>1, <2>2
  <2>6. idle' = 0 /\ silence' \in Nat
    BY <1>1, <1>8 DEF RingInv, Clocks
  <2> QED
    BY <1>1, <2>3, <2>4, <2>5, <2>6 DEF ResidentWave
<1> QED
  BY <1>10, <1>11, <1>12 DEF RingInv

\* Steps of the host that launch nothing.
LEMMA RingVerifyAbort ==
  ASSUME FALSE \notin Abort, Types, Types', Residence, RingInv, Verify \/ AbortStep
  PROVE  RingInv'
<1>1. /\ pc \in {"step", "sync"} /\ pc' = "idle"
      /\ UNCHANGED <<queue, resident, stop, silence, idle, head, tail, slots, claimed, nextHead>>
  BY DEF Verify, AbortStep, waveVars
<1>2. Caller' = Caller /\ Own' = Own
  BY <1>1 DEF Caller, Own
<1>3. ~ resident => Len(Caller) = 0
  <2>1. CASE Verify
    <3>1. Caller = <<>>
      BY <2>1 DEF Verify, Caller, Stream
    <3> QED
      BY <3>1, Lens
  <2>2. CASE AbortStep
    <3>1. resident \in Abort /\ Abort \subseteq BOOLEAN
      BY <2>2, RingAssumption DEF AbortStep
    <3>2. resident
      BY <3>1, Zenon
    <3> QED
      BY <3>2
  <2> QED
    BY <2>1, <2>2
<1>4. Clocks' /\ Numbers' /\ LastDone' /\ Claims'
  BY <1>1, <1>2 DEF RingInv, Clocks, Numbers, LastDone, Claims, Front, OwnFront
<1>5. BoundedWave'
  BY <1>1, <1>2, <1>3 DEF RingInv, BoundedWave, Front
<1>6. ResidentWave'
  BY <1>1, <1>2 DEF RingInv, ResidentWave, Quiet, Alive, Busy, Front, OwnFront
<1> QED
  BY <1>4, <1>5, <1>6 DEF RingInv

\* No operation but a wave parks, and the caller's stream has no resident one.
LEMMA NoneParked ==
  ASSUME Types
  PROVE  ~ Parked("caller")
<1> SUFFICES ASSUME Parked("caller") PROVE FALSE
  OBVIOUS
<1>1. Front("wave") /\ Head(Caller).resident
  BY Fronts DEF Parked, Polls, Caller
<1>2. Caller[1].resident /\ Caller[1].op = "wave" /\ Caller[1] \in CallerOps
  BY <1>1, Fronts, Lens DEF Front
<1>3. Caller[1] = Wave(FALSE)
  <2> DEFINE w == Wave(FALSE)
  <2>1. CallerOps = [op : {"write"}, slot : Slot, node : Nat] \cup [op : {"publish"}, head : Nat]
                      \cup {Zero, Clear, w} \cup [op : {"wait"}, slot : Slot, word : Slot]
    BY Zenon DEF CallerOps
  <2> HIDE DEF w
  <2>2. Caller[1] = w
    BY <1>2, <2>1 DEF Zero, Clear
  <2> QED
    BY <2>2 DEF w
<1>4. Wave(FALSE).resident = FALSE
  BY DEF Wave
<1> QED
  BY <1>2, <1>3, <1>4, Zenon

\* Time: with nothing in error, a stream whose wave is parked holds no wait.
LEMMA RingTick ==
  ASSUME Types, Types', Residence, RingInv, Tick
  PROVE  RingInv'
<1>1. /\ \A s \in Stream : Resting(s)
      /\ pc \notin {"relaunch", "wait", "launch"}
      /\ silence' = (IF silence < HostIdle THEN silence + 1 ELSE silence)
      /\ idle' = (IF idle < WaveIdle /\ \E s \in Stream : Parked(s) THEN idle + 1 ELSE idle)
      /\ UNCHANGED <<queue, pc, resident, stop, head, tail, slots, claimed, nextHead>>
  BY DEF Tick
<1>2. Caller' = Caller /\ Own' = Own
  BY <1>1 DEF Caller, Own
<1>3. head \in Nat /\ silence \in Nat /\ idle \in Nat /\ HostIdle \in Nat /\ WaveIdle \in Nat
  BY RingAssumption DEF RingInv, Clocks
<1>4. silence' \in Nat /\ idle' \in Nat /\ silence' >= silence /\ idle' >= idle /\ idle' <= idle + 1
  BY <1>1, <1>3
<1>5. Clocks' /\ Numbers' /\ LastDone' /\ Claims'
  BY <1>1, <1>2, <1>4 DEF RingInv, Clocks, Numbers, LastDone, Claims, Front, OwnFront
<1>6. ~ Parked("caller")
  BY NoneParked
<1>7. Parked("own") => OwnFront("wave") /\ ~ stop /\ head = tail /\ idle < WaveIdle
  BY <1>3, Fronts DEF Parked, Polls, Expired
<1>8. BoundedWave'
  <2> SUFFICES ASSUME ~ resident PROVE idle' = 0
    BY <1>1, <1>2 DEF RingInv, BoundedWave, Front
  <2>1. ~ OwnFront("wave")
    BY DEF RingInv, BoundedWave, OwnFront
  <2> QED
    BY <1>1, <1>6, <1>7, <2>1 DEF RingInv, BoundedWave, Stream
<1>9. CASE idle' = idle
  <2>1. Quiet' <=> Quiet
    BY <1>1, <1>2 DEF Quiet
  <2>2. Alive' <=> Alive
    BY <1>1, <1>2, <1>9 DEF Alive
  <2>3. ResidentWave'
    BY <1>1, <1>2, <1>3, <1>4, <1>9, <2>1, <2>2 DEF RingInv, ResidentWave, Busy, Front, OwnFront
  <2> QED
    BY <1>5, <1>8, <2>3 DEF RingInv
<1>10. CASE idle' # idle
  <2>1. Parked("own") /\ idle' = idle + 1 /\ OwnFront("wave") /\ ~ stop /\ head = tail
    BY <1>1, <1>6, <1>7, <1>10 DEF Stream
  <2>2. resident
    BY <2>1, Lens DEF Residence, HasWave, OwnFront
  <2>3. Len(Caller) = 0
    <3> SUFFICES ASSUME Len(Caller) # 0 PROVE FALSE
      OBVIOUS
    <3>1. Spins
      BY <1>1, <1>6, Lens DEF Resting, Stream, Caller
    <3>2. Front("wait") /\ slots[Head(Caller).slot].status # "complete"
      BY <3>1, Fronts DEF Spins, Caller
    <3>3. Caller \in Seq(CallerOps) /\ Takes(Caller, head, nextHead) /\ Len(Caller) > 0
      BY Lens DEF Types, RingInv, Numbers
    <3>4. head > 0 /\ Caller[1].slot = (head - 1) % Cap /\ Head(Caller) = Caller[1]
      BY <1>3, <3>2, <3>3, TakesFirst, Fronts DEF Front
    <3>5. ~ Front("publish")
      BY <3>2 DEF Front
    <3> QED
      BY <2>1, <3>2, <3>4, <3>5 DEF RingInv, LastDone
  <2>4. Quiet
    BY <2>1, <2>3 DEF Quiet
  <2>5. idle <= silence \/ silence >= HostIdle
    <3>1. Quiet /\ pc # "relaunch" => idle <= silence \/ silence >= HostIdle
      BY <2>2, Zenon DEF RingInv, ResidentWave
    <3>2. pc # "relaunch"
      BY <1>1
    <3> QED
      BY <2>4, <3>1, <3>2
  <2>6. idle' <= silence' \/ silence' >= HostIdle
    BY <1>1, <1>3, <2>1, <2>5
  <2>7. Alive' \/ (silence' >= WaveIdle \/ silence' >= HostIdle)
    <3>2. Len(Own) \in Nat /\ Len(Own) > 0
      BY <2>1, Lens DEF OwnFront
    <3>1. Len(Own') >= 2 \/ Len(Own') = 1
      BY <1>2, <3>2
    <3> QED
      BY <1>1, <1>3, <1>4, <2>1, <2>6, <3>1 DEF Alive
  <2>8. Quiet'
    BY <1>1, <1>2, <2>4 DEF Quiet
  <2>9. OwnFront("wave")' /\ ~ Front("publish")'
    BY <1>2, <2>1, <2>3 DEF OwnFront, Front
  <2>10. ResidentWave'
    BY <1>1, <1>2, <2>1, <2>2, <2>6, <2>7, <2>8, <2>9 DEF RingInv, ResidentWave
  <2> QED
    BY <1>5, <1>8, <2>10 DEF RingInv
<1> QED
  BY <1>9, <1>10

-----------------------------------------------------------------------------
(* Stranded nodes: the steps of the device.                                *)

\* A step of the caller's stream.
LEMMA CallerShift ==
  ASSUME Types, RingInv, Len(Caller) > 0, Pop("caller")
  PROVE  /\ Own' = Own /\ Len(Caller) \in Nat /\ Len(Caller') = Len(Caller) - 1 /\ Caller' \in Seq(CallerOps)
         /\ \A i \in 1..Len(Caller') : Caller'[i] = Caller[i + 1]
         /\ \A o : Front(o)' <=> Len(Caller) > 1 /\ Caller[2].op = o
         /\ ~ resident => pc \notin {"idle", "launch"}
         /\ Caller \in Seq(CallerOps) /\ Caller[1] \in CallerOps
<1>1. /\ Own' = Own /\ Len(Caller') = Len(Caller) - 1 /\ Caller' \in Seq(CallerOps)
      /\ \A i \in 1..Len(Caller') : Caller'[i] = Caller[i + 1]
      /\ Caller[1] \in CallerOps
  BY PopCaller, Lens
<1>2. Len(Caller) \in Nat
  BY Lens
<1>3. \A o : Front(o)' <=> Len(Caller) > 1 /\ Caller[2].op = o
  BY <1>1, <1>2 DEF Front
<1>4. ~ resident => pc \notin {"idle", "launch"}
  BY DEF RingInv, BoundedWave
<1> QED
  BY <1>1, <1>2, <1>3, <1>4 DEF Types

\* What follows a publish or a bounded wave does not depend on what was in front.
LEMMA FollowsShift ==
  ASSUME NEW q \in Seq(CallerOps), NEW p \in Seq(CallerOps), Len(q) > 0, Len(p) = Len(q) - 1,
         \A k \in 1..Len(p) : p[k] = q[k + 1], \A k \in 1..Len(q) : Follows(q, k)
  PROVE  \A k \in 1..Len(p) : Follows(p, k)
<1> SUFFICES ASSUME NEW k \in 1..Len(p) PROVE Follows(p, k)
  OBVIOUS
<1>1. Len(q) \in Nat /\ Len(p) \in Nat
  OBVIOUS
<1>2. Follows(q, k + 1) /\ p[k] = q[k + 1] /\ k \in Nat /\ k >= 1
  BY <1>1
<1>3. ASSUME (k + 1) + 2 <= Len(q) PROVE k + 2 <= Len(p) /\ p[k + 1] = q[(k + 1) + 1] /\ p[k + 2] = q[(k + 1) + 2]
  BY <1>1, <1>3
<1>4. ASSUME k > 1 PROVE p[k - 1] = q[(k + 1) - 1]
  <2>1. PICK j \in 1..Len(p) : j = k - 1
    BY <1>1, <1>4
  <2>2. p[j] = q[j + 1] /\ j + 1 = (k + 1) - 1
    BY <2>1
  <2> QED
    BY <2>1, <2>2
<1>5. p[k].op = "publish" => k + 2 <= Len(p) /\ p[k + 1].op = "clear" /\ p[k + 2].op = "wave"
  BY <1>2, <1>3 DEF Follows
<1>6. p[k].op = "wave" /\ k > 1 => p[k - 1].op = "clear"
  BY <1>2, <1>4 DEF Follows
<1> QED
  BY <1>5, <1>6 DEF Follows

\* The zeroing, a clear, or the end of a wait.
LEMMA RingPopPlain ==
  ASSUME Types, Types', Residence, RingInv, Len(Caller) > 0, Pop("caller"),
         Caller[1].op \in {"zero", "clear", "wait"},
         Caller[1].op = "clear" => ~ stop', Caller[1].op # "clear" => stop' = stop,
         UNCHANGED <<pc, resident, silence, idle, head, tail, slots, claimed, nextHead>>
  PROVE  RingInv'
<1>1. /\ Own' = Own /\ Len(Caller) \in Nat /\ Len(Caller') = Len(Caller) - 1 /\ Caller' \in Seq(CallerOps)
      /\ \A i \in 1..Len(Caller') : Caller'[i] = Caller[i + 1]
      /\ \A o : Front(o)' <=> Len(Caller) > 1 /\ Caller[2].op = o
      /\ ~ resident => pc \notin {"idle", "launch"}
      /\ Caller \in Seq(CallerOps)
  BY CallerShift
<1>2. Clocks'
  BY DEF RingInv, Clocks
<1>3. Numbers'
  <2>1. Takes(Caller', head, nextHead)
    BY <1>1, TakesPop DEF RingInv, Numbers
  <2> QED
    BY <2>1 DEF RingInv, Numbers
<1>4. ~ Front("wave") /\ ~ Front("publish")
  BY DEF Front
<1>5. ~ Front("publish")'
  BY <1>1, TakesFirst DEF RingInv, Numbers, Clocks
<1>6. Claims'
  BY <1>1, <1>4 DEF RingInv, Claims, OwnFront
<1>7. LastDone'
  BY <1>4 DEF RingInv, LastDone
<1>8. BoundedWave'
  <2> SUFFICES ASSUME ~ resident PROVE BoundedWave'
    BY DEF BoundedWave
  <2>1. \A k \in 1..Len(Caller') : Follows(Caller', k)
    BY <1>1, FollowsShift DEF RingInv, BoundedWave
  <2>2. Front("wave")' => Caller[1].op = "clear"
    <3>1. Len(Caller) > 1 => Follows(Caller, 2) /\ 2 - 1 = 1
      BY <1>1 DEF RingInv, BoundedWave
    <3> QED
      BY <1>1, <3>1 DEF Follows
  <2>3. head # tail => Front("wave")'
    BY <1>1, <1>4 DEF RingInv, BoundedWave
  <2> QED
    BY <1>1, <2>1, <2>2, <2>3 DEF RingInv, BoundedWave
<1>9. ResidentWave'
  <2>1. Quiet' <=> Quiet
    <3>1. \A i \in 1..Len(Caller) : i = 1 \/ (i - 1 \in 1..Len(Caller') /\ Caller'[i - 1] = Caller[i])
      BY <1>1
    <3>2. \A i \in 1..Len(Caller') : i + 1 \in 1..Len(Caller) /\ Caller'[i] = Caller[i + 1]
      BY <1>1
    <3> QED
      BY <3>1, <3>2 DEF Quiet
  <2>2. Alive => Alive'
    BY <1>1 DEF Alive
  <2> QED
    BY <1>1, <1>5, <2>1, <2>2 DEF RingInv, ResidentWave, Busy, OwnFront
<1> QED
  BY <1>2, <1>3, <1>6, <1>7, <1>8, <1>9 DEF RingInv

\* The write of a slot.
LEMMA RingWrite ==
  ASSUME Types, Types', Residence, RingInv, Len(Caller) > 0, Pop("caller"), Caller[1].op = "write",
         slots' = [slots EXCEPT ![Caller[1].slot] = [node |-> Caller[1].node, status |-> "pending"]],
         UNCHANGED <<pc, resident, stop, silence, idle, head, tail, claimed, nextHead>>
  PROVE  RingInv'
<1>1. /\ Own' = Own /\ Len(Caller) \in Nat /\ Len(Caller') = Len(Caller) - 1 /\ Caller' \in Seq(CallerOps)
      /\ \A i \in 1..Len(Caller') : Caller'[i] = Caller[i + 1]
      /\ \A o : Front(o)' <=> Len(Caller) > 1 /\ Caller[2].op = o
      /\ ~ resident => pc \notin {"idle", "launch"}
      /\ Caller \in Seq(CallerOps) /\ Caller[1] \in CallerOps
  BY CallerShift
<1>2. Caller[1].slot = head % Cap /\ Len(Caller) > 1 /\ Caller[2].op = "publish"
  BY <1>1, TakesFirst DEF RingInv, Numbers, Clocks
<1>3. Clocks'
  BY DEF RingInv, Clocks
<1>4. Numbers'
  <2>1. Takes(Caller', head, nextHead)
    BY <1>1, TakesPop DEF RingInv, Numbers
  <2> QED
    BY <2>1 DEF RingInv, Numbers
<1>5. ~ Front("wave") /\ Front("publish")' /\ ~ Front("wave")'
  BY <1>1, <1>2 DEF Front
<1>6. head % Cap \in Slot /\ \A c \in Slot : slots'[c].status = IF c = head % Cap THEN "pending" ELSE slots[c].status
  BY <1>2, SlotFacts DEF Types, RingInv, Clocks
<1>7. Claims'
  BY <1>1, <1>5, <1>6 DEF RingInv, Claims, OwnFront
<1>8. LastDone'
  BY <1>5 DEF LastDone
<1>9. BoundedWave'
  <2> SUFFICES ASSUME ~ resident PROVE BoundedWave'
    BY DEF BoundedWave
  <2>1. \A k \in 1..Len(Caller') : Follows(Caller', k)
    BY <1>1, FollowsShift DEF RingInv, BoundedWave
  <2>2. head = tail
    BY DEF RingInv, BoundedWave, Front
  <2> QED
    BY <1>1, <1>5, <2>1, <2>2 DEF RingInv, BoundedWave
<1>10. ResidentWave'
  <2>1. ~ Quiet /\ ~ Quiet'
    <3>1. 2 \in 1..Len(Caller) /\ 1 \in 1..Len(Caller') /\ Caller'[1] = Caller[2]
      BY <1>1, <1>2
    <3> QED
      BY <1>2, <3>1 DEF Quiet
  <2>2. Alive' <=> Alive
    BY <1>1 DEF Alive
  <2>3. tail % Cap \in Slot
    BY SlotFacts DEF Types
  <2>4. resident /\ idle > 0 => slots'[tail % Cap].status = "pending" \/ Busy
    <3>1. CASE head = tail
      BY <1>6, <3>1
    <3>2. CASE head # tail
      BY <1>6, <2>3, <3>2 DEF RingInv, ResidentWave
    <3> QED
      BY <3>1, <3>2
  <2> QED
    BY <1>1, <2>1, <2>2, <2>4 DEF RingInv, ResidentWave, Busy, OwnFront
<1> QED
  BY <1>3, <1>4, <1>7, <1>8, <1>9, <1>10 DEF RingInv

\* The publish of the head.
LEMMA RingPublish ==
  ASSUME Types, Types', Residence, RingInv, Len(Caller) > 0, Pop("caller"), Caller[1].op = "publish",
         head' = Caller[1].head,
         UNCHANGED <<pc, resident, stop, silence, idle, slots, tail, claimed, nextHead>>
  PROVE  RingInv'
<1>1. /\ Own' = Own /\ Len(Caller) \in Nat /\ Len(Caller') = Len(Caller) - 1 /\ Caller' \in Seq(CallerOps)
      /\ \A i \in 1..Len(Caller') : Caller'[i] = Caller[i + 1]
      /\ \A o : Front(o)' <=> Len(Caller) > 1 /\ Caller[2].op = o
      /\ ~ resident => pc \notin {"idle", "launch"}
      /\ Caller \in Seq(CallerOps) /\ Caller[1] \in CallerOps
  BY CallerShift
<1>2. head' = head + 1 /\ head \in Nat /\ tail \in Nat /\ tail <= head
  BY <1>1, TakesFirst DEF RingInv, Numbers, Clocks, Types
<1>3. Clocks'
  BY <1>2 DEF RingInv, Clocks
<1>4. Numbers'
  <2>1. Takes(Caller', head', nextHead)
    BY <1>1, TakesPop DEF RingInv, Numbers
  <2> QED
    BY <1>2, <2>1 DEF Numbers
<1>5. ~ Front("wave") /\ Front("publish") /\ head' # tail'
  BY <1>2 DEF Front
<1>6. Claims'
  BY <1>1, <1>2, <1>5 DEF RingInv, Claims, OwnFront
<1>7. LastDone'
  BY <1>5 DEF LastDone
<1>8. BoundedWave'
  <2> SUFFICES ASSUME ~ resident PROVE BoundedWave'
    BY DEF BoundedWave
  <2>1. \A k \in 1..Len(Caller') : Follows(Caller', k)
    BY <1>1, FollowsShift DEF RingInv, BoundedWave
  <2>2. Follows(Caller, 1) /\ 1 + 2 = 3 /\ 1 + 1 = 2
    BY <1>1 DEF RingInv, BoundedWave
  <2>3. Len(Caller) >= 3 /\ Caller[2].op = "clear" /\ Caller[3].op = "wave"
    BY <2>2 DEF Follows
  <2>4. Front("clear")' /\ ~ Front("wave")' /\ Len(Caller') >= 2 /\ Caller'[2].op = "wave"
    BY <1>1, <2>3
  <2> QED
    BY <1>1, <2>1, <2>4 DEF RingInv, BoundedWave
<1>9. ResidentWave'
  <2>1. ~ Quiet /\ ~ Quiet'
    BY <1>5 DEF Quiet, Front
  <2>2. Alive' <=> Alive
    BY <1>1 DEF Alive
  <2> QED
    BY <1>1, <1>5, <2>1, <2>2 DEF RingInv, ResidentWave, Busy, OwnFront
<1> QED
  BY <1>3, <1>4, <1>6, <1>7, <1>8, <1>9 DEF RingInv

LEMMA RingExecuteCaller ==
  ASSUME Types, Types', Residence, RingInv, Execute("caller")
  PROVE  RingInv'
<1>1. PICK o \in {"write", "publish", "zero", "clear"} : Front(o)
  BY Fronts DEF Execute
<1>2. Len(Caller) > 0 /\ Caller[1].op = o /\ Head(queue["caller"]) = Caller[1]
  BY <1>1, Fronts DEF Front, Caller
<1>3. /\ Pop("caller")
      /\ slots' = IF Caller[1].op = "write"
                  THEN [slots EXCEPT ![Caller[1].slot] = [node |-> Caller[1].node, status |-> "pending"]]
                  ELSE slots
      /\ head' = IF Caller[1].op = "publish" THEN Caller[1].head ELSE head
      /\ stop' = IF Caller[1].op = "clear" THEN FALSE ELSE stop
      /\ UNCHANGED <<pc, resident, silence, idle, tail, claimed, nextHead>>
  BY <1>2 DEF Execute, hostVars
<1>4. CASE o = "write"
  BY <1>2, <1>3, <1>4, RingWrite
<1>5. CASE o = "publish"
  BY <1>2, <1>3, <1>5, RingPublish
<1>6. CASE o \in {"zero", "clear"}
  BY <1>2, <1>3, <1>6, RingPopPlain
<1> QED
  BY <1>4, <1>5, <1>6

LEMMA RingWaitEnds ==
  ASSUME Types, Types', Residence, RingInv, WaitEnds
  PROVE  RingInv'
<1>1. Front("wait") /\ Pop("caller")
  BY Fronts DEF WaitEnds
<1>2. UNCHANGED <<pc, resident, stop, silence, idle, head, tail, slots, claimed, nextHead>>
  BY DEF WaitEnds, hostVars, waveVars
<1> QED
  BY <1>1, <1>2, RingPopPlain DEF Front

\* A step of the ring's own stream.
LEMMA OwnShift ==
  ASSUME Types, Len(Own) > 0, Pop("own")
  PROVE  /\ Caller' = Caller /\ Len(Own) \in Nat /\ Len(Own') \in Nat /\ Len(Own') = Len(Own) - 1
         /\ \A i \in 1..Len(Own') : Own'[i] = Own[i + 1]
         /\ \A o : OwnFront(o)' <=> Len(Own) > 1 /\ Own[2].op = o
         /\ \A o : Front(o)' <=> Front(o)
         /\ Head(Own) = Own[1]
<1>1. /\ Caller' = Caller /\ Len(Own') = Len(Own) - 1 /\ Head(Own) = Own[1]
      /\ \A i \in 1..Len(Own') : Own'[i] = Own[i + 1]
  BY PopOwn, Lens
<1>2. Len(Own) \in Nat /\ Len(Own') \in Nat
  BY <1>1, Lens
<1>3. \A o : OwnFront(o)' <=> Len(Own) > 1 /\ Own[2].op = o
  BY <1>1, <1>2 DEF OwnFront
<1>4. \A o : Front(o)' <=> Front(o)
  BY <1>1 DEF Front
<1> QED
  BY <1>1, <1>2, <1>3, <1>4

\* The waves and the clears of the ring's own stream alternate.
LEMMA AlternateShift ==
  ASSUME NEW q, NEW p, Len(q) \in Nat, Len(p) \in Nat, Len(p) = Len(q) - 1, Len(q) > 0,
         \A k \in 1..Len(p) : p[k] = q[k + 1],
         q[Len(q)].op = "wave", \A k \in 1..Len(q) : k > 1 => q[k].op # q[k - 1].op
  PROVE  /\ Len(p) > 0 => p[Len(p)].op = "wave"
         /\ \A k \in 1..Len(p) : k > 1 => p[k].op # p[k - 1].op
<1>1. Len(p) > 0 => p[Len(p)].op = "wave"
  OBVIOUS
<1>2. ASSUME NEW k \in 1..Len(p), k > 1 PROVE p[k].op # p[k - 1].op
  <2>1. PICK j \in 1..Len(p) : j = k - 1
    BY <1>2
  <2>2. p[j] = q[k] /\ p[k] = q[k + 1] /\ (k + 1) - 1 = k
    BY <2>1
  <2>3. k + 1 \in 1..Len(q) /\ k + 1 > 1
    BY <1>2
  <2> QED
    BY <2>1, <2>2, <2>3
<1> QED
  BY <1>1, <1>2

\* The clear in front of a resident wave.
LEMMA RingExecuteOwn ==
  ASSUME Types, Types', Residence, RingInv, Execute("own")
  PROVE  RingInv'
<1>1. PICK o \in {"write", "publish", "zero", "clear"} : OwnFront(o)
  BY Fronts DEF Execute
<1>2. Len(Own) > 0 /\ Own[1].op = "clear" /\ Head(queue["own"]) = Own[1]
  BY <1>1, Fronts, Lens DEF OwnFront, Own
<1>3. /\ Pop("own") /\ ~ stop'
      /\ UNCHANGED <<pc, resident, silence, slots, head, idle, tail, claimed, nextHead>>
  BY <1>2 DEF Execute, hostVars
<1>4. /\ Caller' = Caller /\ Len(Own) \in Nat /\ Len(Own') \in Nat /\ Len(Own') = Len(Own) - 1
      /\ \A i \in 1..Len(Own') : Own'[i] = Own[i + 1]
      /\ \A x : Front(x)' <=> Front(x)
  BY <1>2, <1>3, OwnShift
<1>5. ~ OwnFront("wave")
  BY <1>2 DEF OwnFront
<1>6. Clocks' /\ Numbers' /\ LastDone'
  BY <1>3, <1>4 DEF RingInv, Clocks, Numbers, LastDone
<1>7. Claims'
  BY <1>3, <1>4, <1>5 DEF RingInv, Claims
<1>8. BoundedWave'
  <2> SUFFICES ASSUME ~ resident PROVE BoundedWave'
    BY <1>3 DEF BoundedWave
  <2>1. pc = "launch" /\ Len(Own) = 1
    BY <1>2, <1>4 DEF RingInv, BoundedWave
  <2>2. Len(Own') = 0 /\ Len(Caller) = 0
    BY <1>4, <2>1 DEF RingInv, BoundedWave
  <2> QED
    BY <1>3, <1>4, <2>1, <2>2 DEF RingInv, BoundedWave
<1>9. ResidentWave'
  <2> SUFFICES ASSUME resident PROVE ResidentWave'
    BY <1>3 DEF ResidentWave
  <2>1. /\ Own[Len(Own)].op = "wave"
        /\ \A i \in 1..Len(Own) : i > 1 => Own[i].op # Own[i - 1].op
        /\ idle = 0
    BY <1>2, <1>5 DEF RingInv, ResidentWave, Clocks
  <2>2. /\ Len(Own') > 0 => Own'[Len(Own')].op = "wave"
        /\ \A i \in 1..Len(Own') : i > 1 => Own'[i].op # Own'[i - 1].op
    BY <1>2, <1>4, <2>1, AlternateShift
  <2>3. Len(Own) >= 2
    BY <1>2, <1>4, <2>1
  <2>4. Alive'
    BY <1>3, <1>4, <2>1, <2>3, RingAssumption DEF Alive
  <2>5. idle' = 0 /\ silence' \in Nat
    BY <1>3, <2>1 DEF RingInv, Clocks
  <2> QED
    BY <2>2, <2>4, <2>5 DEF ResidentWave
<1> QED
  BY <1>6, <1>7, <1>8, <1>9 DEF RingInv

\* A bounded wave leaves when the ring is empty.
LEMMA RingWaveExitCaller ==
  ASSUME Types, Types', Residence, RingInv, WaveExit("caller")
  PROVE  RingInv'
<1>1. /\ Front("wave") /\ claimed["caller"] = Free /\ Pop("caller")
      /\ Expired \/ stop \/ head = tail
      /\ stop' = TRUE /\ idle' = 0
      /\ UNCHANGED <<pc, resident, silence, slots, head, tail, claimed, nextHead>>
  BY Fronts DEF WaveExit, Polls, hostVars
<1>2. ~ resident /\ ~ OwnFront("wave") /\ Len(Caller) > 0 /\ Caller[1].op = "wave"
  BY <1>1, OneFront DEF Front
<1>3. idle = 0 /\ ~ stop /\ head = tail
  BY <1>1, <1>2, RingAssumption DEF RingInv, BoundedWave, Expired
<1>4. /\ Own' = Own /\ Len(Caller) \in Nat /\ Len(Caller') = Len(Caller) - 1 /\ Caller' \in Seq(CallerOps)
      /\ \A i \in 1..Len(Caller') : Caller'[i] = Caller[i + 1]
      /\ \A o : Front(o)' <=> Len(Caller) > 1 /\ Caller[2].op = o
      /\ pc \notin {"idle", "launch"}
      /\ Caller \in Seq(CallerOps)
  BY <1>1, <1>2, CallerShift
<1>5. Clocks'
  BY <1>1 DEF RingInv, Clocks
<1>6. Numbers'
  <2>1. Takes(Caller', head, nextHead)
    BY <1>2, <1>4, TakesPop DEF RingInv, Numbers
  <2> QED
    BY <1>1, <2>1 DEF RingInv, Numbers
<1>7. Claims'
  BY <1>1, <1>4 DEF RingInv, Claims, OwnFront
<1>8. LastDone'
  <2>1. ~ Front("publish")
    BY <1>2 DEF Front
  <2> QED
    BY <1>1, <2>1 DEF RingInv, LastDone
<1>9. BoundedWave'
  <2>1. \A k \in 1..Len(Caller') : Follows(Caller', k)
    BY <1>2, <1>4, FollowsShift DEF RingInv, BoundedWave
  <2>2. ~ Front("wave")'
    <3>1. Len(Caller) > 1 => Follows(Caller, 2) /\ 2 - 1 = 1
      BY <1>2, <1>4 DEF RingInv, BoundedWave
    <3> QED
      BY <1>2, <1>4, <3>1 DEF Follows
  <2> QED
    BY <1>1, <1>2, <1>3, <1>4, <2>1, <2>2 DEF RingInv, BoundedWave
<1>10. ResidentWave'
  BY <1>1, <1>2 DEF ResidentWave
<1> QED
  BY <1>5, <1>6, <1>7, <1>8, <1>9, <1>10 DEF RingInv

\* A resident wave leaves when it is stopped or its budget is spent: another
\* one is behind it, or there is nothing to serve.
LEMMA RingWaveExitOwn ==
  ASSUME Types, Types', Residence, RingInv, WaveExit("own")
  PROVE  RingInv'
<1>1. /\ OwnFront("wave") /\ claimed["own"] = Free /\ Pop("own")
      /\ Expired \/ stop \/ (head = tail /\ ~ Head(Own).resident)
      /\ stop' = TRUE /\ idle' = 0
      /\ UNCHANGED <<pc, resident, silence, slots, head, tail, claimed, nextHead>>
  BY Fronts DEF WaveExit, Polls, hostVars, Own
<1>2. Len(Own) > 0 /\ Own[1].op = "wave" /\ resident
  BY <1>1, Lens DEF OwnFront, Residence, HasWave
<1>3. /\ Caller' = Caller /\ Len(Own) \in Nat /\ Len(Own') \in Nat /\ Len(Own') = Len(Own) - 1
      /\ \A i \in 1..Len(Own') : Own'[i] = Own[i + 1]
      /\ \A o : Front(o)' <=> Front(o)
      /\ Head(Own) = Own[1]
  BY <1>1, <1>2, OwnShift
<1>4. Expired \/ stop
  <2>1. Own[1] \in OwnOps
    BY <1>2, Lens
  <2>2. Own[1] = Wave(TRUE)
    <3> DEFINE w == Wave(TRUE)
    <3>1. OwnOps = {Clear, w}
      BY Zenon DEF OwnOps
    <3> HIDE DEF w
    <3>2. Own[1] = w
      BY <1>2, <2>1, <3>1 DEF Clear
    <3> QED
      BY <3>2 DEF w
  <2>3. Wave(TRUE).resident = TRUE
    BY DEF Wave
  <2>4. Own[1].resident
    BY <2>2, <2>3, Zenon
  <2> QED
    BY <1>1, <1>3, <2>4, Zenon
<1>5. ~ OwnFront("wave") \/ claimed["own"] = Free
  BY <1>1
<1>6. Clocks' /\ Numbers' /\ LastDone'
  BY <1>1, <1>3 DEF RingInv, Clocks, Numbers, LastDone
<1>7. Claims'
  BY <1>1, <1>3 DEF RingInv, Claims
<1>8. BoundedWave'
  BY <1>1, <1>2 DEF BoundedWave
<1>9. ResidentWave'
  <2>1. /\ Own[Len(Own)].op = "wave"
        /\ \A i \in 1..Len(Own) : i > 1 => Own[i].op # Own[i - 1].op
        /\ pc # "relaunch" => Alive \/ (Quiet /\ (silence >= WaveIdle \/ silence >= HostIdle))
    BY <1>2 DEF RingInv, ResidentWave
  <2>2. /\ Len(Own') > 0 => Own'[Len(Own')].op = "wave"
        /\ \A i \in 1..Len(Own') : i > 1 => Own'[i].op # Own'[i - 1].op
    BY <1>2, <1>3, <2>1, AlternateShift
  <2>3. Quiet' <=> Quiet
    BY <1>1, <1>3 DEF Quiet
  <2>4. pc # "relaunch" => Alive' \/ (Quiet' /\ (silence' >= WaveIdle \/ silence' >= HostIdle))
    <3>1. CASE Len(Own) = 1
      <4>1. ~ Alive
        BY <1>4, <3>1, RingAssumption DEF Alive, Expired, RingInv, Clocks
      <4> QED
        BY <1>1, <2>1, <2>3, <4>1
    <3>2. CASE Len(Own) > 1
      <4>1. 2 \in 1..Len(Own) /\ 2 - 1 = 1
        BY <1>3, <3>2
      <4>2. Own[2].op # "wave"
        BY <1>2, <2>1, <4>1
      <4>3. Len(Own) # 2
        BY <2>1, <4>2
      <4>4. Alive'
        BY <1>3, <3>2, <4>3 DEF Alive
      <4> QED
        BY <4>4
    <3> QED
      BY <1>2, <1>3, <3>1, <3>2
  <2>5. idle' = 0 /\ silence' \in Nat
    BY <1>1 DEF RingInv, Clocks
  <2> QED
    BY <1>1, <2>2, <2>4, <2>5 DEF ResidentWave
<1> QED
  BY <1>6, <1>7, <1>8, <1>9 DEF RingInv

\* What a wave at work on stream s knows: it is the only one.
LEMMA AtWork ==
  ASSUME Types, Residence, RingInv, NEW s \in Stream, AtHead(s, "wave")
  PROVE  /\ \A t \in Stream : claimed[t] # Free => t = s
         /\ s = "caller" => Front("wave") /\ ~ resident
         /\ s = "own" => OwnFront("wave") /\ resident
<1>1. s = "caller" => Front("wave")
  BY Fronts
<1>2. s = "own" => OwnFront("wave")
  BY Fronts
<1>3. ~ (Front("wave") /\ OwnFront("wave")) /\ (resident => ~ Front("wave"))
  BY OneFront
<1>4. OwnFront("wave") => resident
  BY Lens DEF OwnFront, Residence, HasWave
<1>5. ASSUME NEW t \in Stream, claimed[t] # Free PROVE t = s
  BY <1>1, <1>2, <1>3, <1>5 DEF RingInv, Claims, Stream
<1> QED
  BY <1>1, <1>2, <1>3, <1>4, <1>5

\* A wave takes the slot at the tail, or skips it.
LEMMA RingWaveClaim ==
  ASSUME Types, Types', Residence, RingInv, NEW s \in Stream, WaveClaim(s)
  PROVE  RingInv'
<1> DEFINE c == tail % Cap
<1>1. /\ AtHead(s, "wave") /\ claimed[s] = Free /\ idle < WaveIdle /\ ~ stop /\ tail # head
      /\ UNCHANGED <<queue, pc, resident, silence, idle, head, stop, nextHead>>
  BY RingAssumption DEF WaveClaim, Polls, Expired, HasWork, hostVars, RingInv, Clocks
<1>2. Caller' = Caller /\ Own' = Own
  BY <1>1 DEF Caller, Own
<1>3. /\ \A t \in Stream : claimed[t] = Free
      /\ s = "caller" => Front("wave") /\ ~ resident
      /\ s = "own" => OwnFront("wave") /\ resident
  BY <1>1, AtWork
<1>4. tail \in Nat /\ head \in Nat /\ tail < head /\ c \in Slot
  BY <1>1, SlotFacts DEF Types, RingInv, Clocks, Numbers
<1>5. Clocks'
  BY <1>1 DEF RingInv, Clocks
<1>6. \A o : (Front(o)' <=> Front(o)) /\ (OwnFront(o)' <=> OwnFront(o))
  BY <1>2 DEF Front, OwnFront
<1>7. CASE slots[c].status = "pending"
  <2>1. /\ slots' = [slots EXCEPT ![c].status = "running"]
        /\ claimed' = [claimed EXCEPT ![s] = c] /\ tail' = tail
    BY <1>7 DEF WaveClaim
  <2>2. /\ \A d \in Slot : slots'[d].status = IF d = c THEN "running" ELSE slots[d].status
        /\ claimed'[s] = c /\ \A t \in Stream : t # s => claimed'[t] = Free
    BY <1>3, <1>4, <2>1 DEF Types
  <2>3. c # Free
    BY <1>4, SlotFacts DEF Slot, Free
  <2>4. Numbers' /\ LastDone'
    BY <1>1, <1>2, <2>1 DEF RingInv, Numbers, LastDone
  <2>5. Claims'
    <3>1. /\ claimed'["caller"] # Free => Front("wave")'
          /\ claimed'["own"] # Free => OwnFront("wave")'
      BY <1>3, <1>6, <2>2 DEF Stream
    <3>2. \A t \in Stream : claimed'[t] # Free => claimed'[t] = tail' % Cap /\ tail' < head'
      BY <1>1, <1>4, <2>1, <2>2
    <3>3. \A d \in Slot : slots'[d].status = "running" => \E t \in Stream : claimed'[t] = d
      <4>1. ASSUME NEW d \in Slot, d # c PROVE slots[d].status # "running"
        <5>1. d # Free
          BY SlotFacts DEF Slot, Free
        <5> QED
          BY <1>3, <5>1 DEF RingInv, Claims
      <4> QED
        BY <2>2, <4>1
    <3>4. \A d \in Slot : slots'[d].status # "error"
      BY <2>2 DEF RingInv, Claims
    <3> QED
      BY <3>1, <3>2, <3>3, <3>4 DEF Claims
  <2>6. BoundedWave'
    BY <1>1, <1>2, <1>6, <2>1 DEF RingInv, BoundedWave
  <2>7. ResidentWave'
    <3>1. Busy'
      BY <2>2, <2>3 DEF Busy
    <3>2. (Quiet' <=> Quiet) /\ (Alive' <=> Alive)
      BY <1>1, <1>2, <2>1 DEF Quiet, Alive
    <3> QED
      BY <1>1, <1>2, <1>6, <3>1, <3>2 DEF RingInv, ResidentWave
  <2> QED
    BY <1>5, <2>4, <2>5, <2>6, <2>7 DEF RingInv
<1>8. CASE slots[c].status # "pending"
  <2>1. slots' = slots /\ claimed' = claimed /\ tail' = tail + 1
    BY <1>8 DEF WaveClaim
  <2>2. slots[c].status = "complete"
    <3>1. slots[c].status \in Status /\ slots[c].status # "error"
      BY <1>4 DEF Types, RingInv, Claims
    <3>2. slots[c].status # "running"
      <4>1. c # Free
        BY <1>4, SlotFacts DEF Slot, Free
      <4> QED
        BY <1>3, <1>4, <4>1 DEF RingInv, Claims
    <3> QED
      BY <1>8, <3>1, <3>2 DEF Status
  <2>3. Numbers'
    BY <1>1, <1>2, <1>4, <2>1 DEF RingInv, Numbers
  <2>4. Claims'
    BY <1>3, <1>6, <2>1 DEF RingInv, Claims
  <2>5. LastDone'
    <3>1. (tail + 1) - 1 = tail
      BY <1>4
    <3> QED
      BY <1>1, <2>1, <2>2, <3>1 DEF LastDone
  <2>6. idle = 0
    <3>1. CASE resident
      <4>1. ~ Busy
        BY <1>3 DEF Busy
      <4>2. idle > 0 => slots[c].status = "pending" \/ Busy
        BY <1>1, <3>1 DEF RingInv, ResidentWave
      <4> QED
        BY <1>8, <4>1, <4>2 DEF RingInv, Clocks
    <3>2. CASE ~ resident
      BY <3>2 DEF RingInv, BoundedWave
    <3> QED
      BY <3>1, <3>2
  <2>7. BoundedWave'
    <3>1. ~ resident => Front("wave")
      BY <1>3 DEF Stream
    <3> QED
      BY <1>1, <1>2, <1>6, <3>1 DEF RingInv, BoundedWave
  <2>8. ResidentWave'
    <3> SUFFICES ASSUME resident PROVE ResidentWave'
      BY <1>1 DEF ResidentWave
    <3>1. ~ Quiet
      BY <1>1 DEF Quiet
    <3>2. pc # "relaunch" => Alive'
      BY <1>1, <1>2, <3>1 DEF RingInv, ResidentWave, Alive
    <3>3. idle' = 0 /\ silence' \in Nat
      BY <1>1, <2>6 DEF RingInv, Clocks
    <3>4. /\ Len(Own') > 0 => Own'[Len(Own')].op = "wave"
          /\ \A i \in 1..Len(Own') : i > 1 => Own'[i].op # Own'[i - 1].op
      BY <1>2 DEF RingInv, ResidentWave
    <3> QED
      BY <1>1, <3>2, <3>3, <3>4 DEF ResidentWave
  <2> QED
    BY <1>5, <2>3, <2>4, <2>5, <2>7, <2>8 DEF RingInv
<1> QED
  BY <1>7, <1>8

\* A task ends.
LEMMA RingWaveDone ==
  ASSUME Types, Types', Residence, RingInv, bad = {}, NEW s \in Stream, WaveDone(s)
  PROVE  RingInv'
<1> DEFINE c == tail % Cap
<1>1. /\ claimed[s] # Free /\ claimed' = [claimed EXCEPT ![s] = Free]
      /\ tail' = tail + 1 /\ idle' = 0
      /\ UNCHANGED <<queue, pc, resident, silence, head, stop, nextHead>>
      /\ slots' = [slots EXCEPT ![claimed[s]].status = "complete"]
  BY DEF WaveDone, hostVars
<1>2. Caller' = Caller /\ Own' = Own
  BY <1>1 DEF Caller, Own
<1>3. AtHead(s, "wave") /\ claimed[s] = c /\ tail < head
  BY <1>1, Fronts DEF RingInv, Claims, Stream
<1>4. /\ \A t \in Stream : t # s => claimed[t] = Free
      /\ s = "caller" => Front("wave") /\ ~ resident
      /\ s = "own" => OwnFront("wave") /\ resident
  BY <1>3, AtWork
<1>5. tail \in Nat /\ head \in Nat /\ c \in Slot
  BY SlotFacts DEF Types, RingInv, Clocks
<1>6. \A o : (Front(o)' <=> Front(o)) /\ (OwnFront(o)' <=> OwnFront(o))
  BY <1>2 DEF Front, OwnFront
<1>7. /\ \A t \in Stream : claimed'[t] = Free
      /\ \A d \in Slot : slots'[d].status = IF d = c THEN "complete" ELSE slots[d].status
  BY <1>1, <1>3, <1>4, <1>5 DEF Types
<1>8. Clocks' /\ Numbers'
  BY <1>1, <1>2, <1>3, <1>5 DEF RingInv, Clocks, Numbers
<1>9. Claims'
  <2>1. ASSUME NEW d \in Slot PROVE slots'[d].status \notin {"running", "error"}
    <3>1. d # c => \A t \in Stream : claimed[t] # d
      BY <1>3, <1>4, SlotFacts DEF Slot, Free
    <3> QED
      BY <1>7, <3>1 DEF RingInv, Claims
  <2> QED
    BY <1>7, <2>1 DEF Claims, Stream
<1>10. LastDone'
  <2>1. (tail + 1) - 1 = tail
    BY <1>5
  <2> QED
    BY <1>1, <1>5, <1>7, <2>1 DEF LastDone
<1>11. BoundedWave'
  <2>1. ~ resident => Front("wave")
    BY <1>4 DEF Stream
  <2> QED
    BY <1>1, <1>2, <1>6, <2>1 DEF RingInv, BoundedWave
<1>12. ResidentWave'
  <2> SUFFICES ASSUME resident PROVE ResidentWave'
    BY <1>1 DEF ResidentWave
  <2>1. ~ Quiet
    BY <1>3, <1>5 DEF Quiet
  <2>2. pc # "relaunch" => Alive'
    BY <1>1, <1>2, <2>1, RingAssumption DEF RingInv, ResidentWave, Alive
  <2>3. idle' = 0 /\ silence' \in Nat
    BY <1>1 DEF RingInv, Clocks
  <2>4. /\ Len(Own') > 0 => Own'[Len(Own')].op = "wave"
        /\ \A i \in 1..Len(Own') : i > 1 => Own'[i].op # Own'[i - 1].op
    BY <1>2 DEF RingInv, ResidentWave
  <2> QED
    BY <1>1, <2>2, <2>3, <2>4 DEF ResidentWave
<1> QED
  BY <1>8, <1>9, <1>10, <1>11, <1>12 DEF RingInv

-----------------------------------------------------------------------------
(* Stranded nodes: the theorem.                                            *)

LEMMA UnstrandedInit == Init => Unstranded
<1> SUFFICES ASSUME Init PROVE RingInv
  BY DEF Unstranded
<1>1. Caller = <<>> /\ Own = <<>> /\ Len(Caller) = 0 /\ Len(Own) = 0
  BY DEF Init, Caller, Own, Stream
<1>2. /\ pc = "idle" /\ ~ resident /\ head = 0 /\ tail = 0 /\ nextHead = 0 /\ idle = 0 /\ silence = 0
      /\ \A s \in Stream : claimed[s] = Free
      /\ \A c \in Slot : slots[c].status = "pending"
  BY DEF Init
<1>3. Takes(Caller, head, nextHead)
  BY <1>1, <1>2 DEF Takes, HeadAt
<1>4. Clocks /\ Numbers /\ LastDone
  BY <1>2, <1>3 DEF Clocks, Numbers, LastDone
<1>5. Claims
  BY <1>2 DEF Claims, Stream
<1>6. BoundedWave /\ ResidentWave
  BY <1>1, <1>2 DEF BoundedWave, ResidentWave, Front
<1> QED
  BY <1>4, <1>5, <1>6 DEF RingInv

\* One step of the program.
LEMMA UnstrandedNext ==
  ASSUME Reuse = FALSE, FALSE \notin Abort, \A g \in Gaps : g < WaveIdle \/ g >= HostIdle,
         Types, Types', Residence, Unstranded, [Next]_vars
  PROVE  Unstranded'
<1> SUFFICES ASSUME bad' = {}, Live' PROVE RingInv'
  BY DEF Unstranded
<1>1. CASE UNCHANGED vars
  <2>1. UNCHANGED <<queue, pc, resident, stop, silence, idle, head, tail, slots, claimed, nextHead, bad>>
    BY <1>1 DEF vars, hostVars, waveVars
  <2>2. RingInv
    BY <2>1 DEF Unstranded, Live
  <2>3. Caller' = Caller /\ Own' = Own
    BY <2>1 DEF Caller, Own
  <2>4. Clocks' /\ Numbers' /\ LastDone' /\ Claims'
    BY <2>1, <2>2, <2>3 DEF RingInv, Clocks, Numbers, LastDone, Claims, Front, OwnFront
  <2>5. BoundedWave'
    BY <2>1, <2>2, <2>3 DEF RingInv, BoundedWave, Front
  <2>6. ResidentWave'
    BY <2>1, <2>2, <2>3 DEF RingInv, ResidentWave, Quiet, Alive, Busy, Front, OwnFront
  <2> QED
    BY <2>4, <2>5, <2>6 DEF RingInv
<1>2. CASE Next
  <2>1. bad' = bad
    BY <1>2 DEF Next, BeginStep, Enqueue, AbortStep, LaunchResident, StopWave, Drop, HostStep, Relaunch,
               WaitNode, Verify, LaunchWave, PollExit, DeviceStep, Execute, WaveExit, WaveClaim, WaveDone,
               WaitEnds, Tick
  <2>2. ~ StopWave /\ ~ Drop /\ ~ PollExit
    BY DEF StopWave, Drop, PollExit, Live
  <2>3. Live
    <3>1. CASE BeginStep \/ Enqueue \/ AbortStep \/ LaunchResident \/ Relaunch \/ WaitNode \/ Verify \/ LaunchWave
      BY <3>1 DEF BeginStep, Enqueue, AbortStep, LaunchResident, Relaunch, WaitNode, Verify, LaunchWave, Live
    <3>2. CASE (\E s \in Stream : DeviceStep(s)) \/ WaitEnds \/ Tick
      <4>1. pc' = pc
        BY <3>2 DEF DeviceStep, Execute, WaveExit, WaveClaim, WaveDone, WaitEnds, Tick, hostVars
      <4> QED
        BY <4>1 DEF Live
    <3> QED
      BY <1>2, <2>2, <3>1, <3>2 DEF Next, HostStep
  <2>4. RingInv /\ bad = {}
    BY <2>1, <2>3 DEF Unstranded
  <2>5. CASE BeginStep
    BY <2>4, <2>5, RingBeginStep
  <2>6. CASE Enqueue
    BY <2>4, <2>6, RingEnqueue
  <2>7. CASE AbortStep \/ Verify
    BY <2>4, <2>7, RingVerifyAbort
  <2>8. CASE LaunchResident
    BY <2>4, <2>8, RingLaunchResident
  <2>9. CASE Relaunch
    BY <2>4, <2>9, RingRelaunch
  <2>10. CASE WaitNode
    BY <2>4, <2>10, RingWaitNode
  <2>11. CASE LaunchWave
    BY <2>4, <2>11, RingLaunchWave
  <2>12. ASSUME NEW s \in Stream, DeviceStep(s) PROVE RingInv'
    <3>1. CASE Execute(s)
      BY <2>4, <3>1, RingExecuteCaller, RingExecuteOwn DEF Stream
    <3>2. CASE WaveExit(s)
      BY <2>4, <3>2, RingWaveExitCaller, RingWaveExitOwn DEF Stream
    <3>3. CASE WaveClaim(s)
      BY <2>4, <3>3, RingWaveClaim
    <3>4. CASE WaveDone(s)
      BY <2>4, <3>4, RingWaveDone
    <3> QED
      BY <2>12, <3>1, <3>2, <3>3, <3>4 DEF DeviceStep
  <2>13. CASE WaitEnds
    BY <2>4, <2>13, RingWaitEnds
  <2>14. CASE Tick
    BY <2>4, <2>14, RingTick
  <2> QED
    BY <1>2, <2>2, <2>5, <2>6, <2>7, <2>8, <2>9, <2>10, <2>11, <2>12, <2>13, <2>14 DEF Next, HostStep
<1> QED
  BY <1>1, <1>2

\* With every stream at rest the ring is empty: a bounded wave has followed
\* every publish, and a resident wave is parked or the host knows it is gone.
LEMMA UnstrandedServes ==
  ASSUME Types, Residence, Unstranded
  PROVE  NoStrandedNode
<1> SUFFICES ASSUME bad = {}, pc \in {"idle", "step", "sync"}, \A s \in Stream : Resting(s)
             PROVE  head = tail
  BY DEF NoStrandedNode
<1>1. RingInv
  BY DEF Unstranded, Live
<1>2. ~ Parked("caller")
  BY NoneParked
<1>3. Len(Caller) = 0 \/ Front("wait")
  BY <1>2, Fronts, Lens DEF Resting, Spins, Stream, Caller
<1>4. Len(Own) = 0 \/ Parked("own")
  BY Lens DEF Resting, Stream, Own
<1>5. CASE resident
  <2>1. Alive \/ Quiet
    BY <1>1, <1>5 DEF RingInv, ResidentWave
  <2>2. Alive => Len(Own) # 0
    BY DEF Alive
  <2> QED
    BY <1>4, <2>1, <2>2 DEF Parked, Quiet
<1>6. CASE ~ resident
  <2>1. ~ Front("wave") /\ ~ Front("clear")
    BY <1>3 DEF Front
  <2> QED
    BY <1>1, <1>6, <2>1 DEF RingInv, BoundedWave
<1> QED
  BY <1>5, <1>6

\* drain: "a node is never stranded by an expired wave".  The hypotheses are
\* what the code counts on: the ring is not used after stop_wave, a step that
\* fails has a resident wave to drain it, and the host's idle limit covers
\* every silence in which the wave may have given up.
THEOREM NodesAreServed ==
  ASSUME Reuse = FALSE, FALSE \notin Abort, \A g \in Gaps : g < WaveIdle \/ g >= HostIdle
  PROVE  Spec => []NoStrandedNode
<1>1. Verified => Types
  BY DEF Verified
<1>2. Types /\ Types' /\ Residence /\ Unstranded /\ [Next]_vars => Unstranded'
  BY UnstrandedNext
<1>3. Types /\ Residence /\ Unstranded => NoStrandedNode
  BY UnstrandedServes
<1> QED
  BY <1>1, <1>2, <1>3, VerifiedInit, VerifiedNext, ResidenceInit, ResidenceNext, UnstrandedInit, PTL DEF Spec
=============================================================================
