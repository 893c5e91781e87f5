---------------------------- MODULE HandoffProofs ----------------------------
(***************************************************************************)
(* Proofs about KvHandoff, for any number of blocks, layers, passes and    *)
(* attempts and every fault: a send that reports success was stored, or    *)
(* refused by the shared-memory poller, or torn down with its inbox; and   *)
(* over TCP no older pass ever replaces a newer one.                       *)
(***************************************************************************)
EXTENDS KvHandoff, SequenceTheorems, TLAPS

Polling == mode \in {"path", "marker"}

\* The connection whose answer the sender awaits is the last one and carries
\* the message it sends, and a positive answer comes after the store.
Wire ==
  /\ \A i \in DOMAIN backlog :
       backlog[i].open => /\ mode = "wait" /\ ack = "none"
                          /\ i = Len(backlog) /\ backlog[i].msg = Head(todo)
  /\ ack # "none" => mode = "wait"
  /\ ack = "ok" => Head(todo) \in committed

\* The file in the inbox is the message the sender polls for, and it only goes
\* away after the store, a refusal or the teardown; a poller that holds
\* anything else holds an abandoned file.
Inbox ==
  /\ poller.at # "idle" /\ ~ abandoned => Polling /\ file = poller.msg
  /\ poller.at = "stored" /\ ~ abandoned => poller.msg \in committed
  /\ Polling => \/ file = Head(todo)
                \/ file = Nothing /\ Head(todo) \in committed \cup unsound
  /\ ~ Polling => file = Nothing
  /\ rejected => file = Nothing
  /\ abandoned => poller.at # "idle"

Reported == TypeOK /\ Wire /\ Inbox /\ OkMeansStored

-----------------------------------------------------------------------------
(* Types.                                                                  *)

\* What a hand-off sends are messages, and it sends at least one.
LEMMA HandoffType ==
  ASSUME NEW v \in 1..Passes
  PROVE  Handoff(v) \in Seq(Messages) /\ Handoff(v) # <<>> /\ Len(Handoff(v)) > 0
         /\ \A i \in DOMAIN Handoff(v) : Handoff(v)[i].ver = v
<1>1. NumBlocks \in Nat /\ NumBlocks > 0 /\ NumLayers \in Nat /\ NumLayers > 0
  BY HandoffAssumption
<1> DEFINE n == NumBlocks * NumLayers
<1>2. n \in Nat /\ n > 0
  BY <1>1
<1>3. ASSUME NEW i \in 1..n PROVE Item(i, v) \in Messages
  <2>1. (i - 1) % NumBlocks \in 0..(NumBlocks - 1)
    BY <1>1, <1>2
  <2>2. (i - 1) \div NumBlocks \in 0..(NumLayers - 1)
    <3> DEFINE d == (i - 1) \div NumBlocks
    <3>1. d \in Int /\ d >= 0 /\ NumBlocks * d <= i - 1
      BY <1>1, <1>2
    <3>2. NumBlocks * d < NumBlocks * NumLayers
      BY <1>1, <1>2, <3>1
    <3>3. d < NumLayers
      BY <1>1, <3>1, <3>2
    <3> QED
      BY <1>1, <3>1, <3>3
  <2> QED
    BY <2>1, <2>2, <1>1 DEF Item, Messages, Blocks, Layers
<1>4. Handoff(v) = [i \in 1..n |-> Item(i, v)]
  BY DEF Handoff
<1> HIDE DEF n
<1>5. Handoff(v) \in Seq(Messages) /\ Len(Handoff(v)) = n /\ DOMAIN Handoff(v) = 1..n
  BY <1>2, <1>3, <1>4
<1>6. \A i \in DOMAIN Handoff(v) : Handoff(v)[i].ver = v
  BY <1>4, <1>5 DEF Item
<1>7. Handoff(v) # <<>>
  BY <1>2, <1>5
<1> QED
  BY <1>2, <1>5, <1>6, <1>7

\* The end of a message or of an attempt leaves the sender idle or sending.
LEMMA AdvanceType ==
  ASSUME TypeOK, mode # "idle", Advance
  PROVE  /\ todo' \in Seq(Messages) /\ attempt' \in 1..MaxAttempts /\ mode' \in {"idle", "send"}
         /\ (mode' = "idle" <=> todo' = <<>>)
         /\ \A i \in DOMAIN todo' : todo'[i] = todo[i + 1] /\ i + 1 \in DOMAIN todo
<1>1. todo \in Seq(Messages) /\ todo # <<>> /\ Len(todo) \in Nat /\ Len(todo) > 0
  BY DEF TypeOK
<1>2. todo' = Tail(todo) /\ attempt' = 1 /\ mode' = IF Len(todo) = 1 THEN "idle" ELSE "send"
  BY DEF Advance
<1>3. todo' \in Seq(Messages) /\ Len(todo') = Len(todo) - 1
  BY <1>1, <1>2
<1>4. todo' = <<>> <=> Len(todo) = 1
  BY <1>1, <1>3, EmptySeq, SMTT(30)
<1>5. \A i \in DOMAIN todo' : todo'[i] = todo[i + 1] /\ i + 1 \in DOMAIN todo
  BY <1>1, <1>2, <1>3
<1>6. (mode' = "idle" <=> todo' = <<>>)
  BY <1>2, <1>4
<1>7. attempt' \in 1..MaxAttempts /\ mode' \in {"idle", "send"}
  BY <1>2, HandoffAssumption
<1> QED
  BY <1>3, <1>5, <1>6, <1>7

\* What the end of an attempt does to the sender: only Landed reports success.
LEMMA SendEffect ==
  ASSUME TypeOK, mode # "idle", Transient \/ Failed \/ Landed
  PROVE  /\ todo' \in Seq(Messages) /\ attempt' \in 1..MaxAttempts /\ mode' \in {"idle", "send"}
         /\ (mode' = "idle" <=> todo' = <<>>)
         /\ age' \in {age, 0}
         /\ ok' \in {ok, Nothing} \/ ok' = Head(todo)
         /\ Transient \/ Failed => ok' \in {ok, Nothing}
         /\ \A i \in DOMAIN todo' : \E j \in DOMAIN todo : todo'[i] = todo[j]
<1>1. CASE Transient /\ ~ LastAttempt
  <2>1. attempt' = attempt + 1 /\ mode' = "send" /\ todo' = todo /\ ok' = ok /\ age' = age
    BY <1>1 DEF Transient
  <2>2. attempt' \in 1..MaxAttempts
    BY <1>1, <2>1, HandoffAssumption DEF TypeOK, LastAttempt
  <2>3. todo \in Seq(Messages) /\ todo # <<>>
    BY DEF TypeOK
  <2> QED
    BY <2>1, <2>2, <2>3
<1>2. CASE Failed \/ (Transient /\ LastAttempt)
  <2>1. Advance /\ ok' = Nothing /\ age' = age
    BY <1>2 DEF Transient, Failed, Heartbeat
  <2> QED
    BY <2>1, AdvanceType
<1>3. CASE Landed
  <2>1. Advance /\ ok' = Head(todo) /\ age' = 0
    BY <1>3 DEF Landed, Heartbeat
  <2>2. Transient \/ Failed => ok' \in {ok, Nothing}
    BY DEF Transient, Failed
  <2> QED
    BY <2>1, <2>2, AdvanceType
<1> QED
  BY <1>1, <1>2, <1>3

\* A stored message leaves the pool in its type.
LEMMA StoredType ==
  ASSUME store \in [Blocks -> [Layers -> 0..Passes]], NEW m \in Messages, Stored(m)
  PROVE  store' \in [Blocks -> [Layers -> 0..Passes]]
<1>1. m.block \in Blocks /\ m.layer \in Layers /\ m.ver \in 0..Passes
  BY HandoffAssumption DEF Messages
<1>2. store' = [store EXCEPT ![m.block] = [store[m.block] EXCEPT ![m.layer] = m.ver]]
  BY DEF Stored
<1>3. [store[m.block] EXCEPT ![m.layer] = m.ver] \in [Layers -> 0..Passes]
  BY <1>1
<1> QED
  BY <1>1, <1>2, <1>3

\* The receiver's connections and its pool after the receive of one.
LEMMA ReceiveType ==
  ASSUME TypeOK, Receive
  PROVE  /\ backlog' \in Seq(Envelopes)
         /\ ack' \in {"none", "ok", "nak"}
         /\ store' \in [Blocks -> [Layers -> 0..Passes]] /\ committed' \subseteq Messages
<1>1. backlog \in Seq(Envelopes) /\ backlog # <<>> /\ backlog' = Tail(backlog)
  BY DEF TypeOK, Receive
<1>2. Head(backlog) \in Envelopes /\ backlog' \in Seq(Envelopes)
  BY <1>1, HeadTailProperties
<1>3. Head(backlog).msg \in Messages
  BY <1>2 DEF Envelopes
<1>4. ack' \in {"none", "ok", "nak"}
  BY DEF Receive, Acknowledged, TypeOK
<1>5. CASE Stored(Head(backlog).msg)
  <2>1. store' \in [Blocks -> [Layers -> 0..Passes]]
    BY <1>3, <1>5, StoredType DEF TypeOK
  <2>2. committed' \subseteq Messages
    BY <1>3, <1>5 DEF Stored, TypeOK
  <2> QED
    BY <1>2, <1>4, <2>1, <2>2
<1>6. CASE UNCHANGED received
  BY <1>2, <1>4, <1>6 DEF TypeOK, received
<1> QED
  BY <1>5, <1>6 DEF Receive

\* The connections after a send, and after the sender gave them up.
LEMMA BacklogType ==
  ASSUME TypeOK, mode # "idle"
  PROVE  /\ Head(todo) \in Messages
         /\ \A intact, open \in BOOLEAN :
              Queued(backlog, [msg |-> Head(todo), intact |-> intact, open |-> open]) \in Seq(Envelopes)
         /\ [i \in DOMAIN backlog |-> [backlog[i] EXCEPT !.open = FALSE]] \in Seq(Envelopes)
<1>1. Head(todo) \in Messages
  BY HeadTailProperties DEF TypeOK
<1>2. ASSUME NEW intact \in BOOLEAN, NEW open \in BOOLEAN
      PROVE  Queued(backlog, [msg |-> Head(todo), intact |-> intact, open |-> open]) \in Seq(Envelopes)
  BY <1>1 DEF Queued, Envelopes, TypeOK
<1>3. [i \in DOMAIN backlog |-> [backlog[i] EXCEPT !.open = FALSE]] \in Seq(Envelopes)
  <2>1. backlog \in Seq(Envelopes) /\ Len(backlog) \in Nat /\ DOMAIN backlog = 1..Len(backlog)
    BY DEF TypeOK
  <2>2. ASSUME NEW i \in 1..Len(backlog) PROVE [backlog[i] EXCEPT !.open = FALSE] \in Envelopes
    <3>1. backlog[i] \in Envelopes
      BY <2>1
    <3> QED
      BY <3>1 DEF Envelopes
  <2> QED
    BY <2>1, <2>2
<1> QED
  BY <1>1, <1>2, <1>3

\* Every step keeps the types.
LEMMA TypeStep == TypeOK /\ [Next]_vars => TypeOK'
<1> SUFFICES ASSUME TypeOK, [Next]_vars PROVE TypeOK'
    OBVIOUS
<1> USE HandoffAssumption DEF config, sender, inbox, network, received
<1>1. CASE Prefill
  <2>1. pass' \in 0..Passes /\ pass' \in 1..Passes
    BY <1>1 DEF Prefill, TypeOK
  <2>2. role' \in {"Prefill", "Colocated"} /\ todo = <<>> /\ mode = "idle"
    BY <1>1 DEF Prefill, Evaluated, TypeOK
  <2>3. todo' \in Seq(Messages) /\ mode' \in Modes /\ (mode' = "idle" <=> todo' = <<>>)
    <3>1. CASE role' = "Prefill"
      BY <1>1, <2>1, <3>1, HandoffType DEF Prefill, Modes
    <3>2. CASE role' # "Prefill"
      BY <1>1, <2>2, <3>2 DEF Prefill, TypeOK, Modes
    <3> QED
      BY <3>1, <3>2
  <2> QED
    BY <1>1, <2>1, <2>2, <2>3 DEF Prefill, TypeOK
<1>2. CASE IdleTick
  BY <1>2 DEF IdleTick, Evaluated, TypeOK
<1>11. CASE Clock
  BY <1>11 DEF Clock, TypeOK
<1>12. CASE Unreachable
  BY <1>12 DEF Unreachable, TypeOK
<1>3. CASE ConnectFails \/ WriteFails \/ AckTimeout \/ ReadAck \/ ShmConsumed
  <2>1. mode # "idle" /\ (Transient \/ Failed \/ Landed)
    BY <1>3 DEF ConnectFails, WriteFails, AckTimeout, ReadAck, ShmConsumed, UsesTcp
  <2>2. ok' \in Messages \cup {Nothing} /\ age' \in 0..(Timeout + 1) /\ mode' \in Modes
    <3>1. Head(todo) \in Messages
      BY <2>1, BacklogType
    <3>2. ok' \in {ok, Nothing, Head(todo)} /\ age' \in {age, 0} /\ mode' \in {"idle", "send"}
      BY <2>1, SendEffect
    <3> QED
      BY <3>1, <3>2 DEF TypeOK, Modes
  <2>3. backlog' \in Seq(Envelopes) /\ ack' \in {"none", "ok", "nak"}
    BY <1>3, <2>1, BacklogType DEF ConnectFails, WriteFails, AckTimeout, ReadAck, ShmConsumed, TypeOK
  <2>4. UNCHANGED <<protocol, room, pass, role, file, rejected, active, poller, unsound, abandoned,
                    up, store, committed>>
    BY <1>3 DEF ConnectFails, WriteFails, AckTimeout, ReadAck, ShmConsumed
  <2> QED
    BY <2>1, <2>2, <2>3, <2>4, SendEffect DEF TypeOK
<1>4. CASE SendTcp
  <2>1. backlog' \in Seq(Envelopes) /\ mode # "idle"
    BY <1>4, BacklogType DEF SendTcp, UsesTcp
  <2> QED
    BY <1>4, <2>1 DEF SendTcp, TypeOK, Modes
<1>5. CASE Receive
  BY <1>5, ReceiveType DEF Receive, TypeOK
<1>6. CASE PublishShm \/ PublishFails \/ ShmStillThere \/ ShmRejected \/ ShmPollAgain \/ ShmDeadline
  <2>1. mode # "idle" /\ Head(todo) \in Messages
    BY <1>6, BacklogType DEF PublishShm, PublishFails, ShmStillThere, ShmRejected, ShmPollAgain, ShmDeadline
  <2>7. CASE PublishFails
    BY <2>1, <2>7 DEF PublishFails, TypeOK, Modes
  <2>2. CASE PublishShm
    BY <2>1, <2>2 DEF PublishShm, TypeOK, Modes
  <2>3. CASE ShmStillThere
    BY <2>1, <2>3 DEF ShmStillThere, TypeOK, Modes
  <2>4. CASE ShmRejected
    BY <2>1, <2>4, ZenonT(40) DEF ShmRejected, TypeOK, Modes
  <2>5. CASE ShmPollAgain
    BY <2>1, <2>5 DEF ShmPollAgain, TypeOK, Modes
  <2>6. CASE ShmDeadline
    BY <2>1, <2>6 DEF ShmDeadline, TypeOK, Modes
  <2> QED
    BY <1>6, <2>2, <2>3, <2>4, <2>5, <2>6, <2>7
<1>7. CASE PollRead
  BY <1>7 DEF PollRead, PathExists, TypeOK
<1>13. CASE PollRemove
  BY <1>13 DEF PollRemove, Taken, TypeOK
<1>14. CASE StopPoller
  BY <1>14 DEF StopPoller, PathExists, TypeOK
<1>8. CASE PollStore
  <2>1. poller.msg \in Messages /\ poller' \in [at : {"read", "stored"}, msg : Messages]
    BY <1>8 DEF PollStore, TypeOK, Idle
  <2>2. store' \in [Blocks -> [Layers -> 0..Passes]]
    BY <1>8, <2>1, StoredType DEF PollStore, TypeOK
  <2>3. committed' \subseteq Messages
    BY <1>8, <2>1 DEF PollStore, Stored, TypeOK
  <2> QED
    BY <1>8, <2>1, <2>2, <2>3 DEF PollStore, TypeOK
<1>9. CASE PollReject
  <2>1. poller.msg \in Messages
    BY <1>9 DEF PollReject, TypeOK, Idle
  <2> QED
    BY <1>9, <2>1 DEF PollReject, Taken, TypeOK
<1>10. CASE UNCHANGED vars
  BY <1>10 DEF vars, TypeOK
<1> QED
  BY <1>1, <1>2, <1>3, <1>4, <1>5, <1>6, <1>7, <1>8, <1>9, <1>10,
     <1>11, <1>12, <1>13, <1>14 DEF Next, Send, Poll
-----------------------------------------------------------------------------
(* What a reported success rests on.                                       *)

\* The history of a hand-off only grows.
LEMMA OkStays ==
  ASSUME OkMeansStored, ok' = ok \/ ok' = Nothing, committed \subseteq committed', unsound \subseteq unsound'
  PROVE  OkMeansStored'
BY DEF OkMeansStored

\* No message is Nothing.
LEMMA SomethingElse == \A m \in Messages : m # Nothing
BY DEF Messages, Nothing, Blocks

\* A poller without an abandoned file holds a message.
LEMMA HeldIsMessage ==
  ASSUME TypeOK, poller.at # "idle"
  PROVE  poller.msg \in Messages
BY DEF TypeOK, Idle

\* A step of the sender that ends a message or an attempt.
LEMMA SendReported ==
  ASSUME Reported, TypeOK', ConnectFails \/ WriteFails \/ AckTimeout \/ ReadAck \/ ShmConsumed
  PROVE  Reported'
<1> USE DEF config, inbox, network, received
<1>1. /\ mode # "idle" /\ (Transient \/ Failed \/ Landed)
      /\ UNCHANGED <<file, rejected, active, poller, unsound, abandoned, store, committed>>
  BY DEF ConnectFails, WriteFails, AckTimeout, ReadAck, ShmConsumed, UsesTcp
<1>2. mode' \in {"idle", "send"}
  BY <1>1, SendEffect DEF Reported
<1>3. file = Nothing /\ (poller.at # "idle" => abandoned)
  <2>1. CASE ShmConsumed
    BY <2>1, HeldIsMessage, SomethingElse DEF ShmConsumed, PathExists, Reported, Inbox
  <2>2. CASE ConnectFails \/ WriteFails \/ AckTimeout \/ ReadAck
    BY <2>2 DEF ConnectFails, WriteFails, AckTimeout, ReadAck, UsesTcp, Reported, Inbox, Polling
  <2> QED
    BY <2>1, <2>2
<1>4. Inbox'
  BY <1>1, <1>2, <1>3 DEF Inbox, Polling, Reported
<1>5. Wire'
  <2>1. ack' = "none"
    BY DEF ConnectFails, WriteFails, AckTimeout, ReadAck, ShmConsumed, UsesTcp, Reported, Wire
  <2>2. CASE AckTimeout
    <3>1. backlog' = [i \in DOMAIN backlog |-> [backlog[i] EXCEPT !.open = FALSE]]
      BY <2>2 DEF AckTimeout
    <3>2. \A i \in DOMAIN backlog : backlog[i] \in Envelopes
      BY DEF Reported, TypeOK
    <3>3. \A i \in DOMAIN backlog' : ~ backlog'[i].open
      BY <3>1, <3>2 DEF Envelopes
    <3> QED
      BY <2>1, <3>3 DEF Wire
  <2>3. CASE ConnectFails \/ WriteFails \/ ReadAck \/ ShmConsumed
    <3>1. \A i \in DOMAIN backlog : ~ backlog[i].open
      BY <2>3 DEF ConnectFails, WriteFails, ReadAck, ShmConsumed, UsesTcp, Reported, Wire
    <3>2. CASE backlog' = backlog
      BY <2>1, <3>1, <3>2 DEF Wire
    <3>3. CASE backlog' # backlog
      <4>1. backlog' = Append(backlog, [msg |-> Head(todo), intact |-> FALSE, open |-> FALSE])
        BY <2>3, <3>3 DEF ConnectFails, WriteFails, ReadAck, ShmConsumed, Queued
      <4>2. backlog \in Seq(Envelopes)
        BY DEF Reported, TypeOK
      <4>3. \A i \in DOMAIN backlog' : ~ backlog'[i].open
        BY <3>1, <4>1, <4>2
      <4> QED
        BY <2>1, <4>3 DEF Wire
    <3> QED
      BY <3>2, <3>3
  <2> QED
    BY <2>2, <2>3
<1>6. OkMeansStored'
  <2>1. CASE ok' \in {ok, Nothing}
    BY <1>1, <2>1, OkStays DEF Reported
  <2>2. CASE ok' \notin {ok, Nothing}
    <3>1. ~ (Transient \/ Failed) /\ ok' = Head(todo)
      BY <1>1, <2>2, SendEffect DEF Reported
    <3>2. Head(todo) \in committed \cup unsound
      <4>1. CASE ReadAck
        BY <3>1, <4>1 DEF ReadAck, Reported, Wire
      <4>2. CASE ShmConsumed
        <5>1. Head(todo) \in Messages
          BY <1>1, BacklogType DEF Reported
        <5>2. mode = "path" /\ file = Nothing
          BY <4>2 DEF ShmConsumed, PathExists
        <5> QED
          BY <5>1, <5>2, SomethingElse DEF Reported, Inbox, Polling
      <4> QED
        BY <3>1, <4>1, <4>2 DEF ConnectFails, WriteFails, AckTimeout
    <3> QED
      BY <1>1, <3>1, <3>2 DEF OkMeansStored
  <2> QED
    BY <2>1, <2>2
<1> QED
  BY <1>4, <1>5, <1>6 DEF Reported

\* The steps of the sender around a connection or a file.
LEMMA WaitReported ==
  ASSUME Reported, TypeOK',
         \/ SendTcp \/ PublishShm \/ PublishFails
         \/ ShmStillThere \/ ShmRejected \/ ShmPollAgain \/ ShmDeadline
  PROVE  Reported'
<1> USE DEF config, inbox, network, received
<1>1. /\ mode # "idle" /\ mode # "wait" /\ Head(todo) \in Messages
      /\ UNCHANGED <<todo, ok, poller, unsound, committed>>
  BY BacklogType DEF SendTcp, PublishShm, PublishFails, ShmStillThere, ShmRejected, ShmPollAgain, ShmDeadline,
     UsesTcp, Reported
<1>2. OkMeansStored'
  BY <1>1, OkStays DEF Reported
<1>3. ack = "none" /\ \A i \in DOMAIN backlog : ~ backlog[i].open
  BY <1>1 DEF Reported, Wire
<1>4. CASE SendTcp
  <2>1. PICK intact \in BOOLEAN :
          backlog' = Append(backlog, [msg |-> Head(todo), intact |-> intact, open |-> TRUE])
    BY <1>4 DEF SendTcp, Queued
  <2>2. /\ backlog \in Seq(Envelopes) /\ DOMAIN backlog' = 1..(Len(backlog) + 1)
        /\ Len(backlog') = Len(backlog) + 1 /\ Len(backlog) \in Nat
        /\ \A i \in 1..Len(backlog) : backlog'[i] = backlog[i]
        /\ backlog'[Len(backlog) + 1] = [msg |-> Head(todo), intact |-> intact, open |-> TRUE]
        /\ DOMAIN backlog = 1..Len(backlog)
    BY <2>1 DEF Reported, TypeOK
  <2>3. ASSUME NEW i \in DOMAIN backlog', backlog'[i].open
        PROVE  i = Len(backlog') /\ backlog'[i].msg = Head(todo)
    <3>1. i \notin 1..Len(backlog)
      BY <1>3, <2>2, <2>3
    <3>2. i = Len(backlog) + 1
      BY <2>2, <2>3, <3>1
    <3> QED
      BY <2>2, <3>2
  <2>4. mode' = "wait" /\ ack' = "none" /\ todo' = todo
    BY <1>4 DEF SendTcp
  <2>5. Wire'
    BY <2>3, <2>4 DEF Wire
  <2>6. Inbox'
    BY <1>1, <1>4 DEF SendTcp, UsesTcp, Inbox, Polling, Reported
  <2> QED
    BY <1>2, <2>5, <2>6 DEF Reported
<1>5. CASE PublishShm \/ PublishFails \/ ShmStillThere \/ ShmRejected \/ ShmPollAgain \/ ShmDeadline
  <2>1. ack' = ack /\ backlog' = backlog
    BY <1>5 DEF PublishShm, PublishFails, ShmStillThere, ShmRejected, ShmPollAgain, ShmDeadline
  <2>2. Wire'
    BY <1>3, <2>1 DEF Wire
  <2>3. Inbox'
    <3>1. CASE PublishShm
      BY <1>1, <3>1 DEF PublishShm, Inbox, Polling, Reported
    <3>2. CASE ShmStillThere \/ ShmPollAgain
      BY <1>1, <3>2 DEF ShmStillThere, ShmPollAgain, Inbox, Polling, Reported
    <3>3. CASE ShmRejected
      <4>1. file = Nothing /\ (poller.at # "idle" => abandoned)
        BY <3>3, HeldIsMessage, SomethingElse DEF ShmRejected, Inbox, Reported
      <4> QED
        BY <1>1, <3>3, <4>1 DEF ShmRejected, Inbox, Polling, Reported
    <3>4. CASE ShmDeadline
      BY <1>1, <3>4 DEF ShmDeadline, Inbox, Polling, Reported
    <3>5. CASE PublishFails
      BY <1>1, <3>5 DEF PublishFails, Inbox, Polling, Reported
    <3> QED
      BY <1>5, <3>1, <3>2, <3>3, <3>4, <3>5
  <2> QED
    BY <1>2, <2>2, <2>3 DEF Reported
<1> QED
  BY <1>4, <1>5

\* The accept loop: a positive answer comes with the store.
LEMMA ReceiveReported ==
  ASSUME Reported, TypeOK', Receive
  PROVE  Reported'
<1> USE DEF config, sender, inbox, received
<1>1. /\ backlog \in Seq(Envelopes) /\ backlog # <<>> /\ backlog' = Tail(backlog)
      /\ UNCHANGED <<todo, mode, ok, file, rejected, poller, unsound, abandoned>>
  BY DEF Receive, Reported, TypeOK
<1>2. /\ Len(backlog) \in Nat \ {0} /\ DOMAIN backlog = 1..Len(backlog) /\ Head(backlog) = backlog[1]
      /\ Len(backlog') = Len(backlog) - 1 /\ DOMAIN backlog' = 1..(Len(backlog) - 1)
      /\ \A i \in DOMAIN backlog' : backlog'[i] = backlog[i + 1]
  BY <1>1, EmptySeq, HeadTailProperties
<1>3. committed \subseteq committed'
  BY DEF Receive, Stored
<1>4. Inbox'
  BY <1>1, <1>3 DEF Inbox, Polling, Reported
<1>5. OkMeansStored'
  BY <1>1, <1>3, OkStays DEF Reported
<1>6. CASE Head(backlog).open
  <2>1. Len(backlog) = 1 /\ mode = "wait" /\ Head(backlog).msg = Head(todo)
    BY <1>2, <1>6 DEF Reported, Wire
  <2>2. DOMAIN backlog' = {}
    BY <1>2, <2>1
  <2>3. ack' = "ok" => Head(backlog).msg \in committed'
    BY <1>6 DEF Receive, Acknowledged, Stored
  <2> QED
    BY <1>1, <1>4, <1>5, <2>1, <2>2, <2>3 DEF Reported, Wire
<1>7. CASE ~ Head(backlog).open
  <2>1. ack' = ack
    BY <1>7 DEF Receive
  <2>2. ASSUME NEW i \in DOMAIN backlog', backlog'[i].open
        PROVE  mode = "wait" /\ ack = "none" /\ i = Len(backlog') /\ backlog'[i].msg = Head(todo)
    <3>1. i + 1 \in DOMAIN backlog /\ backlog[i + 1].open
      BY <1>2, <2>2
    <3> QED
      BY <1>2, <3>1 DEF Reported, Wire
  <2>3. Wire'
    BY <1>1, <1>3, <2>1, <2>2 DEF Wire, Reported
  <2> QED
    BY <1>4, <1>5, <2>3 DEF Reported
<1> QED
  BY <1>6, <1>7

\* The poller and its end.
LEMMA PollReported ==
  ASSUME Reported, TypeOK', Poll \/ StopPoller
  PROVE  Reported'
<1> USE DEF config, sender, network, received
<1>1. UNCHANGED <<todo, mode, ok, backlog, ack>>
  BY DEF Poll, PollRead, PollStore, PollRemove, PollReject, StopPoller
<1>2. committed \subseteq committed' /\ unsound \subseteq unsound'
  BY DEF Poll, PollRead, PollStore, PollRemove, PollReject, StopPoller, Stored
<1>3. Wire'
  BY <1>1, <1>2 DEF Wire, Reported
<1>4. OkMeansStored'
  BY <1>1, <1>2, OkStays DEF Reported
<1>5. Inbox'
  <2>1. CASE PollRead
    <3>1. Polling /\ file # Nothing /\ ~ abandoned
      BY <2>1 DEF PollRead, PathExists, Inbox, Reported
    <3> QED
      BY <1>1, <2>1, <3>1 DEF PollRead, Inbox, Polling, Reported
  <2>2. CASE PollStore
    <3>1. poller.at = "read" /\ poller'.at = "stored" /\ poller'.msg = poller.msg
      BY <2>2 DEF PollStore, Reported, TypeOK, Idle
    <3>2. poller.msg \in committed' /\ UNCHANGED <<file, rejected, unsound, abandoned>>
      BY <2>2 DEF PollStore, Stored
    <3> QED
      BY <1>1, <1>2, <3>1, <3>2 DEF Inbox, Polling, Reported
  <2>3. CASE PollRemove
    <3>1. poller.at = "stored" /\ poller' = Idle /\ ~ abandoned'
          /\ UNCHANGED <<rejected, unsound, committed>>
      BY <2>3 DEF PollRemove
    <3>2. CASE abandoned
      <4>1. file' = file
        BY <2>3, <3>2 DEF PollRemove, Taken
      <4> QED
        BY <1>1, <3>1, <4>1 DEF Inbox, Polling, Reported, Idle
    <3>3. CASE ~ abandoned
      <4>1. Polling /\ file = poller.msg /\ poller.msg \in committed /\ file' = Nothing
        BY <2>3, <3>1, <3>3 DEF PollRemove, Taken, Inbox, Reported
      <4>2. poller.msg = Head(todo)
        BY <3>1, <4>1, HeldIsMessage, SomethingElse DEF Inbox, Reported
      <4> QED
        BY <1>1, <3>1, <4>1, <4>2 DEF Inbox, Polling, Reported, Idle
    <3> QED
      BY <3>2, <3>3
  <2>4. CASE PollReject
    <3>1. poller.at = "read" /\ poller' = Idle /\ ~ abandoned' /\ rejected' = ~ abandoned
          /\ unsound' = unsound \cup {poller.msg} /\ UNCHANGED committed
      BY <2>4 DEF PollReject
    <3>2. CASE abandoned
      <4>1. file' = file
        BY <2>4, <3>2 DEF PollReject, Taken
      <4> QED
        BY <1>1, <3>1, <3>2, <4>1 DEF Inbox, Polling, Reported, Idle
    <3>3. CASE ~ abandoned
      <4>1. Polling /\ file = poller.msg /\ file' = Nothing
        BY <2>4, <3>1, <3>3 DEF PollReject, Taken, Inbox, Reported
      <4>2. poller.msg = Head(todo)
        BY <3>1, <4>1, HeldIsMessage, SomethingElse DEF Inbox, Reported
      <4> QED
        BY <1>1, <3>1, <4>1, <4>2 DEF Inbox, Polling, Reported, Idle
    <3> QED
      BY <3>2, <3>3
  <2>5. CASE StopPoller
    <3>1. /\ poller.at = "idle" /\ file' = Nothing /\ ~ rejected'
          /\ UNCHANGED <<poller, abandoned, committed>>
          /\ unsound' = IF file # Nothing THEN unsound \cup {file} ELSE unsound
      BY <2>5 DEF StopPoller, PathExists
    <3> QED
      BY <1>1, <3>1 DEF Inbox, Polling, Reported
  <2> QED
    BY <2>1, <2>2, <2>3, <2>4, <2>5 DEF Poll
<1> QED
  BY <1>3, <1>4, <1>5 DEF Reported

\* The tick, the clock and the network.
LEMMA TickReported ==
  ASSUME Reported, TypeOK', Prefill \/ IdleTick \/ Clock \/ Unreachable \/ UNCHANGED vars
  PROVE  Reported'
<1> USE DEF config, sender, inbox, network, received
<1>1. CASE Prefill
  <2>1. /\ mode = "idle" /\ mode' \in {"idle", "send"} /\ ok' = Nothing
        /\ UNCHANGED <<file, rejected, poller, abandoned, backlog, ack>>
    BY <1>1 DEF Prefill
  <2>2. /\ ack = "none" /\ file = Nothing /\ (poller.at # "idle" => abandoned)
        /\ \A i \in DOMAIN backlog : ~ backlog[i].open
    BY <2>1 DEF Reported, Wire, Inbox, Polling
  <2>3. Wire'
    BY <2>1, <2>2 DEF Wire
  <2>4. Inbox'
    BY <2>1, <2>2 DEF Inbox, Polling, Reported
  <2>5. OkMeansStored'
    BY <2>1 DEF OkMeansStored
  <2> QED
    BY <2>3, <2>4, <2>5 DEF Reported
<1>2. CASE IdleTick \/ Clock \/ Unreachable \/ UNCHANGED vars
  <2>1. UNCHANGED <<todo, mode, ok, file, rejected, poller, unsound, abandoned, backlog, ack, committed>>
    BY <1>2 DEF IdleTick, Clock, Unreachable, vars
  <2> QED
    BY <2>1 DEF Reported, Wire, Inbox, Polling, OkMeansStored
<1> QED
  BY <1>1, <1>2

\* Every step keeps the invariant.
LEMMA ReportedStep == Reported /\ [Next]_vars => Reported'
<1> SUFFICES ASSUME Reported, [Next]_vars PROVE Reported'
    OBVIOUS
<1>1. TypeOK'
  BY TypeStep DEF Reported
<1> QED
  BY <1>1, SendReported, WaitReported, ReceiveReported, PollReported, TickReported DEF Next, Send

\* The initial state satisfies it.
LEMMA ReportedInit == Init => Reported
<1> SUFFICES ASSUME Init PROVE Reported
    OBVIOUS
<1>1. TypeOK
  <2>1. /\ 0 \in 0..Passes /\ 0 \in 0..(Timeout + 1) /\ 1 \in 1..MaxAttempts
        /\ protocol \in {"tcp", "shm"} /\ room \in Nat
    BY HandoffAssumption DEF Init
  <2>2. store \in [Blocks -> [Layers -> 0..Passes]]
    BY <2>1 DEF Init
  <2>3. todo \in Seq(Messages) /\ backlog \in Seq(Envelopes)
    BY DEF Init
  <2> QED
    BY <2>1, <2>2, <2>3 DEF Init, TypeOK, Modes
<1>2. Wire
  BY DEF Init, Wire
<1>3. Inbox
  BY DEF Init, Inbox, Polling, Idle
<1>4. OkMeansStored
  BY DEF Init, OkMeansStored
<1> QED
  BY <1>1, <1>2, <1>3, <1>4 DEF Reported

\* The state of the hand-off keeps its type; retry_with_policy makes at most
\* MaxAttempts attempts.
THEOREM HandoffTypeOK == Spec => []TypeOK
<1>1. Reported => TypeOK
  BY DEF Reported
<1> QED
  BY <1>1, ReportedInit, ReportedStep, PTL DEF Spec

\* For any number of blocks, layers, passes and attempts and whatever the
\* network does: a send that reports success was stored during its hand-off,
\* unless the shared-memory poller refused it or was torn down.
THEOREM SuccessMeansStored == Spec => []OkMeansStored
<1>1. Reported => OkMeansStored
  BY DEF Reported
<1> QED
  BY <1>1, ReportedInit, ReportedStep, PTL DEF Spec

-----------------------------------------------------------------------------
(* The order of stores over TCP.                                           *)

\* The connections wait in the order of the passes they carry, and the pool is
\* never ahead of one that waits.
Order ==
  protocol = "tcp" =>
    /\ mode \in {"idle", "send", "wait"}
    /\ file = Nothing /\ poller = Idle
    /\ \A i \in DOMAIN todo : todo[i].ver = pass
    /\ \A i \in DOMAIN backlog : backlog[i].msg.ver <= pass
    /\ \A i, j \in DOMAIN backlog : i <= j => backlog[i].msg.ver <= backlog[j].msg.ver
    /\ \A b \in Blocks, l \in Layers :
         /\ store[b][l] <= pass
         /\ \A i \in DOMAIN backlog : store[b][l] <= backlog[i].msg.ver

Ordered == TypeOK /\ Order

\* A store of message m changes only its entry.
LEMMA StoredEntry ==
  ASSUME store \in [Blocks -> [Layers -> 0..Passes]], NEW m \in Messages, Stored(m),
         NEW b \in Blocks, NEW l \in Layers
  PROVE  store'[b][l] = IF b = m.block /\ l = m.layer THEN m.ver ELSE store[b][l]
<1>1. m.block \in Blocks /\ m.layer \in Layers
  BY DEF Messages
<1>2. store' = [store EXCEPT ![m.block] = [store[m.block] EXCEPT ![m.layer] = m.ver]]
  BY DEF Stored
<1>3. CASE b = m.block
  <2>1. store'[b] = [store[m.block] EXCEPT ![m.layer] = m.ver]
    BY <1>1, <1>2, <1>3
  <2>2. store[m.block] \in [Layers -> 0..Passes]
    BY <1>1
  <2> QED
    BY <1>1, <1>3, <2>1, <2>2
<1>4. CASE b # m.block
  BY <1>1, <1>2, <1>4
<1> QED
  BY <1>3, <1>4

\* The receive of the oldest connection: it never takes the pool back, nor
\* past a connection that still waits.
LEMMA ReceiveOrdered ==
  ASSUME Ordered, TypeOK', Receive, protocol = "tcp"
  PROVE  Order' /\ \A b \in Blocks, l \in Layers : store'[b][l] >= store[b][l]
<1> USE DEF config, sender, inbox
<1>1. /\ backlog \in Seq(Envelopes) /\ backlog # <<>> /\ backlog' = Tail(backlog)
      /\ UNCHANGED <<protocol, pass, todo, mode, file, poller>>
  BY DEF Receive, Ordered, TypeOK
<1>2. /\ Len(backlog) \in Nat \ {0} /\ DOMAIN backlog = 1..Len(backlog) /\ Head(backlog) = backlog[1]
      /\ DOMAIN backlog' = 1..(Len(backlog) - 1)
      /\ \A i \in DOMAIN backlog' : backlog'[i] = backlog[i + 1]
  BY <1>1, EmptySeq, HeadTailProperties
<1>3. \A i \in DOMAIN backlog : backlog[i].msg \in Messages /\ backlog[i].msg.ver \in Nat
  <2>1. \A i \in DOMAIN backlog : backlog[i] \in Envelopes
    BY <1>1
  <2> QED
    BY <2>1, HandoffAssumption DEF Envelopes, Messages
<1> DEFINE m == Head(backlog).msg
<1>4. m \in Messages /\ m.ver \in Nat /\ pass \in Nat
  <2>1. 1 \in DOMAIN backlog
    BY <1>2
  <2>2. pass \in Nat
    BY HandoffAssumption DEF Ordered, TypeOK
  <2> QED
    BY <1>2, <1>3, <2>1, <2>2
<1>5. \A i \in DOMAIN backlog' : i + 1 \in DOMAIN backlog /\ backlog'[i] = backlog[i + 1]
  BY <1>2
<1>6. \A b \in Blocks, l \in Layers : store[b][l] \in Nat
  BY HandoffAssumption DEF Ordered, TypeOK
<1>7. \A b \in Blocks, l \in Layers : store'[b][l] = store[b][l] \/ store'[b][l] = m.ver
  <2>1. CASE Stored(m)
    BY <1>4, <2>1, StoredEntry DEF Ordered, TypeOK
  <2>2. CASE store' = store
    BY <2>2
  <2> QED
    BY <2>1, <2>2 DEF Receive, received
<1>8. \A i \in DOMAIN backlog : m.ver <= backlog[i].msg.ver
  BY <1>1, <1>2, <1>3 DEF Ordered, Order
<1>9. \A b \in Blocks, l \in Layers : store[b][l] <= m.ver /\ m.ver <= pass
  BY <1>1, <1>2 DEF Ordered, Order
<1>10. \A b \in Blocks, l \in Layers :
         /\ store'[b][l] >= store[b][l] /\ store'[b][l] <= pass
         /\ \A i \in DOMAIN backlog : store'[b][l] <= backlog[i].msg.ver
  BY <1>1, <1>3, <1>4, <1>6, <1>7, <1>8, <1>9 DEF Ordered, Order
<1>11. \A i, j \in DOMAIN backlog' : i <= j => backlog'[i].msg.ver <= backlog'[j].msg.ver
  BY <1>1, <1>2, <1>5 DEF Ordered, Order
<1>12. \A i \in DOMAIN backlog' : backlog'[i].msg.ver <= pass
  BY <1>1, <1>5 DEF Ordered, Order
<1> QED
  BY <1>1, <1>5, <1>10, <1>11, <1>12 DEF Ordered, Order

\* The versions that wait are natural numbers.
LEMMA BacklogVersions ==
  ASSUME TypeOK
  PROVE  \A i \in DOMAIN backlog : backlog[i].msg.ver \in Nat
<1>1. \A i \in DOMAIN backlog : backlog[i] \in Envelopes
  BY DEF TypeOK
<1> QED
  BY <1>1, HandoffAssumption DEF Envelopes, Messages

\* Every step keeps the order.
LEMMA OrderStep == Ordered /\ [Next]_vars => Ordered'
<1> SUFFICES ASSUME Ordered, [Next]_vars PROVE Ordered'
    OBVIOUS
<1> USE DEF config, sender, inbox, network, received
<1>1. TypeOK' /\ TypeOK
  BY TypeStep DEF Ordered
<1>2. protocol' = protocol
  BY DEF Next, Send, Poll, Prefill, IdleTick, Clock, ConnectFails, SendTcp, WriteFails, AckTimeout, ReadAck,
     Receive, Unreachable, PublishShm, PublishFails, ShmConsumed, ShmStillThere, ShmRejected, ShmPollAgain, ShmDeadline,
     PollRead, PollStore, PollRemove, PollReject, StopPoller, vars
<1>3. SUFFICES ASSUME protocol = "tcp" PROVE Order'
  BY <1>1, <1>2 DEF Ordered, Order
<1>4. /\ mode \in {"idle", "send", "wait"} /\ file = Nothing /\ poller = Idle
      /\ pass \in Nat /\ (mode = "idle" <=> todo = <<>>)
  BY <1>3, HandoffAssumption DEF Ordered, Order, TypeOK
<1>5. CASE Prefill
  <2>1. pass' \in 1..Passes /\ pass <= pass' /\ mode' \in {"idle", "send"}
    BY <1>1, <1>5, HandoffAssumption DEF Prefill, TypeOK
  <2>2. \A i \in DOMAIN todo' : todo'[i].ver = pass'
    <3>1. CASE role' = "Prefill"
      BY <1>5, <2>1, <3>1, HandoffType DEF Prefill
    <3>2. CASE role' # "Prefill"
      BY <1>4, <1>5, <3>2 DEF Prefill
    <3> QED
      BY <3>1, <3>2
  <2>3. UNCHANGED <<file, poller, backlog, store>>
    BY <1>5 DEF Prefill
  <2>4. \A i \in DOMAIN backlog : backlog[i].msg.ver \in Nat /\ backlog[i].msg.ver <= pass'
    BY <1>1, <1>3, <2>1, BacklogVersions, HandoffAssumption DEF Ordered, Order, TypeOK
  <2>5. \A b \in Blocks, l \in Layers : store[b][l] <= pass'
    BY <1>1, <1>3, <1>4, <2>1, HandoffAssumption DEF Ordered, Order, TypeOK
  <2> QED
    BY <1>3, <1>4, <2>1, <2>2, <2>3, <2>4, <2>5 DEF Ordered, Order
<1>6. CASE ConnectFails \/ ReadAck \/ (WriteFails /\ UNCHANGED backlog)
  <2>1. /\ mode # "idle" /\ (Transient \/ Failed \/ Landed)
        /\ UNCHANGED <<pass, file, poller, store, backlog>>
    BY <1>6 DEF ConnectFails, ReadAck, WriteFails, UsesTcp
  <2>2. mode' \in {"idle", "send"} /\ \A i \in DOMAIN todo' : \E j \in DOMAIN todo : todo'[i] = todo[j]
    BY <1>1, <2>1, SendEffect
  <2> QED
    BY <1>3, <2>1, <2>2 DEF Ordered, Order
<1>7. CASE AckTimeout
  <2>1. /\ mode # "idle" /\ Transient /\ UNCHANGED <<pass, file, poller, store>>
    BY <1>7 DEF AckTimeout
  <2>2. mode' \in {"idle", "send"} /\ \A i \in DOMAIN todo' : \E j \in DOMAIN todo : todo'[i] = todo[j]
    BY <1>1, <2>1, SendEffect
  <2>3. DOMAIN backlog' = DOMAIN backlog /\ \A i \in DOMAIN backlog : backlog'[i].msg = backlog[i].msg
    <3>1. \A i \in DOMAIN backlog : backlog[i] \in Envelopes
      BY <1>1 DEF TypeOK
    <3> QED
      BY <1>7, <3>1 DEF AckTimeout, Envelopes
  <2> QED
    BY <1>3, <2>1, <2>2, <2>3 DEF Ordered, Order
<1>8. CASE SendTcp \/ (WriteFails /\ ~ UNCHANGED backlog)
  <2>0. PICK e : e.msg = Head(todo) /\ backlog' = Append(backlog, e)
    <3>1. CASE SendTcp
      <4>1. PICK intact \in BOOLEAN :
              backlog' = Append(backlog, [msg |-> Head(todo), intact |-> intact, open |-> TRUE])
        BY <3>1 DEF SendTcp, Queued
      <4> QED
        BY <4>1
    <3>2. CASE WriteFails /\ ~ UNCHANGED backlog
      <4>1. backlog' = Append(backlog, [msg |-> Head(todo), intact |-> FALSE, open |-> FALSE])
        BY <3>2 DEF WriteFails, Queued
      <4> QED
        BY <4>1
    <3> QED
      BY <1>8, <3>1, <3>2
  <2>2. /\ Len(backlog) \in Nat /\ DOMAIN backlog = 1..Len(backlog)
        /\ DOMAIN backlog' = 1..(Len(backlog) + 1)
        /\ \A i \in 1..Len(backlog) : backlog'[i] = backlog[i]
        /\ backlog'[Len(backlog) + 1] = e
    BY <1>1, <2>0 DEF TypeOK
  <2>3. /\ UNCHANGED <<pass, file, poller, store>> /\ todo # <<>> /\ mode' \in {"idle", "send", "wait"}
        /\ \A i \in DOMAIN todo' : \E j \in DOMAIN todo : todo'[i] = todo[j]
    <3>1. CASE SendTcp
      BY <1>4, <3>1 DEF SendTcp, UsesTcp
    <3>2. CASE WriteFails
      <4>1. mode # "idle" /\ (Transient \/ Failed) /\ UNCHANGED <<pass, file, poller, store>>
        BY <3>2 DEF WriteFails, UsesTcp
      <4> QED
        BY <1>1, <1>4, <4>1, SendEffect
    <3> QED
      BY <1>8, <3>1, <3>2
  <2>4. Head(todo).ver = pass
    <3>1. todo \in Seq(Messages) /\ 1 \in DOMAIN todo /\ Head(todo) = todo[1]
      BY <1>1, <2>3, EmptySeq DEF TypeOK
    <3> QED
      BY <1>3, <3>1 DEF Ordered, Order
  <2>5. backlog'[Len(backlog) + 1].msg.ver = pass
    BY <2>0, <2>2, <2>4
  <2>6. \A i \in DOMAIN backlog' : /\ i \in DOMAIN backlog \/ i = Len(backlog) + 1
                                  /\ backlog'[i].msg.ver <= pass
    BY <1>3, <1>4, <2>2, <2>5 DEF Ordered, Order
  <2>7. ASSUME NEW i \in DOMAIN backlog', NEW j \in DOMAIN backlog', i <= j
        PROVE  backlog'[i].msg.ver <= backlog'[j].msg.ver
    <3>1. CASE j \in DOMAIN backlog
      <4>1. i \in DOMAIN backlog
        BY <2>2, <2>7, <3>1
      <4> QED
        BY <1>3, <2>2, <2>7, <3>1, <4>1 DEF Ordered, Order
    <3>2. CASE j = Len(backlog) + 1
      BY <2>5, <2>6, <3>2
    <3> QED
      BY <2>6, <3>1, <3>2
  <2>8. \A b \in Blocks, l \in Layers : \A i \in DOMAIN backlog' : store[b][l] <= backlog'[i].msg.ver
    BY <1>3, <2>2, <2>5, <2>6 DEF Ordered, Order
  <2> QED
    BY <1>3, <2>3, <2>6, <2>7, <2>8 DEF Ordered, Order
<1>9. CASE Receive
  BY <1>1, <1>3, <1>9, ReceiveOrdered
<1>10. CASE \/ PublishShm \/ PublishFails \/ ShmConsumed \/ ShmStillThere
            \/ ShmRejected \/ ShmPollAgain \/ ShmDeadline \/ Poll
  BY <1>3, <1>4, <1>10 DEF PublishShm, PublishFails, ShmConsumed, ShmStillThere, ShmRejected, ShmPollAgain,
     ShmDeadline, Poll, PollRead, PollStore, PollRemove, PollReject, PathExists, Idle
<1>11. CASE IdleTick \/ Clock \/ Unreachable \/ StopPoller \/ UNCHANGED vars
  <2>1. file' = Nothing /\ UNCHANGED <<mode, poller, todo, pass, backlog, store>>
    BY <1>4, <1>11 DEF IdleTick, Clock, Unreachable, StopPoller, vars
  <2> QED
    BY <1>3, <2>1 DEF Ordered, Order
<1> QED
  BY <1>5, <1>6, <1>7, <1>8, <1>9, <1>10, <1>11 DEF Next, Send

\* The initial state satisfies it.
LEMMA OrderInit == Init => Ordered
<1> SUFFICES ASSUME Init PROVE Ordered
    OBVIOUS
<1>1. TypeOK
  BY ReportedInit DEF Reported
<1>2. Order
  BY DEF Init, Order
<1> QED
  BY <1>1, <1>2 DEF Ordered

\* Over TCP, for any number of attempts, connections that wait and passes: the
\* content of a block at the receiver only gets newer, although a message whose
\* sender gave up is stored whenever the accept loop comes to it.
THEOREM NoStaleStoreHolds == Spec => NoStaleStore
<1> DEFINE Newer == protocol = "tcp" => \A b \in Blocks, l \in Layers : store'[b][l] >= store[b][l]
<1>1. Ordered /\ [Next]_vars => [Newer]_store
  <2> SUFFICES ASSUME Ordered, Next, store' # store, protocol = "tcp"
               PROVE  \A b \in Blocks, l \in Layers : store'[b][l] >= store[b][l]
    BY DEF vars, received
  <2> USE DEF config, sender, inbox, network, received
  <2>1. TypeOK'
    BY TypeStep DEF Ordered
  <2>2. CASE Receive
    BY <2>1, <2>2, ReceiveOrdered
  <2>3. CASE ~ Receive
    <3>1. PollStore
      BY <2>3 DEF Next, Send, Poll, Prefill, IdleTick, Clock, ConnectFails, SendTcp, WriteFails, AckTimeout,
         ReadAck, Unreachable, PublishShm, PublishFails, ShmConsumed, ShmStillThere, ShmRejected, ShmPollAgain, ShmDeadline,
         PollRead, PollRemove, PollReject, StopPoller
    <3> QED
      BY <3>1 DEF PollStore, Ordered, Order, Idle
  <2> QED
    BY <2>2, <2>3
<1> QED
  BY <1>1, OrderInit, OrderStep, PTL DEF Spec, NoStaleStore
=============================================================================
