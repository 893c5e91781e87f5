----------------------------- MODULE KvHandoff ------------------------------
(***************************************************************************)
(* The hand-off of KV blocks from a prefill node to a decode node: after   *)
(* every prefill pass the engine pushes each (layer, block) of the request *)
(* (grim-engine/src/engine/scheduler.rs), with bounded retries             *)
(* (grim-disagg), over TCP with a per-message acknowledgement or through a *)
(* shared-memory inbox with TCP as the fall-back (grim-kvtransport); the   *)
(* receiver stores what it accepts; and the failover check takes the node  *)
(* to colocated execution when no transfer has landed for a while.         *)
(*                                                                         *)
(* The content of a block is the number of the prefill pass that wrote it. *)
(* The network may refuse or lose a connection, corrupt a payload, and     *)
(* delay or lose an acknowledgement; a message whose sender gave up waits  *)
(* in the receiver's accept queue and is still stored later.               *)
(***************************************************************************)
EXTENDS Integers, Sequences

CONSTANTS NumBlocks,    \* blocks of the request's table
          NumLayers,    \* layers of the model
          Passes,       \* prefill passes that change content; later ones send the last again
          MaxAttempts,  \* RetryPolicy::max_attempts
          Backlog,      \* connections the receiver's listen queue takes
          Timeout,      \* disagg_heartbeat_timeout_ms, in clock units
          Protocols,    \* a subset of {"tcp", "shm"}
          Rooms,        \* sizes the receiver's pool may have, in blocks
          Faults        \* a subset of {"unreachable", "refuse", "corrupt", "late", "stop"};
                        \* refuse: the system refuses a connection, a write or a file

ASSUME HandoffAssumption ==
  /\ NumBlocks \in Nat \ {0} /\ NumLayers \in Nat \ {0} /\ Passes \in Nat \ {0}
  /\ MaxAttempts \in Nat \ {0} /\ Backlog \in Nat \ {0} /\ Timeout \in Nat
  /\ Protocols \subseteq {"tcp", "shm"} /\ Rooms \subseteq Nat
  /\ Faults \subseteq {"unreachable", "refuse", "corrupt", "late", "stop"}

Blocks   == 1..NumBlocks
Layers   == 0..(NumLayers - 1)
Messages == [block : Blocks, layer : Layers, ver : 1..Passes]
Envelopes == [msg : Messages, intact : BOOLEAN, open : BOOLEAN]
Nothing  == [block |-> 0, layer |-> 0, ver |-> 0]

VARIABLES
  protocol,   \* TransportProtocol of the router
  room,       \* num_blocks() of the receiver's pool
  pass,       \* prefill passes run, up to Passes
  role,       \* disagg_effective_role
  age,        \* time since the last landed transfer, up to Timeout + 1
  todo,       \* the messages of this pass still to send
  attempt,    \* of retry_with_policy
  mode,       \* what the engine thread does
  backlog,    \* messages written to the receiver's connections
  ack,        \* what the receiver answered on the open connection
  file,       \* the pending_ file of the inbox, or Nothing
  rejected,   \* a rejected_ file lies in the inbox
  active,     \* the inbox has its poller
  poller,     \* the poller's handoff: idle, read or stored
  up,         \* the receiver can be reached
  store,      \* the receiver's pool
  ok,         \* history: the last message the sender was told is committed, or Nothing
  committed,  \* history: the messages the receiver stored since the hand-off began
  unsound,    \* history: those its inbox refused or lost at its teardown since then
  abandoned   \* the poller still holds a file its sender gave up

sender   == <<todo, attempt, mode, ok>>
inbox    == <<file, rejected, active, poller, unsound, abandoned>>
network  == <<backlog, ack, up>>
received == <<store, committed>>
config   == <<protocol, room>>
vars     == <<config, pass, role, age, sender, inbox, network, received>>

(* for layer in 0..num_layers { for b_id in block_ids } *)
Item(i, v) == [block |-> ((i - 1) % NumBlocks) + 1, layer |-> (i - 1) \div NumBlocks, ver |-> v]
Handoff(v) == [i \in 1..(NumBlocks * NumLayers) |-> Item(i, v)]

Idle == [at |-> "idle", msg |-> Nothing]

Init ==
  /\ protocol \in Protocols /\ room \in Rooms
  /\ pass = 0 /\ role = "Prefill" /\ age = 0
  /\ todo = <<>> /\ attempt = 1 /\ mode = "idle" /\ ok = Nothing
  /\ backlog = <<>> /\ ack = "none" /\ up = TRUE
  /\ file = Nothing /\ rejected = FALSE /\ active = TRUE /\ poller = Idle
  /\ committed = {} /\ unsound = {} /\ abandoned = FALSE
  /\ store = [b \in Blocks |-> [l \in Layers |-> 0]]

-----------------------------------------------------------------------------
(* The engine's tick: evaluate_failover, then a prefill pass and, while the  *)
(* effective role is Prefill, its hand-off.                                  *)

Evaluated == IF age <= Timeout THEN "Prefill" ELSE "Colocated"

Prefill ==
  /\ mode = "idle"
  /\ role' = Evaluated
  /\ pass' = IF pass < Passes THEN pass + 1 ELSE pass
  /\ IF role' = "Prefill" THEN todo' = Handoff(pass') /\ mode' = "send"
                          ELSE UNCHANGED <<todo, mode>>
  /\ ok' = Nothing /\ committed' = {} /\ unsound' = {}
  /\ UNCHANGED <<config, age, attempt, file, rejected, active, poller, abandoned,
                 network, store>>

IdleTick ==
  /\ mode = "idle"
  /\ role' = Evaluated
  /\ UNCHANGED <<config, pass, age, sender, inbox, network, received>>

Clock ==
  /\ age <= Timeout
  /\ age' = age + 1
  /\ UNCHANGED <<config, pass, role, sender, inbox, network, received>>

-----------------------------------------------------------------------------
(* send_layer_block_remote under retry_with_policy.                          *)

Advance ==
  /\ todo' = Tail(todo)
  /\ attempt' = 1
  /\ mode' = IF Len(todo) = 1 THEN "idle" ELSE "send"

(* Mutant: a transfer that was tried counts as a heartbeat. *)
HeartbeatAlways(landed) == 0

(* Only a landed transfer counts as a heartbeat of the peer. *)
Heartbeat(landed) == IF landed THEN 0 ELSE age

Landed == Advance /\ ok' = Head(todo) /\ age' = Heartbeat(TRUE)

(* A final error, or the last attempt: a warning, and on to the next message.*)
Failed == Advance /\ ok' = Nothing /\ age' = Heartbeat(FALSE)

LastAttempt == attempt >= MaxAttempts

(* Mutant: the attempts are not counted. *)
TransientForever == mode' = "send" /\ UNCHANGED <<attempt, todo, ok, age>>

Transient ==
  \/ LastAttempt /\ Failed
  \/ /\ ~ LastAttempt
     /\ attempt' = attempt + 1 /\ mode' = "send"
     /\ UNCHANGED <<todo, ok, age>>

UsesTcp == mode = "fallback" \/ (mode = "send" /\ (protocol = "tcp" \/ ~ active))

CanConnect == up /\ Len(backlog) < Backlog

ConnectFails ==
  /\ UsesTcp
  /\ ~ CanConnect \/ "refuse" \in Faults
  /\ Transient
  /\ UNCHANGED <<config, pass, role, inbox, network, received>>

(* Mutant: the newest connection is accepted first. *)
QueuedFirst(q, m) == <<m>> \o q

(* The receiver accepts connections in the order they were made. *)
Queued(q, m) == Append(q, m)

(* connect, write; the read of the acknowledgement has a deadline. *)
SendTcp ==
  /\ UsesTcp /\ CanConnect
  /\ \E intact \in (IF "corrupt" \in Faults THEN BOOLEAN ELSE {TRUE}) :
       backlog' = Queued(backlog, [msg |-> Head(todo), intact |-> intact, open |-> TRUE])
  /\ ack' = "none" /\ mode' = "wait"
  /\ UNCHANGED <<config, pass, role, age, todo, attempt, ok, inbox, up, received>>

(* write_all fails half way: a broken connection is tried again, a write that *)
(* runs into its deadline is a final error.  The receiver may have taken the  *)
(* connection, and reads a message that is not whole.                         *)
WriteFails ==
  /\ UsesTcp /\ CanConnect
  /\ "refuse" \in Faults
  /\ \/ UNCHANGED backlog
     \/ backlog' = Queued(backlog, [msg |-> Head(todo), intact |-> FALSE, open |-> FALSE])
  /\ Transient \/ Failed
  /\ UNCHANGED <<config, pass, role, inbox, ack, up, received>>

AckTimeout ==
  /\ mode = "wait" /\ ack = "none"
  /\ "late" \in Faults
  /\ backlog' = [i \in DOMAIN backlog |-> [backlog[i] EXCEPT !.open = FALSE]]
  /\ Transient
  /\ UNCHANGED <<config, pass, role, inbox, ack, up, received>>

ReadAck ==
  /\ mode = "wait" /\ ack # "none"
  /\ IF ack = "ok" THEN Landed ELSE Failed
  /\ ack' = "none"
  /\ UNCHANGED <<config, pass, role, inbox, backlog, up, received>>

(* The accept loop: one thread, one connection after the other.              *)
Accepts(msg) == msg.block <= room

Stored(msg) ==
  /\ store' = [store EXCEPT ![msg.block][msg.layer] = msg.ver]
  /\ committed' = committed \cup {msg}

(* Mutant: the acknowledgement is sent before the payload is checked. *)
AcknowledgedFirst(m) == "ok"

Acknowledged(m) ==
  IF m.intact /\ Accepts(m.msg) THEN "ok" ELSE "nak"

Receive ==
  /\ backlog # <<>>
  /\ LET m == Head(backlog) IN
     /\ IF m.intact /\ Accepts(m.msg) THEN Stored(m.msg) ELSE UNCHANGED received
     /\ IF m.open THEN ack' \in {Acknowledged(m)} \cup (IF "late" \in Faults THEN {"none"} ELSE {})
                  ELSE UNCHANGED ack
  /\ backlog' = Tail(backlog)
  /\ UNCHANGED <<config, pass, role, age, sender, inbox, up>>

Unreachable ==
  /\ "unreachable" \in Faults
  /\ up' = ~ up
  /\ UNCHANGED <<config, pass, role, age, sender, inbox, backlog, ack, received>>

-----------------------------------------------------------------------------
(* The shared-memory inbox.                                                  *)

PublishShm ==
  /\ mode = "send" /\ protocol = "shm" /\ active
  /\ file' = Head(todo)
  /\ rejected' = FALSE
  /\ mode' = "path"
  /\ UNCHANGED <<config, pass, role, age, todo, attempt, ok, active, poller, unsound,
                 abandoned, network, received>>

(* The file cannot be created, written or renamed: the client falls back.    *)
PublishFails ==
  /\ mode = "send" /\ protocol = "shm" /\ active
  /\ "refuse" \in Faults
  /\ mode' = "fallback"
  /\ UNCHANGED <<config, pass, role, age, todo, attempt, ok, inbox, network, received>>

PathExists == file # Nothing

(* if !path.exists() { return Ok(()) } *)
ShmConsumed ==
  /\ mode = "path" /\ ~ PathExists
  /\ Landed
  /\ UNCHANGED <<config, pass, role, inbox, network, received>>

ShmStillThere ==
  /\ mode = "path" /\ PathExists
  /\ mode' = "marker"
  /\ UNCHANGED <<config, pass, role, age, todo, attempt, ok, inbox, network, received>>

(* if rejected.exists() { remove it; return Err } and the client falls back. *)
ShmRejected ==
  /\ mode = "marker" /\ rejected
  /\ rejected' = FALSE
  /\ mode' = "fallback"
  /\ UNCHANGED <<config, pass, role, age, todo, attempt, ok, file, active, poller, unsound,
                 abandoned, network, received>>

ShmPollAgain ==
  /\ mode = "marker" /\ ~ rejected
  /\ mode' = "path"
  /\ UNCHANGED <<config, pass, role, age, todo, attempt, ok, inbox, network, received>>

(* The deadline: the file is removed, whatever the poller made of it.        *)
ShmDeadline ==
  /\ mode = "marker" /\ ~ rejected
  /\ file' = Nothing
  /\ abandoned' = (poller.at # "idle")
  /\ mode' = "fallback"
  /\ UNCHANGED <<config, pass, role, age, todo, attempt, ok, rejected, active, poller,
                 unsound, network, received>>

PollRead ==
  /\ active /\ poller.at = "idle" /\ PathExists
  /\ poller' = [at |-> "read", msg |-> file]
  /\ UNCHANGED <<config, pass, role, age, sender, file, rejected, active, unsound,
                 abandoned, network, received>>

PollStore ==
  /\ poller.at = "read" /\ Accepts(poller.msg)
  /\ Stored(poller.msg)
  /\ poller' = [poller EXCEPT !.at = "stored"]
  /\ UNCHANGED <<config, pass, role, age, sender, file, rejected, active, unsound,
                 abandoned, network>>

(* remove_file, or the rename that answers "rejected": both take the file     *)
(* from its path, unless its sender has removed it already.                  *)
Taken == IF file = poller.msg /\ ~ abandoned THEN Nothing ELSE file

PollRemove ==
  /\ poller.at = "stored"
  /\ file' = Taken
  /\ poller' = Idle /\ abandoned' = FALSE
  /\ UNCHANGED <<config, pass, role, age, sender, rejected, active, unsound, network, received>>

PollReject ==
  /\ poller.at = "read" /\ ~ Accepts(poller.msg)
  /\ file' = Taken
  /\ rejected' = ~ abandoned
  /\ unsound' = unsound \cup {poller.msg}
  /\ poller' = Idle /\ abandoned' = FALSE
  /\ UNCHANGED <<config, pass, role, age, sender, active, network, received>>

(* The receiver server is dropped: the inbox goes with all its files.        *)
StopPoller ==
  /\ "stop" \in Faults /\ active /\ poller.at = "idle"
  /\ active' = FALSE
  /\ unsound' = IF PathExists THEN unsound \cup {file} ELSE unsound
  /\ file' = Nothing /\ rejected' = FALSE
  /\ UNCHANGED <<config, pass, role, age, sender, poller, abandoned, network, received>>

-----------------------------------------------------------------------------
Send ==
  \/ ConnectFails \/ SendTcp \/ WriteFails \/ AckTimeout \/ ReadAck
  \/ PublishShm \/ PublishFails \/ ShmConsumed \/ ShmStillThere \/ ShmRejected \/ ShmPollAgain \/ ShmDeadline

Poll == PollRead \/ PollStore \/ PollRemove \/ PollReject

Next ==
  \/ Prefill \/ IdleTick \/ Clock
  \/ Send \/ Receive \/ Poll \/ Unreachable \/ StopPoller

Spec == Init /\ [][Next]_vars

(* Requests keep coming, time passes, the engine thread and the receiver's    *)
(* threads run, and a deadline that can be noticed again and again is noticed.*)
FairSpec ==
  /\ Spec
  /\ WF_vars(Prefill) /\ WF_vars(Clock)
  /\ WF_vars(Send) /\ SF_vars(ShmDeadline)
  /\ WF_vars(Receive) /\ WF_vars(Poll)

-----------------------------------------------------------------------------
(* Properties.                                                               *)

Modes == {"idle", "send", "wait", "path", "marker", "fallback"}

(* Every variable stays in its type; retry_with_policy never goes past its    *)
(* attempts, and there is a message to send whenever the thread is sending.   *)
TypeOK ==
  /\ protocol \in {"tcp", "shm"} /\ room \in Nat
  /\ pass \in 0..Passes /\ role \in {"Prefill", "Colocated"} /\ age \in 0..(Timeout + 1)
  /\ todo \in Seq(Messages) /\ attempt \in 1..MaxAttempts /\ mode \in Modes
  /\ mode = "idle" <=> todo = <<>>
  /\ backlog \in Seq(Envelopes)
  /\ ack \in {"none", "ok", "nak"} /\ up \in BOOLEAN
  /\ file \in Messages \cup {Nothing} /\ rejected \in BOOLEAN /\ active \in BOOLEAN
  /\ poller \in [at : {"read", "stored"}, msg : Messages] \cup {Idle}
  /\ store \in [Blocks -> [Layers -> 0..Passes]]
  /\ ok \in Messages \cup {Nothing} /\ committed \subseteq Messages /\ unsound \subseteq Messages
  /\ abandoned \in BOOLEAN

(* A send reports success only for a message the receiver has stored during    *)
(* this hand-off - retries and fall-backs included - unless the shared-memory  *)
(* poller refused it or was torn down.                                         *)
OkMeansStored == ok \in committed \cup unsound \cup {Nothing}

(* The contract of KvWireTransport: send_block returns Ok only after the       *)
(* receiver committed the payload.                                             *)
OkMeansCommitted == ok \in committed \cup {Nothing}

(* Over TCP content only gets newer at the receiver, although a retried message *)
(* is stored once per attempt and the message of an attempt that was given up   *)
(* is stored long after it. With the inbox the accept loop and the poller store *)
(* without an order between them, and an older pass may end up over a newer one.*)
NoStaleStore ==
  [][protocol = "tcp" => \A b \in Blocks, l \in Layers : store'[b][l] >= store[b][l]]_store

(* F3: a block whose layers did not all arrive must not be taken for received. *)
(* The flag of a pushed block is set by its layer 0.                           *)
ReceivedIsWhole ==
  mode = "idle" => \A b \in Blocks, l \in Layers : store[b][l] >= store[b][0]

(* A peer that stays unreachable - no connection, no inbox - takes the node to  *)
(* colocated execution for good: a failed transfer never counts as a sign of    *)
(* life.                                                                        *)
Cut == ~ up /\ (protocol = "tcp" \/ ~ active)
FailsOver == <>[]Cut => <>[](role = "Colocated")

(* Every hand-off ends, so that a tick never waits for a peer without end.     *)
HandoffEnds == (mode # "idle") ~> (mode = "idle")

(* "Failover must recover": a node whose peer can be reached again, and that   *)
(* keeps prefilling, returns to the prefill role.                              *)
Recovers == <>[]up => []<>(role = "Prefill")
=============================================================================
