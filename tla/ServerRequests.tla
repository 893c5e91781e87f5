--------------------------- MODULE ServerRequests ---------------------------
(***************************************************************************)
(* The life of a generation request in the HTTP server: the admission      *)
(* ticket, the four handlers that generate (chat and text, streamed and    *)
(* not), the one inference thread that steps the engine for all of them,   *)
(* the clean-up guard, the cancel endpoint and the graceful shutdown       *)
(* (grim-server/src/lib.rs, routes/completions.rs, routes/control.rs).     *)
(*                                                                         *)
(* The handlers run on Tokio threads and lose control only at an await;    *)
(* the inference thread takes queued steps in order and holds the engine   *)
(* lock for a whole step.  The engine is what a step sees of it: every     *)
(* request it has is driven by EVERY tick, whoever asked for it.           *)
(***************************************************************************)
EXTENDS Integers, FiniteSets, Sequences

CONSTANTS Requests,     \* the request ids REQUEST_ID_COUNTER hands out
          Kinds,        \* which of the four handlers the clients call
          MaxQueue,     \* GRIM_MAX_QUEUE
          MaxTokens,    \* max_tokens of every request
          Chunks,       \* passes the scheduler cuts a prompt into
          Faults        \* what may go wrong, a subset of AllFaults

AllKinds  == {"chatStream", "chat", "textStream", "text"}
AllFaults == {"invalid", "disconnect", "timeout", "tick", "refuse", "cancel", "shutdown"}

ASSUME ServerAssumption ==
  /\ IsFiniteSet(Requests)
  /\ Kinds \subseteq AllKinds
  /\ MaxQueue \in Nat
  /\ MaxTokens \in Nat \ {0}
  /\ Chunks \in Nat \ {0}
  /\ Faults \subseteq AllFaults

VARIABLES
  pc,           \* where the handler of a request is
  kind,         \* the handler that serves it
  step,         \* tokens it has received, never past MaxTokens
  parses,       \* its text so far parses as tool calls
  answer,       \* what its oneshot channel holds
  counter,      \* ADMISSION_COUNTER
  tickets,      \* the requests whose AdmissionTicket is alive
  registered,   \* CANCEL_TOKENS
  cancelled,    \* the requests whose CancellationToken fired
  params,       \* REQUEST_SAMPLER_PARAMS
  histories,    \* REQUEST_HISTORIES
  jobs,         \* the inference channel
  engine,       \* what the engine keeps of a request
  phase,        \* how far shutdown_signal is
  disturbed,    \* requests the engine drove for another, refused or lost
  wrong         \* requests given a token of logits that are not their text's

handler == <<pc, kind, step, parses, answer>>
server  == <<counter, tickets, registered, cancelled, params, histories>>
vars    == <<handler, server, jobs, engine, phase, disturbed, wrong>>

NoAnswer == [is |-> "nothing", tool |-> FALSE]
Answers  == [is : {"nothing", "token", "stop", "error"}, tool : BOOLEAN]

(* The context a forward pass saw: the number of generated tokens the       *)
(* model has read in order after the whole prompt, or Bad for anything else.*)
Bad  == -1
None == -2

Gone == [on |-> FALSE, left |-> 0, ctx |-> 0, last |-> None, out |-> None]
Enqueued == [on |-> TRUE, left |-> Chunks, ctx |-> 0, last |-> None, out |-> None]
EngineStates == [on : BOOLEAN, left : 0..Chunks, ctx : {Bad} \cup 0..MaxTokens,
                 last : {None} \cup 1..MaxTokens, out : {Bad, None} \cup 0..MaxTokens]

Init ==
  /\ pc = [r \in Requests |-> "idle"]
  /\ kind \in [Requests -> Kinds]
  /\ step = [r \in Requests |-> 0]
  /\ parses = [r \in Requests |-> FALSE]
  /\ answer = [r \in Requests |-> NoAnswer]
  /\ counter = 0
  /\ tickets = {} /\ registered = {} /\ cancelled = {} /\ params = {} /\ histories = {}
  /\ jobs = <<>>
  /\ engine = [r \in Requests |-> Gone]
  /\ phase = "up"
  /\ disturbed = {} /\ wrong = {}

-----------------------------------------------------------------------------
(* Admission: the flag is read, then the counter is raised, then compared.  *)

Arrive(r) ==
  /\ pc[r] = "idle"
  /\ pc' = [pc EXCEPT ![r] = IF phase = "up" THEN "checked" ELSE "refused"]
  /\ UNCHANGED <<kind, step, parses, answer, server, jobs, engine, phase, disturbed, wrong>>

(* Mutant: the cap compared with the wrong relation. *)
HasRoomAtLimit(current) == current <= MaxQueue
HasRoom(current) == current < MaxQueue

Count(r) ==
  /\ pc[r] = "checked"
  /\ counter' = counter + 1
  /\ IF HasRoom(counter)
       THEN pc' = [pc EXCEPT ![r] = "admitted"] /\ tickets' = tickets \cup {r}
       ELSE pc' = [pc EXCEPT ![r] = "full"] /\ UNCHANGED tickets
  /\ UNCHANGED <<kind, step, parses, answer, registered, cancelled, params, histories,
                 jobs, engine, phase, disturbed, wrong>>

Uncount(r) ==
  /\ pc[r] = "full"
  /\ counter' = counter - 1
  /\ pc' = [pc EXCEPT ![r] = "refused"]
  /\ UNCHANGED <<kind, step, parses, answer, tickets, registered, cancelled, params,
                 histories, jobs, engine, phase, disturbed, wrong>>

(* Drop of the ticket, with whatever owns it. *)
Release(r) ==
  /\ tickets' = tickets \ {r}
  /\ counter' = IF r \in tickets THEN counter - 1 ELSE counter

-----------------------------------------------------------------------------
(* Engine::finish_request, and a tick.                                      *)

FinishRequest(r) == engine' = [engine EXCEPT ![r] = Gone]

Fed(ctx, token) == IF ctx \in Nat /\ token = ctx + 1 THEN token ELSE Bad

Prefilled(e) == [e EXCEPT !.left = e.left - 1, !.out = IF e.left = 1 THEN 0 ELSE Bad]
Decoded(e)   == LET c == Fed(e.ctx, e.last) IN [e EXCEPT !.ctx = c, !.out = c]

(* Every request in the engine is driven: a prompt by its next chunk, any    *)
(* other by one decode of its last recorded token.                           *)
Driven(es) ==
  [q \in Requests |-> IF ~ es[q].on THEN es[q]
                      ELSE IF es[q].left > 0 THEN Prefilled(es[q]) ELSE Decoded(es[q])]

Prefilling(es) == {q \in Requests : es[q].on /\ es[q].left > 0}
Decoding(es)   == {q \in Requests : es[q].on /\ es[q].left = 0}

(* A tick that fails half-way: the prefills in P are done, and the decodes   *)
(* in D ran without their outcome being kept.                                *)
HalfDriven(es, P, D) ==
  [q \in Requests |-> IF q \in P THEN Prefilled(es[q])
                      ELSE IF q \in D THEN [es[q] EXCEPT !.ctx = Fed(@, es[q].last)]
                      ELSE es[q]]

-----------------------------------------------------------------------------
(* The handlers.                                                            *)

RejectInvalid(r) ==
  /\ "invalid" \in Faults
  /\ pc[r] = "admitted"
  /\ Release(r)
  /\ pc' = [pc EXCEPT ![r] = "refused"]
  /\ UNCHANGED <<kind, step, parses, answer, registered, cancelled, params, histories,
                 jobs, engine, phase, disturbed, wrong>>

(* The id is minted and its entries are made.  A streamed text completion    *)
(* spawns its task and returns the response, and its ticket goes with it.    *)
Begin(r) ==
  /\ pc[r] = "admitted"
  /\ params' = params \cup {r}
  /\ registered' = IF kind[r] = "chatStream" THEN registered \cup {r} ELSE registered
  /\ IF kind[r] = "textStream" THEN Release(r) ELSE UNCHANGED <<counter, tickets>>
  /\ pc' = [pc EXCEPT ![r] = "ready"]
  /\ UNCHANGED <<kind, step, parses, answer, cancelled, histories, jobs, engine, phase,
                 disturbed, wrong>>

(* Mutant: a handler that ends without dropping its ticket. *)
FinishKeepsTicket(r) ==
  /\ FinishRequest(r)
  /\ params' = params \ {r}
  /\ UNCHANGED <<registered, histories, counter, tickets>>

(* The end of every handler but the streamed chat's. *)
Finish(r) ==
  /\ FinishRequest(r)
  /\ params' = params \ {r}
  /\ Release(r)
  /\ UNCHANGED <<registered, histories>>

(* Mutant: a guard that clears the registries and not the engine. *)
CleanUpKeepsRequest(r) ==
  /\ registered' = registered \ {r}
  /\ params' = params \ {r}
  /\ histories' = histories \ {r}
  /\ Release(r)
  /\ UNCHANGED engine

(* Drop of RequestCleanupGuard: the end of a streamed chat, whatever ends it.*)
CleanUp(r) ==
  /\ FinishRequest(r)
  /\ registered' = registered \ {r}
  /\ params' = params \ {r}
  /\ histories' = histories \ {r}
  /\ Release(r)

End(r) ==
  /\ IF kind[r] = "chatStream" THEN CleanUp(r) ELSE Finish(r)
  /\ pc' = [pc EXCEPT ![r] = "ended"]

IsCancelled(r) == r \in cancelled

(* A poll of a streamed chat that finds nothing more to generate: cancelled, *)
(* or out of tokens with no tool call to report.  In the other handlers, the *)
(* end of the loop.                                                          *)
Close(r) ==
  /\ pc[r] = "ready"
  /\ \/ kind[r] = "chatStream" /\ IsCancelled(r)
     \/ step[r] = MaxTokens /\ (kind[r] = "chatStream" => ~ parses[r])
  /\ End(r)
  /\ UNCHANGED <<kind, step, parses, answer, cancelled, jobs, phase, disturbed, wrong>>

(* Out of tokens, and the text parses: the tool calls are sent and the       *)
(* stream goes on.                                                           *)
ToolDelta(r) ==
  /\ pc[r] = "ready" /\ kind[r] = "chatStream" /\ ~ IsCancelled(r)
  /\ step[r] = MaxTokens /\ parses[r]
  /\ params' = params \ {r}
  /\ UNCHANGED <<handler, counter, tickets, registered, cancelled, histories,
                 jobs, engine, phase, disturbed, wrong>>

(* sample_next_token_async: the step is queued and awaited.  Every poll of a *)
(* streamed chat first takes the sampler parameters out of the registry.     *)
Submit(r) ==
  /\ pc[r] = "ready" /\ step[r] < MaxTokens
  /\ ~ (kind[r] = "chatStream" /\ IsCancelled(r))
  /\ params' = IF kind[r] = "chatStream" THEN params \ {r} ELSE params
  /\ jobs' = Append(jobs, [req |-> r, at |-> step[r]])
  /\ pc' = [pc EXCEPT ![r] = "waiting"]
  /\ UNCHANGED <<kind, step, parses, answer, counter, tickets, registered, cancelled,
                 histories, engine, phase, disturbed, wrong>>

Receive(r, what) == pc[r] = "waiting" /\ answer[r].is = what

TakeAnswer(r) ==
  /\ answer' = [answer EXCEPT ![r] = NoAnswer]
  /\ parses' = [parses EXCEPT ![r] = IF answer[r].is = "error" THEN @ ELSE answer[r].tool]

GoOn(r, at) ==
  /\ TakeAnswer(r)
  /\ step' = [step EXCEPT ![r] = at]
  /\ pc' = [pc EXCEPT ![r] = "ready"]
  /\ UNCHANGED <<kind, server, jobs, engine, phase, disturbed, wrong>>

Token(r) == Receive(r, "token") /\ GoOn(r, step[r] + 1)

(* An error event, or the last text before a stop string, puts a streamed    *)
(* chat at max_tokens; tool calls at a stop leave it generating.             *)
StreamLast(r) ==
  /\ kind[r] = "chatStream"
  /\ Receive(r, "error") \/ (Receive(r, "stop") /\ ~ answer[r].tool)
  /\ GoOn(r, MaxTokens)

StreamTools(r) ==
  /\ kind[r] = "chatStream" /\ Receive(r, "stop") /\ answer[r].tool
  /\ GoOn(r, step[r] + 1)

Stop(r) ==
  /\ \/ Receive(r, "stop") /\ (kind[r] = "chatStream" => ~ answer[r].tool)
     \/ Receive(r, "error") /\ kind[r] # "chatStream"
  /\ TakeAnswer(r)
  /\ End(r)
  /\ UNCHANGED <<kind, step, cancelled, jobs, phase, disturbed, wrong>>

(* The client goes away: the future of a handler is dropped at its await, a  *)
(* response stream also between two polls.  Only a streamed chat has a guard;*)
(* the task of a streamed text completion does not notice.                   *)
Disconnect(r) ==
  /\ "disconnect" \in Faults
  /\ \/ kind[r] = "chatStream" /\ pc[r] \in {"ready", "waiting"} /\ CleanUp(r)
     \/ /\ kind[r] \in {"chat", "text"} /\ pc[r] = "waiting" /\ Release(r)
        /\ UNCHANGED <<registered, params, histories, engine>>
  /\ pc' = [pc EXCEPT ![r] = "dropped"]
  /\ answer' = [answer EXCEPT ![r] = NoAnswer]
  /\ UNCHANGED <<kind, step, parses, cancelled, jobs, phase, disturbed, wrong>>

(* GRIM_REQUEST_TIMEOUT_SECS drops the future; the text handler then         *)
(* finishes the request, the chat handler does not.                          *)
Timeout(r) ==
  /\ "timeout" \in Faults
  /\ pc[r] = "waiting"
  /\ \/ kind[r] = "text" /\ Finish(r)
     \/ kind[r] = "chat" /\ Release(r) /\ UNCHANGED <<registered, params, histories, engine>>
  /\ pc' = [pc EXCEPT ![r] = "dropped"]
  /\ answer' = [answer EXCEPT ![r] = NoAnswer]
  /\ UNCHANGED <<kind, step, parses, cancelled, jobs, phase, disturbed, wrong>>

(* cancel_request_inner, for an id whose handler still runs.                 *)
Cancel(r) ==
  /\ "cancel" \in Faults
  /\ pc[r] \in {"ready", "waiting"}
  /\ cancelled' = IF r \in registered THEN cancelled \cup {r} ELSE cancelled
  /\ registered' = registered \ {r}
  /\ FinishRequest(r)
  /\ disturbed' = disturbed \cup {r}
  /\ UNCHANGED <<handler, counter, tickets, params, histories, jobs, phase, wrong>>

-----------------------------------------------------------------------------
(* The inference thread: sample_next_token under the engine lock.            *)

Respond(r, a) == answer' = IF pc[r] = "waiting" THEN [answer EXCEPT ![r] = a] ELSE answer

(* Mutant: the sampled token is not recorded. *)
RecordedNot(es, r, token) == es

(* record_generated_token, for a request the engine may have forgotten. *)
Recorded(es, r, token) == [es EXCEPT ![r].last = token]

Others(es, r) == {q \in Requests \ {r} : es[q].on}

(* Step 0 enqueues; the engine may refuse, and nobody looks.                 *)
Admitted(job) ==
  IF job.at # 0 THEN {engine}
  ELSE {[engine EXCEPT ![job.req] = Enqueued]}
         \cup (IF "refuse" \in Faults THEN {engine} ELSE {})

(* A token, or one that ends the text (EOS, a stop string); only a streamed  *)
(* chat goes by what the text then parses to.                                *)
Samples(r) == [is : {"token", "stop"}, tool : IF kind[r] = "chatStream" THEN BOOLEAN ELSE {FALSE}]

(* The tick, the sampling from the last outcome (token 0 if there is none),  *)
(* the history entry and record_generated_token.                             *)
Work ==
  /\ jobs # <<>>
  /\ LET job == Head(jobs)  r == job.req IN
     \E es \in Admitted(job) : \E a \in Samples(r) :
       /\ engine' = Recorded(Driven(es), r, job.at + 1)
       /\ disturbed' = disturbed \cup Others(es, r) \cup (IF es[r].on THEN {} ELSE {r})
       /\ wrong' = IF Driven(es)[r].out # job.at THEN wrong \cup {r} ELSE wrong
       /\ histories' = histories \cup {r}
       /\ Respond(r, a)
  /\ jobs' = Tail(jobs)
  /\ UNCHANGED <<pc, kind, step, parses, counter, tickets, registered, cancelled, params, phase>>

WorkFails ==
  /\ "tick" \in Faults /\ jobs # <<>>
  /\ LET job == Head(jobs)  r == job.req IN
     /\ \E es \in Admitted(job) : \E P \in SUBSET Prefilling(es) :
          \E D \in IF P = Prefilling(es) THEN SUBSET Decoding(es) ELSE {{}} :
            /\ engine' = HalfDriven(es, P, D)
            /\ disturbed' = disturbed \cup Others(es, r) \cup {r}
     /\ histories' = IF job.at = 0 THEN histories \cup {r} ELSE histories
     /\ Respond(r, [is |-> "error", tool |-> FALSE])
  /\ jobs' = Tail(jobs)
  /\ UNCHANGED <<pc, kind, step, parses, counter, tickets, registered, cancelled, params,
                 phase, wrong>>

-----------------------------------------------------------------------------
(* shutdown_signal: the flag, the tokens, the drain of at most ten seconds.  *)

ShutFlag ==
  /\ "shutdown" \in Faults /\ phase = "up"
  /\ phase' = "flagged"
  /\ UNCHANGED <<handler, server, jobs, engine, disturbed, wrong>>

CancelAll ==
  /\ phase = "flagged"
  /\ cancelled' = cancelled \cup registered
  /\ phase' = "draining"
  /\ UNCHANGED <<handler, counter, tickets, registered, params, histories, jobs, engine,
                 disturbed, wrong>>

Drained(n) == n = 0

Drain ==
  /\ phase = "draining"
  /\ phase' \in (IF Drained(counter) THEN {"drained"} ELSE {"gaveUp"})
  /\ UNCHANGED <<handler, server, jobs, engine, disturbed, wrong>>

-----------------------------------------------------------------------------
Handle(r) ==
  \/ Arrive(r) \/ Count(r) \/ Uncount(r) \/ RejectInvalid(r) \/ Begin(r)
  \/ Close(r) \/ ToolDelta(r) \/ Submit(r)
  \/ Token(r) \/ StreamLast(r) \/ StreamTools(r) \/ Stop(r)

Next ==
  \/ \E r \in Requests : Handle(r) \/ Disconnect(r) \/ Timeout(r) \/ Cancel(r)
  \/ Work \/ WorkFails
  \/ ShutFlag \/ CancelAll \/ Drain

Spec == Init /\ [][Next]_vars

(* The inference thread serves its queue, and a client that stays connected  *)
(* reads what its handler writes, so that the handler is polled again.       *)
FairSpec ==
  /\ Spec
  /\ WF_vars(Work \/ WorkFails)
  /\ \A r \in Requests : WF_vars(Handle(r))
-----------------------------------------------------------------------------
(* Properties.                                                              *)

Jobs == [req : Requests, at : 0..(MaxTokens - 1)]
Over(r) == pc[r] \in {"ended", "dropped"}
InFlight(r) == \E i \in DOMAIN jobs : jobs[i].req = r

(* Every variable stays in its type; the admission counter never wraps below  *)
(* zero, although tickets are dropped by handlers, guards and the response.   *)
TypeOK ==
  /\ pc \in [Requests -> {"idle", "checked", "full", "admitted", "ready", "waiting",
                          "ended", "dropped", "refused"}]
  /\ kind \in [Requests -> Kinds]
  /\ step \in [Requests -> 0..MaxTokens]
  /\ parses \in [Requests -> BOOLEAN]
  /\ answer \in [Requests -> Answers]
  /\ counter \in Nat
  /\ tickets \subseteq Requests /\ registered \subseteq Requests /\ cancelled \subseteq Requests
  /\ params \subseteq Requests /\ histories \subseteq Requests
  /\ jobs \in Seq(Jobs)
  /\ engine \in [Requests -> EngineStates]
  /\ phase \in {"up", "flagged", "draining", "drained", "gaveUp"}
  /\ disturbed \subseteq Requests /\ wrong \subseteq Requests

Counted == tickets \cup {r \in Requests : pc[r] = "full"}

(* The admission counter is exactly the live tickets plus the handlers about  *)
(* to take their increment back, so that the optimistic fetch_add of           *)
(* try_acquire_in never lets more than MaxQueue tickets live at once.          *)
AdmissionHolds == counter = Cardinality(Counted) /\ Cardinality(tickets) <= MaxQueue

(* The tickets are those of the handlers that run, the streamed text           *)
(* completion's excepted: no exit path of a handler keeps or loses one.        *)
TicketOfHandler ==
  \A r \in Requests :
    r \in tickets <=>
      \/ pc[r] = "admitted"
      \/ pc[r] \in {"ready", "waiting"} /\ kind[r] # "textStream"

(* A handler that came to its end leaves nothing of its request behind: no     *)
(* engine state, no cancel token, no sampler parameters and, for a streamed    *)
(* chat, no history.  A streamed chat whose client went away leaves no token   *)
(* and no parameters either, and no engine state once its first step was       *)
(* answered.                                                                   *)
NothingLeft ==
  \A r \in Requests :
    /\ pc[r] = "ended" => /\ ~ engine[r].on /\ r \notin registered \cup params
                          /\ kind[r] = "chatStream" => r \notin histories
    /\ pc[r] = "dropped" /\ kind[r] = "chatStream" =>
         r \notin registered \cup params /\ (step[r] > 0 => ~ engine[r].on)

(* A token a client gets was sampled from logits of its prompt followed by     *)
(* exactly the tokens it got before, unless the engine was ticked for another  *)
(* request meanwhile, refused the request, failed, or was told to forget it.   *)
OnlyDisturbedAreWrong == wrong \subseteq disturbed

(* The same without the exceptions: record_generated_token exists so that      *)
(* every decode step feeds the token that was just sampled.                    *)
InContext == wrong = {}

(* WI-CANCEL-0/2: once a handler is over and nothing of it is queued, the      *)
(* engine has forgotten its request.                                           *)
NoGhost == \A r \in Requests : Over(r) /\ ~ InFlight(r) => ~ engine[r].on

(* "Mark shutdown requested so admission stops immediately": once the drain    *)
(* has seen the counter at zero no ticket is alive.                            *)
DrainedIsIdle == phase = "drained" => tickets = {}

(* A streamed chat whose token fired ends, whatever it was doing.              *)
CancelEnds == \A r \in Requests : (r \in cancelled) ~> Over(r)

Repeating(r) == pc[r] = "ready" /\ step[r] = MaxTokens /\ parses[r]

(* Every handler that was admitted ends, unless it is a streamed chat that     *)
(* sends the tool calls of its finished text again and again.                  *)
EndsOrRepeats ==
  \A r \in Requests : (pc[r] \in {"ready", "waiting"}) ~> (Over(r) \/ []Repeating(r))

(* Every admitted handler ends: the [DONE] sentinel is sent.                   *)
Ends == \A r \in Requests : (pc[r] \in {"ready", "waiting"}) ~> Over(r)
=============================================================================
