------------------------ MODULE SynthesisScheduler ------------------------
(***************************************************************************)
(* The round-robin worker of src/src/http/synthesis_scheduler.cpp and the  *)
(* part of a RequestContext (request_context.h) it shares with the HTTP    *)
(* event loop: the atomics `state` and `cancelled`, and the bounded output *)
(* queue.  One worker thread serves every request one chunk at a time; the *)
(* consumer (the event loop) submits, pops audio and cancels concurrently. *)
(*                                                                         *)
(* Every access of the worker to something another thread also touches is  *)
(* a step of its own, so the consumer can run between any two of them.     *)
(* The session behind a request (SynthesisSession) is reduced to how many  *)
(* chunks its text makes and to the fact that each call may fail.          *)
(***************************************************************************)
EXTENDS Naturals, Sequences

CONSTANTS
    Requests,    \* the requests that may be submitted
    None,        \* "no request": the worker holds nothing
    MaxPending,  \* RequestContext::MAX_PENDING
    MaxChunks    \* bound: the most chunks one text is split into

ASSUME SchedulerAssumption ==
    /\ None \notin Requests
    /\ MaxPending \in Nat \ {0}
    /\ MaxChunks \in Nat \ {0}

VARIABLES
    pending,       \* _pending: the queue of requests waiting for the worker
    wpc,           \* where the worker is in one turn of _worker_loop
    held,          \* the ctx the worker popped, None between two turns
    state,         \* ctx->state, "NEW" before submit
    cancelled,     \* ctx->cancelled
    output_queue,  \* ctx->output_queue: indices of chunks, oldest first
    inferred,      \* the session's _chunks_completed
    pushed,        \* ctx->chunks_completed
    popped,        \* how many chunks the consumer has taken
    total          \* the number of chunks of the request's text

workerVars  == <<wpc, held>>
contextVars == <<state, cancelled, output_queue, inferred, pushed, popped, total>>
vars == <<pending, wpc, held, state, cancelled, output_queue,
          inferred, pushed, popped, total>>

Active   == {"PREPARING", "INFERRING"}
Terminal == {"DONE", "ERROR", "CANCELLED"}
States   == {"NEW"} \cup Active \cup Terminal

WorkerSteps == {"idle", "popped", "prepare", "prepared", "room", "full",
                "gate", "infer", "push", "pushed"}

\* The steps of phase 2.
Inferring == {"room", "full", "gate", "infer", "push", "pushed"}

\* Does r wait in the scheduler's queue?
Queued(r) == \E i \in DOMAIN pending : pending[i] = r

Init ==
    /\ pending = <<>>
    /\ wpc = "idle"
    /\ held = None
    /\ state = [r \in Requests |-> "NEW"]
    /\ cancelled = [r \in Requests |-> FALSE]
    /\ output_queue = [r \in Requests |-> <<>>]
    /\ inferred = [r \in Requests |-> 0]
    /\ pushed = [r \in Requests |-> 0]
    /\ popped = [r \in Requests |-> 0]
    /\ total \in [Requests -> 1..MaxChunks]

-----------------------------------------------------------------------------
(* What the event loop does to a request. *)

\* submit(): a fresh context, enqueued under _queue_mutex.
Submit(r) ==
    /\ state[r] = "NEW"
    /\ state' = [state EXCEPT ![r] = "PREPARING"]
    /\ pending' = Append(pending, r)
    /\ UNCHANGED <<wpc, held, cancelled, output_queue, inferred, pushed, popped, total>>

\* try_pop() when a chunk is available.
TryPop(r) ==
    /\ output_queue[r] # <<>>
    /\ output_queue' = [output_queue EXCEPT ![r] = Tail(@)]
    /\ popped' = [popped EXCEPT ![r] = @ + 1]
    /\ UNCHANGED <<pending, wpc, held, state, cancelled, inferred, pushed, total>>

\* Slip: the event loop stores the final state itself.
CancelStoresState(r) ==
    /\ state[r] # "NEW"
    /\ ~cancelled[r]
    /\ cancelled' = [cancelled EXCEPT ![r] = TRUE]
    /\ state' = [state EXCEPT ![r] = "CANCELLED"]
    /\ UNCHANGED <<pending, wpc, held, output_queue, inferred, pushed, popped, total>>

\* cancelled.store(true), when the event loop sees the client disconnect.
Cancel(r) ==
    /\ state[r] # "NEW"
    /\ ~cancelled[r]
    /\ cancelled' = [cancelled EXCEPT ![r] = TRUE]
    /\ UNCHANGED <<pending, wpc, held, state, output_queue, inferred, pushed, popped, total>>

-----------------------------------------------------------------------------
(* The worker thread. *)

\* The turn goes on at step s with the same request.
Goto(s) == wpc' = s /\ UNCHANGED held

\* `continue`: the worker drops its reference and starts another turn.
EndTurn == wpc' = "idle" /\ held' = None

\* ctx->state.store(s) followed by `continue`.
Finish(s) ==
    /\ state' = [state EXCEPT ![held] = s]
    /\ EndTurn

\* Wait on _queue_cv until the queue has a request, then pop it.
Dequeue ==
    /\ wpc = "idle"
    /\ pending # <<>>
    /\ held' = Head(pending)
    /\ pending' = Tail(pending)
    /\ wpc' = "popped"
    /\ UNCHANGED contextVars

\* Slip: the turn begins without looking at `cancelled`.
CheckCancelledLate ==
    /\ wpc = "popped"
    /\ Goto(IF state[held] = "PREPARING" THEN "prepare" ELSE "room")
    /\ UNCHANGED contextVars
    /\ UNCHANGED pending

\* The cancellation check at the head of a turn, then the phase to run.
CheckCancelled ==
    /\ wpc = "popped"
    /\ \/ /\ cancelled[held]
          /\ Finish("CANCELLED")
       \/ /\ ~cancelled[held]
          /\ Goto(IF state[held] = "PREPARING" THEN "prepare" ELSE "room")
          /\ UNCHANGED state
    /\ UNCHANGED <<pending, cancelled, output_queue, inferred, pushed, popped, total>>

\* Phase 1: push_text, finish_input and prepare of a new session.
Prepare ==
    /\ wpc = "prepare"
    /\ \/ Finish("ERROR")
       \/ Goto("prepared") /\ UNCHANGED state
    /\ UNCHANGED <<pending, cancelled, output_queue, inferred, pushed, popped, total>>

\* The client may have left during preparation; otherwise go on to phase 2.
EnterInferring ==
    /\ wpc = "prepared"
    /\ \/ /\ cancelled[held]
          /\ Finish("CANCELLED")
       \/ /\ ~cancelled[held]
          /\ state' = [state EXCEPT ![held] = "INFERRING"]
          /\ Goto("room")
    /\ UNCHANGED <<pending, cancelled, output_queue, inferred, pushed, popped, total>>

\* Slip: `<=` for `<`.
CheckRoomOneMore ==
    /\ wpc = "room"
    /\ Goto(IF Len(output_queue[held]) <= MaxPending THEN "gate" ELSE "full")
    /\ UNCHANGED <<pending, state, cancelled, output_queue, inferred, pushed, popped, total>>

\* Back-pressure: output_has_room() under output_mutex.
CheckRoom ==
    /\ wpc = "room"
    /\ Goto(IF Len(output_queue[held]) < MaxPending THEN "gate" ELSE "full")
    /\ UNCHANGED <<pending, state, cancelled, output_queue, inferred, pushed, popped, total>>

\* The cancellation check before the expensive inference.
CheckBeforeInfer ==
    /\ wpc = "gate"
    /\ \/ /\ cancelled[held]
          /\ Finish("CANCELLED")
       \/ /\ ~cancelled[held]
          /\ Goto("infer")
          /\ UNCHANGED state
    /\ UNCHANGED <<pending, cancelled, output_queue, inferred, pushed, popped, total>>

\* Slip: DONE is stored as soon as the last chunk is there, before its push.
InferThenDone ==
    /\ wpc = "infer"
    /\ inferred' = [inferred EXCEPT ![held] = @ + 1]
    /\ state' = IF inferred[held] + 1 = total[held]
                THEN [state EXCEPT ![held] = "DONE"] ELSE state
    /\ Goto("push")
    /\ UNCHANGED <<pending, cancelled, output_queue, pushed, popped, total>>

\* Phase 2: synthesis->next(1, ...) fails, or returns one chunk.  (Its third
\* outcome, success without a chunk, needs a session that is already done:
\* NeverAskedPastEnd says that the worker never calls one.)
Infer ==
    /\ wpc = "infer"
    /\ \/ /\ Finish("ERROR")
          /\ UNCHANGED inferred
       \/ /\ inferred' = [inferred EXCEPT ![held] = @ + 1]
          /\ Goto("push")
          /\ UNCHANGED state
    /\ UNCHANGED <<pending, cancelled, output_queue, pushed, popped, total>>

\* push_audio() under output_mutex.
PushAudio ==
    /\ wpc = "push"
    /\ output_queue' = [output_queue EXCEPT ![held] = Append(@, inferred[held])]
    /\ pushed' = [pushed EXCEPT ![held] = @ + 1]
    /\ Goto("pushed")
    /\ UNCHANGED <<pending, state, cancelled, inferred, popped, total>>

\* chunk.is_final
LastChunkPushed == inferred[held] = total[held]

\* The last chunk: the state becomes DONE only after its audio is queued.
FinishRequest ==
    /\ wpc = "pushed"
    /\ LastChunkPushed
    /\ Finish("DONE")
    /\ UNCHANGED <<pending, cancelled, output_queue, inferred, pushed, popped, total>>

\* Slip: to the front of the queue.
RequeueInFront ==
    /\ wpc = "full" \/ (wpc = "pushed" /\ ~LastChunkPushed)
    /\ pending' = <<held>> \o pending
    /\ EndTurn
    /\ UNCHANGED contextVars

\* Slip: no `continue` after the queue was found full.
RequeueWithoutContinue ==
    /\ wpc = "full" \/ (wpc = "pushed" /\ ~LastChunkPushed)
    /\ pending' = Append(pending, held)
    /\ IF wpc = "full" THEN Goto("gate") ELSE EndTurn
    /\ UNCHANGED contextVars

\* Slip: a request without room is not queued again.
RequeueForgets ==
    /\ wpc = "full" \/ (wpc = "pushed" /\ ~LastChunkPushed)
    /\ pending' = IF wpc = "full" THEN pending ELSE Append(pending, held)
    /\ EndTurn
    /\ UNCHANGED contextVars

\* More chunks to come, or no room: to the end of the queue, under _queue_mutex.
Requeue ==
    /\ wpc = "full" \/ (wpc = "pushed" /\ ~LastChunkPushed)
    /\ pending' = Append(pending, held)
    /\ EndTurn
    /\ UNCHANGED contextVars

Worker ==
    \/ Dequeue
    \/ CheckCancelled
    \/ Prepare
    \/ EnterInferring
    \/ CheckRoom
    \/ CheckBeforeInfer
    \/ Infer
    \/ PushAudio
    \/ FinishRequest
    \/ Requeue

Consumer(r) == Submit(r) \/ TryPop(r) \/ Cancel(r)

Next == Worker \/ \E r \in Requests : Consumer(r)

SafetySpec == Init /\ [][Next]_vars

\* The thread runs for as long as it is not blocked on _queue_cv.
Spec == SafetySpec /\ WF_vars(Worker)

-----------------------------------------------------------------------------
TypeOK ==
    /\ pending \in Seq(Requests)
    /\ wpc \in WorkerSteps
    /\ held \in Requests \cup {None}
    /\ state \in [Requests -> States]
    /\ cancelled \in [Requests -> BOOLEAN]
    /\ output_queue \in [Requests -> Seq(Nat)]
    /\ inferred \in [Requests -> Nat]
    /\ pushed \in [Requests -> Nat]
    /\ popped \in [Requests -> Nat]
    /\ total \in [Requests -> 1..MaxChunks]

\* A request that is not finished is in exactly one place, and only there:
\* once in the queue or in the worker's hands.  Otherwise it would be served
\* twice per round, or be forgotten.
OnePlace ==
    /\ \A i, j \in DOMAIN pending : pending[i] = pending[j] => i = j
    /\ held # None => ~Queued(held)
    /\ \A r \in Requests : state[r] \in Active <=> (Queued(r) \/ held = r)

\* Back-pressure holds although the room check and the push are two separate
\* critical sections with an inference between them.
QueueBound == \A r \in Requests : Len(output_queue[r]) <= MaxPending

\* The queue holds exactly the chunks that were pushed and not yet popped,
\* in the order of their index: none lost, repeated or swapped.
ChunksInOrder ==
    \A r \in Requests :
        /\ popped[r] + Len(output_queue[r]) = pushed[r]
        /\ \A i \in DOMAIN output_queue[r] : output_queue[r][i] = popped[r] + i

\* A consumer that reads DONE can drain every chunk of the text after that:
\* the event loop relies on it when it loads the state before it pops.
DoneAfterLastPush ==
    \A r \in Requests : state[r] = "DONE" => pushed[r] = total[r]

\* The worker never calls next() on a session that has already returned its
\* final chunk, so it never sees the empty result it is prepared for.
NeverAskedPastEnd == wpc = "infer" => inferred[held] < total[held]

\* The worker holds a request exactly during a turn, and the phase of the turn
\* agrees with the state the event loop reads.
TurnMatchesState ==
    /\ wpc = "idle" <=> held = None
    /\ wpc \in {"prepare", "prepared"} => state[held] = "PREPARING"
    /\ wpc \in Inferring => state[held] = "INFERRING"

\* The room the worker found is still there when it pushes: the event loop
\* only ever pops, and nobody else pushes.
RoomIsKept ==
    wpc \in {"gate", "infer", "push"} => Len(output_queue[held]) < MaxPending

\* The session is ahead of the output queue only between next() and the push,
\* and a request that is still served has chunks left.
SessionAgrees ==
    \A r \in Requests :
        /\ inferred[r] = IF held = r /\ wpc = "push" THEN pushed[r] + 1 ELSE pushed[r]
        /\ inferred[r] <= total[r]
        /\ (state[r] \notin Terminal /\ ~(held = r /\ wpc \in {"push", "pushed"})) =>
               inferred[r] < total[r]

\* The inductive invariant: the worker, the queue, the contexts and the
\* sessions agree with each other at every step of every thread.
SchedulerInv ==
    /\ TypeOK
    /\ OnePlace
    /\ TurnMatchesState
    /\ RoomIsKept
    /\ QueueBound
    /\ ChunksInOrder
    /\ SessionAgrees
    /\ DoneAfterLastPush

\* A final state is final, whatever is cancelled or popped afterwards.
TerminalIsStable ==
    [][\A r \in Requests : state[r] \in Terminal => state'[r] = state[r]]_vars

\* r1 waits in front of r2.
Ahead(q, r1, r2) ==
    \E i, j \in DOMAIN q : i < j /\ q[i] = r1 /\ q[j] = r2

\* Round robin: whatever enters the queue stands behind everyone who waits,
\* and nobody who waits is overtaken.
RoundRobin ==
    [][\A r1, r2 \in Requests :
          (Ahead(pending', r1, r2) /\ Queued(r2)) => Ahead(pending, r1, r2)]_vars

\* A cancelled request leaves the scheduler even when its output queue is
\* full and nobody will ever pop from it again.
CancelledEnds ==
    \A r \in Requests : cancelled[r] ~> state[r] \in Terminal

\* If every consumer makes room again and again, every request is finished,
\* however many compete: no request is forgotten or starved.
SubmittedEnds ==
    (\A r \in Requests : []<>(Len(output_queue[r]) < MaxPending)) =>
        \A r \in Requests : state[r] = "PREPARING" ~> state[r] \in Terminal
=============================================================================
