-------------------------- MODULE StreamPipeline --------------------------
(***************************************************************************)
(* stream_synthesize (src/src/streaming/streaming.cpp): one thread per     *)
(* stream delivers chunk after chunk to a callback, while a worker started *)
(* by std::async infers the chunk behind.                                  *)
(*                                                                         *)
(* A stream is a number, given in the order of the calls.  Chunks are      *)
(* numbered from 0.  next_future is kept as how far its worker is, where   *)
(* "none" is a future that is not valid, and the chunk it was launched     *)
(* for.  A worker in "infer" uses the model, which cannot serve two.       *)
(*                                                                         *)
(* The environment of Spec is any caller that keeps to the header: a new   *)
(* stream is begun when the one before has ended, stop() is called at any  *)
(* time, and the callback may ask to stop.  StdioStream is one caller.     *)
(***************************************************************************)
EXTENDS Naturals, Sequences

CONSTANTS
    MaxStreams,   \* bounds the calls of stream_synthesize
    MaxChunks     \* bounds the chunks of a text

ASSUME PipelineAssumption == MaxStreams \in Nat /\ MaxChunks \in Nat

VARIABLES
    spc,          \* what the thread of a stream does next
    n_chunks,     \* plan.chunks.size()
    pos,          \* i of the loop
    next_future,  \* how far the worker of the future is
    ahead,        \* the chunk the future was launched for
    cur,          \* what the last get() returned, "audio" or "error"
    stopped,      \* state->stopped
    done,         \* state->done
    refused,      \* the callback has asked to stop
    heard         \* the calls of the callback, <<stream, chunk>>, in order

futureVars == <<next_future, ahead>>
pipelineVars == <<spc, n_chunks, pos, futureVars, cur, stopped, done, refused, heard>>

Streams == 1..MaxStreams

Steps == {"none", "prepare", "head", "get", "launch", "deliver", "reap", "exited"}
Phases == {"none", "launched", "infer", "audio", "error"}

Valid(s) == next_future[s] # "none"
Ready(s) == next_future[s] \in {"audio", "error"}

Init ==
    /\ spc = [s \in Streams |-> "none"]
    /\ n_chunks = [s \in Streams |-> 0]
    /\ pos = [s \in Streams |-> 0]
    /\ next_future = [s \in Streams |-> "none"]
    /\ ahead = [s \in Streams |-> 0]
    /\ cur = [s \in Streams |-> "error"]
    /\ stopped = [s \in Streams |-> FALSE]
    /\ done = [s \in Streams |-> FALSE]
    /\ refused = [s \in Streams |-> FALSE]
    /\ heard = <<>>

Goto(s, p) == spc' = [spc EXCEPT ![s] = p]

\* next_future = std::async(..., synthesize_one, i)
Async(s, i) ==
    /\ next_future' = [next_future EXCEPT ![s] = "launched"]
    /\ ahead' = [ahead EXCEPT ![s] = i]

-----------------------------------------------------------------------------
(* The caller. *)

\* stream_synthesize(): the thread is created.
Begin(s) ==
    /\ spc[s] = "none"
    /\ Goto(s, "prepare")
    /\ UNCHANGED <<n_chunks, pos, futureVars, cur, stopped, done, refused, heard>>

\* StreamHandle::stop()
Stop(s) ==
    /\ spc[s] # "none"
    /\ stopped' = [stopped EXCEPT ![s] = TRUE]
    /\ UNCHANGED <<spc, n_chunks, pos, futureVars, cur, done, refused, heard>>

-----------------------------------------------------------------------------
(* The stream's thread. *)

\* prepare_synthesis: no chunk ends the stream, else the first is launched.
Prepare(s) ==
    /\ spc[s] = "prepare"
    /\ \/ /\ Goto(s, "exited")
          /\ done' = [done EXCEPT ![s] = TRUE]
          /\ UNCHANGED <<n_chunks, futureVars>>
       \/ /\ \E k \in 1..MaxChunks : n_chunks' = [n_chunks EXCEPT ![s] = k]
          /\ Goto(s, "head")
          /\ Async(s, 0)
          /\ UNCHANGED done
    /\ UNCHANGED <<pos, cur, stopped, refused, heard>>

\* Slip: the head of the loop does not look at the flag.
LoopHeadBlind(s) ==
    /\ spc[s] = "head"
    /\ Goto(s, IF pos[s] = n_chunks[s] THEN "reap" ELSE "get")
    /\ UNCHANGED <<n_chunks, pos, futureVars, cur, stopped, done, refused, heard>>

\* The head of the loop: all chunks are done, or a stop was asked for.
LoopHead(s) ==
    /\ spc[s] = "head"
    /\ Goto(s, IF pos[s] = n_chunks[s] \/ stopped[s] THEN "reap" ELSE "get")
    /\ UNCHANGED <<n_chunks, pos, futureVars, cur, stopped, done, refused, heard>>

\* cur = next_future.get(): it waits for the worker and leaves no valid future.
Get(s) ==
    /\ spc[s] = "get"
    /\ Ready(s)
    /\ cur' = [cur EXCEPT ![s] = next_future[s]]
    /\ next_future' = [next_future EXCEPT ![s] = "none"]
    /\ Goto(s, "launch")
    /\ UNCHANGED <<n_chunks, pos, ahead, stopped, done, refused, heard>>

\* The next chunk is launched unless a stop was asked for; a chunk that failed
\* is skipped, another is delivered.
Launch(s) ==
    /\ spc[s] = "launch"
    /\ \/ pos[s] + 1 < n_chunks[s] /\ ~stopped[s] /\ Async(s, pos[s] + 1)
       \/ ~(pos[s] + 1 < n_chunks[s] /\ ~stopped[s]) /\ UNCHANGED futureVars
    /\ \/ cur[s] = "error" /\ Goto(s, "head") /\ pos' = [pos EXCEPT ![s] = @ + 1]
       \/ cur[s] = "audio" /\ Goto(s, "deliver") /\ UNCHANGED pos
    /\ UNCHANGED <<n_chunks, cur, stopped, done, refused, heard>>

\* The callback; a caller that goes on answers TRUE.
Deliver(s, go) ==
    /\ spc[s] = "deliver"
    /\ heard' = Append(heard, <<s, pos[s]>>)
    /\ stopped' = [stopped EXCEPT ![s] = @ \/ ~go]
    /\ refused' = [refused EXCEPT ![s] = @ \/ ~go]
    /\ pos' = [pos EXCEPT ![s] = @ + 1]
    /\ Goto(s, "head")
    /\ UNCHANGED <<n_chunks, futureVars, cur, done>>

\* Slip: there is always a future to wait for.
ReapAlways(s) ==
    /\ spc[s] = "reap"
    /\ Ready(s)
    /\ next_future' = [next_future EXCEPT ![s] = "none"]
    /\ done' = [done EXCEPT ![s] = TRUE]
    /\ Goto(s, "exited")
    /\ UNCHANGED <<n_chunks, pos, ahead, cur, stopped, refused, heard>>

\* The inference in flight, if any, is waited for, before the thread ends.
Reap(s) ==
    /\ spc[s] = "reap"
    /\ Valid(s) => Ready(s)
    /\ next_future' = [next_future EXCEPT ![s] = "none"]
    /\ done' = [done EXCEPT ![s] = TRUE]
    /\ Goto(s, "exited")
    /\ UNCHANGED <<n_chunks, pos, ahead, cur, stopped, refused, heard>>

-----------------------------------------------------------------------------
(* The worker: synthesize_one. *)

WorkerCheck(s) ==
    /\ next_future[s] = "launched"
    /\ next_future' = [next_future EXCEPT ![s] = IF stopped[s] THEN "error" ELSE "infer"]
    /\ UNCHANGED <<spc, n_chunks, pos, ahead, cur, stopped, done, refused, heard>>

WorkerInfer(s) ==
    /\ next_future[s] = "infer"
    /\ \E result \in {"audio", "error"} :
          next_future' = [next_future EXCEPT ![s] = result]
    /\ UNCHANGED <<spc, n_chunks, pos, ahead, cur, stopped, done, refused, heard>>

-----------------------------------------------------------------------------
Worker(s) == WorkerCheck(s) \/ WorkerInfer(s)

Thread(s) ==
    \/ Prepare(s) \/ LoopHead(s) \/ Get(s) \/ Launch(s) \/ Reap(s)
    \/ Deliver(s, TRUE)

\* The callback asks to stop.
Refuse(s) == Deliver(s, FALSE)

\* What the streams do by themselves.
Run(s) == Thread(s) \/ Worker(s)

Ended(s) == spc[s] \in {"none", "exited"}

\* The contract of the header: one stream at a time uses the model.
CallBegin(s) == (\A t \in Streams : Ended(t)) /\ Begin(s)

Next ==
    \E s \in Streams :
        CallBegin(s) \/ Stop(s) \/ Refuse(s) \/ Thread(s) \/ Worker(s)

Spec == Init /\ [][Next]_pipelineVars

-----------------------------------------------------------------------------
TypeOK ==
    /\ spc \in [Streams -> Steps]
    /\ n_chunks \in [Streams -> 0..MaxChunks]
    /\ pos \in [Streams -> Nat]
    /\ next_future \in [Streams -> Phases]
    /\ ahead \in [Streams -> Nat]
    /\ cur \in [Streams -> {"audio", "error"}]
    /\ stopped \in [Streams -> BOOLEAN]
    /\ done \in [Streams -> BOOLEAN]
    /\ refused \in [Streams -> BOOLEAN]
    /\ heard \in Seq(Streams \X Nat)

\* get() is never called on a future that is not valid, and what it returns
\* belongs to the chunk that the thread has come to.
FutureFits(s) ==
    /\ spc[s] \in {"none", "prepare"} => pos[s] = 0
    /\ spc[s] = "head" => pos[s] <= n_chunks[s]
    /\ spc[s] \in {"get", "launch", "deliver"} => pos[s] < n_chunks[s]
    /\ spc[s] = "head" /\ pos[s] < n_chunks[s] => Valid(s) \/ stopped[s]
    /\ spc[s] = "deliver" /\ pos[s] + 1 < n_chunks[s] => Valid(s) \/ stopped[s]
    /\ spc[s] = "get" => Valid(s)
    /\ Valid(s) => \/ spc[s] \in {"head", "get"} /\ ahead[s] = pos[s]
                   \/ spc[s] = "deliver" /\ ahead[s] = pos[s] + 1
                   \/ spc[s] = "reap"

\* A stream that has ended leaves no inference behind.
NothingLeft(s) ==
    /\ Ended(s) => ~Valid(s)
    /\ done[s] <=> spc[s] = "exited"

\* A callback that has asked to stop is not called again.
RefusalHolds(s) == refused[s] => stopped[s] /\ spc[s] \in {"head", "reap", "exited"}

\* The model serves one stream at a time.
OneRuns == \A s, t \in Streams : Ended(s) \/ Ended(t) \/ s = t

\* The chunks heard are behind the position of their streams.
HeardFits ==
    \A j \in DOMAIN heard :
        LET s == heard[j][1] IN spc[s] # "none" /\ heard[j][2] < pos[s]

StreamInv ==
    /\ TypeOK
    /\ \A s \in Streams : FutureFits(s) /\ NothingLeft(s) /\ RefusalHolds(s)
    /\ OneRuns
    /\ HeardFits

\* The model, which is not thread-safe, never has two users.
ModelExclusive ==
    \A s, t \in Streams :
        next_future[s] = "infer" /\ next_future[t] = "infer" => s = t
=============================================================================
