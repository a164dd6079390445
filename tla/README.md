# kokopop in TLA+

kokopop is a text-to-speech engine in C++: a model is loaded from a GGUF file,
text is split into chunks, each chunk is phonemized and inferred, and the audio
is returned by a C API, played, written to a file, or streamed by an HTTP
server.  This directory models the parts whose correctness lies in the order of
steps: threads, queues, buffers, disconnects, failures and the life of the
model.  The numeric parts are left out.

Paths below are relative to the repository; the C++ sources are in `src/`.

## 1. The system

### Threads of `kokopop_stream --http`

```
 client ==TCP== event loop ----submit, cancel, try_pop----> RequestContext <---- worker
 client ==TCP==  (one thread, all connections)              state, cancelled,     (one thread,
                     |                                      output_queue           all requests)
                     | _lifecycle_mutex, _model_loaded,
                     | _active_streams, _last_activity_ms
                 idle thread ----- unload_fn: stop and join the scheduler, free the model
```

### Components

| component | state it keeps | operations | hard behaviour | what makes it correct |
|---|---|---|---|---|
| `SynthesisScheduler`, `RequestContext` (`src/http`) | `_pending`; per request `state`, `cancelled`, `output_queue`, `chunks_completed` | `submit`, the worker's turn, `try_pop`, cancel | the consumer acts between any two steps of a turn; back-pressure; cancellation at any time | a request is in one place; chunks in order, none lost; `DONE` after the last push; bounded queue; fair turns; everything ends |
| scheduler shutdown | `_queue_mutex`, `_queue_cv`, `_running` | `submit`, `stop`, `join`, sleep, wake-up | lost and spurious wake-ups | no submission is slept on; at most one request is begun after `stop`; `join` returns |
| `AsyncHttpServer`, streaming (`src/http/async_server.cpp`) | per connection `state`, `write_buffer`, `stream_encoder`, `req_ctx`; `_active_streams` | dispatch, read, write, drain, close | the worker runs during the drain; slow clients; encoder and synthesis failures; disconnects | the client gets its chunks in order and the end only after all of them; bounded memory; every request ends and its client is told |
| idle unload | `_model_loaded`, `_last_activity_ms`, `_lifecycle_mutex`, `ls->model` | `_idle_loop`, the reload in `_dispatch_request`, `reload_fn`, `unload_fn`, `/health` | separate atomic loads, a lock released before use and held during a join, pointers without a lock | no unload under a request; an idle server unloads; no second model |
| `AsyncHttpServer`, connections; `AsyncHttpParser` | `_connections`, parser buffer, `keep_alive`, `close_after_write` | accept, sweep, pipelined requests, chunked bodies | partial reads, keep-alive, timeouts, limits | each request is answered once and in order; limits hold whatever the pieces |
| `SynthesisSession`, chunker (`src/synthesis`) | input text, chunks or units, position, adaptative target | `push_text`, `finish_input`, `prepare`, `next` | failures in the middle, two modes, feedback of timings into the chunk size | the chunks partition the text; exactly one final chunk |
| `stream_synthesize`, `IncrementalStreamer` (`src/streaming`) | the chunk in flight, cross-fade tail, text buffer | prepare, infer, post-process, deliver | inference one chunk ahead on another thread, early stop | chunks delivered in order, in-flight work reaped, stop honoured |
| `StdioStream` (`src/stdio`) | line protocol, playback, WAV buffer | `run`, `join`, per-line JSON | stop in the middle, double `join` | every line answered, WAV written once |
| playback (`src/playback`) | ring of samples, `drained_` | `start`, `write`, `stop`, `wait`, audio callback | real-time callback thread against the producer | all audio is played before `stop` returns, no deadlock |
| legacy `HttpServer` (`src/http/http_server.cpp`), which only a test constructs | thread table | accept, handle, reap, `stop`, `join` | threads that finish while being reaped | each thread is joined once |
| C API, Python and web bindings | handles | load, synthesize, streaming synthesis, free | call order, GIL released during a call | no use after free, errors reported |
| phonemizer, G2P | espeak's global state behind one mutex | `phonemize` | – | pure conversion |
| model, backends, architectures, DSP, containers | tensors | – | – | numeric, not modelled |

## 2. Modules

| module | models | extends / instantiates |
|---|---|---|
| `SynthesisScheduler` | the worker's turn and the request it shares with the event loop | – |
| `SynthesisScheduler_proofs` | theorems about it | `SynthesisScheduler` |
| `SchedulerShutdown` | mutex, condition variable, `submit`, `stop`, `join` | – |
| `SchedulerShutdown_proofs` | theorems about it | `SchedulerShutdown` |
| `TtsService` | abstract: what `POST /tts` promises to a client | – |
| `TtsServer` | the event loop's streaming side composed with the scheduler | `SynthesisScheduler`, `TtsService` (refinements) |
| `TtsServer_proofs` | theorems about its connections, what its clients are sent, and that it implements `TtsService` | `TtsServer`, `SynthesisScheduler_proofs` |
| `HttpParser` | operators: the incremental request parser | – |
| `HttpExchange` | abstract: what any client of the HTTP server can rely on | – |
| `HttpConnection` | the connections of the event loop around the parser | `HttpParser`, `HttpExchange` (refinement) |
| `HttpConnection_proofs` | theorems about its connections and the parser | `HttpConnection` |
| `ModelLifecycle` | the idle thread against the event loop | – |
| `ModelLifecycle_proofs` | theorems about it | `ModelLifecycle` |
| `Chunker` | operators: how units become chunks | – |
| `SynthesisSession` | a session under the C API, one step per chunk | `Chunker` |
| `SynthesisSession_proofs` | theorems about the chunker's loops and the session | `SynthesisSession` |
| `StreamPipeline` | `stream_synthesize`: a stream's thread and the inference one chunk ahead | – |
| `StdioStream` | the standard-input program, and direct callers, on top of it | `StreamPipeline` |
| `StreamPipeline_proofs` | theorems about both | `StdioStream` |
| `CoreAudioPlayback` | the playback program against the audio device's callback thread | – |
| `CoreAudioPlayback_proofs` | theorems about it | `CoreAudioPlayback` |
| `MC...` | model values and choices of inputs for TLC | their module |

Operators that begin with "Slip:" in their comment are small mistakes a
programmer could have made in the operation that follows them.  No
specification uses them; each shows, when put in the place of the real
operation, that a property notices the mistake.

### `SynthesisScheduler`

One variable per shared object: `pending` is `_pending`, `output_queue[r]`,
`state[r]`, `cancelled[r]` and `pushed[r]` (`chunks_completed`) are the fields of
a `RequestContext`.  `wpc` and `held` say where the worker is in a turn of
`_worker_loop` and what it holds.  `inferred` and `total` stand for the
`SynthesisSession`: how many chunks it has returned, and how many its text
makes.  `popped` is what the consumer has taken.

Each atomic access, and each critical section, is one action, in the order of
the code: `Dequeue` (85-99), `CheckCancelled` (101-108), `Prepare` (107-131),
`EnterInferring` (133-149), `CheckRoom` (153-158), `CheckBeforeInfer` (160-164),
`Infer` (166-181), `PushAudio` (186), `FinishRequest` (197-199), `Requeue` (154-157,
200-203).  Two steps that touch nothing shared are one action: the load of
`state` with the cancellation check before it, because only the worker writes
`state`.  `prepare()` and `next()` may fail at every call.

Left out: logging, ids, and the branch for `next()` returning no chunk, which
`NeverAskedPastEnd` (theorem `NoEmptyChunk`) shows never to be taken.

### `SchedulerShutdown`

`_queue_mutex` and `_queue_cv` in detail.  `condition_variable::wait` with a
predicate is the loop `while (!pred()) wait`: the test (`TestPredicate`) runs with
the mutex, and `Block` releases it and sleeps in one step.  The worker can wake
up spuriously.  Behind the wait the worker loads `_running` again (`CheckRunning`,
93) and then pops (`Take`, 96-97): two actions, because `stop()` does not take the
mutex and may store the flag between them.  `submit()` is two actions, since it
notifies after it released the mutex; `stop()` is two, since it never takes it.

`late` and `caught` are history, which no guard reads: how many requests were
popped after `stop()` stored the flag, and where that store found the worker.

### `TtsServer`

The event loop is a process with its own program counter (`lpc`, `cur`, `rs`).
Between visits it is at `poll`; a visit that touches the worker's side more than
once is split, so the worker can run in between: `Dispatch` then
`StartStream`; `DrainBegin` (load the state), `DrainPop` (one `try_pop`, encode or
accumulate), then one of the ends.  A visit that touches only the loop's own
state is one action.  Sizes are counted in items instead of bytes: the response
head, one item per chunk of audio, the end of the body, an error response; the
socket takes any number of items at a time.  The end of the body of a WAV file
is where its Content-Length ends.  `kept` is what is popped and not encoded yet:
the Ogg prebuffer or the WAV accumulator.  The encoder's `start` and `write` may
fail for PCM as well as for Ogg, since both catch exceptions; at `finish` PCM has
nothing to do and returns true (audio_encoder.cpp:159-199), so `FinishFails` is for
Ogg only.

`MCTtsAnswers` adds a history variable, `broken`, the requests whose encoder failed:
a client that stays then sees its response break off, and is told by that alone.

The worker's steps and the loop's `Submit`, `TryPop` and `Cancel` are those of
`SynthesisScheduler`, instantiated on the same variables.

A `/tts` connection is closed after its response (`close_after_write`), so
connections and requests are named alike.  The loop visits the connections of an
iteration in the order of a map; the model visits them in any order, which adds
behaviours and removes none.

`DrainBegin` leaves out the branch for a cancelled request (363-367) because
`NoCancelledStream` (theorem `NeverCancelled`) shows that the loop never finds
one: whoever cancels a stream closes its connection, or turns it into an error
response, in the same step.

### `TtsService`

What a client may observe, without threads or buffers: a request is accepted,
its chunks are heard in order, and the answer is complete after the last one, or
failed, or dropped when the client leaves.  `TtsServer` implements it under the
mapping at the end of the module: `phase` is computed from the connection and
from what was sent, `heard` counts the audio items sent.

### `ModelLifecycle`

Every load and store of the flags that two threads share is one action, with
`_lifecycle_mutex` as a variable.  `configured`, `pointer` and `live` distinguish the
server's pointers, the callback's `ls->model`, and whether the model exists;
these are written at three different moments of an unload.

Time.  The event loop releases the mutex (line 563) before it uses the
scheduler (767) and counts the stream (830).  Between these, only the time since
`_last_activity_ms` keeps the idle thread away.  The model says what that takes:
`DispatchLimit` is the most time from the stamp to the count, `RecheckLimit` the
most between the idle thread's last two loads, and the assumption `FastEnough`
is that their sum is below the idle limit.  In the program the limit is at
least a minute and both are far below a second, unless the machine is suspended
in between.  `Tick` refuses to let a thread be slower than assumed; ages stop
counting at `IdleLimit`, where no test tells them apart.

The unload stops the scheduler (`StopScheduler`), joins its thread (`JoinWorker`) and
only then frees the model (`FreeModel`), all with the mutex held.  The thread is a
small process here: asleep, awake, between the test of its predicate and its
sleep (`deciding`), or exited.  It may decide to sleep and wake up at any time,
which stands for its turns, spurious wake-ups and requests whose client was lost;
`SchedulerShutdown` has the same thread in full.  `stop()` only wakes it when it
sleeps, so a worker that was deciding sleeps through it and the join never returns.

### `Chunker` and `SynthesisSession`

A unit is a fragment of text with a size in tokens, the boundary after it and an
emotion style; a chunk is a run of consecutive units, named by the first and the
last.  `Assemble` is the greedy loop of `chunk_text` and `RebalanceTiny` the pass
after it; both are recursive functions of the index (`Flushed`, `Rebalanced`) with the
loop's body as an operator (`Flush`, `Rebalance`), and the size of a run is a
difference of prefix sums (`Tokens`).  `BuildAdaptative` gives the loop of
`build_adaptative_chunk` as the first index at which it stops (`StopsAt`) or the
next unit does not fit (`Refuses`).  Times are left out: `Targets` is every target
the controller may compute under its cap, `Observe` every cap it may move to.
`WellFormed` is what `scale_chunk_budgets` makes of the budgets; Kokoro takes the
presets as they are, so a caller's own budgets are assumed to be ordered.

In `SynthesisSession` the caller's thread takes one step per loop iteration of
`next`, so that a call for two chunks may fail on the second.  A call that
returns false drops what it had generated, as its callers do
(kokopop.cpp:375, synthesis_scheduler.cpp:170).  An exception does the same by way of
`guarded` (kokopop.cpp:47-59), but leaves the session as it is at that moment: a
long-form chunk whose inference threw still has its tokens (`Throws` skips the
release at line 137), and chunks of the call that were counted stay counted.  The
copy that the C API makes of a batch fails alike.  `errors` keeps apart a call that
threw with nothing counted ("thrown") and one that left with chunks counted
("dropped").  The text is the list of units
`prepare` finds in it.  `next` prepares the session when it has to; the model lets
that be an action of its own, which nothing can come between because
`push_text` fails from `finish_input` on.

Modelling showed that the forward merge of `rebalance_tiny_chunks` (`JoinsNext`)
cannot happen with ordered budgets: a chunk is flushed below the minimum only at
a change of style, at the end, when the next unit exceeds the capacity, or as
the exempt first one, and none of these leaves a neighbour ahead to merge with.
`NoMergeableTiny` rests on the backward merge alone.  This is proved for every text
(`NothingJoinsNext`).

What a retry leads to differs by mode and by failure, and the properties say so.
A long-form session fails for ever at a chunk whose inference failed, and tries a
chunk again whose inference threw; either way what it delivers has no gap
(`LongFormGapless`), except behind a call that was left with chunks counted.  An
adaptative one goes on behind the chunk that failed, and may even be done without
a final chunk (`Exhausted`).

### `HttpParser`, `HttpConnection` and `HttpExchange`

`HttpParser` is `AsyncHttpParser::next()` as a function of the parser's state and
buffer.  The input is a sequence of tokens instead of characters: `CR` and `LF`
are tokens, since the cuts that matter fall between them, and a request line, a
field, the digits of a chunk size and a byte of a body are one token each.  What
the fields say (length, chunked, keep-alive) and the error they may cause are
kept in the request line's token.  `Run` is `Step` repeated, a recursive function,
and `Parse` its last value: every step that goes on consumes a token, so there
are no more steps than tokens.  Limits count tokens.

`HttpConnection` has one action per handler of an iteration of `_event_loop`:
`Accept`, `ReadData`, `ReadEof`, `WriteSome`, `WriteAll`, `WriteFails`, `Sweep`, and
the drain's `StreamPiece`, `StreamEnds`, `StreamBreaks`.  The handlers run on one
thread and connections share only the size of the table, so a handler is one
step and `poll()` decides which comes next.  The record `conn[c]` is the
`Connection`; its write buffer is counted in parts, `age` is the time since
`last_activity_ms` in ticks.  `ProcessPending`, `Dispatch` and `PrepareNext` are the
functions of these names, as operators that return the connections they may
lead to.  A stream is only what it does to a connection; `TtsServer` has the rest.

A client is external: it sends the tokens of its script in pieces of any size,
as far as it likes, and may leave.  A client that closes its sending side only
and goes on reading is not modelled: the server treats it like one that left.

`HttpExchange` is the promise: requests are answered one by one, in order, with
the body that was sent or the right error, and nothing follows an answer that
announces the end.  What a request may be answered is computed in
`HttpConnection` (`AnswersTo`) from the request as the client means it, not from
the parser.

### `StreamPipeline` and `StdioStream`

`spc[s]` says where the thread of stream `s` is in the lambda of
`stream_synthesize`: prepare, the head of the loop, `get`, `launch`, `deliver` (the
callback), `reap`.  The future is kept as how far its worker is: `launched` (it has
not looked at the flag), `infer` (it uses the model), then `audio` or `error`.  The
cross-fade between chunks is data and left out.

`StdioStream` is a caller: `Text`, `Flush` and `Eof` are the lines that make a
difference, `Synthesize` joins the stream before and begins the next, `Join` and
`Save` are the end of `run()` and the destructor, which saves once more.  The
other caller, chosen in the initial state (`pc = "test"`), is the one of
`tests/test_streaming_pipeline.cpp`: it stops streams from outside or refuses in
the callback.  `heard` is the order of the callback's calls, hence of what goes
to stdout and into the WAV buffer.

### `CoreAudioPlayback`

`kokopop_play` starts the playback, may restart it at the file's sample rate,
writes, stops and waits; `stop()` is split at every point where the callback's
thread can come between (`StopBegins`, `StopDrained`, `StopUnhooks`, `StopDevice`,
`StopPoll`, `StopDisposes`, `StopEnds`).  The device is external: it plays its
buffers in order and calls `callback()` for each, and its calls may fail, an
enqueue included, as long as one buffer is left; with none left, `stop()` waits
for ever, as the hazard at line 146 says.  Samples are counted in pieces
of at most one buffer; `data_mutex_` is never held across two actions.

## 3. Model checking

Every cfg turns the deadlock check off, because each model has an end (every
request made, every stream begun, the program exited) and then stops; the
lifecycle and connection models only go on ticking.  The liveness properties say
that none of them stops before it should.

| run | question | bounds | states |
|---|---|---|---|
| `Scheduler` | do queues, states and sessions agree under every interleaving, is the round robin fair, are final states final, and does a cancelled request end unaided, and every other when its consumer makes room? | 3 requests of 3, 3 and 2 chunks, `MAX_PENDING` 2 | 231 842 |
| `ShutdownQueue` | is a submission ever slept on, and how much is still begun after `stop()`? | 3 submissions, 2 re-enqueues | 16 305 |
| `ShutdownJoin` | does `join()` return? **no** | as above | |
| `ServerOneClient` | is what a client is sent what the service promises, is memory bounded, does every request end, with its client told? | 1 request, 3 formats, up to 6 chunks, `MAX_PENDING` 2, high water 1, prebuffer 3 | 22 439 |
| `ServerTwoClients` | do two clients get their own audio in order, and is the stream count right? | 2 requests (symmetric), 3 formats, up to 2 chunks, `MAX_PENDING` 1, high water 0, prebuffer 2 | 826 587 |
| `ServerLost` | does the worker stop working for every lost client? **no** | 1 PCM request, 2 chunks | |
| `ServerFail` | is a failed stream truncated? **no** | 1 PCM request, 2 chunks | |
| `Lifecycle` | is the model ever freed under a request, or under the worker, kept by an idle server, or loaded twice? | idle limit 4 ticks, dispatch 2, recheck 1 (the edge of `FastEnough`), 2 streams | 16 997 |
| `Session` | do the chunks partition the text within the budgets, in both modes, and what does a caller get who retries after failures and exceptions? | 4 presets in proportion, texts of up to 4 units of 4 sizes, 2 styles, batches of up to 2 chunks | 373 476 |
| `HttpConnection` | is every request answered once, in order and for what was sent, however its bytes are cut and whatever is read ahead; is the buffer bounded; does every connection end? | each of 16 requests before a plain one and behind a chunked one; head up to 8 tokens, body up to 2, reads up to 7; 1 connection allowed, 2 clients, the second of which sends nothing; timeout 1 tick | 43 803 |
| `Streaming` | does the look-ahead ever leave an inference behind, ask a future twice, or mix two texts, and does everything end? | 2 streams of up to 3 chunks | 47 289 |
| `Playback` | is all audio heard, once and in order, before `stop()` returns, and does it return? | 3 buffers as in the code, 5 pieces, 2 buffers refused | 17 155 |

Why the bounds suffice.  A chunk only matters by its position relative to the
queue: with two places and three chunks the queue is empty, partly full, full,
and full with a chunk still to come.  Three requests are the least for which one
can overtake another while the worker holds a third.  Six chunks fill the
output queue, the write buffer and the prebuffer of one connection at once.  Two
connections are enough for the count of streams and for the exchange of turns;
each property speaks of one or two requests.  The timing limits matter only by
their order and by `FastEnough`, which is used at equality plus one.
The texts are all those of two units with three boundaries, of three with two
styles, and of four with one: enough for a tiny chunk between two neighbours, a
tail of two units, and a unit above the model's capacity.
A read of seven tokens takes in the end of a chunked body together with the
whole plain request behind it, and smaller reads cut between any two tokens; the
limits lie so that requests of the script fall on both sides of each.
Two streams are one that is joined before another begins; of three chunks one is
delivered while the next is inferred and one is still to come.  Five pieces fill
the three buffers and leave two in the queue.

### What the properties say

* `SchedulerInv` (`OnePlace`, `QueueBound`, `ChunksInOrder`, `SessionAgrees`,
  `DoneAfterLastPush` and what they rest on), `RoundRobin`, `SubmittedEnds`: the
  worker neither forgets, doubles nor starves a request, and its queues are
  bounded and in order.
* `BoundedBacklog`: back-pressure from a slow client reaches the worker, through
  two buffers and a prebuffer, although each test is made before the amount is
  known.
* `InOrderDelivery`, `ServiceSpec`, and in `ServerInv` `CompleteWhenDone` and
  `NoCancelledStream`: from the inference to the socket no chunk is lost, doubled
  or reordered, and the end of the response comes after the last.
* `TerminalIsStable`, `OneResponse`: no second ending of any kind.
* `CancelledEnds`, `EveryRequestAnswered`: a request ends, whoever fails or leaves,
  and the server does not close a connection before its client has an end of the
  body, an error, or a response that its encoder broke off.  After a synthesis that
  failed in mid-stream that end says too much, which is the run `ServerFail`.
* `StreamsCounted`, `LifecycleInv`, `NoUnloadUnderRequest`, `NoSecondModel`,
  `IdleIsUnloaded`, `LifecycleIsReleased`: the model is there when needed, by a request
  or by the worker, and gone when not.  The last two say "unless the join hangs"
  (`JoinHangs`), because it may; that nothing else does, a failed reload included, is
  what they show.
* `ShutdownInv`, `QueuedIsServed`, `AtMostOneAfterStop`: the condition variable is used
  so that no submission is slept on, and the stop lets at most one request slip
  through, if it falls between the worker's look at the flag and its pop.
* `PlanCoversText`, `WithinCapacity`, `NoMergeableTiny`, and in `SessionInv`
  `TinyTailAbsorbed` and `CompleteWhenDone`: the chunks are the text, each small
  enough to be inferred, and none smaller than need be.
* `SpokenInOrder` of the session, `LongFormGapless`, `GenerationEnds`: what a
  caller hears, with failures and without, and that asking again ends.
* `ExchangeSpec`, `NothingParsedWaits`: the answers do not depend on how the input
  is cut or pipelined, and a request that was read ahead is not forgotten.
* `BufferBounded`, `EveryConnectionEnds`: the parser's limits bound what is kept,
  and a client cannot hold a connection by sending nothing or too little.
* `StdioInv`, `SpokenInOrder` of the standard-input mode, `EverythingEnds`: one user
  of the model, no callback after a refusal, nothing in flight after the join,
  audio and file in the order of the texts.
* `PlaybackInv`, `AllPlayedWhenStopped`, `StopReturns`: every piece is in exactly
  one place, `queue_` is never used on a disposed device, drained means heard.

### Fairness

* The caller of a session calls `next` until it is done, as the loop of
  docs/c-api.md and `kokopop_synthesize_text` do; here it also goes on after an
  error.  `SF(Generate)`: exceptions, which mean a want of memory, may come any
  number of times but not at every call for ever.
* The worker (`WF(Worker)`): one thread that runs whenever it is not blocked on
  an empty queue.  In `SchedulerShutdown` its lock is strongly fair, because
  other threads release the mutex again and again.
* The event loop: a visit that has begun is finished (`WF(FinishVisit)`), and
  `poll()` reports every ready connection in every iteration, so each
  connection's `ReadEof`, `Write` and `DrainBegin` are strongly fair: between two
  visits of one connection the loop visits others, which disables them in
  between.  In `HttpConnection`, where a visit is one step, weak fairness of
  `ReadEof`, `Write`, `Sweep` and `Drain` says the same.
* A client that stays goes on reading (part of the fairness of `Write`).  The
  code has no timeout for one that does not.  It need not go on sending.
* The idle thread and the clock run, and so does the scheduler's thread where it
  must: it finishes falling asleep, and exits when it is awake and stopped.  It need
  not wake up by itself.  Requests, disconnects and failures are
  never fair.
* A stream's thread and its worker run, and an inference returns.  The main
  thread of the standard-input mode goes on except where it waits for a line.
* The playback program and the audio device go on whenever they can.  The query
  of `IsRunning` need not fail, so `stop()` does not owe its return to an error.

## 4. What the code does that it says it does not

Shown by a run:

1. `ServerLost`.  A connection closed by a write error (async_server.cpp:519-524)
   or by an encoder failure (392-399, 404-406) does not cancel its request; only
   the read side does (472).  The worker infers until the output queue is full
   and from then on takes the request out of `_pending` and puts it back for ever.
2. `ServerFail`.  A synthesis that fails in the middle of a PCM or Ogg stream ends
   with the terminal chunk (401-411), and the client takes a part for the whole,
   although the comments promise a truncated stream.
3. `ShutdownJoin`.  `stop()` neither holds `_queue_mutex` while it clears `_running`
   nor takes it before it notifies, so a worker that has just tested its
   predicate misses both, and `join()` waits for ever.  The unload makes that join with
   `_lifecycle_mutex` held (tools/kokopop_stream.cpp:239-240), so a `/tts` that comes then
   waits for ever on the event loop's thread, although the comment at
   async_server.cpp:258-260 says that it will trigger a reload.

Noticed while modelling, without a run:

4. `/health` and `/voices` look at `ls->model` without a lock
   (tools/kokopop_stream.cpp:258); `unload_fn` frees the model first and resets the
   pointer afterwards (244-246).
5. `_close_connection` counts a stream down before it stamps the activity
   (async_server.cpp:917-920); the idle thread can unload right at the end of a
   long stream.
6. `{"stop": true}` is documented as the end of the program (stdio_stream.h:60,
   README.md:417), but `run()` goes on reading, and text of the same line is
   appended to the buffer twice (stdio_stream.cpp:186-198).
7. The comment at streaming.cpp:243 reads as if `stop()` alone were enough before
   the model is destroyed; the inference in flight is only waited for by `join()`.
8. The sweep is meant for connections that do nothing (async_server.cpp:347), but a
   kept connection is not stamped after its response (927-937), so it may be swept
   right after one that took longer than the timeout.
9. `_max_header_size` is only tested while the end of the head is missing: a head
   that is longer but arrives with its end is accepted.  `AnswersTo` allows both.
10. A request that `stop()` catches between the worker's tests is still begun, and
    `join()` then waits for its turn (synthesis_scheduler.cpp:93-97); what is left in the
    queue never ends.
11. A long-form `kokopop_synthesis_next` for several chunks that throws after it has
    counted some, or whose copy cannot be allocated, loses them, and the next call
    goes on behind the gap (synthesis_session.cpp:195, kokopop.cpp:380-398).  docs/c-api.md
    does not say what a retry after an error gives.

## 5. Proofs

`tlapm` checks the `_proofs` modules.  Every theorem holds for all values of the
constants that satisfy the assumptions named in the component's module
(`SchedulerAssumption`, `ShutdownAssumption`, `LifecycleAssumption` and `FastEnough`,
`PipelineAssumption`, `PlaybackAssumption`, `ServerAssumption`, `ParserAssumption`,
`ConnectionAssumption`, `SessionAssumption`).

**Scheduler.**  `SchedulerInv` is inductive (`InvariantHolds`).  The properties alone
are not: `QueueBound` needs that the room found by `CheckRoom` is still there at
the push (`RoomIsKept`), which needs that nobody else pushes, that is, that the
worker's request is in no other place (`OnePlace`) and that a push happens only in
the phase that found the room (`TurnMatchesState`).  `DoneAfterLastPush` needs that
the session is ahead of the queue by exactly the chunk in hand (`SessionAgrees`).
From the invariant follow `TypeCorrect`, `OnePlaceHolds`, `BackPressure`, `Fifo`,
`DoneIsLast` and `NoEmptyChunk`; `TerminalHolds` and `RoundRobinHolds` are action
properties, proved from the invariant before the step.

**Server.**  Every step of the event loop is one of the scheduler's interface or
leaves its variables alone, because the model is written that way
(`SchedulerStep`); so what is proved above can be used.  `StreamsCountedHolds` and
`NeverCancelled` need an invariant of their own (`LoopInv`): a request that was
submitted has left `READING` except between `Dispatch` and the start of its
response (`ConnectionsAgree`), a visit that has begun is to a connection in the
state it was begun in (`VisitAgrees`), and the worker moves no request out of `NEW`,
as it only holds what was submitted (`OnlySubmitted`).  Without the second of
these, the encoder failure could count a connection down that was never counted.
`OneResponseHolds` adds what was written (`ResponseInv`): nothing while the request
is read, nothing as long as a WAV file accumulates, and for the other formats a
head and then audio (`Streamed`), to which every end may be appended; a response
that is cut off is a prefix of such a one (`ShapePrefix`).

The second half of `TtsServer_proofs` counts the audio.  `Feed` is what the scheduler promises about
each output queue: it follows from the scheduler's invariant (`SchedulerFeeds`),
which every step of the server preserves.  On top of it `DeliveryInv` says,
per request, that every chunk popped is in the response or kept back, in order
(`Accounted`), that a response which ended normally is whole if the synthesis
succeeded (`EndedWell`), that a response is no longer streamed only when it is
complete (`Completed`), and what the encoder may keep back when (`Backlog`).
`InOrderDeliveryHolds`, `CompleteWhenDoneHolds`, `BoundedBacklogHolds` and
`ServerInvHolds` follow, and with them `ServiceHolds`: the server implements
`TtsService`, each step being one of its steps or a stutter.  `ToldInv` says what the
refinement mapping needs: what was sent, the state of the connection and that of
the request agree.

**Connections.**  `StepIsSound`: a step of the parser that goes on consumes a token,
one that needs more changes nothing, and one that ends a request leaves a fresh
parser.  Hence `next()` ends, in one of the last two ways (`ParseSound`).
`ConnectionInv` (`ConnectionInvHolds`) says of each connection which of them it was
(`Steady`): one that reads has a parser that would ask for more again, one that
answers has a fresh one.  `NothingParsedWaitsHolds` is the first half; it would not
be inductive without the second, on which a connection that goes on after its
answer depends.  In `BufferBoundedHolds` the limits the parser has tested (`Fits`)
bound what a parser that asks for more can hold.  The recursive functions `Run` and
`Total` and the library's `FlattenSeq` are handled by induction over a set of
numbers (`Least`, `Inductive`), from the fact that `<` is well-founded, and
`Recursion` shows that such functions exist.

**Session.**  First the chunker, for every list of units and all well-formed budgets.
`Assembled` is the invariant of `chunk_text`'s loop: the chunks flushed are a `Plan` of
the first units, what is under construction is `Sound` (of one style, within the
capacity or a single unit), and a tiny chunk that was flushed has a `Barrier` behind
it, a unit it could not have taken in.  From the barriers the pass of
`rebalance_tiny_chunks` (`Rebalancing`) never joins forwards (`NothingJoinsNext`) and
leaves no two chunks that should be one (`ChunkTextSound`); joining backwards cannot
undo this, since what a chunk joined only grew.  `BuildSound` says the same of
`build_adaptative_chunk`, and that a tail left over could not have been absorbed.
The session's properties are not inductive: they say what was delivered, and a step
depends on where the session is.  `IndInv` (`SessionInductive`) adds that every chunk
heard is one of the plan or lies behind the position, and is final just when it ends
the text (`Voiced`); that in adaptative mode the chunks of a batch adjoin and reach the
position (`BatchFits`); what holds as long as nothing failed (`Faultless`), from which
`Exhausted` cannot be reached without a failure; and that a long-form session whose
inference failed has released the tokens of the very chunk it would try next
(`Stuck`), whatever was thrown before or afterwards.  `SessionCorrect`, `PlanCorrect`, `NoTinyLeft`, `CapacityKept`, `OrderKept` and
`GaplessKept` follow.  TLC also finds `IndInv` to hold on the instance of `Session`.

**Shutdown.**  `ShutdownInv` is inductive (`InvariantHolds`).  `SubmitNeverLost`: a
worker that blocks has tested the predicate in the same critical section, so a
request queued while it sleeps was queued by a `submit()` that has yet to notify.
`AtMostOneHolds`: a worker that pops late had passed `CheckRunning` when the flag was
stored (`StopAgrees`), and it passes that test no second time.  `AboutToTake` shows
that the deque is never popped empty although the predicate lets an empty queue
through after a stop.

**Lifecycle.**  `LifecycleInv` adds to the two safety properties who holds the
mutex where (`MutexHeld`), when the four flags may differ (`FlagsAgree`), how the
count lags (`StreamsAgree`), and the argument by time (`AgesAgree`): a dispatch is
younger than its limit, and a stream the idle thread missed when it loaded the
count is younger than both limits together, hence too young for the second test
of the elapsed time.  `RequestsKeepModel` and `OneModel` follow.  `ModelOutlivesWorker`
ties the scheduler's thread to the steps of an unload, and gives `WorkerEndsFirst`.

**Streaming.**  `PipelineCorrect`: `StreamInv` is inductive under every caller that
keeps to the header.  The heart is `FutureFits`, which says in each step whether a
future is valid and for which chunk it was launched; that no inference outlives
its stream (`NothingLeft`) follows from it, and with the contract that streams do
not overlap (`OneRuns`) that the model has one user (`OneUser`).  `StdioCorrect`
proves that the standard-input program is such a caller: the only stream that may
run is the one in its handle (`CallerInv`).  `SpokenInOrderHolds` adds that the
chunks heard are behind the position of their stream (`HeardFits`).

**Playback.**  `PlaybackInv` is inductive (`PlaybackHolds`).  `PiecesAccounted` has
every piece in exactly one of four places, in order, unless a failing call made
`stop()` dispose of a device that still played (`cut`); `HandleAgrees` ties the flags
and the device to the step of `stop()`, and is what keeps a callback that is under
way from a disposed queue.  `AllPlayed` follows: when `stopped_` is set, three of
the four places are empty, or hold what the device refused.

Only model-checked: all liveness (`CancelledEnds`, `SubmittedEnds`,
`QueuedIsServed`, `EveryRequestAnswered`, `IdleIsUnloaded`, `LifecycleIsReleased`,
`GenerationEnds`, `EveryConnectionEnds`, `EverythingEnds`, `StopReturns`), which is
beyond the prover; and `ExchangeSpec`, that is, that what the parser makes of a
client's tokens is what the client meant by them.

## 6. Not modelled, and the plan

Done: the scheduler, its shutdown, the streaming server with its abstract
service, the idle unload, the synthesis session with its chunker, the HTTP
connections with their parser and abstract exchange, the streaming pipeline under
its two callers, and the playback; with the proofs above.

What a next step would be, in this order: a proof that `HttpConnection` implements
`HttpExchange`; the splitting of oversized units and the scaling of the budgets in
the chunker; the Python binding's release of the GIL around `next()`
(src/python/src/kokopop_native.cpp:565).

Not modelled, and why:

* The larger part of the repository's lines is data and numerics:
  `pinyin_dict.h` alone is 97 000 of 128 000 lines, and architectures, backends,
  DSP, model loading (I/O), G2P and text normalisation (string rewriting against
  tables), the response writer and the containers (stateless formatting),
  converters and build files make most of the rest.  They have no control that
  the properties could be about, so the share of mapped lines stays small.
* The legacy `HttpServer`: only its test constructs one.
* `IncrementalStreamer`: nothing in the repository calls it.
* Bindings: the C API beyond the session's calls, the Python module and the web
  worker, which wrap calls without state of their own beyond a handle.
* Playback other than CoreAudio: the others have no state but a flag.
* Process exit after `AsyncHttpServer::stop()`: no caller in the repository stops
  the server; `run_http_mode` only frees the model when the loop has ended by
  itself.
* A reload blocks the event loop, and the sweep of the next iteration counts that
  time as idle; `HttpConnection` lets time pass between any two steps, so such a
  sweep is among its behaviours, but no property forbids it.
