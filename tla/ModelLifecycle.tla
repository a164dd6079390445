-------------------------- MODULE ModelLifecycle --------------------------
(***************************************************************************)
(* Idle unload and reload of the model: the idle thread of AsyncHttpServer *)
(* (_idle_loop in src/src/http/async_server.cpp) against its event loop,   *)
(* with the callbacks that run_http_mode (src/tools/kokopop_stream.cpp)    *)
(* installs.  The two threads share _lifecycle_mutex, the atomics          *)
(* _model_loaded, _active_streams and _last_activity_ms, and -- without    *)
(* any lock -- the pointers to the model and to the scheduler.             *)
(*                                                                         *)
(* The event loop lets go of the mutex long before it uses the scheduler   *)
(* and counts its stream, so what protects it is only the time: the idle   *)
(* thread acts IdleLimit ticks after the last activity.  How fast each     *)
(* thread must be for that to suffice is an assumption with a name.        *)
(* Durations are kept as ages that stop at IdleLimit, never as a clock.    *)
(*                                                                         *)
(* An unload joins the scheduler's worker with the mutex held.  Of that    *)
(* thread only what the join needs is kept: whether it sleeps, is awake,   *)
(* or has just decided to sleep (the module SchedulerShutdown has it all). *)
(***************************************************************************)
EXTENDS Naturals

CONSTANTS
    IdleLimit,      \* _idle_unload_seconds * 1000
    DispatchLimit,  \* most ticks from the stamp of a request to its count
    RecheckLimit,   \* most ticks between the idle thread's last two loads
    MaxStreams      \* MAX_CONNECTIONS

ASSUME LifecycleAssumption ==
    /\ IdleLimit \in Nat /\ DispatchLimit \in Nat /\ RecheckLimit \in Nat
    /\ MaxStreams \in Nat

\* Both threads together are faster than the idle limit.
ASSUME FastEnough == DispatchLimit + RecheckLimit < IdleLimit

VARIABLES
    loaded,      \* _model_loaded
    configured,  \* _scheduler (and _model) of the server is not null
    pointer,     \* ls->model is not null
    live,        \* the model and its scheduler exist
    worker,      \* the scheduler's thread
    stopping,    \* stop() was called: ~SynthesisScheduler::_running
    mutex,       \* who holds _lifecycle_mutex: "free", "loop" or "idle"
    active,      \* _active_streams
    streams,     \* how many requests are streaming
    age,         \* ticks since _last_activity_ms
    since,       \* ticks since the step the running timing assumption starts at
    lpc, ipc     \* the event loop and the idle thread

modelVars == <<loaded, configured, pointer, live>>
timeVars  == <<age, since>>
workerVars == <<worker, stopping>>
vars == <<modelVars, workerVars, mutex, active, streams, timeVars, lpc, ipc>>

LoopSteps == {"poll", "lock", "locked", "reload", "stamp", "check", "submit",
              "count", "closed", "health"}
IdleSteps == {"sleep", "loaded", "active", "elapsed", "lock", "reloaded",
              "reactive", "reelapsed", "clear", "unset", "stop", "join", "free",
              "forget"}

\* "deciding" is between the predicate of the wait and the sleep.
WorkerStates == {"asleep", "awake", "deciding", "exited"}

\* The loop has stamped a request that is not counted yet.
Dispatching == lpc \in {"check", "submit", "count"}

Init ==
    /\ loaded = TRUE /\ configured = TRUE /\ pointer = TRUE /\ live = TRUE
    /\ worker = "awake" /\ stopping = FALSE
    /\ mutex = "free"
    /\ active = 0 /\ streams = 0
    /\ age = 0
    /\ since = [dispatch |-> 0, recheck |-> 0]
    /\ lpc = "poll" /\ ipc = "sleep"

-----------------------------------------------------------------------------
(* The event loop: POST /tts, the end of a stream, and GET /health. *)

\* A notification only reaches a worker that sleeps.
Notify == worker' = IF worker = "asleep" THEN "awake" ELSE worker

Loop(from, to) == lpc = from /\ lpc' = to /\ UNCHANGED ipc

\* A valid /tts arrives and wants the lifecycle mutex ...
TtsArrives ==
    /\ Loop("poll", "lock")
    /\ streams < MaxStreams
    /\ UNCHANGED <<modelVars, workerVars, mutex, active, streams, timeVars>>

TakeLifecycle ==
    /\ Loop("lock", "locked")
    /\ mutex = "free"
    /\ mutex' = "loop"
    /\ UNCHANGED <<modelVars, workerVars, active, streams, timeVars>>

CheckLoaded ==
    /\ Loop("locked", IF loaded THEN "stamp" ELSE "reload")
    /\ UNCHANGED <<modelVars, workerVars, mutex, active, streams, timeVars>>

\* ... reload_fn builds a model and a scheduler ...
Reload ==
    /\ Loop("reload", "stamp")
    /\ loaded' = TRUE /\ configured' = TRUE /\ pointer' = TRUE /\ live' = TRUE
    /\ worker' = "awake" /\ stopping' = FALSE
    /\ UNCHANGED <<mutex, active, streams, timeVars>>

\* Slip: the early return leaves the mutex locked.
ReloadFailsLocked ==
    /\ Loop("reload", "poll")
    /\ UNCHANGED <<modelVars, workerVars, mutex, active, streams, timeVars>>

\* ... or fails: 503, and the mutex is released.
ReloadFails ==
    /\ Loop("reload", "poll")
    /\ mutex' = "free"
    /\ UNCHANGED <<modelVars, workerVars, active, streams, timeVars>>

\* The request is activity; the mutex is released.
Stamp ==
    /\ Loop("stamp", "check")
    /\ age' = 0
    /\ since' = [since EXCEPT !.dispatch = 0]
    /\ mutex' = "free"
    /\ UNCHANGED <<modelVars, workerVars, active, streams>>

\* The request is parsed; without a scheduler, or if it is invalid, it gets an
\* error response.
CheckScheduler ==
    /\ \/ Loop("check", "submit") /\ configured
       \/ Loop("check", "poll")
    /\ UNCHANGED <<modelVars, workerVars, mutex, active, streams, timeVars>>

\* _scheduler->submit(...), which notifies the worker.
SubmitRequest ==
    /\ Loop("submit", "count")
    /\ streams' = streams + 1
    /\ Notify
    /\ UNCHANGED <<modelVars, stopping, mutex, active, timeVars>>

\* _send_streaming_response
CountStream ==
    /\ Loop("count", "poll")
    /\ active' = active + 1
    /\ UNCHANGED <<modelVars, workerVars, mutex, streams, timeVars>>

\* _close_connection: first the stream is counted down ...
CloseStream ==
    /\ Loop("poll", "closed")
    /\ streams > 0
    /\ streams' = streams - 1
    /\ active' = IF active > 0 THEN active - 1 ELSE active
    /\ UNCHANGED <<modelVars, workerVars, mutex, age, since>>

\* ... then the activity is stamped.
StampClose ==
    /\ Loop("closed", "poll")
    /\ age' = 0
    /\ UNCHANGED <<modelVars, workerVars, mutex, active, streams, since>>

\* Slip: every request counts as activity.
HealthIsActivity ==
    /\ Loop("poll", IF pointer THEN "health" ELSE "poll")
    /\ age' = 0
    /\ UNCHANGED <<modelVars, workerVars, mutex, active, streams, since>>

\* GET /health and /voices: report "unloaded" if ls->model is null ...
HealthArrives ==
    /\ Loop("poll", IF pointer THEN "health" ELSE "poll")
    /\ UNCHANGED <<modelVars, workerVars, mutex, active, streams, timeVars>>

\* ... else ask the model.
HealthReads ==
    /\ Loop("health", "poll")
    /\ UNCHANGED <<modelVars, workerVars, mutex, active, streams, timeVars>>

LoopStep ==
    \/ TakeLifecycle
    \/ CheckLoaded
    \/ Reload
    \/ ReloadFails
    \/ Stamp
    \/ CheckScheduler
    \/ SubmitRequest
    \/ CountStream
    \/ StampClose
    \/ HealthReads

-----------------------------------------------------------------------------
(* The idle thread. *)

Idle(from, to) == ipc = from /\ ipc' = to /\ UNCHANGED lpc

\* The tests that let the round go on, first without and then with the mutex.
\* Each is one atomic load.
TestLoaded ==
    /\ \/ Idle("loaded", IF loaded THEN "active" ELSE "sleep") /\ UNCHANGED mutex
       \/ Idle("reloaded", IF loaded THEN "reactive" ELSE "sleep")
          /\ mutex' = IF loaded THEN mutex ELSE "free"
    /\ UNCHANGED <<modelVars, workerVars, active, streams, timeVars>>

TestActive ==
    /\ \/ /\ Idle("active", IF active = 0 THEN "elapsed" ELSE "sleep")
          /\ UNCHANGED <<mutex, since>>
       \/ /\ Idle("reactive", IF active = 0 THEN "reelapsed" ELSE "sleep")
          /\ mutex' = IF active = 0 THEN mutex ELSE "free"
          /\ since' = [since EXCEPT !.recheck = 0]
    /\ UNCHANGED <<modelVars, workerVars, active, streams, age>>

\* Slip: the time is not looked at again with the mutex held.
TestElapsedOnce ==
    /\ \/ Idle("elapsed", IF age >= IdleLimit THEN "lock" ELSE "sleep")
       \/ Idle("reelapsed", "clear")
    /\ UNCHANGED <<modelVars, workerVars, mutex, active, streams, timeVars>>

TestElapsed ==
    /\ \/ Idle("elapsed", IF age >= IdleLimit THEN "lock" ELSE "sleep") /\ UNCHANGED mutex
       \/ Idle("reelapsed", IF age >= IdleLimit THEN "clear" ELSE "sleep")
          /\ mutex' = IF age >= IdleLimit THEN mutex ELSE "free"
    /\ UNCHANGED <<modelVars, workerVars, active, streams, timeVars>>

\* wait_for() returns after 30 seconds.
WakeUp ==
    /\ Idle("sleep", "loaded")
    /\ UNCHANGED <<modelVars, workerVars, mutex, active, streams, timeVars>>

\* try_to_lock
TryLock ==
    /\ Idle("lock", IF mutex = "free" THEN "reloaded" ELSE "sleep")
    /\ mutex' = IF mutex = "free" THEN "idle" ELSE mutex
    /\ UNCHANGED <<modelVars, workerVars, active, streams, timeVars>>

\* The server forgets the model and the scheduler ...
ClearLoaded ==
    /\ Idle("clear", "unset")
    /\ loaded' = FALSE
    /\ UNCHANGED <<configured, pointer, live, workerVars, mutex, active, streams, timeVars>>

\* Slip: unload_fn is called after the mutex was released.
UnsetAndRelease ==
    /\ Idle("unset", "stop")
    /\ configured' = FALSE
    /\ mutex' = "free"
    /\ UNCHANGED <<loaded, pointer, live, workerVars, active, streams, timeVars>>

UnsetPointers ==
    /\ Idle("unset", "stop")
    /\ configured' = FALSE
    /\ UNCHANGED <<loaded, pointer, live, workerVars, mutex, active, streams, timeVars>>

\* ... and unload_fn stops the scheduler, storing the flag and notifying
\* without the queue's mutex, ...
StopScheduler ==
    /\ Idle("stop", "join")
    /\ stopping' = TRUE
    /\ Notify
    /\ UNCHANGED <<modelVars, mutex, active, streams, timeVars>>

\* Slip: stop() alone, which does not wait.
GoOnWithoutJoin ==
    /\ Idle("join", "free")
    /\ UNCHANGED <<modelVars, workerVars, mutex, active, streams, timeVars>>

\* ... waits until its thread has ended, if it ever does, ...
JoinWorker ==
    /\ Idle("join", "free")
    /\ worker = "exited"
    /\ UNCHANGED <<modelVars, workerVars, mutex, active, streams, timeVars>>

\* ... frees the scheduler and the model, ...
FreeModel ==
    /\ Idle("free", "forget")
    /\ live' = FALSE
    /\ UNCHANGED <<loaded, configured, pointer, workerVars, mutex, active, streams, timeVars>>

\* ... and after that resets ls->model; the mutex is released.
ForgetModel ==
    /\ Idle("forget", "sleep")
    /\ pointer' = FALSE
    /\ mutex' = "free"
    /\ UNCHANGED <<loaded, configured, live, workerVars, active, streams, timeVars>>

IdleStep ==
    \/ WakeUp
    \/ TestLoaded
    \/ TestActive
    \/ TestElapsed
    \/ TryLock
    \/ ClearLoaded
    \/ UnsetPointers
    \/ StopScheduler
    \/ JoinWorker
    \/ FreeModel
    \/ ForgetModel

-----------------------------------------------------------------------------
(* The scheduler's thread. *)

Worker(from, to) == worker = from /\ worker' = to /\ UNCHANGED stopping

\* The predicate found neither work nor the flag ...
WorkerDecides ==
    /\ Worker("awake", "deciding")
    /\ ~stopping
    /\ UNCHANGED <<modelVars, mutex, active, streams, timeVars, lpc, ipc>>

\* ... and so the worker sleeps, whatever has happened since.
WorkerSleeps ==
    /\ Worker("deciding", "asleep")
    /\ UNCHANGED <<modelVars, mutex, active, streams, timeVars, lpc, ipc>>

\* wait() may return without a notification.
WorkerWakes ==
    /\ Worker("asleep", "awake")
    /\ UNCHANGED <<modelVars, mutex, active, streams, timeVars, lpc, ipc>>

\* Awake, it looks at the flag after at most one more turn.
WorkerExits ==
    /\ Worker("awake", "exited")
    /\ stopping
    /\ UNCHANGED <<modelVars, mutex, active, streams, timeVars, lpc, ipc>>

WorkerStep == WorkerSleeps \/ WorkerExits

-----------------------------------------------------------------------------
Older(n) == IF n < IdleLimit THEN n + 1 ELSE n

\* Time passes, unless a thread would be slower than is assumed.
Tick ==
    /\ Dispatching => since.dispatch < DispatchLimit
    /\ ipc = "reelapsed" => since.recheck < RecheckLimit
    /\ age' = Older(age)
    /\ since' = [dispatch |-> Older(since.dispatch), recheck |-> Older(since.recheck)]
    /\ UNCHANGED <<modelVars, workerVars, mutex, active, streams, lpc, ipc>>

Next ==
    \/ LoopStep
    \/ TtsArrives
    \/ CloseStream
    \/ HealthArrives
    \/ IdleStep
    \/ WorkerStep
    \/ WorkerDecides
    \/ WorkerWakes
    \/ Tick

\* The threads run and time passes; requests need not come, streams need not
\* end, the worker need not wake by itself.
Fairness ==
    /\ WF_vars(LoopStep)
    /\ WF_vars(IdleStep)
    /\ WF_vars(WorkerStep)
    /\ WF_vars(Tick)

SafetySpec == Init /\ [][Next]_vars
Spec == SafetySpec /\ Fairness

-----------------------------------------------------------------------------
\* Every open stream is counted, except the one that is being dispatched.
TypeOK ==
    /\ loaded \in BOOLEAN /\ configured \in BOOLEAN
    /\ pointer \in BOOLEAN /\ live \in BOOLEAN
    /\ worker \in WorkerStates /\ stopping \in BOOLEAN
    /\ mutex \in {"free", "loop", "idle"}
    /\ active \in 0..MaxStreams /\ streams \in 0..MaxStreams
    /\ age \in 0..IdleLimit
    /\ since \in [dispatch : 0..IdleLimit, recheck : 0..IdleLimit]
    /\ lpc \in LoopSteps /\ ipc \in IdleSteps

\* The model is never freed, or about to be, under a request: not between the
\* stamp and the count, where nothing but the time protects it, and not while
\* it streams.
NoUnloadUnderRequest ==
    (streams > 0 \/ Dispatching) => (loaded /\ configured /\ live)

\* A reload never finds a model that still exists: nothing leaks and there are
\* never two models in memory.
NoSecondModel == lpc = "reload" => (~live /\ ~pointer)

\* Why this holds, part by part.  Who holds the mutex is where it should be.
Loading == {"locked", "reload", "stamp"}
Rechecking == {"reloaded", "reactive", "reelapsed"}
Unloading == {"clear", "unset", "stop", "join", "free", "forget"}

MutexHeld ==
    /\ mutex = "loop" <=> lpc \in Loading
    /\ mutex = "idle" <=> ipc \in Rechecking \cup Unloading

\* The four flags only differ while the idle thread unloads.
FlagsAgree ==
    /\ ipc \notin {"unset", "stop", "join", "free", "forget"} =>
          (configured = loaded /\ pointer = loaded /\ live = loaded)
    /\ ipc \in {"reactive", "reelapsed", "clear"} => loaded
    /\ ipc \in {"unset", "stop", "join", "free", "forget"} => ~loaded
    /\ ipc \in {"stop", "join", "free", "forget"} => ~configured
    /\ ipc = "forget" => ~live
    /\ lpc = "stamp" => loaded
    /\ lpc = "reload" => ~loaded

\* The model outlives the thread that infers with it, whatever that thread was
\* at when the unload began; and a scheduler that serves was not stopped.
ModelOutlivesWorker ==
    /\ worker # "exited" => live
    /\ ipc = "free" => worker = "exited"
    /\ worker = "exited" => stopping
    /\ stopping <=> (ipc \in {"join", "free", "forget"} \/ ~live)

\* The atomic counter agrees with the streams.
StreamsAgree ==
    /\ streams = IF lpc = "count" THEN active + 1 ELSE active
    /\ lpc \in {"lock", "locked", "reload", "stamp", "check", "submit"} => streams < MaxStreams

\* No request is being dispatched and no stream is open.
NobodyServed == streams = 0 /\ ~Dispatching

\* A dispatch is younger than its limit; a stream that the idle thread did
\* not see when it loaded the counter is younger than both limits together.
AgesAgree ==
    /\ Dispatching => (age <= since.dispatch /\ since.dispatch <= DispatchLimit)
    /\ ipc = "reelapsed" =>
          /\ since.recheck <= RecheckLimit
          /\ NobodyServed \/ age <= DispatchLimit + since.recheck

LifecycleInv ==
    /\ TypeOK
    /\ MutexHeld
    /\ FlagsAgree
    /\ ModelOutlivesWorker
    /\ StreamsAgree
    /\ AgesAgree
    /\ ~loaded \/ ipc \in Unloading => NobodyServed

\* The worker slept through the stop that is being joined.
JoinHangs == ipc = "join" /\ worker = "asleep"

\* A server that gets no /tts ends up without the model, however often its
\* health is asked for, unless the join of the unload hangs.
IdleIsUnloaded ==
    <>[](lpc \in {"poll", "health"} /\ streams = 0) => <>[](~live \/ JoinHangs)

\* Nothing but a join that hangs keeps a /tts request at the lifecycle mutex,
\* and with it all connections: every other way through an unload, a reload or
\* its failure releases it.
LifecycleIsReleased == lpc = "lock" ~> (lpc = "poll" \/ JoinHangs)
=============================================================================
