------------------------ MODULE SchedulerShutdown ------------------------
(***************************************************************************)
(* How the threads around SynthesisScheduler block and wake each other:    *)
(* _queue_mutex, _queue_cv, the atomic _running, and the calls submit(),   *)
(* stop() and join() (src/src/http/synthesis_scheduler.cpp).  What a turn  *)
(* of the worker computes is in the module SynthesisScheduler; here a turn *)
(* either finishes its request or puts it back.                            *)
(*                                                                         *)
(* condition_variable::wait(lock, pred) is `while (!pred()) wait(lock)`:   *)
(* the test runs with the mutex held, and going to sleep releases it.  A   *)
(* sleeping thread may wake up spuriously; nothing may depend on it.       *)
(***************************************************************************)
EXTENDS Naturals

CONSTANTS
    Submitters,  \* calls of submit() that may be made
    MaxTurns     \* bound: how often the worker puts a request back

ASSUME ShutdownAssumption == MaxTurns \in Nat

VARIABLES
    running,     \* _running
    mutex,       \* does the worker hold _queue_mutex?
    queued,      \* how many requests are in _pending
    wpc,         \* the worker thread
    submit,      \* where each submit() is: "new", "notify" or "returned"
    stopper,     \* the thread that calls stop() and then join()
    turns,       \* how often a request was put back
    late,        \* history: requests popped since stop() stored the flag
    caught       \* history: the step the worker was in at that moment

history == <<late, caught>>
vars == <<running, mutex, queued, wpc, submit, stopper, turns, history>>

WorkerSteps == {"loop", "lock", "test", "block", "asleep", "relock",
                "check", "take", "serve", "exit"}

Init ==
    /\ running = TRUE
    /\ mutex = FALSE
    /\ queued = 0
    /\ wpc = "loop"
    /\ submit = [s \in Submitters |-> "new"]
    /\ stopper = "new"
    /\ turns = 0
    /\ late = 0 /\ caught = "none"

-----------------------------------------------------------------------------
(* _worker_loop *)

\* while (_running.load())
LoopTest ==
    /\ wpc = "loop"
    /\ wpc' = IF running THEN "lock" ELSE "exit"
    /\ UNCHANGED <<running, mutex, queued, submit, stopper, turns, history>>

\* Take the mutex, the first time or when wait() returns from its sleep.
Lock ==
    /\ wpc \in {"lock", "relock"}
    /\ ~mutex
    /\ mutex' = TRUE
    /\ wpc' = "test"
    /\ UNCHANGED <<running, queued, submit, stopper, turns, history>>

\* The predicate of the wait.
TestPredicate ==
    /\ wpc = "test"
    /\ wpc' = IF ~running \/ queued > 0 THEN "check" ELSE "block"
    /\ UNCHANGED <<running, mutex, queued, submit, stopper, turns, history>>

\* Release the mutex and sleep, in one step.
Block ==
    /\ wpc = "block"
    /\ mutex' = FALSE
    /\ wpc' = "asleep"
    /\ UNCHANGED <<running, queued, submit, stopper, turns, history>>

SpuriousWakeup ==
    /\ wpc = "asleep"
    /\ wpc' = "relock"
    /\ UNCHANGED <<running, mutex, queued, submit, stopper, turns, history>>

\* Slip: the worker does not look at the flag again after the wait.
CheckQueueOnly ==
    /\ wpc = "check"
    /\ wpc' = IF queued > 0 THEN "take" ELSE "exit"
    /\ mutex' = (queued > 0)
    /\ UNCHANGED <<running, queued, submit, stopper, turns, history>>

\* After the wait, still with the mutex: leave if stopped.  (The test for an
\* empty queue that follows repeats the predicate of the wait: see AboutToTake.)
CheckRunning ==
    /\ wpc = "check"
    /\ wpc' = IF running THEN "take" ELSE "exit"
    /\ mutex' = running
    /\ UNCHANGED <<running, queued, submit, stopper, turns, history>>

\* Pop the front request.  stop() may have stored the flag in between.
Take ==
    /\ wpc = "take"
    /\ queued > 0
    /\ queued' = queued - 1
    /\ mutex' = FALSE
    /\ wpc' = "serve"
    /\ late' = IF running THEN late ELSE late + 1
    /\ UNCHANGED <<running, submit, stopper, turns, caught>>

\* The turn is over and the request is finished ...
ServeLast ==
    /\ wpc = "serve"
    /\ wpc' = "loop"
    /\ UNCHANGED <<running, mutex, queued, submit, stopper, turns, history>>

\* ... or goes back to the queue; only the worker waits on it, so this does
\* not notify.
ServeAndRequeue ==
    /\ wpc = "serve"
    /\ turns < MaxTurns
    /\ ~mutex
    /\ queued' = queued + 1
    /\ turns' = turns + 1
    /\ wpc' = "loop"
    /\ UNCHANGED <<running, mutex, submit, stopper, history>>

Worker ==
    \/ LoopTest
    \/ Lock
    \/ TestPredicate
    \/ Block
    \/ CheckRunning
    \/ Take
    \/ ServeLast
    \/ ServeAndRequeue

-----------------------------------------------------------------------------
(* The other threads. *)

\* notify_one and notify_all come to the same with one waiting thread.
Notify == wpc' = IF wpc = "asleep" THEN "relock" ELSE wpc

\* Slip: the queue is filled without the mutex.
SubmitPushUnlocked(s) ==
    /\ submit[s] = "new"
    /\ queued' = queued + 1
    /\ submit' = [submit EXCEPT ![s] = "notify"]
    /\ UNCHANGED <<running, mutex, wpc, stopper, turns, history>>

\* submit(): the request is queued with the mutex held ...
SubmitPush(s) ==
    /\ submit[s] = "new"
    /\ ~mutex
    /\ queued' = queued + 1
    /\ submit' = [submit EXCEPT ![s] = "notify"]
    /\ UNCHANGED <<running, mutex, wpc, stopper, turns, history>>

\* Slip: submit() returns without notifying.
SubmitSilently(s) ==
    /\ submit[s] = "notify"
    /\ submit' = [submit EXCEPT ![s] = "returned"]
    /\ UNCHANGED <<running, mutex, queued, wpc, stopper, turns, history>>

\* ... and the worker is notified after it is released.
SubmitNotify(s) ==
    /\ submit[s] = "notify"
    /\ Notify
    /\ submit' = [submit EXCEPT ![s] = "returned"]
    /\ UNCHANGED <<running, mutex, queued, stopper, turns, history>>

\* stop(): the flag is cleared without the mutex ...
StopStore ==
    /\ stopper = "new"
    /\ running' = FALSE
    /\ stopper' = "notify"
    /\ caught' = wpc
    /\ UNCHANGED <<mutex, queued, wpc, submit, turns, late>>

\* ... and the worker is notified.
StopNotify ==
    /\ stopper = "notify"
    /\ Notify
    /\ stopper' = "join"
    /\ UNCHANGED <<running, mutex, queued, submit, turns, history>>

\* join() returns when the thread has ended.
Join ==
    /\ stopper = "join"
    /\ wpc = "exit"
    /\ stopper' = "joined"
    /\ UNCHANGED <<running, mutex, queued, wpc, submit, turns, history>>

Submitter(s) == SubmitPush(s) \/ SubmitNotify(s)
Stopper == StopNotify \/ Join

Next ==
    \/ Worker
    \/ SpuriousWakeup
    \/ \E s \in Submitters : Submitter(s)
    \/ StopStore
    \/ Stopper

\* Threads that can run do run; nobody has to call submit() or stop(), and
\* no thread has to be woken without a reason.  The worker's lock is strongly
\* fair: other threads release the mutex again and again.
Fairness ==
    /\ WF_vars(Worker)
    /\ SF_vars(Lock)
    /\ WF_vars(Stopper)
    /\ \A s \in Submitters : WF_vars(SubmitNotify(s))

SafetySpec == Init /\ [][Next]_vars
Spec == SafetySpec /\ Fairness

-----------------------------------------------------------------------------
TypeOK ==
    /\ running \in BOOLEAN
    /\ mutex \in BOOLEAN
    /\ queued \in Nat
    /\ wpc \in WorkerSteps
    /\ submit \in [Submitters -> {"new", "notify", "returned"}]
    /\ stopper \in {"new", "notify", "join", "joined"}
    /\ turns \in 0..MaxTurns
    /\ late \in Nat
    /\ caught \in WorkerSteps \cup {"none"}

\* The worker never sleeps on work nobody will tell it about: if it is asleep
\* and a request is queued, the submit() that queued it has yet to notify.
NoLostSubmit ==
    (wpc = "asleep" /\ queued > 0) =>
        \E s \in Submitters : submit[s] = "notify"

\* The worker holds the mutex from the test of its predicate to the sleep or
\* the pop, so that nobody can add a request in between.
MutexOwner == mutex <=> wpc \in {"test", "block", "check", "take"}
AboutToSleep == wpc = "block" => queued = 0

\* The deque is never popped empty: with the mutex held the predicate's answer
\* keeps, and a worker it let through for the flag alone does not get past it.
AboutToTake ==
    /\ wpc = "take" => queued > 0
    /\ (wpc = "check" /\ queued = 0) => ~running

\* When join() has returned the thread is gone; the model may be freed.
JoinedIsOver == stopper = "joined" => wpc = "exit"

\* stop() does not take the mutex, so it cannot keep the worker from popping
\* once more.  But that is one request at most, and only for the worker it
\* caught between its last look at the flag and the pop.
AtMostOneAfterStop == late <= IF caught = "take" THEN 1 ELSE 0

\* Why: the flag stays cleared, and a worker that pops late was caught there
\* and has popped nothing since.
StopAgrees ==
    /\ running <=> stopper = "new"
    /\ running => late = 0
    /\ (~running /\ wpc = "take") => (caught = "take" /\ late = 0)

\* The inductive invariant.
ShutdownInv ==
    /\ TypeOK
    /\ MutexOwner
    /\ AboutToSleep
    /\ AboutToTake
    /\ NoLostSubmit
    /\ JoinedIsOver
    /\ StopAgrees

\* A queued request is taken, unless the scheduler is stopped.
QueuedIsServed == queued > 0 ~> (wpc = "serve" \/ ~running)

\* join() waits for the worker thread to exit, and it does exit.
JoinReturns == stopper = "join" ~> stopper = "joined"
=============================================================================
