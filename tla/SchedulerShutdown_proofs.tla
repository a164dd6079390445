-------------------- MODULE SchedulerShutdown_proofs --------------------
(* Proofs about SchedulerShutdown, for any number of concurrent submits.   *)
EXTENDS SchedulerShutdown, TLAPS

LEMMA InitInv == Init => ShutdownInv
<1> SUFFICES ASSUME Init PROVE ShutdownInv
  OBVIOUS
<1>1. TypeOK
  <2>1. turns \in 0..MaxTurns
    BY ShutdownAssumption DEF Init
  <2> QED BY <2>1 DEF Init, TypeOK, WorkerSteps
<1>2. MutexOwner
  BY DEF Init, MutexOwner
<1>3. AboutToSleep /\ AboutToTake /\ NoLostSubmit
  BY DEF Init, AboutToSleep, AboutToTake, NoLostSubmit
<1>4. JoinedIsOver /\ StopAgrees
  BY DEF Init, JoinedIsOver, StopAgrees
<1> QED BY <1>1, <1>2, <1>3, <1>4 DEF ShutdownInv

\* The worker pops late only where stop() caught it, and then never again: on
\* its way back it looks at the flag.
LEMMA WorkerInv ==
  ASSUME ShutdownInv, Worker \/ SpuriousWakeup
  PROVE  ShutdownInv'
<1> USE DEF Worker, LoopTest, Lock, TestPredicate, Block, CheckRunning, Take, ServeLast,
            ServeAndRequeue, SpuriousWakeup, history
<1>1. TypeOK'
  <2>1. running' \in BOOLEAN /\ submit' \in [Submitters -> {"new", "notify", "returned"}]
    BY DEF ShutdownInv, TypeOK
  <2>2. queued' \in Nat
    BY DEF ShutdownInv, TypeOK
  <2>3. mutex' \in BOOLEAN
    BY DEF ShutdownInv, TypeOK
  <2>4. wpc' \in WorkerSteps
    BY DEF ShutdownInv, TypeOK, WorkerSteps
  <2>5. stopper' \in {"new", "notify", "join", "joined"}
    BY DEF ShutdownInv, TypeOK
  <2>6. turns' \in 0..MaxTurns
    BY ShutdownAssumption DEF ShutdownInv, TypeOK
  <2>7. late' \in Nat /\ caught' \in WorkerSteps \cup {"none"}
    BY DEF ShutdownInv, TypeOK
  <2> QED BY <2>1, <2>2, <2>3, <2>4, <2>5, <2>6, <2>7 DEF TypeOK
<1>2. MutexOwner'
  BY DEF ShutdownInv, TypeOK, MutexOwner
<1>3. AboutToSleep'
  BY DEF ShutdownInv, TypeOK, AboutToSleep
<1>4. AboutToTake'
  BY DEF ShutdownInv, TypeOK, AboutToTake
<1>5. NoLostSubmit'
  BY DEF ShutdownInv, AboutToSleep, NoLostSubmit
<1>6. JoinedIsOver'
  BY DEF ShutdownInv, JoinedIsOver
<1>7. StopAgrees'
  BY DEF ShutdownInv, TypeOK, StopAgrees
<1> QED BY <1>1, <1>2, <1>3, <1>4, <1>5, <1>6, <1>7 DEF ShutdownInv

\* The submit that fills the queue of a sleeping worker still has to notify,
\* and a notification leaves no sleeping worker.
LEMMA SubmitterInv ==
  ASSUME ShutdownInv, NEW s \in Submitters, Submitter(s)
  PROVE  ShutdownInv'
<1>1. CASE SubmitPush(s)
  <2> USE <1>1 DEF SubmitPush, history
  <2>1. submit'[s] = "notify"
    BY DEF ShutdownInv, TypeOK
  <2>2. TypeOK'
    BY DEF ShutdownInv, TypeOK
  <2>3. MutexOwner'
    BY DEF ShutdownInv, MutexOwner
  <2>4. AboutToSleep' /\ AboutToTake'
    BY DEF ShutdownInv, MutexOwner, AboutToSleep, AboutToTake
  <2>5. NoLostSubmit'
    BY <2>1 DEF NoLostSubmit
  <2>6. JoinedIsOver' /\ StopAgrees'
    BY DEF ShutdownInv, JoinedIsOver, StopAgrees
  <2> QED BY <2>2, <2>3, <2>4, <2>5, <2>6 DEF ShutdownInv
<1>2. CASE SubmitNotify(s)
  <2> USE <1>2 DEF SubmitNotify, Notify, history
  <2>1. TypeOK'
    BY DEF ShutdownInv, TypeOK, WorkerSteps
  <2>2. MutexOwner'
    BY DEF ShutdownInv, MutexOwner
  <2>3. AboutToSleep' /\ AboutToTake' /\ NoLostSubmit'
    BY DEF ShutdownInv, AboutToSleep, AboutToTake, NoLostSubmit
  <2>4. JoinedIsOver' /\ StopAgrees'
    BY DEF ShutdownInv, JoinedIsOver, StopAgrees
  <2> QED BY <2>1, <2>2, <2>3, <2>4 DEF ShutdownInv
<1> QED BY <1>1, <1>2 DEF Submitter

LEMMA StopperInv ==
  ASSUME ShutdownInv, StopStore \/ Stopper
  PROVE  ShutdownInv'
<1> USE DEF StopStore, Stopper, StopNotify, Notify, Join, history
<1>1. TypeOK'
  BY DEF ShutdownInv, TypeOK, WorkerSteps
<1>2. MutexOwner'
  BY DEF ShutdownInv, MutexOwner
<1>3. AboutToSleep' /\ AboutToTake' /\ NoLostSubmit'
  BY DEF ShutdownInv, AboutToSleep, AboutToTake, NoLostSubmit
<1>4. JoinedIsOver'
  BY DEF ShutdownInv, JoinedIsOver
<1>5. StopAgrees'
  BY DEF ShutdownInv, TypeOK, StopAgrees
<1> QED BY <1>1, <1>2, <1>3, <1>4, <1>5 DEF ShutdownInv

LEMMA StepInv == ShutdownInv /\ [Next]_vars => ShutdownInv'
<1>1. ShutdownInv /\ UNCHANGED vars => ShutdownInv'
  BY DEF vars, history, ShutdownInv, TypeOK, MutexOwner, AboutToSleep, AboutToTake, NoLostSubmit,
         JoinedIsOver, StopAgrees
<1> QED BY <1>1, WorkerInv, SubmitterInv, StopperInv DEF Next

\* Whoever holds the mutex, sleeps, is about to, or was caught by a stop: they
\* agree with the queue and the flag.
THEOREM InvariantHolds == SafetySpec => []ShutdownInv
BY InitInv, StepInv, PTL DEF SafetySpec

\* No submitted request is ever left to a worker that sleeps and that nobody
\* is going to wake.
THEOREM SubmitNeverLost == SafetySpec => []NoLostSubmit
BY InvariantHolds, PTL DEF ShutdownInv

-----------------------------------------------------------------------------
(* After the stop. *)

\* A late pop is the first one, by a worker that was caught before it; and the
\* moment of the stop is recorded once.
LEMMA LateStep ==
  ASSUME ShutdownInv, AtMostOneAfterStop, [Next]_vars
  PROVE  AtMostOneAfterStop'
<1> USE DEF AtMostOneAfterStop, history
<1>1. late \in Nat /\ (running => late = 0)
  BY DEF ShutdownInv, TypeOK, StopAgrees
<1>2. CASE Take
  <2>1. ~running => caught = "take" /\ late = 0
    BY <1>2 DEF Take, ShutdownInv, StopAgrees
  <2> QED BY <1>1, <1>2, <2>1 DEF Take
<1>3. CASE StopStore
  <2>1. late = 0
    BY <1>1, <1>3 DEF StopStore, ShutdownInv, StopAgrees
  <2> QED BY <1>3, <2>1 DEF StopStore
<1>4. CASE ~Take /\ ~StopStore
  <2>1. late' = late /\ caught' = caught
    BY <1>4 DEF Next, vars, Worker, LoopTest, Lock, TestPredicate, Block, CheckRunning, ServeLast,
                ServeAndRequeue, SpuriousWakeup, Submitter, SubmitPush, SubmitNotify, Stopper,
                StopNotify, Join
  <2> QED BY <2>1
<1> QED BY <1>2, <1>3, <1>4

\* After stop() has stored the flag at most one request is popped, and only by
\* the worker it caught between the test of line 93 and the pop of line 97.
THEOREM AtMostOneHolds == SafetySpec => []AtMostOneAfterStop
<1>1. Init => AtMostOneAfterStop
  BY DEF Init, AtMostOneAfterStop
<1> QED BY <1>1, LateStep, InvariantHolds, PTL DEF SafetySpec
=============================================================================
