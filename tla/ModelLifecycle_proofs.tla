---------------------- MODULE ModelLifecycle_proofs ----------------------
(* Proofs about ModelLifecycle: for any limits that the two threads keep,  *)
(* and any number of streams, no model is unloaded under a request.        *)
EXTENDS ModelLifecycle, TLAPS

LEMMA InitInv == Init => LifecycleInv
<1> SUFFICES ASSUME Init PROVE LifecycleInv
  OBVIOUS
<1> USE LifecycleAssumption DEF Init
<1>1. TypeOK
  <2>1. since \in [dispatch : 0..IdleLimit, recheck : 0..IdleLimit]
    OBVIOUS
  <2>2. active \in 0..MaxStreams /\ streams \in 0..MaxStreams /\ age \in 0..IdleLimit
    OBVIOUS
  <2>3. lpc \in LoopSteps /\ ipc \in IdleSteps /\ worker \in WorkerStates
    BY DEF LoopSteps, IdleSteps, WorkerStates
  <2> QED BY <2>1, <2>2, <2>3 DEF TypeOK
<1>2. MutexHeld /\ FlagsAgree /\ ModelOutlivesWorker
  BY DEF MutexHeld, FlagsAgree, ModelOutlivesWorker, Loading, Rechecking, Unloading
<1>3. StreamsAgree /\ AgesAgree
  BY DEF StreamsAgree, AgesAgree, Dispatching
<1> QED BY <1>1, <1>2, <1>3 DEF LifecycleInv, Unloading

-----------------------------------------------------------------------------
(* The event loop. *)

\* While the idle thread has the mutex the loop neither loads a model nor
\* stamps a request, and while it unloads the loop serves nobody.
LEMMA LoopInv ==
  ASSUME LifecycleInv,
         LoopStep \/ TtsArrives \/ CloseStream \/ HealthArrives
  PROVE  LifecycleInv'
<1> USE LifecycleAssumption
    DEF LifecycleInv, TypeOK, MutexHeld, FlagsAgree, ModelOutlivesWorker, StreamsAgree, AgesAgree,
        NobodyServed, Dispatching, LoopSteps, IdleSteps, Loading, Rechecking, Unloading,
        Loop, Notify, WorkerStates, modelVars, workerVars, timeVars
<1>1. CASE TtsArrives
  BY <1>1 DEF TtsArrives
<1>2. CASE TakeLifecycle
  BY <1>2 DEF TakeLifecycle
<1>3. CASE CheckLoaded
  BY <1>3 DEF CheckLoaded
<1>4. CASE Reload
  BY <1>4 DEF Reload
<1>5. CASE ReloadFails
  BY <1>5 DEF ReloadFails
<1>6. CASE Stamp
  <2>1. since' = [dispatch |-> 0, recheck |-> since.recheck]
    BY <1>6 DEF Stamp
  <2>2. since'.dispatch = 0 /\ since'.recheck = since.recheck
    BY <2>1
  <2>3. TypeOK'
    BY <1>6, <2>1 DEF Stamp
  <2>4. MutexHeld' /\ FlagsAgree' /\ ModelOutlivesWorker' /\ StreamsAgree'
    BY <1>6 DEF Stamp
  <2>5. AgesAgree'
    BY <1>6, <2>2 DEF Stamp
  <2>6. loaded' /\ ipc' \notin Unloading
    BY <1>6 DEF Stamp
  <2> QED BY <2>3, <2>4, <2>5, <2>6
<1>7. CASE CheckScheduler
  BY <1>7 DEF CheckScheduler
<1>8. CASE SubmitRequest
  BY <1>8 DEF SubmitRequest
<1>9. CASE CountStream
  BY <1>9 DEF CountStream
<1>10. CASE CloseStream
  BY <1>10 DEF CloseStream
<1>11. CASE StampClose
  BY <1>11 DEF StampClose
<1>12. CASE HealthArrives
  BY <1>12 DEF HealthArrives
<1>13. CASE HealthReads
  BY <1>13 DEF HealthReads
<1> QED
  BY <1>1, <1>2, <1>3, <1>4, <1>5, <1>6, <1>7, <1>8, <1>9, <1>10, <1>11, <1>12, <1>13
  DEF LoopStep

-----------------------------------------------------------------------------
(* The idle thread. *)

\* What the idle thread sees with the mutex held allows it to go on only when
\* nobody is served.
LEMMA IdleInv ==
  ASSUME LifecycleInv, IdleStep
  PROVE  LifecycleInv'
<1> USE LifecycleAssumption, FastEnough
    DEF LifecycleInv, TypeOK, MutexHeld, FlagsAgree, ModelOutlivesWorker, StreamsAgree, AgesAgree,
        NobodyServed, Dispatching, LoopSteps, IdleSteps, Loading, Rechecking, Unloading,
        Idle, Notify, WorkerStates, modelVars, workerVars, timeVars
<1>1. CASE WakeUp
  BY <1>1 DEF WakeUp
<1>2. CASE TestLoaded
  BY <1>2 DEF TestLoaded
<1>3. CASE TestActive
  BY <1>3 DEF TestActive
<1>4. CASE TestElapsed
  BY <1>4 DEF TestElapsed
<1>5. CASE TryLock
  BY <1>5 DEF TryLock
<1>6. CASE ClearLoaded
  BY <1>6 DEF ClearLoaded
<1>7. CASE UnsetPointers
  BY <1>7 DEF UnsetPointers
<1>8. CASE StopScheduler
  BY <1>8 DEF StopScheduler
<1>9. CASE JoinWorker
  BY <1>9 DEF JoinWorker
<1>10. CASE FreeModel
  BY <1>10 DEF FreeModel
<1>11. CASE ForgetModel
  BY <1>11 DEF ForgetModel
<1> QED
  BY <1>1, <1>2, <1>3, <1>4, <1>5, <1>6, <1>7, <1>8, <1>9, <1>10, <1>11 DEF IdleStep

-----------------------------------------------------------------------------
(* The scheduler's thread. *)

\* It only ends when it was told to, and that is before the model is freed.
LEMMA WorkerInv ==
  ASSUME LifecycleInv, WorkerStep \/ WorkerDecides \/ WorkerWakes
  PROVE  LifecycleInv'
<1> USE DEF WorkerStep, WorkerDecides, WorkerSleeps, WorkerWakes, WorkerExits, Worker,
            WorkerStates, modelVars, timeVars
<1>1. TypeOK'
  BY DEF LifecycleInv, TypeOK
<1>2. MutexHeld' /\ FlagsAgree' /\ StreamsAgree'
  BY DEF LifecycleInv, MutexHeld, FlagsAgree, StreamsAgree
<1>3. ModelOutlivesWorker'
  BY DEF LifecycleInv, TypeOK, ModelOutlivesWorker
<1>4. AgesAgree' /\ (~loaded' \/ ipc' \in Unloading => NobodyServed')
  BY DEF LifecycleInv, AgesAgree, NobodyServed, Dispatching
<1> QED BY <1>1, <1>2, <1>3, <1>4 DEF LifecycleInv

-----------------------------------------------------------------------------
(* Time. *)

\* Within its assumption a tick makes nobody too old.
LEMMA TickInv ==
  ASSUME LifecycleInv, Tick
  PROVE  LifecycleInv'
BY LifecycleAssumption, FastEnough
DEF LifecycleInv, TypeOK, MutexHeld, FlagsAgree, ModelOutlivesWorker, StreamsAgree, AgesAgree,
    NobodyServed, Dispatching, LoopSteps, IdleSteps, Loading, Rechecking, Unloading,
    Tick, Older, modelVars, workerVars

-----------------------------------------------------------------------------
(* The theorems. *)

\* Mutex, flags, counters and ages agree at every step of both threads.
THEOREM InvariantHolds == SafetySpec => []LifecycleInv
<1>1. LifecycleInv /\ UNCHANGED vars => LifecycleInv'
  BY DEF vars, LifecycleInv, TypeOK, MutexHeld, FlagsAgree, ModelOutlivesWorker, StreamsAgree,
         AgesAgree, NobodyServed, Dispatching, modelVars, workerVars, timeVars
<1>2. LifecycleInv /\ [Next]_vars => LifecycleInv'
  BY <1>1, LoopInv, IdleInv, WorkerInv, TickInv DEF Next
<1> QED BY <1>2, InitInv, PTL DEF SafetySpec

\* The model is freed only after the thread that infers with it has ended.
THEOREM WorkerEndsFirst == SafetySpec => []ModelOutlivesWorker
BY InvariantHolds, PTL DEF LifecycleInv

\* The counters stay in their ranges, the stream counter included.
THEOREM TypeCorrect == SafetySpec => []TypeOK
BY InvariantHolds, PTL DEF LifecycleInv

\* The idle thread never unloads the model under a request, whatever the idle
\* limit is, if the two threads together are faster than it.
THEOREM RequestsKeepModel == SafetySpec => []NoUnloadUnderRequest
<1>1. LifecycleInv => NoUnloadUnderRequest
  BY DEF LifecycleInv, FlagsAgree, NobodyServed, NoUnloadUnderRequest, TypeOK, Unloading
<1> QED BY <1>1, InvariantHolds, PTL

\* A model is only loaded when the one before it is gone.
THEOREM OneModel == SafetySpec => []NoSecondModel
<1>1. LifecycleInv => NoSecondModel
  BY DEF LifecycleInv, MutexHeld, FlagsAgree, NoSecondModel, Loading, Rechecking, Unloading,
         TypeOK
<1> QED BY <1>1, InvariantHolds, PTL
=============================================================================
