-------------------- MODULE SynthesisScheduler_proofs --------------------
(* Proofs about SynthesisScheduler, for any number of requests, any size   *)
(* of the output queue and texts of any length.                            *)
EXTENDS SynthesisScheduler, SequenceTheorems, TLAPS

-----------------------------------------------------------------------------
(* The queue of the scheduler. *)

\* During a turn the worker holds a request that is alive and not queued.
LEMMA HeldRequest ==
  ASSUME SchedulerInv, wpc # "idle"
  PROVE  /\ held \in Requests
         /\ held # None
         /\ state[held] \in Active
         /\ ~Queued(held)
BY SchedulerAssumption DEF SchedulerInv, TypeOK, OnePlace, TurnMatchesState

\* A request enters the queue at its end.
LEMMA QueuedAppend ==
  ASSUME pending \in Seq(Requests), NEW e \in Requests, pending' = Append(pending, e)
  PROVE  /\ pending' \in Seq(Requests)
         /\ \A r : Queued(r)' <=> (Queued(r) \/ r = e)
<1>1. /\ pending' \in Seq(Requests)
      /\ Len(pending') = Len(pending) + 1
      /\ \A i \in 1..Len(pending) : pending'[i] = pending[i]
      /\ pending'[Len(pending) + 1] = e
  BY AppendProperties
<1>2. /\ Len(pending) \in Nat
      /\ DOMAIN pending = 1..Len(pending)
      /\ DOMAIN pending' = 1..(Len(pending) + 1)
  BY <1>1, LenProperties
<1> QED BY <1>1, <1>2 DEF Queued

\* Appending a request that is not there leaves nobody in the queue twice.
LEMMA AppendOnce ==
  ASSUME pending \in Seq(Requests), NEW e \in Requests, pending' = Append(pending, e),
         ~Queued(e),
         \A i, j \in DOMAIN pending : pending[i] = pending[j] => i = j
  PROVE  \A i, j \in DOMAIN pending' : pending'[i] = pending'[j] => i = j
<1>1. /\ pending' \in Seq(Requests)
      /\ Len(pending') = Len(pending) + 1
      /\ \A i \in 1..Len(pending) : pending'[i] = pending[i]
      /\ pending'[Len(pending) + 1] = e
  BY AppendProperties
<1>2. /\ Len(pending) \in Nat
      /\ DOMAIN pending = 1..Len(pending)
      /\ DOMAIN pending' = 1..(Len(pending) + 1)
  BY <1>1, LenProperties
<1>3. \A i \in 1..Len(pending) : pending[i] # e
  BY <1>2 DEF Queued
<1> QED BY <1>1, <1>2, <1>3

\* Taking the front request out leaves the others as they are.
LEMMA QueuedTail ==
  ASSUME pending \in Seq(Requests), pending # <<>>, pending' = Tail(pending),
         \A i, j \in DOMAIN pending : pending[i] = pending[j] => i = j
  PROVE  /\ pending' \in Seq(Requests)
         /\ Head(pending) \in Requests
         /\ \A i, j \in DOMAIN pending' : pending'[i] = pending'[j] => i = j
         /\ \A r : Queued(r)' <=> (Queued(r) /\ r # Head(pending))
         /\ Queued(Head(pending))
<1>1. /\ pending' \in Seq(Requests)
      /\ Head(pending) \in Requests
      /\ Len(pending') = Len(pending) - 1
      /\ \A i \in 1..Len(pending') : pending'[i] = pending[i + 1]
  BY HeadTailProperties
<1>2. /\ Len(pending) \in Nat \ {0}
      /\ DOMAIN pending = 1..Len(pending)
      /\ DOMAIN pending' = 1..(Len(pending) - 1)
  BY <1>1, LenProperties, EmptySeq
<1>3. Head(pending) = pending[1]
  OBVIOUS
<1>4. \A i, j \in DOMAIN pending' : pending'[i] = pending'[j] => i = j
  BY <1>1, <1>2
<1>5. Queued(Head(pending))
  BY <1>2, <1>3 DEF Queued
<1>6. ASSUME NEW r, Queued(r)' PROVE Queued(r) /\ r # Head(pending)
  <2>1. PICK i \in 1..(Len(pending) - 1) : pending'[i] = r
    BY <1>2, <1>6 DEF Queued
  <2>2. i + 1 \in 1..Len(pending) /\ 1 \in 1..Len(pending) /\ i + 1 # 1
    BY <1>2
  <2>3. pending[i + 1] = r
    BY <1>1, <2>1, <2>2
  <2>4. r # pending[1]
    BY <1>2, <2>2, <2>3
  <2> QED BY <1>2, <1>3, <2>2, <2>3, <2>4 DEF Queued
<1>7. ASSUME NEW r, Queued(r), r # Head(pending) PROVE Queued(r)'
  <2>1. PICK i \in 1..Len(pending) : pending[i] = r
    BY <1>2, <1>7 DEF Queued
  <2>2. i - 1 \in 1..(Len(pending) - 1) /\ (i - 1) + 1 = i
    BY <1>2, <1>3, <1>7, <2>1
  <2>3. pending'[i - 1] = r
    BY <1>1, <2>1, <2>2
  <2> QED BY <1>2, <2>2, <2>3 DEF Queued
<1> QED BY <1>1, <1>4, <1>5, <1>6, <1>7

-----------------------------------------------------------------------------
(* Every step of the event loop keeps the invariant. *)

LEMMA InitInv == Init => SchedulerInv
<1> SUFFICES ASSUME Init PROVE SchedulerInv
  OBVIOUS
<1>1. TypeOK
  BY SchedulerAssumption, EmptySeq DEF Init, TypeOK, WorkerSteps, States
<1>2. \A r \in Requests : Len(output_queue[r]) = 0 /\ DOMAIN output_queue[r] = {}
  <2>1. Len(<<>>) = 0 /\ DOMAIN <<>> = {}
    OBVIOUS
  <2> QED BY <2>1 DEF Init
<1>3. DOMAIN pending = {}
  BY DEF Init
<1> QED
  BY <1>1, <1>2, <1>3, SchedulerAssumption
  DEF Init, SchedulerInv, OnePlace, Queued, Active, Terminal, TurnMatchesState, Inferring, RoomIsKept,
      QueueBound, ChunksInOrder, SessionAgrees, DoneAfterLastPush

LEMMA SubmitInv ==
  ASSUME SchedulerInv, NEW r \in Requests, Submit(r)
  PROVE  SchedulerInv'
<1> USE DEF SchedulerInv, Submit
<1>1. /\ pending' \in Seq(Requests)
      /\ \A q : Queued(q)' <=> (Queued(q) \/ q = r)
  BY QueuedAppend DEF TypeOK
<1>2. ~Queued(r) /\ held # r
  BY DEF OnePlace, Active
<1>3. \A i, j \in DOMAIN pending' : pending'[i] = pending'[j] => i = j
  BY <1>2, AppendOnce DEF TypeOK, OnePlace
<1>4. TypeOK'
  BY <1>1 DEF TypeOK, States, Active
<1>5. OnePlace'
  BY <1>1, <1>2, <1>3 DEF OnePlace, TypeOK, Active
<1>6. TurnMatchesState'
  BY <1>2 DEF TurnMatchesState, TypeOK
<1>7. RoomIsKept' /\ QueueBound' /\ ChunksInOrder'
  BY DEF RoomIsKept, QueueBound, ChunksInOrder
<1>8. SessionAgrees'
  BY DEF SessionAgrees, TypeOK, Terminal
<1>9. DoneAfterLastPush'
  BY DEF DoneAfterLastPush, TypeOK
<1> QED BY <1>4, <1>5, <1>6, <1>7, <1>8, <1>9

LEMMA TryPopInv ==
  ASSUME SchedulerInv, NEW r \in Requests, TryPop(r)
  PROVE  SchedulerInv'
<1> USE DEF SchedulerInv, TryPop
<1>1. /\ Tail(output_queue[r]) \in Seq(Nat)
      /\ Len(Tail(output_queue[r])) = Len(output_queue[r]) - 1
      /\ \A i \in 1..Len(Tail(output_queue[r])) :
             Tail(output_queue[r])[i] = output_queue[r][i + 1]
      /\ Len(output_queue[r]) \in Nat \ {0}
      /\ DOMAIN output_queue[r] = 1..Len(output_queue[r])
      /\ DOMAIN Tail(output_queue[r]) = 1..Len(Tail(output_queue[r]))
  BY HeadTailProperties, LenProperties, EmptySeq DEF TypeOK
<1>2. TypeOK'
  <2>1. output_queue' \in [Requests -> Seq(Nat)] /\ popped' \in [Requests -> Nat]
    BY <1>1 DEF TypeOK
  <2> QED BY <2>1 DEF TypeOK
<1>3. OnePlace'
  BY DEF OnePlace, Queued
<1>4. TurnMatchesState'
  BY DEF TurnMatchesState
<1>5. RoomIsKept'
  BY <1>1, SchedulerAssumption DEF RoomIsKept, TypeOK
<1>6. QueueBound'
  BY <1>1, SchedulerAssumption DEF QueueBound, TypeOK
<1>7. ChunksInOrder'
  <2> SUFFICES ASSUME NEW q \in Requests
               PROVE  /\ popped'[q] + Len(output_queue'[q]) = pushed'[q]
                      /\ \A i \in DOMAIN output_queue'[q] :
                             output_queue'[q][i] = popped'[q] + i
    BY DEF ChunksInOrder
  <2>1. CASE q # r
    BY <2>1 DEF ChunksInOrder, TypeOK
  <2>2. CASE q = r
    <3>1. output_queue'[r] = Tail(output_queue[r]) /\ popped'[r] = popped[r] + 1
      BY DEF TypeOK
    <3>2. popped[r] + Len(output_queue[r]) = pushed[r]
      BY DEF ChunksInOrder
    <3>3. \A i \in 1..(Len(output_queue[r]) - 1) : output_queue[r][i + 1] = popped[r] + (i + 1)
      BY <1>1 DEF ChunksInOrder
    <3>4. popped'[q] + Len(output_queue'[q]) = pushed'[q]
      <4>1. popped[r] \in Nat /\ pushed' = pushed
        BY DEF TypeOK
      <4>2. (popped[r] + 1) + (Len(output_queue[r]) - 1) = popped[r] + Len(output_queue[r])
        BY <1>1, <4>1
      <4> QED BY <1>1, <2>2, <3>1, <3>2, <4>1, <4>2
    <3>5. \A i \in DOMAIN output_queue'[q] : output_queue'[q][i] = popped'[q] + i
      <4> SUFFICES ASSUME NEW i \in 1..(Len(output_queue[r]) - 1)
                   PROVE  Tail(output_queue[r])[i] = (popped[r] + 1) + i
        BY <1>1, <2>2, <3>1
      <4> QED BY <1>1, <3>3 DEF TypeOK
    <3> QED BY <3>4, <3>5
  <2> QED BY <2>1, <2>2
<1>8. SessionAgrees' /\ DoneAfterLastPush'
  BY DEF SessionAgrees, DoneAfterLastPush
<1> QED BY <1>2, <1>3, <1>4, <1>5, <1>6, <1>7, <1>8

LEMMA CancelInv ==
  ASSUME SchedulerInv, NEW r \in Requests, Cancel(r)
  PROVE  SchedulerInv'
BY DEF SchedulerInv, Cancel, TypeOK, OnePlace, Queued, TurnMatchesState, RoomIsKept, QueueBound,
       ChunksInOrder, SessionAgrees, DoneAfterLastPush

-----------------------------------------------------------------------------
(* Every step of the worker keeps the invariant. *)

LEMMA DequeueInv ==
  ASSUME SchedulerInv, Dequeue
  PROVE  SchedulerInv'
<1> USE DEF SchedulerInv, Dequeue, contextVars
<1>1. /\ pending' \in Seq(Requests)
      /\ Head(pending) \in Requests
      /\ \A i, j \in DOMAIN pending' : pending'[i] = pending'[j] => i = j
      /\ \A r : Queued(r)' <=> (Queued(r) /\ r # Head(pending))
      /\ Queued(Head(pending))
  BY QueuedTail DEF TypeOK, OnePlace
<1>2. TypeOK'
  BY <1>1 DEF TypeOK, WorkerSteps
<1>3. OnePlace'
  BY <1>1, SchedulerAssumption DEF OnePlace, TurnMatchesState
<1>4. TurnMatchesState'
  BY <1>1, SchedulerAssumption DEF TurnMatchesState, Inferring
<1>5. RoomIsKept' /\ QueueBound' /\ ChunksInOrder' /\ DoneAfterLastPush'
  BY DEF RoomIsKept, QueueBound, ChunksInOrder, DoneAfterLastPush
<1>6. SessionAgrees'
  BY DEF SessionAgrees
<1> QED BY <1>2, <1>3, <1>4, <1>5, <1>6

\* `state.store(s)` of a final state and `continue`, wherever a turn ends so.
LEMMA FinishInv ==
  ASSUME SchedulerInv, wpc # "idle", NEW s \in Terminal, Finish(s),
         s = "DONE" => pushed[held] = total[held],
         wpc # "push",
         UNCHANGED <<pending, cancelled, output_queue, inferred, pushed, popped, total>>
  PROVE  SchedulerInv'
<1> USE DEF SchedulerInv, Finish, EndTurn
<1>1. held \in Requests /\ held # None /\ state[held] \in Active /\ ~Queued(held)
  BY HeldRequest
<1>2. TypeOK'
  BY <1>1 DEF TypeOK, States, Terminal, WorkerSteps
<1>3. OnePlace'
  BY <1>1, SchedulerAssumption DEF OnePlace, TypeOK, Queued, Active, Terminal
<1>4. TurnMatchesState'
  BY DEF TurnMatchesState, Inferring
<1>5. RoomIsKept' /\ QueueBound' /\ ChunksInOrder'
  BY DEF RoomIsKept, QueueBound, ChunksInOrder
<1>6. SessionAgrees'
  BY <1>1, SchedulerAssumption DEF SessionAgrees, TypeOK, Terminal
<1>7. DoneAfterLastPush'
  BY <1>1 DEF DoneAfterLastPush, TypeOK
<1> QED BY <1>2, <1>3, <1>4, <1>5, <1>6, <1>7

\* The turn goes on within the same phase.
LEMMA GotoInv ==
  ASSUME SchedulerInv, wpc # "idle", wpc \notin {"push", "pushed"},
         NEW s \in WorkerSteps \ {"idle", "push", "pushed"}, Goto(s),
         s \in {"prepare", "prepared"} => state[held] = "PREPARING",
         s \in Inferring => state[held] = "INFERRING",
         s \in {"gate", "infer", "push"} => Len(output_queue[held]) < MaxPending,
         UNCHANGED <<pending, state, cancelled, output_queue, inferred, pushed, popped, total>>
  PROVE  SchedulerInv'
<1> USE DEF SchedulerInv, Goto
<1>1. TypeOK' /\ OnePlace'
  BY DEF TypeOK, OnePlace, Queued
<1>2. TurnMatchesState'
  BY DEF TurnMatchesState
<1>3. RoomIsKept' /\ QueueBound' /\ ChunksInOrder' /\ DoneAfterLastPush'
  BY DEF RoomIsKept, QueueBound, ChunksInOrder, DoneAfterLastPush
<1>4. SessionAgrees'
  BY DEF SessionAgrees
<1> QED BY <1>1, <1>2, <1>3, <1>4

LEMMA CheckCancelledInv ==
  ASSUME SchedulerInv, CheckCancelled
  PROVE  SchedulerInv'
<1> USE DEF CheckCancelled
<1>1. CASE cancelled[held]
  BY <1>1, FinishInv DEF Terminal
<1>2. CASE ~cancelled[held]
  <2>1. state[held] \in Active
    BY HeldRequest
  <2>2. Goto(IF state[held] = "PREPARING" THEN "prepare" ELSE "room") /\ UNCHANGED state
    BY <1>2
  <2> QED
    BY <2>1, <2>2, GotoInv DEF Active, Inferring, WorkerSteps
<1> QED BY <1>1, <1>2

LEMMA PrepareInv ==
  ASSUME SchedulerInv, Prepare
  PROVE  SchedulerInv'
<1> USE DEF Prepare
<1>1. CASE Finish("ERROR")
  BY <1>1, FinishInv DEF Terminal
<1>2. CASE Goto("prepared") /\ UNCHANGED state
  <2>1. state[held] = "PREPARING"
    BY DEF SchedulerInv, TurnMatchesState
  <2> QED BY <1>2, <2>1, GotoInv DEF WorkerSteps, Inferring
<1> QED BY <1>1, <1>2

LEMMA EnterInferringInv ==
  ASSUME SchedulerInv, EnterInferring
  PROVE  SchedulerInv'
<1> USE DEF EnterInferring
<1>1. CASE cancelled[held]
  BY <1>1, FinishInv DEF Terminal
<1>2. CASE ~cancelled[held]
  <2>1. /\ wpc = "prepared" /\ wpc' = "room" /\ held' = held
        /\ state' = [state EXCEPT ![held] = "INFERRING"]
        /\ UNCHANGED <<pending, cancelled, output_queue, inferred, pushed, popped, total>>
    BY <1>2 DEF Goto
  <2>2. held \in Requests /\ held # None /\ state[held] \in Active
    BY <2>1, HeldRequest
  <2>3. TypeOK'
    BY <2>1, <2>2 DEF SchedulerInv, TypeOK, WorkerSteps, States, Active
  <2>4. OnePlace'
    BY <2>1, <2>2 DEF SchedulerInv, OnePlace, TypeOK, Queued, Active
  <2>5. TurnMatchesState'
    BY <2>1, <2>2 DEF SchedulerInv, TurnMatchesState, TypeOK
  <2>6. RoomIsKept' /\ QueueBound' /\ ChunksInOrder'
    BY <2>1 DEF SchedulerInv, RoomIsKept, QueueBound, ChunksInOrder
  <2>7. SessionAgrees'
    BY <2>1, <2>2 DEF SchedulerInv, SessionAgrees, TypeOK, Active, Terminal
  <2>8. DoneAfterLastPush'
    BY <2>1, <2>2 DEF SchedulerInv, DoneAfterLastPush, TypeOK
  <2> QED BY <2>3, <2>4, <2>5, <2>6, <2>7, <2>8 DEF SchedulerInv
<1> QED BY <1>1, <1>2

LEMMA CheckRoomInv ==
  ASSUME SchedulerInv, CheckRoom
  PROVE  SchedulerInv'
<1>1. state[held] = "INFERRING"
  BY DEF CheckRoom, SchedulerInv, TurnMatchesState, Inferring
<1> QED BY <1>1, GotoInv DEF CheckRoom, WorkerSteps, Inferring

LEMMA CheckBeforeInferInv ==
  ASSUME SchedulerInv, CheckBeforeInfer
  PROVE  SchedulerInv'
<1> USE DEF CheckBeforeInfer
<1>1. CASE cancelled[held]
  BY <1>1, FinishInv DEF Terminal
<1>2. CASE ~cancelled[held]
  <2>1. state[held] = "INFERRING" /\ Len(output_queue[held]) < MaxPending
    BY DEF SchedulerInv, TurnMatchesState, Inferring, RoomIsKept
  <2> QED BY <1>2, <2>1, GotoInv DEF WorkerSteps, Inferring
<1> QED BY <1>1, <1>2

LEMMA InferInv ==
  ASSUME SchedulerInv, Infer
  PROVE  SchedulerInv'
<1> USE DEF Infer
<1>1. CASE Finish("ERROR") /\ UNCHANGED inferred
  BY <1>1, FinishInv DEF Terminal
<1>2. CASE ~(Finish("ERROR") /\ UNCHANGED inferred)
  <2>1. /\ wpc = "infer" /\ wpc' = "push" /\ held' = held
        /\ inferred' = [inferred EXCEPT ![held] = @ + 1]
        /\ UNCHANGED <<pending, state, cancelled, output_queue, pushed, popped, total>>
    BY <1>2 DEF Goto
  <2>2. held \in Requests /\ state[held] = "INFERRING"
    BY <2>1, HeldRequest DEF SchedulerInv, TurnMatchesState, Inferring
  <2>3. TypeOK'
    BY <2>1, <2>2 DEF SchedulerInv, TypeOK, WorkerSteps
  <2>4. OnePlace'
    BY <2>1 DEF SchedulerInv, OnePlace, Queued
  <2>5. TurnMatchesState' /\ RoomIsKept'
    BY <2>1, <2>2 DEF SchedulerInv, TurnMatchesState, RoomIsKept, Inferring
  <2>6. QueueBound' /\ ChunksInOrder' /\ DoneAfterLastPush'
    BY <2>1 DEF SchedulerInv, QueueBound, ChunksInOrder, DoneAfterLastPush
  <2>7. SessionAgrees'
    <3>1. inferred[held] < total[held] /\ inferred[held] = pushed[held]
      BY <2>1, <2>2 DEF SchedulerInv, SessionAgrees, Terminal
    <3> QED BY <2>1, <2>2, <3>1 DEF SchedulerInv, SessionAgrees, TypeOK
  <2> QED BY <2>3, <2>4, <2>5, <2>6, <2>7 DEF SchedulerInv
<1> QED BY <1>1, <1>2

LEMMA PushAudioInv ==
  ASSUME SchedulerInv, PushAudio
  PROVE  SchedulerInv'
<1>1. /\ wpc = "push" /\ wpc' = "pushed" /\ held' = held
      /\ output_queue' = [output_queue EXCEPT ![held] = Append(@, inferred[held])]
      /\ pushed' = [pushed EXCEPT ![held] = @ + 1]
      /\ UNCHANGED <<pending, state, cancelled, inferred, popped, total>>
  BY DEF PushAudio, Goto
<1>2. /\ held \in Requests /\ state[held] = "INFERRING"
      /\ Len(output_queue[held]) < MaxPending
      /\ inferred[held] = pushed[held] + 1
  BY <1>1, HeldRequest DEF SchedulerInv, TurnMatchesState, Inferring, RoomIsKept, SessionAgrees
<1> DEFINE q == output_queue[held]
           e == inferred[held]
<1>3. /\ q \in Seq(Nat) /\ e \in Nat
      /\ pushed[held] \in Nat /\ popped[held] \in Nat
  BY <1>2 DEF SchedulerInv, TypeOK
<1>4. /\ Append(q, e) \in Seq(Nat)
      /\ Len(Append(q, e)) = Len(q) + 1
      /\ \A i \in 1..Len(q) : Append(q, e)[i] = q[i]
      /\ Append(q, e)[Len(q) + 1] = e
      /\ Len(q) \in Nat
      /\ DOMAIN q = 1..Len(q)
      /\ DOMAIN Append(q, e) = 1..(Len(q) + 1)
  BY <1>3, AppendProperties, LenProperties
<1>5. output_queue'[held] = Append(q, e) /\ pushed'[held] = pushed[held] + 1
  BY <1>1, <1>2 DEF SchedulerInv, TypeOK
<1>6. TypeOK'
  <2>1. output_queue' \in [Requests -> Seq(Nat)]
    <3>1. output_queue' = [output_queue EXCEPT ![held] = Append(q, e)]
      BY <1>1
    <3>2. output_queue \in [Requests -> Seq(Nat)]
      BY DEF SchedulerInv, TypeOK
    <3> HIDE DEF q, e
    <3> QED BY <1>4, <3>1, <3>2
  <2>2. pushed' \in [Requests -> Nat]
    <3>1. pushed \in [Requests -> Nat] /\ pushed[held] + 1 \in Nat
      BY <1>3 DEF SchedulerInv, TypeOK
    <3> QED BY <1>1, <3>1
  <2> QED BY <1>1, <2>1, <2>2 DEF SchedulerInv, TypeOK, WorkerSteps
<1>7. OnePlace' /\ TurnMatchesState' /\ RoomIsKept'
  BY <1>1, <1>2 DEF SchedulerInv, OnePlace, Queued, TurnMatchesState, RoomIsKept, Inferring
<1>8. QueueBound'
  <2>1. Len(output_queue'[held]) <= MaxPending
    BY <1>2, <1>4, <1>5, SchedulerAssumption
  <2> QED BY <1>1, <2>1 DEF SchedulerInv, QueueBound, TypeOK
<1>9. ChunksInOrder'
  <2> SUFFICES ASSUME NEW r \in Requests
               PROVE  /\ popped'[r] + Len(output_queue'[r]) = pushed'[r]
                      /\ \A i \in DOMAIN output_queue'[r] :
                             output_queue'[r][i] = popped'[r] + i
    BY DEF ChunksInOrder
  <2>1. CASE r # held
    BY <1>1, <2>1 DEF SchedulerInv, ChunksInOrder, TypeOK
  <2>2. CASE r = held
    <3>1. /\ popped[held] + Len(q) = pushed[held]
          /\ \A i \in 1..Len(q) : q[i] = popped[held] + i
      BY <1>2, <1>4 DEF SchedulerInv, ChunksInOrder
    <3>2. e = popped[held] + (Len(q) + 1)
      <4>1. e = (popped[held] + Len(q)) + 1
        BY <1>2, <3>1
      <4> HIDE DEF q, e
      <4> QED BY <1>3, <1>4, <4>1
    <3>3. \A i \in 1..(Len(q) + 1) : Append(q, e)[i] = popped[held] + i
      BY <1>4, <3>1, <3>2
    <3>4. popped[held] + (Len(q) + 1) = pushed[held] + 1
      BY <1>3, <1>4, <3>1
    <3> QED BY <1>1, <1>4, <1>5, <2>2, <3>3, <3>4
  <2> QED BY <2>1, <2>2
<1>10. SessionAgrees'
  BY <1>1, <1>2, <1>5 DEF SchedulerInv, SessionAgrees, TypeOK
<1>11. DoneAfterLastPush'
  BY <1>1, <1>2 DEF SchedulerInv, DoneAfterLastPush, TypeOK
<1> QED BY <1>6, <1>7, <1>8, <1>9, <1>10, <1>11 DEF SchedulerInv

LEMMA FinishRequestInv ==
  ASSUME SchedulerInv, FinishRequest
  PROVE  SchedulerInv'
<1>1. pushed[held] = total[held]
  BY HeldRequest DEF FinishRequest, LastChunkPushed, SchedulerInv, SessionAgrees
<1> QED BY <1>1, FinishInv DEF FinishRequest, Terminal

LEMMA RequeueInv ==
  ASSUME SchedulerInv, Requeue
  PROVE  SchedulerInv'
<1> USE DEF SchedulerInv, Requeue, EndTurn, contextVars
<1>1. held \in Requests /\ held # None /\ state[held] \in Active /\ ~Queued(held)
  BY HeldRequest
<1>2. /\ pending' \in Seq(Requests)
      /\ \A r : Queued(r)' <=> (Queued(r) \/ r = held)
  BY <1>1, QueuedAppend DEF TypeOK
<1>3. \A i, j \in DOMAIN pending' : pending'[i] = pending'[j] => i = j
  BY <1>1, AppendOnce DEF TypeOK, OnePlace
<1>4. TypeOK'
  BY <1>2 DEF TypeOK, WorkerSteps
<1>5. OnePlace'
  BY <1>1, <1>2, <1>3, SchedulerAssumption DEF OnePlace
<1>6. TurnMatchesState' /\ RoomIsKept' /\ QueueBound' /\ ChunksInOrder' /\ DoneAfterLastPush'
  BY DEF TurnMatchesState, Inferring, RoomIsKept, QueueBound, ChunksInOrder, DoneAfterLastPush
<1>7. SessionAgrees'
  <2>1. wpc = "pushed" => inferred[held] < total[held]
    BY <1>1 DEF LastChunkPushed, SessionAgrees, TypeOK
  <2> QED BY <1>1, <2>1, SchedulerAssumption DEF SessionAgrees
<1> QED BY <1>4, <1>5, <1>6, <1>7

-----------------------------------------------------------------------------
(* The theorems. *)

LEMMA StutterInv ==
  ASSUME SchedulerInv, UNCHANGED vars
  PROVE  SchedulerInv'
BY DEF vars, SchedulerInv, TypeOK, OnePlace, Queued, TurnMatchesState, RoomIsKept, QueueBound,
       ChunksInOrder, SessionAgrees, DoneAfterLastPush

\* The invariant is inductive: the worker and the event loop together keep
\* queue, contexts and sessions in agreement.
LEMMA StepInv == SchedulerInv /\ [Next]_vars => SchedulerInv'
BY SubmitInv, TryPopInv, CancelInv, DequeueInv, CheckCancelledInv, PrepareInv,
   EnterInferringInv, CheckRoomInv, CheckBeforeInferInv, InferInv, PushAudioInv,
   FinishRequestInv, RequeueInv, StutterInv
DEF Next, Worker, Consumer

\* Queue, contexts and sessions agree at every step of the worker and the loop.
THEOREM InvariantHolds == SafetySpec => []SchedulerInv
BY InitInv, StepInv, PTL DEF SafetySpec

\* The queue, the contexts and the sessions keep their types.
THEOREM TypeCorrect == SafetySpec => []TypeOK
BY InvariantHolds, PTL DEF SchedulerInv

\* A request that is alive is in the queue once or held by the worker, never
\* both and never neither: it is neither served twice a round nor forgotten.
THEOREM OnePlaceHolds == SafetySpec => []OnePlace
BY InvariantHolds, PTL DEF SchedulerInv

\* No output queue ever holds more than MAX_PENDING chunks.
THEOREM BackPressure == SafetySpec => []QueueBound
BY InvariantHolds, PTL DEF SchedulerInv

\* Audio leaves the queue chunk by chunk in the order of the text.
THEOREM Fifo == SafetySpec => []ChunksInOrder
BY InvariantHolds, PTL DEF SchedulerInv

\* DONE is only visible when the last chunk is in the queue.
THEOREM DoneIsLast == SafetySpec => []DoneAfterLastPush
BY InvariantHolds, PTL DEF SchedulerInv

\* The worker never asks a finished session for another chunk.
THEOREM NoEmptyChunk == SafetySpec => []NeverAskedPastEnd
<1>1. SchedulerInv => NeverAskedPastEnd
  BY HeldRequest DEF SchedulerInv, SessionAgrees, NeverAskedPastEnd, Active, Terminal
<1> QED BY <1>1, InvariantHolds, PTL

-----------------------------------------------------------------------------
(* What a step never does. *)

\* The state of a request only changes by submit(), or by the worker while it
\* holds the request; then it was alive.
LEMMA TerminalStep ==
  ASSUME SchedulerInv, [Next]_vars, NEW r \in Requests, state[r] \in Terminal
  PROVE  state'[r] = state[r]
<1> USE DEF SchedulerInv
<1>1. wpc # "idle" => held # r
  BY HeldRequest DEF Active, Terminal
<1>2. ASSUME NEW s, wpc # "idle", Finish(s) PROVE state'[r] = state[r]
  BY <1>1, <1>2 DEF Finish, TypeOK
<1>3. ASSUME NEW q \in Requests, Consumer(q) PROVE state'[r] = state[r]
  BY <1>3 DEF Consumer, Submit, TryPop, Cancel, TypeOK, Terminal
<1>4. CASE Dequeue \/ CheckRoom \/ PushAudio \/ Requeue
  BY <1>4 DEF Dequeue, CheckRoom, PushAudio, Requeue, contextVars
<1>5. CASE CheckCancelled \/ Prepare \/ CheckBeforeInfer \/ Infer \/ FinishRequest
  BY <1>2, <1>5 DEF CheckCancelled, Prepare, CheckBeforeInfer, Infer, FinishRequest
<1>6. CASE EnterInferring
  BY <1>1, <1>2, <1>6 DEF EnterInferring, TypeOK
<1>7. CASE UNCHANGED vars
  BY <1>7 DEF vars
<1> QED BY <1>3, <1>4, <1>5, <1>6, <1>7 DEF Next, Worker

LEMMA FinalStays ==
  SchedulerInv /\ [Next]_vars => \A r \in Requests : state[r] \in Terminal => state'[r] = state[r]
BY TerminalStep

\* Neither thread changes how many chunks a text makes.
LEMMA TotalStays == [Next]_vars => UNCHANGED total
BY DEF Next, Worker, Consumer, Submit, TryPop, Cancel, Dequeue, CheckCancelled, Prepare,
       EnterInferring, CheckRoom, CheckBeforeInfer, Infer, PushAudio, FinishRequest, Requeue,
       contextVars, vars

\* DONE, ERROR and CANCELLED are final: the event loop may act on the state
\* it has loaded however late it does so.
THEOREM TerminalHolds == SafetySpec => TerminalIsStable
BY FinalStays, InvariantHolds, PTL DEF SafetySpec, TerminalIsStable

\* Putting a request at the end of the queue overtakes nobody.
LEMMA AppendKeepsOrder ==
  ASSUME pending \in Seq(Requests), NEW e \in Requests, pending' = Append(pending, e),
         ~Queued(e), NEW r1, NEW r2, Ahead(pending', r1, r2), Queued(r2)
  PROVE  Ahead(pending, r1, r2)
<1>1. /\ pending' \in Seq(Requests)
      /\ Len(pending') = Len(pending) + 1
      /\ \A i \in 1..Len(pending) : pending'[i] = pending[i]
      /\ pending'[Len(pending) + 1] = e
  BY AppendProperties
<1>2. /\ Len(pending) \in Nat
      /\ DOMAIN pending = 1..Len(pending)
      /\ DOMAIN pending' = 1..(Len(pending) + 1)
  BY <1>1, LenProperties
<1>3. PICK i, j \in 1..(Len(pending) + 1) : i < j /\ pending'[i] = r1 /\ pending'[j] = r2
  BY <1>2 DEF Ahead
<1>4. j # Len(pending) + 1
  BY <1>1, <1>3
<1>5. i \in 1..Len(pending) /\ j \in 1..Len(pending)
  BY <1>2, <1>3, <1>4
<1> QED BY <1>1, <1>2, <1>3, <1>5 DEF Ahead

\* Nor does taking the front request out.
LEMMA TailKeepsOrder ==
  ASSUME pending \in Seq(Requests), pending # <<>>, pending' = Tail(pending),
         NEW r1, NEW r2, Ahead(pending', r1, r2)
  PROVE  Ahead(pending, r1, r2)
<1>1. /\ pending' \in Seq(Requests)
      /\ Len(pending') = Len(pending) - 1
      /\ \A i \in 1..Len(pending') : pending'[i] = pending[i + 1]
  BY HeadTailProperties
<1>2. /\ Len(pending) \in Nat \ {0}
      /\ DOMAIN pending = 1..Len(pending)
      /\ DOMAIN pending' = 1..(Len(pending) - 1)
  BY <1>1, LenProperties, EmptySeq
<1>3. PICK i, j \in 1..(Len(pending) - 1) : i < j /\ pending'[i] = r1 /\ pending'[j] = r2
  BY <1>2 DEF Ahead
<1>4. /\ i + 1 \in 1..Len(pending) /\ j + 1 \in 1..Len(pending) /\ i + 1 < j + 1
      /\ pending[i + 1] = r1 /\ pending[j + 1] = r2
  BY <1>1, <1>2, <1>3
<1> QED BY <1>2, <1>4 DEF Ahead

\* Round robin: nobody who waits in the queue is ever overtaken.
THEOREM RoundRobinHolds == SafetySpec => RoundRobin
<1>1. ASSUME SchedulerInv, [Next]_vars, NEW r1 \in Requests, NEW r2 \in Requests,
             Ahead(pending', r1, r2), Queued(r2)
      PROVE  Ahead(pending, r1, r2)
  <2>1. pending \in Seq(Requests)
    BY <1>1 DEF SchedulerInv, TypeOK
  <2>2. ASSUME NEW q \in Requests, Submit(q) PROVE Ahead(pending, r1, r2)
    <3>1. pending' = Append(pending, q) /\ ~Queued(q)
      BY <1>1, <2>2 DEF Submit, SchedulerInv, OnePlace, Active
    <3> QED BY <1>1, <2>1, <3>1, AppendKeepsOrder
  <2>3. CASE Requeue
    <3>1. pending' = Append(pending, held) /\ ~Queued(held) /\ held \in Requests
      BY <1>1, <2>3, HeldRequest DEF Requeue
    <3> QED BY <1>1, <2>1, <3>1, AppendKeepsOrder
  <2>4. CASE Dequeue
    BY <1>1, <2>1, <2>4, TailKeepsOrder DEF Dequeue
  <2>5. CASE UNCHANGED pending
    BY <1>1, <2>5
  <2>6. \/ \E q \in Requests : Submit(q)
        \/ Requeue
        \/ Dequeue
        \/ UNCHANGED pending
    BY <1>1
    DEF Next, Worker, Consumer, TryPop, Cancel, CheckCancelled, Prepare, EnterInferring,
        CheckRoom, CheckBeforeInfer, Infer, PushAudio, FinishRequest, vars
  <2> QED BY <2>2, <2>3, <2>4, <2>5, <2>6
<1>2. SchedulerInv /\ [Next]_vars =>
        [\A r1, r2 \in Requests :
            (Ahead(pending', r1, r2) /\ Queued(r2)) => Ahead(pending, r1, r2)]_vars
  BY <1>1
<1> QED BY <1>2, InvariantHolds, PTL DEF SafetySpec, RoundRobin
=============================================================================
