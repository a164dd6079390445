------------------------- MODULE TtsServer_proofs -------------------------
(***************************************************************************)
(* Proofs about TtsServer, for any set of clients, any formats and bounds: *)
(* the event loop and its connections; that the scheduler runs unchanged   *)
(* inside the server; how a response is framed; that it carries every      *)
(* chunk the worker made, in order and once, or does not end normally; the *)
(* bound on what a slow client makes the server hold; and that the server  *)
(* implements TtsService.                                                  *)
(***************************************************************************)
EXTENDS TtsServer, FiniteSetTheorems, FunctionTheorems, SequenceTheorems, TLAPS

-----------------------------------------------------------------------------
(* What the event loop, the connections and the contexts agree on. *)

\* The connections whose responses are being produced.
Streams == {r \in Requests : conn[r] \in {"STREAMING", "WRITING"} /\ state[r] # "NEW"}

ConnStates == {"READING", "STREAMING", "WRITING", "CLOSED"}

\* The worker only holds and only queues requests that were submitted.
OnlySubmitted ==
    /\ pending \in Seq(Requests)
    /\ \A i \in DOMAIN pending : state[pending[i]] # "NEW"
    /\ wpc # "idle" => held \in Requests /\ state[held] # "NEW"

\* A visit that the loop has begun is to a connection in the right state.
VisitAgrees ==
    /\ lpc \in {"poll", "respond", "drain"}
    /\ lpc # "poll" => cur \in Requests
    /\ lpc = "respond" => conn[cur] = "READING" /\ state[cur] # "NEW"
    /\ lpc = "drain" => conn[cur] = "STREAMING"

\* A request that was submitted has left READING, except in the step between.
ConnectionsAgree ==
    \A r \in Requests :
        /\ state[r] = "NEW" => conn[r] \in {"READING", "CLOSED"} /\ ~cancelled[r]
        /\ conn[r] = "READING" /\ state[r] # "NEW" => lpc = "respond" /\ cur = r
        /\ conn[r] \in {"READING", "STREAMING"} => ~cancelled[r]

Counted == IsFiniteSet(Streams) /\ active_streams = Cardinality(Streams)

LoopInv ==
    /\ state \in [Requests -> Scheduler!States]
    /\ cancelled \in [Requests -> BOOLEAN]
    /\ conn \in [Requests -> ConnStates]
    /\ OnlySubmitted
    /\ VisitAgrees
    /\ ConnectionsAgree
    /\ Counted

LEMMA InitLoop == Init => LoopInv
<1> SUFFICES ASSUME Init PROVE LoopInv
  OBVIOUS
<1> USE DEF Init, Scheduler!Init
<1>1. state \in [Requests -> Scheduler!States] /\ cancelled \in [Requests -> BOOLEAN]
  BY DEF Scheduler!States
<1>2. conn \in [Requests -> ConnStates]
  BY DEF ConnStates
<1>3. OnlySubmitted
  BY DEF OnlySubmitted
<1>4. VisitAgrees /\ ConnectionsAgree
  BY DEF VisitAgrees, ConnectionsAgree
<1>5. Counted
  <2>1. Streams = {}
    BY DEF Streams
  <2> QED BY <2>1, FS_EmptySet DEF Counted
<1> QED BY <1>1, <1>2, <1>3, <1>4, <1>5 DEF LoopInv

-----------------------------------------------------------------------------
(* The worker. *)

\* A step of the worker cancels nothing and moves no request out of NEW.
LEMMA WorkerKeepsNew ==
  ASSUME LoopInv, Scheduler!Worker
  PROVE  /\ state' \in [Requests -> Scheduler!States]
         /\ \A r \in Requests : state'[r] = "NEW" <=> state[r] = "NEW"
         /\ UNCHANGED cancelled
         /\ OnlySubmitted'
<1> USE DEF LoopInv, OnlySubmitted, Scheduler!States, Scheduler!Active, Scheduler!Terminal,
           Scheduler!Goto, Scheduler!Finish, Scheduler!EndTurn, Scheduler!contextVars
<1>1. CASE Scheduler!Dequeue
  <2>1. UNCHANGED <<state, cancelled>> /\ pending # <<>> /\ wpc' = "popped"
        /\ held' = Head(pending) /\ pending' = Tail(pending)
    BY <1>1 DEF Scheduler!Dequeue
  <2>2. /\ held' = pending[1] /\ 1 \in DOMAIN pending /\ pending' \in Seq(Requests)
        /\ \A i \in DOMAIN pending' : i + 1 \in DOMAIN pending /\ pending'[i] = pending[i + 1]
    BY <2>1
  <2> QED BY <2>1, <2>2
<1>2. CASE \/ Scheduler!CheckCancelled \/ Scheduler!Prepare \/ Scheduler!EnterInferring
           \/ Scheduler!CheckRoom \/ Scheduler!CheckBeforeInfer \/ Scheduler!Infer
           \/ Scheduler!PushAudio \/ Scheduler!FinishRequest
  <2>1. UNCHANGED <<pending, cancelled>> /\ wpc # "idle" /\ (wpc' = "idle" \/ held' = held)
    BY <1>2 DEF Scheduler!CheckCancelled, Scheduler!Prepare, Scheduler!EnterInferring,
                Scheduler!CheckRoom, Scheduler!CheckBeforeInfer, Scheduler!Infer,
                Scheduler!PushAudio, Scheduler!FinishRequest
  <2>2. \/ UNCHANGED state
        \/ \E s \in Scheduler!Active \cup Scheduler!Terminal : state' = [state EXCEPT ![held] = s]
    BY <1>2 DEF Scheduler!CheckCancelled, Scheduler!Prepare, Scheduler!EnterInferring,
                Scheduler!CheckRoom, Scheduler!CheckBeforeInfer, Scheduler!Infer,
                Scheduler!PushAudio, Scheduler!FinishRequest
  <2>3. /\ state' \in [Requests -> Scheduler!States]
        /\ \A r \in Requests : state'[r] = "NEW" <=> state[r] = "NEW"
    BY <2>1, <2>2
  <2>4. \A i \in DOMAIN pending : pending[i] \in Requests
    OBVIOUS
  <2> QED BY <2>1, <2>3, <2>4
<1>3. CASE Scheduler!Requeue
  <2>1. UNCHANGED <<state, cancelled>> /\ wpc # "idle" /\ wpc' = "idle"
        /\ pending' = Append(pending, held)
    BY <1>3 DEF Scheduler!Requeue
  <2>2. /\ pending' \in Seq(Requests)
        /\ \A i \in DOMAIN pending' : pending'[i] = held \/ (i \in DOMAIN pending /\ pending'[i] = pending[i])
    BY <2>1
  <2> QED BY <2>1, <2>2
<1> QED BY <1>1, <1>2, <1>3 DEF Scheduler!Worker

LEMMA WorkerLoop ==
  ASSUME LoopInv, WorkerStep
  PROVE  LoopInv'
<1>1. /\ state' \in [Requests -> Scheduler!States]
      /\ \A r \in Requests : state'[r] = "NEW" <=> state[r] = "NEW"
      /\ UNCHANGED cancelled
      /\ OnlySubmitted'
  BY WorkerKeepsNew DEF WorkerStep
<1>2. UNCHANGED <<conn, active_streams, lpc, cur>>
  BY DEF WorkerStep, loopVars
<1>3. Streams' = Streams
  BY <1>1, <1>2 DEF Streams
<1>4. VisitAgrees'
  BY <1>1, <1>2 DEF VisitAgrees, LoopInv
<1>5. ConnectionsAgree'
  BY <1>1, <1>2 DEF ConnectionsAgree, LoopInv
<1>6. Counted'
  BY <1>2, <1>3 DEF Counted, LoopInv
<1> QED BY <1>1, <1>2, <1>4, <1>5, <1>6 DEF LoopInv

-----------------------------------------------------------------------------
(* The event loop. *)

\* A connection that begins its response is counted.
LEMMA CountUp ==
  ASSUME LoopInv, NEW r \in Requests, conn[r] = "READING", state[r] # "NEW",
         NEW s \in {"STREAMING", "WRITING"},
         conn' = [conn EXCEPT ![r] = s], UNCHANGED state,
         active_streams' = active_streams + 1
  PROVE  Counted'
<1>1. Streams' = Streams \cup {r} /\ r \notin Streams
  BY DEF Streams, LoopInv, ConnStates
<1> QED BY <1>1, FS_AddElement DEF Counted, LoopInv

\* One that is closed is counted down, if it was counted.
LEMMA CountDown ==
  ASSUME LoopInv, NEW r \in Requests, conn[r] # "CLOSED", conn[r] = "READING" => state[r] = "NEW",
         CloseConnection(r), UNCHANGED state
  PROVE  Counted' /\ conn' = [conn EXCEPT ![r] = "CLOSED"]
<1>1. Streams' = Streams \ {r}
  BY DEF Streams, LoopInv, ConnStates, CloseConnection
<1>2. r \in Streams <=> state[r] # "NEW"
  BY DEF Streams, LoopInv, ConnStates, ConnectionsAgree
<1>3. IsFiniteSet(Streams) /\ active_streams = Cardinality(Streams) /\ Cardinality(Streams) \in Nat
  BY FS_CardinalityType DEF LoopInv, Counted
<1>4. r \in Streams => Cardinality(Streams) > 0
  BY <1>3, FS_EmptySet
<1>5. IsFiniteSet(Streams') /\ Cardinality(Streams') = IF r \in Streams THEN Cardinality(Streams) - 1 ELSE Cardinality(Streams)
  BY <1>1, <1>3, FS_RemoveElement
<1>6. active_streams' = Cardinality(Streams')
  <2>1. CASE state[r] = "NEW"
    BY <1>2, <1>3, <1>5, <2>1 DEF CloseConnection
  <2>2. CASE state[r] # "NEW"
    BY <1>2, <1>3, <1>4, <1>5, <2>2 DEF CloseConnection
  <2> QED BY <2>1, <2>2
<1> QED BY <1>5, <1>6 DEF Counted, CloseConnection

\* Nothing else changes the count.
LEMMA CountStays ==
  ASSUME LoopInv, NEW r \in Requests, UNCHANGED <<state, active_streams>>,
         \/ UNCHANGED conn
         \/ conn[r] = "STREAMING" /\ conn' = [conn EXCEPT ![r] = "WRITING"]
  PROVE  Counted'
<1>1. Streams' = Streams
  BY DEF Streams, LoopInv, ConnStates
<1> QED BY <1>1 DEF Counted, LoopInv

\* What the worker holds and queues depends on these variables only.
LEMMA QueueStays ==
  ASSUME LoopInv, UNCHANGED <<state, pending, wpc, held>>
  PROVE  OnlySubmitted'
BY DEF LoopInv, OnlySubmitted

\* A visit that leaves the connection as it is.
LEMMA KeepLoop ==
  ASSUME LoopInv, UNCHANGED <<state, cancelled, pending, wpc, held, conn, active_streams>>,
         lpc' = "poll" \/ UNCHANGED <<lpc, cur>> \/ (lpc' = "drain" /\ cur' \in Requests /\ conn[cur'] = "STREAMING"),
         lpc' # "respond" => lpc # "respond"
  PROVE  LoopInv'
<1>1. OnlySubmitted'
  BY QueueStays
<1>2. VisitAgrees'
  BY DEF LoopInv, VisitAgrees
<1>3. ConnectionsAgree'
  BY DEF LoopInv, VisitAgrees, ConnectionsAgree
<1>4. Streams' = Streams
  BY DEF Streams
<1>5. Counted'
  BY <1>4 DEF LoopInv, Counted
<1> QED BY <1>1, <1>2, <1>3, <1>5 DEF LoopInv

\* A visit that ends the streaming with a complete response.
LEMMA RespondLoop ==
  ASSUME LoopInv, lpc = "drain", lpc' = "poll", conn' = [conn EXCEPT ![cur] = "WRITING"],
         UNCHANGED <<state, cancelled, pending, wpc, held, active_streams>>
  PROVE  LoopInv'
<1>1. cur \in Requests /\ conn[cur] = "STREAMING"
  BY DEF LoopInv, VisitAgrees
<1>2. OnlySubmitted'
  BY QueueStays
<1>3. VisitAgrees'
  BY DEF VisitAgrees
<1>4. conn' \in [Requests -> ConnStates]
  BY DEF LoopInv, ConnStates
<1>5. ConnectionsAgree'
  BY <1>1 DEF LoopInv, ConnectionsAgree
<1>6. Counted'
  BY <1>1, CountStays
<1> QED BY <1>2, <1>3, <1>4, <1>5, <1>6 DEF LoopInv

\* A visit that closes the connection, whether or not it cancels the request.
LEMMA CloseLoop ==
  ASSUME LoopInv, NEW r \in Requests, conn[r] # "CLOSED", conn[r] = "READING" => state[r] = "NEW",
         CloseConnection(r), lpc' = "poll", lpc # "respond",
         UNCHANGED cancelled \/ (state[r] # "NEW" /\ cancelled' = [cancelled EXCEPT ![r] = TRUE]),
         UNCHANGED <<state, pending, wpc, held>>
  PROVE  LoopInv'
<1>1. Counted' /\ conn' = [conn EXCEPT ![r] = "CLOSED"]
  BY CountDown
<1>2. OnlySubmitted'
  BY QueueStays
<1>3. VisitAgrees'
  BY DEF VisitAgrees
<1>4. conn' \in [Requests -> ConnStates]
  BY <1>1 DEF LoopInv, ConnStates
<1>5. cancelled' \in [Requests -> BOOLEAN]
  BY DEF LoopInv
<1>6. ConnectionsAgree'
  BY <1>1 DEF LoopInv, ConnectionsAgree
<1> QED BY <1>1, <1>2, <1>3, <1>4, <1>5, <1>6 DEF LoopInv

LEMMA DispatchLoop ==
  ASSUME LoopInv, NEW r \in Requests, Dispatch(r)
  PROVE  LoopInv'
<1>1. /\ lpc = "poll" /\ conn[r] = "READING" /\ lpc' = "respond" /\ cur' = r
      /\ UNCHANGED <<conn, active_streams, wpc, held, cancelled>>
      /\ state[r] = "NEW" /\ state' = [state EXCEPT ![r] = "PREPARING"]
      /\ pending' = Append(pending, r)
  BY DEF Dispatch, Scheduler!Submit
<1>2. state' \in [Requests -> Scheduler!States]
  BY <1>1 DEF LoopInv, Scheduler!States, Scheduler!Active
<1>3. OnlySubmitted'
  <2>1. /\ pending' \in Seq(Requests)
        /\ \A i \in DOMAIN pending' : pending'[i] = r \/ (i \in DOMAIN pending /\ pending'[i] = pending[i])
    BY <1>1 DEF LoopInv, OnlySubmitted
  <2>2. \A q \in Requests : state[q] # "NEW" => state'[q] # "NEW"
    BY <1>1 DEF LoopInv
  <2>3. state'[r] # "NEW"
    BY <1>1 DEF LoopInv
  <2>4. \A i \in DOMAIN pending : pending[i] \in Requests
    BY DEF LoopInv, OnlySubmitted
  <2>5. \A i \in DOMAIN pending' : state'[pending'[i]] # "NEW"
    BY <2>1, <2>2, <2>3, <2>4 DEF LoopInv, OnlySubmitted
  <2>6. wpc' # "idle" => held' \in Requests /\ state'[held'] # "NEW"
    BY <1>1, <2>2 DEF LoopInv, OnlySubmitted
  <2> QED BY <2>1, <2>5, <2>6 DEF OnlySubmitted
<1>4. VisitAgrees'
  BY <1>1 DEF LoopInv, VisitAgrees
<1>5. ConnectionsAgree'
  BY <1>1 DEF LoopInv, ConnectionsAgree
<1>6. Streams' = Streams
  BY <1>1 DEF Streams, LoopInv
<1>7. Counted'
  BY <1>1, <1>6 DEF LoopInv, Counted
<1> QED BY <1>1, <1>2, <1>3, <1>4, <1>5, <1>7 DEF LoopInv

\* The response begins, or its encoder fails to start.
LEMMA StartLoop ==
  ASSUME LoopInv, StartStream \/ StartFails
  PROVE  LoopInv'
<1>1. /\ lpc = "respond" /\ lpc' = "poll"
      /\ active_streams' = active_streams + 1
      /\ UNCHANGED <<state, pending, wpc, held>>
  BY DEF StartStream, StartFails, BackToPoll, schedulerVars, Scheduler!Cancel
<1>2. cur \in Requests /\ conn[cur] = "READING" /\ state[cur] # "NEW"
  BY <1>1 DEF LoopInv, VisitAgrees
<1>3. \/ conn' = [conn EXCEPT ![cur] = "STREAMING"] /\ UNCHANGED cancelled
      \/ conn' = [conn EXCEPT ![cur] = "WRITING"] /\ cancelled' = [cancelled EXCEPT ![cur] = TRUE]
  BY DEF StartStream, StartFails, Respond, schedulerVars, Scheduler!Cancel
<1>4. OnlySubmitted'
  BY <1>1, QueueStays
<1>5. VisitAgrees'
  BY <1>1 DEF VisitAgrees
<1>6. conn' \in [Requests -> ConnStates]
  BY <1>3 DEF LoopInv, ConnStates
<1>7. cancelled' \in [Requests -> BOOLEAN]
  BY <1>3 DEF LoopInv
<1>8. ConnectionsAgree'
  BY <1>1, <1>2, <1>3 DEF LoopInv, ConnectionsAgree
<1>9. Counted'
  <2>1. CASE conn' = [conn EXCEPT ![cur] = "STREAMING"]
    BY <1>1, <1>2, <2>1, CountUp
  <2>2. CASE conn' = [conn EXCEPT ![cur] = "WRITING"]
    BY <1>1, <1>2, <2>2, CountUp
  <2> QED BY <1>3, <2>1, <2>2
<1> QED BY <1>1, <1>4, <1>5, <1>6, <1>7, <1>8, <1>9 DEF LoopInv

LEMMA ReadLoop ==
  ASSUME LoopInv, NEW r \in Requests, ReadEof(r)
  PROVE  LoopInv'
<1>1. lpc = "poll" /\ lpc' = "poll" /\ conn[r] # "CLOSED" /\ CloseConnection(r)
  BY DEF ReadEof, loopVars
<1>2. UNCHANGED <<state, pending, wpc, held>>
  BY DEF ReadEof, schedulerVars, Scheduler!Cancel
<1>3. UNCHANGED cancelled \/ (state[r] # "NEW" /\ cancelled' = [cancelled EXCEPT ![r] = TRUE])
  BY DEF ReadEof, schedulerVars, Scheduler!Cancel
<1>4. conn[r] = "READING" => state[r] = "NEW"
  BY <1>1 DEF LoopInv, ConnectionsAgree
<1> QED BY <1>1, <1>2, <1>3, <1>4, CloseLoop

LEMMA WriteLoop ==
  ASSUME LoopInv, NEW r \in Requests, SomeWrite(r) \/ WriteFails(r)
  PROVE  LoopInv'
<1>1. /\ lpc = "poll" /\ lpc' = "poll" /\ UNCHANGED cur
      /\ conn[r] \in {"STREAMING", "WRITING"}
      /\ UNCHANGED <<state, cancelled, pending, wpc, held>>
      /\ CloseConnection(r) \/ UNCHANGED <<conn, active_streams>>
  BY DEF SomeWrite, Write, WriteFails, loopVars, schedulerVars
<1>2. CASE CloseConnection(r)
  BY <1>1, <1>2, CloseLoop
<1>3. CASE UNCHANGED <<conn, active_streams>>
  BY <1>1, <1>3, KeepLoop
<1> QED BY <1>1, <1>2, <1>3

LEMMA DrainLoop ==
  ASSUME LoopInv,
         \/ \E r \in Requests : Leave(r) \/ DrainBegin(r)
         \/ DrainPop \/ DrainPauses
  PROVE  LoopInv'
<1>1. UNCHANGED <<state, cancelled, pending, wpc, held, conn, active_streams>>
  BY DEF Leave, DrainBegin, DrainPop, DrainPauses, schedulerVars, Scheduler!TryPop
<1>2. \/ lpc' = "poll" /\ lpc = "drain"
      \/ UNCHANGED <<lpc, cur>>
      \/ lpc' = "drain" /\ cur' \in Requests /\ conn[cur'] = "STREAMING" /\ lpc = "poll"
  BY DEF Leave, DrainBegin, DrainPop, DrainPauses, loopVars, BackToPoll
<1> QED BY <1>1, <1>2, KeepLoop

LEMMA FinishLoop ==
  ASSUME LoopInv, EncodeFails \/ FinishFails \/ FinishStream \/ FinishWav \/ FinishWavError
  PROVE  LoopInv'
<1>1. /\ lpc = "drain" /\ lpc' = "poll"
      /\ UNCHANGED <<state, cancelled, pending, wpc, held>>
  BY DEF EncodeFails, FinishFails, FinishStream, FinishWav, FinishWavError, AtEnd,
         BackToPoll, schedulerVars, Scheduler!TryPop
<1>2. cur \in Requests /\ conn[cur] = "STREAMING"
  BY <1>1 DEF LoopInv, VisitAgrees
<1>3. CASE EncodeFails \/ FinishFails
  <2>1. CloseConnection(cur)
    BY <1>3 DEF EncodeFails, FinishFails
  <2> QED BY <1>1, <1>2, <2>1, CloseLoop
<1>4. CASE FinishStream \/ FinishWav \/ FinishWavError
  <2>1. conn' = [conn EXCEPT ![cur] = "WRITING"] /\ UNCHANGED active_streams
    BY <1>4 DEF FinishStream, FinishWav, FinishWavError, Respond
  <2> QED BY <1>1, <2>1, RespondLoop
<1> QED BY <1>3, <1>4

LEMMA StepLoop == LoopInv /\ [Next]_vars => LoopInv'
<1> SUFFICES ASSUME LoopInv, [Next]_vars PROVE LoopInv'
  OBVIOUS
<1>1. CASE WorkerStep
  BY <1>1, WorkerLoop
<1>2. CASE FinishVisit
  BY <1>2, StartLoop, DrainLoop, FinishLoop DEF FinishVisit
<1>3. CASE \E r \in Requests : Visit(r) \/ Leave(r)
  BY <1>3, DispatchLoop, ReadLoop, WriteLoop, DrainLoop DEF Visit
<1>4. CASE UNCHANGED vars
  <2>1. UNCHANGED <<state, cancelled, pending, wpc, held, conn, active_streams, lpc, cur>>
    BY <1>4 DEF vars, schedulerVars, loopVars
  <2> QED BY <2>1, KeepLoop
<1> QED BY <1>1, <1>2, <1>3, <1>4 DEF Next

LEMMA LoopHolds == SafetySpec => []LoopInv
BY InitLoop, StepLoop, PTL DEF SafetySpec

-----------------------------------------------------------------------------
\* active_streams, which the idle monitor reads, is the number of connections
\* whose responses are being produced, however they begin and end.
THEOREM StreamsCountedHolds == SafetySpec => []StreamsCounted
<1>1. LoopInv => StreamsCounted
  BY DEF LoopInv, Counted, Streams, StreamsCounted
<1> QED BY <1>1, LoopHolds, PTL

\* The drain never meets a cancelled request: whoever cancels a stream also
\* closes its connection or turns it into an error response.
THEOREM NeverCancelled == SafetySpec => []NoCancelledStream
<1>1. LoopInv => NoCancelledStream
  BY DEF LoopInv, ConnectionsAgree, NoCancelledStream
<1> QED BY <1>1, LoopHolds, PTL

-----------------------------------------------------------------------------
(* The server is a consumer of the scheduler. *)

\* A step of the server is a step of the worker, a call of the scheduler's
\* interface for one request, or none of the scheduler's business.
LEMMA SchedulerStep ==
  ASSUME LoopInv, [Next]_vars
  PROVE  [Scheduler!Next]_(Scheduler!vars)
<1>1. CASE WorkerStep
  BY <1>1 DEF WorkerStep, Scheduler!Next
<1>2. lpc \in {"respond", "drain"} => cur \in Requests
  BY DEF LoopInv, VisitAgrees
<1>3. CASE DrainPop \/ EncodeFails
  <2>1. lpc = "drain" /\ Scheduler!TryPop(cur)
    BY <1>3 DEF DrainPop, EncodeFails
  <2> QED BY <1>2, <2>1 DEF Scheduler!Next, Scheduler!Consumer
<1>4. CASE StartFails
  <2>1. lpc = "respond" /\ Scheduler!Cancel(cur)
    BY <1>4 DEF StartFails
  <2> QED BY <1>2, <2>1 DEF Scheduler!Next, Scheduler!Consumer
<1>5. CASE \/ StartStream \/ DrainPauses \/ FinishStream \/ FinishFails \/ FinishWav \/ FinishWavError
  BY <1>5 DEF StartStream, DrainPauses, FinishStream, FinishFails, FinishWav, FinishWavError,
              schedulerVars, Scheduler!vars
<1>6. ASSUME NEW r \in Requests, Dispatch(r)
      PROVE  Scheduler!Next
  BY <1>6 DEF Dispatch, Scheduler!Next, Scheduler!Consumer
<1>7. ASSUME NEW r \in Requests, ReadEof(r)
      PROVE  Scheduler!Next \/ UNCHANGED Scheduler!vars
  <2>1. Scheduler!Cancel(r) \/ UNCHANGED schedulerVars
    BY <1>7 DEF ReadEof
  <2> QED BY <2>1 DEF Scheduler!Next, Scheduler!Consumer, schedulerVars, Scheduler!vars
<1>8. ASSUME NEW r \in Requests, SomeWrite(r) \/ WriteFails(r) \/ DrainBegin(r) \/ Leave(r)
      PROVE  UNCHANGED Scheduler!vars
  BY <1>8 DEF SomeWrite, Write, WriteFails, DrainBegin, Leave, schedulerVars, Scheduler!vars
<1>9. CASE UNCHANGED vars
  BY <1>9 DEF vars, schedulerVars, Scheduler!vars
<1> QED BY <1>1, <1>3, <1>4, <1>5, <1>6, <1>7, <1>8, <1>9 DEF Next, FinishVisit, Visit

-----------------------------------------------------------------------------
(* What a client is sent, whatever fails. *)

\* How a streamed response looks before its end: a head, then audio.
Streamed(out) ==
    /\ out # <<>>
    /\ \A i \in DOMAIN out : out[i].kind = IF i = 1 THEN "head" ELSE "audio"

\* How any response looks, whole or cut off: an error alone, or a head at most
\* in front and an end at most behind.
Shape(out) ==
    \/ out = <<Error>>
    \/ \A i \in DOMAIN out :
          /\ out[i].kind # "error"
          /\ out[i].kind = "head" => i = 1
          /\ out[i].kind = "end" => i = Len(out)

\* An encoded piece of audio is a sequence of items of audio.
LEMMA AudioItems ==
  ASSUME NEW s \in Seq(Nat)
  PROVE  /\ Audio(s) \in Seq(Item) /\ Len(Audio(s)) = Len(s)
         /\ \A i \in DOMAIN Audio(s) : Audio(s)[i].kind = "audio"
<1>1. Audio(s) = [i \in 1..Len(s) |-> [kind |-> "audio", index |-> s[i]]]
  BY DEF Audio
<1>2. \A i \in 1..Len(s) : [kind |-> "audio", index |-> s[i]] \in Item
  BY DEF Item, Kinds
<1>3. Audio(s) \in Seq(Item)
  BY <1>1, <1>2
<1> QED BY <1>1, <1>3

LEMMA Ends == {Head_, End, Error} \subseteq Item
BY DEF Head_, End, Error, Item, Kinds

\* What was sent of a response is shaped like a response.
LEMMA ShapePrefix ==
  ASSUME NEW a \in Seq(Item), NEW b \in Seq(Item), Shape(a \o b)
  PROVE  Shape(a)
<1>1. Len(a \o b) = Len(a) + Len(b) /\ \A i \in 1..Len(a) : (a \o b)[i] = a[i]
  BY ConcatProperties
<1>2. CASE a \o b = <<Error>>
  <2>1. Len(a) + Len(b) = 1
    BY <1>1, <1>2
  <2>2. CASE Len(a) = 0
    BY <2>2 DEF Shape
  <2>3. CASE Len(a) = 1
    <3>1. a[1] = Error
      BY <1>1, <1>2, <2>3
    <3>2. a = <<Error>>
      BY <2>3, <3>1
    <3> QED BY <3>2 DEF Shape
  <2>4. Len(a) \in Nat /\ Len(b) \in Nat
    OBVIOUS
  <2>5. Len(a) = 0 \/ Len(a) = 1
    <3>1. \A m, n \in Nat : m + n = 1 => m = 0 \/ m = 1
      OBVIOUS
    <3> QED BY <2>1, <2>4, <3>1, Zenon
  <2> QED BY <2>2, <2>3, <2>5
<1>3. CASE a \o b # <<Error>>
  <2>1. ASSUME NEW i \in 1..Len(a)
        PROVE  /\ a[i].kind # "error" /\ (a[i].kind = "head" => i = 1)
               /\ (a[i].kind = "end" => i = Len(a))
    BY <1>1, <1>3 DEF Shape
  <2> QED BY <2>1 DEF Shape
<1> QED BY <1>2, <1>3

\* More audio can be streamed, and then the end.
LEMMA StreamedGrows ==
  ASSUME NEW a \in Seq(Item), NEW s \in Seq(Nat), Streamed(a)
  PROVE  Streamed(a \o Audio(s)) /\ Shape(a \o Audio(s))
<1>1. Len(a) \in Nat /\ Len(a) >= 1
  BY DEF Streamed
<1> DEFINE out == a \o Audio(s)
<1>2. /\ Len(out) = Len(a) + Len(s) /\ Len(s) \in Nat /\ out \in Seq(Item)
      /\ \A i \in 1..Len(out) : IF i <= Len(a) THEN out[i] = a[i]
                               ELSE out[i] = Audio(s)[i - Len(a)] /\ i - Len(a) \in DOMAIN Audio(s)
  <2>1. Audio(s) \in Seq(Item) /\ Len(Audio(s)) = Len(s) /\ Len(s) \in Nat
    BY AudioItems
  <2>2. /\ out \in Seq(Item) /\ Len(out) = Len(a) + Len(Audio(s))
        /\ \A i \in 1..Len(a) + Len(Audio(s)) :
              out[i] = IF i <= Len(a) THEN a[i] ELSE Audio(s)[i - Len(a)]
    BY <2>1, ConcatProperties
  <2>3. DOMAIN Audio(s) = 1..Len(s)
    BY <2>1
  <2>4. \A i \in 1..Len(out) : i > Len(a) => i - Len(a) \in 1..Len(s)
    BY <1>1, <2>1, <2>2
  <2> HIDE DEF out
  <2> QED BY <1>1, <2>1, <2>2, <2>3, <2>4
<1> HIDE DEF out
<1>3. \A i \in 1..Len(out) : out[i].kind = IF i = 1 THEN "head" ELSE "audio"
  BY <1>1, <1>2, AudioItems DEF Streamed
<1>4. Streamed(out)
  BY <1>1, <1>2, <1>3 DEF Streamed
<1>5. Shape(out)
  BY <1>2, <1>3 DEF Shape
<1> QED BY <1>4, <1>5 DEF out

\* A streamed response may end.
LEMMA EndShape ==
  ASSUME NEW a \in Seq(Item), Streamed(a)
  PROVE  Shape(a \o <<End>>)
<1> DEFINE out == a \o <<End>>
<1>1. /\ Len(out) = Len(a) + 1 /\ Len(a) \in Nat
      /\ \A i \in 1..Len(out) : out[i] = IF i <= Len(a) THEN a[i] ELSE End
  BY Ends
<1> HIDE DEF out
<1>2. \A i \in 1..Len(out) : /\ out[i].kind # "error"
                             /\ out[i].kind = "head" => i = 1
                             /\ out[i].kind = "end" => i = Len(out)
  BY <1>1 DEF Streamed, End
<1>3. Shape(out)
  BY <1>2, <1>1 DEF Shape
<1> QED BY <1>3 DEF out

LEMMA HeadStreamed == Streamed(<<Head_>>) /\ <<Head_>> \in Seq(Item)
<1>1. Head_ \in Item
  BY Ends
<1> QED BY <1>1 DEF Streamed, Head_

LEMMA NothingShaped == Shape(<<>>) /\ Shape(<<Error>>)
BY DEF Shape
-----------------------------------------------------------------------------
\* Parts of a response can be put together in any order.
LEMMA ConcatItems ==
  \A a, b, c \in Seq(Item) : (a \o b) \o c = a \o (b \o c)
BY ConcatAssociative

\* All a client was sent and what waits to be sent.
Out(r) == sent[r] \o write_buffer[r]

\* The types of what passes from the worker to the socket.
BufferTypes ==
    /\ write_buffer \in [Requests -> Seq(Item)]
    /\ sent \in [Requests -> Seq(Item)]
    /\ kept \in [Requests -> Seq(Nat)]
    /\ output_queue \in [Requests -> Seq(Nat)]
    /\ inferred \in [Requests -> Nat]
    /\ conn \in [Requests -> ConnStates]

\* What was written of a response agrees with the state of its connection.
Response(r) ==
    /\ Shape(Out(r))
    /\ conn[r] = "READING" => sent[r] = <<>> /\ write_buffer[r] = <<>>
    /\ conn[r] = "STREAMING" /\ format[r] = "WAV" => sent[r] = <<>> /\ write_buffer[r] = <<>>
    /\ conn[r] = "STREAMING" /\ format[r] # "WAV" => Streamed(Out(r))

ResponseInv == BufferTypes /\ \A r \in Requests : Response(r)

LEMMA InitResponse == Init => ResponseInv
<1> SUFFICES ASSUME Init PROVE ResponseInv
  OBVIOUS
<1>1. <<>> \in Seq(Item) /\ <<>> \in Seq(Nat)
  OBVIOUS
<1>2. BufferTypes
  BY <1>1 DEF Init, Scheduler!Init, BufferTypes, ConnStates
<1>3. ASSUME NEW r \in Requests PROVE Response(r)
  <2>1. conn[r] = "READING" /\ sent[r] = <<>> /\ write_buffer[r] = <<>>
    BY DEF Init
  <2>2. Out(r) = <<>>
    BY <1>1, <2>1, ConcatEmptySeq DEF Out
  <2> QED BY <2>1, <2>2, NothingShaped DEF Response
<1> QED BY <1>2, <1>3 DEF ResponseInv

\* The audio that is pushed and popped is a number.
LEMMA QueueTypes ==
  ASSUME BufferTypes, LoopInv, Scheduler!Worker
  PROVE  output_queue' \in [Requests -> Seq(Nat)] /\ inferred' \in [Requests -> Nat]
<1>1. CASE Scheduler!Infer
  <2>1. held \in Requests
    BY <1>1 DEF Scheduler!Infer, LoopInv, OnlySubmitted
  <2>2. UNCHANGED output_queue /\ (UNCHANGED inferred \/ inferred' = [inferred EXCEPT ![held] = @ + 1])
    BY <1>1 DEF Scheduler!Infer
  <2>3. inferred[held] + 1 \in Nat
    BY <2>1 DEF BufferTypes
  <2>4. CASE UNCHANGED inferred
    BY <2>2, <2>4 DEF BufferTypes
  <2>5. CASE inferred' = [inferred EXCEPT ![held] = @ + 1]
    BY <2>1, <2>2, <2>3, <2>5 DEF BufferTypes
  <2> QED BY <2>2, <2>4, <2>5
<1>2. CASE Scheduler!PushAudio
  <2>1. held \in Requests
    BY <1>2 DEF Scheduler!PushAudio, LoopInv, OnlySubmitted
  <2>2. UNCHANGED inferred /\ output_queue' = [output_queue EXCEPT ![held] = Append(@, inferred[held])]
    BY <1>2 DEF Scheduler!PushAudio
  <2>3. Append(output_queue[held], inferred[held]) \in Seq(Nat)
    BY <2>1 DEF BufferTypes
  <2> QED BY <2>1, <2>2, <2>3 DEF BufferTypes
<1>3. CASE UNCHANGED <<output_queue, inferred>>
  BY <1>3 DEF BufferTypes
<1> QED BY <1>1, <1>2, <1>3 DEF Scheduler!Worker, Scheduler!Dequeue, Scheduler!CheckCancelled,
        Scheduler!Prepare, Scheduler!EnterInferring, Scheduler!CheckRoom,
        Scheduler!CheckBeforeInfer, Scheduler!FinishRequest, Scheduler!Requeue, Scheduler!contextVars

\* What a connection is to be written depends on these only; it may be closed.
LEMMA SameOut ==
  ASSUME NEW r \in Requests, Response(r),
         sent'[r] = sent[r], write_buffer'[r] = write_buffer[r], format'[r] = format[r],
         conn'[r] = conn[r] \/ conn'[r] = "CLOSED"
  PROVE  Response(r)'
BY DEF Response, Out

\* The steps that write nothing.
LEMMA QuietSteps ==
  ASSUME ResponseInv, LoopInv,
         \/ WorkerStep \/ DrainPauses \/ EncodeFails \/ FinishFails
         \/ \E r \in Requests : Dispatch(r) \/ Leave(r) \/ WriteFails(r) \/ DrainBegin(r)
         \/ UNCHANGED vars
  PROVE  ResponseInv'
<1> USE DEF ResponseInv
<1>1. UNCHANGED <<sent, write_buffer, kept, format>>
  BY DEF WorkerStep, DrainPauses, EncodeFails, FinishFails, Dispatch, Leave, WriteFails, DrainBegin, vars
<1>2. UNCHANGED conn \/ \E r \in Requests : CloseConnection(r)
  <2>1. EncodeFails \/ FinishFails => cur \in Requests
    BY DEF EncodeFails, FinishFails, AtEnd, LoopInv, VisitAgrees
  <2> QED BY <2>1 DEF WorkerStep, DrainPauses, EncodeFails, FinishFails, Dispatch, Leave, WriteFails, DrainBegin, vars
<1>3. conn' \in [Requests -> ConnStates] /\ \A r \in Requests : conn'[r] = conn[r] \/ conn'[r] = "CLOSED"
  BY <1>2 DEF CloseConnection, BufferTypes, ConnStates
<1>4. output_queue' \in [Requests -> Seq(Nat)] /\ inferred' \in [Requests -> Nat]
  <2>1. CASE WorkerStep
    BY <2>1, QueueTypes DEF WorkerStep
  <2>2. CASE EncodeFails
    <3>1. cur \in Requests
      BY <2>2 DEF EncodeFails, LoopInv, VisitAgrees
    <3>2. /\ output_queue[cur] # <<>> /\ UNCHANGED inferred
          /\ output_queue' = [output_queue EXCEPT ![cur] = Tail(@)]
      BY <2>2 DEF EncodeFails, Scheduler!TryPop
    <3>3. Tail(output_queue[cur]) \in Seq(Nat)
      BY <3>1, <3>2 DEF BufferTypes
    <3> QED BY <3>1, <3>2, <3>3 DEF BufferTypes
  <2>3. CASE ~WorkerStep /\ ~EncodeFails
    <3>1. UNCHANGED <<output_queue, inferred>>
      BY <2>3 DEF DrainPauses, FinishFails, Dispatch, Leave, WriteFails, DrainBegin, vars,
                  schedulerVars, Scheduler!Submit
    <3> QED BY <3>1 DEF BufferTypes
  <2> QED BY <2>1, <2>2, <2>3
<1>5. BufferTypes'
  BY <1>1, <1>3, <1>4 DEF BufferTypes
<1> QED BY <1>1, <1>3, <1>5, SameOut

\* A response begins with its head, with nothing, or as an error.
LEMMA StartResponds ==
  ASSUME ResponseInv, LoopInv, StartStream \/ StartFails
  PROVE  ResponseInv'
<1>1. PICK r \in Requests : r = cur /\ conn[r] = "READING"
  BY DEF StartStream, StartFails, LoopInv, VisitAgrees
<1>2. /\ UNCHANGED <<sent, kept, format, output_queue, inferred>>
      /\ \/ /\ conn' = [conn EXCEPT ![r] = "STREAMING"]
            /\ format[r] = "WAV"
            /\ write_buffer' = [write_buffer EXCEPT ![r] = <<>>]
         \/ /\ conn' = [conn EXCEPT ![r] = "STREAMING"]
            /\ format[r] # "WAV"
            /\ write_buffer' = [write_buffer EXCEPT ![r] = <<Head_>>]
         \/ /\ conn' = [conn EXCEPT ![r] = "WRITING"]
            /\ write_buffer' = [write_buffer EXCEPT ![r] = <<Error>>]
  BY <1>1 DEF StartStream, StartFails, Respond, schedulerVars, Scheduler!Cancel
<1>3. /\ sent[r] = <<>> /\ Error \in Item
      /\ <<Error>> \in Seq(Item) /\ <<>> \in Seq(Item) /\ <<Head_>> \in Seq(Item)
  BY <1>1, Ends DEF ResponseInv, Response
<1>4. conn' \in [Requests -> ConnStates]
  BY <1>2 DEF ResponseInv, BufferTypes, ConnStates
<1>5. write_buffer' \in [Requests -> Seq(Item)]
  BY <1>2, <1>3 DEF ResponseInv, BufferTypes
<1>6. BufferTypes'
  BY <1>2, <1>4, <1>5 DEF ResponseInv, BufferTypes
<1>7. ASSUME NEW q \in Requests, q # r PROVE Response(q)'
  <2>1. sent'[q] = sent[q] /\ write_buffer'[q] = write_buffer[q] /\ format'[q] = format[q] /\ conn'[q] = conn[q]
    BY <1>2, <1>7 DEF ResponseInv, BufferTypes
  <2> QED BY <2>1, SameOut DEF ResponseInv
<1>8. Response(r)'
  <2>1. Out(r)' = write_buffer'[r]
    BY <1>1, <1>2, <1>3, <1>5, ConcatEmptySeq DEF Out
  <2>2. write_buffer'[r] \in {<<>>, <<Head_>>, <<Error>>}
    BY <1>1, <1>2 DEF ResponseInv, BufferTypes
  <2>3. Shape(<<Head_>>)
    BY DEF Shape, Head_
  <2>4. Shape(Out(r)')
    BY <2>1, <2>2, <2>3, NothingShaped
  <2>5. /\ conn'[r] # "READING"
        /\ conn'[r] = "STREAMING" /\ format'[r] = "WAV" => write_buffer'[r] = <<>>
        /\ conn'[r] = "STREAMING" /\ format'[r] # "WAV" => write_buffer'[r] = <<Head_>>
    BY <1>1, <1>2 DEF ResponseInv, BufferTypes
  <2> QED BY <1>2, <1>3, <2>1, <2>4, <2>5, HeadStreamed DEF Response, Shape, Streamed
<1> QED BY <1>1, <1>6, <1>7, <1>8 DEF ResponseInv

\* The write buffer of a connection that is closed is dropped.
LEMMA ReadResponds ==
  ASSUME ResponseInv, LoopInv, NEW r \in Requests, ReadEof(r)
  PROVE  ResponseInv'
<1>1. /\ UNCHANGED <<sent, kept, format, output_queue, inferred>>
      /\ conn' = [conn EXCEPT ![r] = "CLOSED"]
      /\ write_buffer' = [write_buffer EXCEPT ![r] = <<>>]
  BY DEF ReadEof, CloseConnection, schedulerVars, Scheduler!Cancel
<1>2. <<>> \in Seq(Item)
  OBVIOUS
<1>3. BufferTypes'
  BY <1>1, <1>2 DEF ResponseInv, BufferTypes, ConnStates
<1>4. ASSUME NEW q \in Requests, q # r PROVE Response(q)'
  <2>1. sent'[q] = sent[q] /\ write_buffer'[q] = write_buffer[q] /\ format'[q] = format[q] /\ conn'[q] = conn[q]
    BY <1>1, <1>4 DEF ResponseInv, BufferTypes
  <2> QED BY <2>1, SameOut DEF ResponseInv
<1>5. Response(r)'
  <2>1. sent[r] \in Seq(Item) /\ write_buffer[r] \in Seq(Item) /\ Shape(sent[r] \o write_buffer[r])
    BY DEF ResponseInv, BufferTypes, Response, Out
  <2>2. Shape(sent[r])
    BY <2>1, ShapePrefix
  <2>3. conn'[r] = "CLOSED" /\ sent'[r] = sent[r] /\ write_buffer'[r] = <<>>
    BY <1>1 DEF ResponseInv, BufferTypes
  <2>4. Out(r)' = sent[r]
    BY <2>1, <2>3, ConcatEmptySeq DEF Out
  <2> QED BY <2>2, <2>3, <2>4 DEF Response
<1> QED BY <1>3, <1>4, <1>5 DEF ResponseInv

\* Writing moves items from the buffer to the socket.
LEMMA WriteResponds ==
  ASSUME ResponseInv, LoopInv, NEW r \in Requests, SomeWrite(r)
  PROVE  ResponseInv'
<1>1. PICK n \in 1..Len(write_buffer[r]) : Write(r, n)
  BY DEF SomeWrite
<1> DEFINE taken == SubSeq(write_buffer[r], 1, n)
           rest == SubSeq(write_buffer[r], n + 1, Len(write_buffer[r]))
<1>2. /\ UNCHANGED <<kept, format, output_queue, inferred>>
      /\ sent' = [sent EXCEPT ![r] = @ \o taken]
      /\ write_buffer' = [write_buffer EXCEPT ![r] = rest]
      /\ conn[r] \in {"STREAMING", "WRITING"}
      /\ conn' = conn \/ conn' = [conn EXCEPT ![r] = "CLOSED"]
  BY <1>1 DEF Write, CloseConnection, schedulerVars
<1>3. /\ write_buffer[r] \in Seq(Item) /\ sent[r] \in Seq(Item) /\ Len(write_buffer[r]) \in Nat
      /\ n \in 1..Len(write_buffer[r])
  BY DEF ResponseInv, BufferTypes
<1>4. taken \in Seq(Item) /\ rest \in Seq(Item) /\ taken \o rest = write_buffer[r]
  <2>1. taken \in Seq(Item) /\ rest \in Seq(Item)
    BY <1>3
  <2>2. taken \o rest = SubSeq(write_buffer[r], 1, Len(write_buffer[r]))
    BY <1>3, ConcatAdjacentSubSeq, SMT
  <2>3. SubSeq(write_buffer[r], 1, Len(write_buffer[r])) = write_buffer[r]
    BY <1>3, SubSeqFull
  <2> QED BY <2>1, <2>2, <2>3
<1> HIDE DEF taken, rest
<1>5. (sent[r] \o taken) \o rest = sent[r] \o write_buffer[r]
  <2>1. (sent[r] \o taken) \o rest = sent[r] \o (taken \o rest)
    BY <1>3, <1>4, ConcatItems
  <2> QED BY <1>4, <2>1
<1>6. sent[r] \o taken \in Seq(Item)
  BY <1>3, <1>4
<1>7. sent' \in [Requests -> Seq(Item)] /\ write_buffer' \in [Requests -> Seq(Item)]
  BY <1>2, <1>4, <1>6 DEF ResponseInv, BufferTypes
<1>8. conn' \in [Requests -> ConnStates]
  BY <1>2 DEF ResponseInv, BufferTypes, ConnStates
<1>9. BufferTypes'
  BY <1>2, <1>7, <1>8 DEF ResponseInv, BufferTypes
<1>10. ASSUME NEW q \in Requests, q # r PROVE Response(q)'
  <2>1. sent'[q] = sent[q] /\ write_buffer'[q] = write_buffer[q] /\ format'[q] = format[q] /\ conn'[q] = conn[q]
    BY <1>2, <1>10 DEF ResponseInv, BufferTypes
  <2> QED BY <2>1, SameOut DEF ResponseInv
<1>11. Response(r)'
  <2>1. Out(r)' = Out(r)
    BY <1>2, <1>5 DEF Out, ResponseInv, BufferTypes
  <2>2. write_buffer[r] # <<>>
    BY <1>3
  <2>3. conn'[r] # "READING" /\ (conn'[r] = "STREAMING" => conn[r] = "STREAMING") /\ format'[r] = format[r]
    BY <1>2 DEF ResponseInv, BufferTypes
  <2>4. ~(conn[r] = "STREAMING" /\ format[r] = "WAV")
    BY <2>2 DEF ResponseInv, Response
  <2>5. Response(r)
    BY DEF ResponseInv
  <2> QED BY <2>1, <2>3, <2>4, <2>5 DEF Response
<1> QED BY <1>9, <1>10, <1>11 DEF ResponseInv

\* A popped chunk is kept back or appended to the response.
LEMMA PopResponds ==
  ASSUME ResponseInv, LoopInv, DrainPop
  PROVE  ResponseInv'
<1>1. PICK r \in Requests : r = cur /\ conn[r] = "STREAMING"
  BY DEF DrainPop, LoopInv, VisitAgrees
<1> DEFINE all == Append(kept[r], Head(output_queue[r]))
<1>2. /\ output_queue[r] # <<>>
      /\ output_queue' = [output_queue EXCEPT ![r] = Tail(@)]
      /\ UNCHANGED <<sent, format, conn, inferred>>
      /\ \/ kept' = [kept EXCEPT ![r] = all] /\ UNCHANGED write_buffer
         \/ /\ format[r] # "WAV"
            /\ write_buffer' = [write_buffer EXCEPT ![r] = @ \o Audio(all)]
            /\ kept' = [kept EXCEPT ![r] = <<>>]
  BY <1>1 DEF DrainPop, Scheduler!TryPop
<1>3. all \in Seq(Nat) /\ Tail(output_queue[r]) \in Seq(Nat) /\ <<>> \in Seq(Nat)
  BY <1>1, <1>2 DEF ResponseInv, BufferTypes
<1> HIDE DEF all
<1>4. Audio(all) \in Seq(Item) /\ write_buffer[r] \in Seq(Item) /\ sent[r] \in Seq(Item)
  BY <1>1, <1>3, AudioItems DEF ResponseInv, BufferTypes
<1>5. write_buffer[r] \o Audio(all) \in Seq(Item)
  BY <1>4
<1>6. output_queue' \in [Requests -> Seq(Nat)]
  BY <1>2, <1>3 DEF ResponseInv, BufferTypes
<1>7. kept' \in [Requests -> Seq(Nat)]
  BY <1>2, <1>3 DEF ResponseInv, BufferTypes
<1>8. write_buffer' \in [Requests -> Seq(Item)]
  BY <1>2, <1>5 DEF ResponseInv, BufferTypes
<1>9. BufferTypes'
  BY <1>2, <1>6, <1>7, <1>8 DEF ResponseInv, BufferTypes
<1>10. ASSUME NEW q \in Requests, q # r \/ UNCHANGED write_buffer PROVE Response(q)'
  <2>1. sent'[q] = sent[q] /\ write_buffer'[q] = write_buffer[q] /\ format'[q] = format[q] /\ conn'[q] = conn[q]
    BY <1>2, <1>10 DEF ResponseInv, BufferTypes
  <2> QED BY <2>1, SameOut DEF ResponseInv
<1>11. ASSUME format[r] # "WAV", write_buffer' = [write_buffer EXCEPT ![r] = @ \o Audio(all)]
       PROVE  Response(r)'
  <2>1. Out(r)' = sent[r] \o (write_buffer[r] \o Audio(all))
    BY <1>1, <1>2, <1>11 DEF Out, ResponseInv, BufferTypes
  <2>2. Out(r)' = Out(r) \o Audio(all)
    BY <1>4, <2>1, ConcatItems DEF Out
  <2>3. Out(r) \in Seq(Item) /\ Streamed(Out(r))
    BY <1>1, <1>4, <1>11 DEF Out, ResponseInv, Response
  <2>4. Streamed(Out(r)') /\ Shape(Out(r)')
    BY <1>3, <2>2, <2>3, StreamedGrows
  <2>5. Streamed(Out(r))' /\ Shape(Out(r))'
    BY <2>4 DEF Streamed, Shape, Error
  <2> QED BY <1>1, <1>2, <1>11, <2>5 DEF Response
<1> QED BY <1>1, <1>2, <1>9, <1>10, <1>11 DEF ResponseInv

\* A response is completed by items that make it well shaped.
LEMMA CompleteResponds ==
  ASSUME ResponseInv, NEW r \in Requests, NEW items \in Seq(Item), Shape(sent[r] \o items),
         conn' = [conn EXCEPT ![r] = "WRITING"],
         write_buffer' = [write_buffer EXCEPT ![r] = items],
         kept' = [kept EXCEPT ![r] = <<>>] \/ UNCHANGED kept,
         UNCHANGED <<sent, format, output_queue, inferred>>
  PROVE  ResponseInv'
<1>1. <<>> \in Seq(Nat)
  OBVIOUS
<1>2. kept' \in [Requests -> Seq(Nat)]
  BY <1>1 DEF ResponseInv, BufferTypes
<1>3. write_buffer' \in [Requests -> Seq(Item)]
  BY DEF ResponseInv, BufferTypes
<1>4. conn' \in [Requests -> ConnStates]
  BY DEF ResponseInv, BufferTypes, ConnStates
<1>5. BufferTypes'
  BY <1>2, <1>3, <1>4 DEF ResponseInv, BufferTypes
<1>6. ASSUME NEW q \in Requests, q # r PROVE Response(q)'
  <2>1. sent'[q] = sent[q] /\ write_buffer'[q] = write_buffer[q] /\ format'[q] = format[q] /\ conn'[q] = conn[q]
    BY <1>6 DEF ResponseInv, BufferTypes
  <2> QED BY <2>1, SameOut DEF ResponseInv
<1>7. Response(r)'
  <2>1. Out(r)' = sent[r] \o items /\ conn'[r] = "WRITING"
    BY DEF Out, ResponseInv, BufferTypes
  <2>2. Shape(Out(r))'
    BY <2>1 DEF Shape, Error
  <2> QED BY <2>1, <2>2 DEF Response
<1> QED BY <1>5, <1>6, <1>7 DEF ResponseInv

\* The drain ends a response, in each format, with an end or an error.
LEMMA FinishResponds ==
  ASSUME ResponseInv, LoopInv, FinishStream \/ FinishWav \/ FinishWavError
  PROVE  ResponseInv'
<1>1. PICK r \in Requests : r = cur /\ conn[r] = "STREAMING" /\ write_buffer[r] = <<>>
  BY DEF FinishStream, FinishWav, FinishWavError, AtEnd, LoopInv, VisitAgrees
<1>2. /\ conn' = [conn EXCEPT ![r] = "WRITING"]
      /\ UNCHANGED <<sent, format, output_queue, inferred>>
      /\ kept' = [kept EXCEPT ![r] = <<>>] \/ UNCHANGED kept
  BY <1>1 DEF FinishStream, FinishWav, FinishWavError, Respond, schedulerVars
<1>3. /\ sent[r] \in Seq(Item) /\ kept[r] \in Seq(Nat)
      /\ <<Error>> \in Seq(Item) /\ <<End>> \in Seq(Item) /\ <<Head_>> \in Seq(Item)
  BY <1>1, Ends DEF ResponseInv, BufferTypes
<1>4. Audio(kept[r]) \in Seq(Item) /\ Audio(kept[r]) \o <<End>> \in Seq(Item)
  BY <1>3, AudioItems
<1>5. Out(r) = sent[r]
  BY <1>1, <1>3, ConcatEmptySeq DEF Out
<1>6. CASE FinishStream
  <2>1. Streamed(sent[r])
    BY <1>1, <1>5, <1>6 DEF FinishStream, ResponseInv, Response
  <2>2. \/ write_buffer' = [write_buffer EXCEPT ![r] = Audio(kept[r]) \o <<End>>]
        \/ write_buffer' = [write_buffer EXCEPT ![r] = <<End>>]
    BY <1>1, <1>6 DEF FinishStream, Respond
  <2>3. Shape(sent[r] \o <<End>>)
    BY <1>3, <2>1, EndShape
  <2>4. sent[r] \o Audio(kept[r]) \in Seq(Item) /\ Streamed(sent[r] \o Audio(kept[r]))
    BY <1>3, <1>4, <2>1, StreamedGrows
  <2>5. Shape((sent[r] \o Audio(kept[r])) \o <<End>>)
    BY <2>4, EndShape
  <2>6. Shape(sent[r] \o (Audio(kept[r]) \o <<End>>))
    BY <1>3, <1>4, <2>5, ConcatItems
  <2> QED BY <1>2, <1>3, <1>4, <2>2, <2>3, <2>6, CompleteResponds
<1>7. CASE FinishWav
  <2>1. sent[r] = <<>> /\ write_buffer' = [write_buffer EXCEPT ![r] = <<Head_>> \o Audio(kept[r]) \o <<End>>]
    BY <1>1, <1>7 DEF FinishWav, Respond, ResponseInv, Response
  <2>2. PICK h \in Seq(Item) : h = <<Head_>> /\ Streamed(h)
    BY HeadStreamed
  <2>3. h \o Audio(kept[r]) \in Seq(Item) /\ Streamed(h \o Audio(kept[r]))
    <3>1. h \o Audio(kept[r]) \in Seq(Item)
      BY <1>4
    <3>2. \A a \in Seq(Item), s \in Seq(Nat) : Streamed(a) => Streamed(a \o Audio(s))
      BY StreamedGrows
    <3> QED BY <1>3, <2>2, <3>1, <3>2
  <2>4. PICK w \in Seq(Item) : w = h \o Audio(kept[r]) \o <<End>> /\ Shape(w)
    <3>1. h \o Audio(kept[r]) \o <<End>> \in Seq(Item)
      BY <1>3, <2>3
    <3> QED BY <2>3, <3>1, EndShape
  <2>5. sent[r] \o w = w /\ write_buffer' = [write_buffer EXCEPT ![r] = w]
    BY <2>1, <2>2, <2>4, ConcatEmptySeq
  <2> QED BY <1>2, <2>4, <2>5, CompleteResponds
<1>8. CASE FinishWavError
  <2>1. sent[r] = <<>> /\ write_buffer' = [write_buffer EXCEPT ![r] = <<Error>>]
    BY <1>1, <1>8 DEF FinishWavError, Respond, ResponseInv, Response
  <2>2. <<>> \o <<Error>> = <<Error>>
    BY <1>3, ConcatEmptySeq
  <2> QED BY <1>2, <1>3, <2>1, <2>2, NothingShaped, CompleteResponds
<1> QED BY <1>6, <1>7, <1>8

LEMMA StepResponse == ResponseInv /\ LoopInv /\ [Next]_vars => ResponseInv'
<1> SUFFICES ASSUME ResponseInv, LoopInv, [Next]_vars PROVE ResponseInv'
  OBVIOUS
<1>1. CASE WorkerStep \/ UNCHANGED vars
  BY <1>1, QuietSteps
<1>2. CASE FinishVisit
  BY <1>2, StartResponds, PopResponds, FinishResponds, QuietSteps DEF FinishVisit
<1>3. CASE \E r \in Requests : Visit(r) \/ Leave(r)
  BY <1>3, ReadResponds, WriteResponds, QuietSteps DEF Visit
<1> QED BY <1>1, <1>2, <1>3 DEF Next

LEMMA ResponseHolds == SafetySpec => []ResponseInv
BY InitResponse, StepResponse, LoopHolds, PTL DEF SafetySpec

\* However its stream begins, pauses, fails or ends, and wherever it is cut off,
\* a client gets an error and nothing else, or no error; nothing comes behind
\* the end of the body, and a head only comes first.
THEOREM OneResponseHolds == SafetySpec => []OneResponse
<1>1. ResponseInv => OneResponse
  <2> SUFFICES ASSUME ResponseInv, NEW r \in Requests
               PROVE  /\ Has(Out(r), Error) => Out(r) = <<Error>>
                      /\ Has(Out(r), End) => Out(r)[Len(Out(r))] = End
                      /\ \A i \in DOMAIN Out(r) : Out(r)[i] = Head_ => i = 1
    BY DEF OneResponse, Out
  <2>1. Shape(Out(r))
    BY DEF ResponseInv, Response
  <2>2. Error.kind = "error" /\ End.kind = "end" /\ Head_.kind = "head"
    BY DEF Error, End, Head_
  <2>3. CASE Out(r) = <<Error>>
    <3>1. DOMAIN <<Error>> = {1} /\ <<Error>>[1] = Error /\ Error # End /\ Error # Head_
      BY <2>2
    <3> QED BY <2>3, <3>1 DEF Has
  <2>4. CASE Out(r) # <<Error>>
    <3>1. \A i \in DOMAIN Out(r) : /\ Out(r)[i] # Error
                                   /\ Out(r)[i] = Head_ => i = 1
                                   /\ Out(r)[i] = End => i = Len(Out(r))
      BY <2>1, <2>2, <2>4 DEF Shape
    <3> QED BY <3>1 DEF Has
  <2> QED BY <2>3, <2>4
<1> QED BY <1>1, ResponseHolds, PTL

-----------------------------------------------------------------------------
(* Counting the audio in a piece of a response. *)

\* The numbers from one to n are finitely many, and n.
LEMMA UpTo ==
  ASSUME NEW n \in Nat
  PROVE  IsFiniteSet(1..n) /\ Cardinality(1..n) = n
<1>1. 1 \in Int /\ n \in Int /\ (IF 1 > n THEN 0 ELSE n - 1 + 1) = n
  OBVIOUS
<1> QED BY <1>1, FS_Interval

\* The audio of a response is some of its finitely many items.
LEMMA CountType ==
  ASSUME NEW a \in Seq(Item)
  PROVE  /\ IsFiniteSet(AudioAt(a)) /\ AudioAt(a) \subseteq 1..Len(a)
         /\ Chunks(a) \in Nat /\ Len(a) \in Nat /\ Chunks(a) <= Len(a)
<1>1. Len(a) \in Nat /\ AudioAt(a) \subseteq 1..Len(a)
  BY DEF AudioAt
<1>2. IsFiniteSet(1..Len(a)) /\ Cardinality(1..Len(a)) <= Len(a)
  BY <1>1, UpTo
<1>3. IsFiniteSet(AudioAt(a)) /\ Cardinality(AudioAt(a)) <= Cardinality(1..Len(a))
  BY <1>1, <1>2, FS_Subset
<1>4. Cardinality(AudioAt(a)) \in Nat /\ Cardinality(1..Len(a)) \in Nat
  BY <1>2, <1>3, FS_CardinalityType
<1> QED BY <1>1, <1>2, <1>3, <1>4 DEF Chunks

\* Moving a set of positions further back does not change how many they are.
LEMMA ShiftedCount ==
  ASSUME NEW S \in SUBSET Nat, IsFiniteSet(S), NEW n \in Nat
  PROVE  /\ IsFiniteSet({i + n : i \in S})
         /\ Cardinality({i + n : i \in S}) = Cardinality(S)
<1> DEFINE T == {i + n : i \in S}
           f == [i \in S |-> i + n]
<1>1. f \in Bijection(S, T)
  <2>1. f \in [S -> T]
    OBVIOUS
  <2>2. \A i, j \in S : f[i] = f[j] => i = j
    OBVIOUS
  <2>3. \A t \in T : \E i \in S : f[i] = t
    OBVIOUS
  <2> HIDE DEF f, T
  <2> QED BY <2>1, <2>2, <2>3, Fun_IsBij
<1>2. ExistsBijection(S, T)
  BY <1>1 DEF ExistsBijection
<1> QED BY <1>2, FS_Bijection

\* The audio of a longer response: what was there, and what is added.
LEMMA AudioConcat ==
  ASSUME NEW a \in Seq(Item), NEW b \in Seq(Item)
  PROVE  AudioAt(a \o b) = AudioAt(a) \cup {i + Len(a) : i \in AudioAt(b)}
<1>1. /\ Len(a) \in Nat /\ Len(b) \in Nat
      /\ DOMAIN a = 1..Len(a) /\ DOMAIN b = 1..Len(b) /\ DOMAIN (a \o b) = 1..Len(a) + Len(b)
      /\ \A i \in 1..Len(a) + Len(b) : (a \o b)[i] = IF i <= Len(a) THEN a[i] ELSE b[i - Len(a)]
  BY ConcatProperties
<1>2. ASSUME NEW i \in AudioAt(a \o b), i > Len(a)
      PROVE  i - Len(a) \in AudioAt(b)
  BY <1>1, <1>2 DEF AudioAt
<1>3. ASSUME NEW i \in AudioAt(a \o b), i <= Len(a)
      PROVE  i \in AudioAt(a)
  BY <1>1, <1>3 DEF AudioAt
<1>4. ASSUME NEW i \in AudioAt(a) PROVE i \in AudioAt(a \o b)
  BY <1>1, <1>4 DEF AudioAt
<1>5. ASSUME NEW i \in AudioAt(b) PROVE i + Len(a) \in AudioAt(a \o b)
  BY <1>1, <1>5 DEF AudioAt
<1>6. AudioAt(a \o b) \subseteq Nat
  BY <1>1 DEF AudioAt
<1>7. ASSUME NEW i \in AudioAt(a \o b)
      PROVE  i \in AudioAt(a) \cup {j + Len(a) : j \in AudioAt(b)}
  <2>1. CASE i <= Len(a)
    BY <1>3, <2>1
  <2>2. CASE i > Len(a)
    <3>1. i - Len(a) \in AudioAt(b) /\ i = (i - Len(a)) + Len(a)
      BY <1>1, <1>2, <1>6, <2>2
    <3> QED BY <3>1
  <2> QED BY <1>1, <1>6, <2>1, <2>2
<1> QED BY <1>4, <1>5, <1>7

\* Counting the chunks of two pieces is adding up.
LEMMA CountConcat ==
  ASSUME NEW a \in Seq(Item), NEW b \in Seq(Item)
  PROVE  Chunks(a \o b) = Chunks(a) + Chunks(b)
<1> DEFINE B == {i + Len(a) : i \in AudioAt(b)}
<1>1. /\ IsFiniteSet(AudioAt(a)) /\ AudioAt(a) \subseteq 1..Len(a) /\ Len(a) \in Nat
      /\ IsFiniteSet(AudioAt(b)) /\ AudioAt(b) \subseteq 1..Len(b) /\ Len(b) \in Nat
      /\ Chunks(a) \in Nat /\ Chunks(b) \in Nat
  BY CountType
<1>2. IsFiniteSet(B) /\ Cardinality(B) = Chunks(b)
  <2>1. AudioAt(b) \in SUBSET Nat
    BY <1>1
  <2> QED BY <1>1, <2>1, ShiftedCount DEF Chunks
<1>3. AudioAt(a) \cap B = {}
  BY <1>1
<1>4. Cardinality(AudioAt(a) \cup B) = Chunks(a) + Chunks(b) - Cardinality({})
  BY <1>1, <1>2, <1>3, FS_Union DEF Chunks
<1>5. Cardinality({}) = 0
  BY FS_EmptySet
<1>6. AudioAt(a \o b) = AudioAt(a) \cup B
  BY AudioConcat
<1> HIDE DEF B
<1> QED BY <1>1, <1>4, <1>5, <1>6 DEF Chunks

\* What is added behind leaves every chunk its place, and goes on counting.
LEMMA PlaceConcat ==
  ASSUME NEW a \in Seq(Item), NEW b \in Seq(Item)
  PROVE  /\ \A i \in AudioAt(a) : Place(a \o b, i) = Place(a, i)
         /\ \A i \in AudioAt(b) : Place(a \o b, i + Len(a)) = Chunks(a) + Place(b, i)
<1>1. /\ IsFiniteSet(AudioAt(a)) /\ AudioAt(a) \subseteq 1..Len(a) /\ Len(a) \in Nat
      /\ IsFiniteSet(AudioAt(b)) /\ AudioAt(b) \subseteq 1..Len(b) /\ Len(b) \in Nat
      /\ Chunks(a) \in Nat /\ Chunks(b) \in Nat
  BY CountType
<1>2. AudioAt(a \o b) = AudioAt(a) \cup {i + Len(a) : i \in AudioAt(b)}
  BY AudioConcat
<1>3. ASSUME NEW i \in AudioAt(a)
      PROVE  Place(a \o b, i) = Place(a, i)
  <2>1. {j \in AudioAt(a \o b) : j <= i} = {j \in AudioAt(a) : j <= i}
    BY <1>1, <1>2, <1>3
  <2> QED BY <2>1 DEF Place
<1>4. ASSUME NEW i \in AudioAt(b)
      PROVE  Place(a \o b, i + Len(a)) = Chunks(a) + Place(b, i)
  <2> DEFINE B == {j \in AudioAt(b) : j <= i}
             C == {j + Len(a) : j \in B}
  <2>1. {j \in AudioAt(a \o b) : j <= i + Len(a)} = AudioAt(a) \cup C
    <3>1. \A j \in AudioAt(a) : j <= i + Len(a)
      BY <1>1, <1>4
    <3>2. \A j \in AudioAt(b) : j + Len(a) <= i + Len(a) <=> j <= i
      BY <1>1, <1>4
    <3> QED BY <1>2, <3>1, <3>2
  <2>2. IsFiniteSet(B) /\ B \in SUBSET Nat
    BY <1>1, FS_Subset
  <2>3. IsFiniteSet(C) /\ Cardinality(C) = Cardinality(B)
    BY <1>1, <2>2, ShiftedCount
  <2>4. AudioAt(a) \cap C = {}
    BY <1>1
  <2>5. Cardinality(AudioAt(a) \cup C) = Chunks(a) + Cardinality(B) - Cardinality({})
    BY <1>1, <2>3, <2>4, FS_Union DEF Chunks
  <2>6. Cardinality(B) \in Nat
    BY <2>2, FS_CardinalityType
  <2>7. Cardinality({}) = 0
    BY FS_EmptySet
  <2>8. Place(a \o b, i + Len(a)) = Cardinality(AudioAt(a) \cup C) /\ Place(b, i) = Cardinality(B)
    BY <2>1 DEF Place
  <2> HIDE DEF B, C
  <2> QED BY <1>1, <2>5, <2>6, <2>7, <2>8
<1> QED BY <1>3, <1>4

\* An encoded piece of audio is all audio; a head, an end or an error is none.
LEMMA CountAudio ==
  ASSUME NEW s \in Seq(Nat)
  PROVE  /\ AudioAt(Audio(s)) = 1..Len(s) /\ Chunks(Audio(s)) = Len(s) /\ Len(s) \in Nat
         /\ \A i \in 1..Len(s) : Place(Audio(s), i) = i
<1>1. Audio(s) \in Seq(Item) /\ Len(Audio(s)) = Len(s) /\ Len(s) \in Nat /\ DOMAIN Audio(s) = 1..Len(s)
  BY AudioItems
<1>2. AudioAt(Audio(s)) = 1..Len(s)
  BY <1>1, AudioItems DEF AudioAt
<1>3. Chunks(Audio(s)) = Len(s)
  BY <1>1, <1>2, UpTo DEF Chunks
<1>4. ASSUME NEW i \in 1..Len(s) PROVE Place(Audio(s), i) = i
  <2>1. {j \in 1..Len(s) : j <= i} = 1..i
    BY <1>1
  <2>2. Cardinality(1..i) = i
    BY <1>1, UpTo
  <2> QED BY <1>2, <2>1, <2>2 DEF Place
<1> QED BY <1>1, <1>2, <1>3, <1>4

\* A head, an end, an error and nothing at all have no audio in them.
LEMMA CountOther ==
  /\ AudioAt(<<>>) = {} /\ Chunks(<<>>) = 0
  /\ AudioAt(<<Head_>>) = {} /\ Chunks(<<Head_>>) = 0
  /\ AudioAt(<<End>>) = {} /\ Chunks(<<End>>) = 0
  /\ AudioAt(<<Error>>) = {} /\ Chunks(<<Error>>) = 0
<1>1. AudioAt(<<>>) = {} /\ AudioAt(<<Head_>>) = {} /\ AudioAt(<<End>>) = {} /\ AudioAt(<<Error>>) = {}
  BY DEF AudioAt, Head_, End, Error
<1> QED BY <1>1, FS_EmptySet DEF Chunks

-----------------------------------------------------------------------------
(* What the loop knows of each response, and what the scheduler gives it. *)

Sched == INSTANCE SynthesisScheduler_proofs

\* The audio of a response is in order: each item is the chunk of its place.
InOrder(items) == \A i \in AudioAt(items) : items[i].index = Place(items, i)

\* What is in order begins in order.
LEMMA InOrderPrefix ==
  ASSUME NEW a \in Seq(Item), NEW b \in Seq(Item), InOrder(a \o b)
  PROVE  InOrder(a) /\ Chunks(a) <= Chunks(a \o b)
<1>1. Len(a) \in Nat /\ \A i \in 1..Len(a) : (a \o b)[i] = a[i]
  BY ConcatProperties
<1>2. AudioAt(a) \subseteq 1..Len(a) /\ AudioAt(a) \subseteq AudioAt(a \o b)
  BY CountType, AudioConcat
<1>3. \A i \in AudioAt(a) : Place(a \o b, i) = Place(a, i)
  BY PlaceConcat
<1>4. InOrder(a)
  BY <1>1, <1>2, <1>3 DEF InOrder
<1>5. Chunks(a \o b) = Chunks(a) + Chunks(b) /\ Chunks(a) \in Nat /\ Chunks(b) \in Nat
  BY CountConcat, CountType
<1> QED BY <1>4, <1>5

\* More audio in order keeps it in order.
LEMMA InOrderGrows ==
  ASSUME NEW a \in Seq(Item), NEW s \in Seq(Nat), InOrder(a),
         \A i \in 1..Len(s) : s[i] = Chunks(a) + i
  PROVE  /\ a \o Audio(s) \in Seq(Item) /\ InOrder(a \o Audio(s))
         /\ Chunks(a \o Audio(s)) = Chunks(a) + Len(s)
<1> DEFINE b == Audio(s)
           out == a \o b
<1>1. b \in Seq(Item) /\ Len(b) = Len(s) /\ \A i \in 1..Len(s) : b[i].index = s[i]
  <2>1. \A i \in 1..Len(s) : Audio(s)[i].index = s[i]
    BY DEF Audio
  <2> QED BY <2>1, AudioItems
<1>2. /\ AudioAt(b) = 1..Len(s) /\ Chunks(b) = Len(s) /\ Len(s) \in Nat
      /\ \A i \in 1..Len(s) : Place(b, i) = i
  BY CountAudio
<1>3. /\ Len(a) \in Nat /\ Chunks(a) \in Nat /\ AudioAt(a) \subseteq 1..Len(a)
      /\ out \in Seq(Item) /\ Chunks(out) = Chunks(a) + Chunks(b)
  BY <1>1, CountType, CountConcat
<1>4. AudioAt(out) = AudioAt(a) \cup {i + Len(a) : i \in AudioAt(b)}
  BY <1>1, AudioConcat
<1>5. /\ \A i \in AudioAt(a) : Place(out, i) = Place(a, i)
      /\ \A i \in AudioAt(b) : Place(out, i + Len(a)) = Chunks(a) + Place(b, i)
  BY <1>1, PlaceConcat
<1>6. \A i \in 1..Len(a) + Len(b) : out[i] = IF i <= Len(a) THEN a[i] ELSE b[i - Len(a)]
  BY <1>1, ConcatProperties
<1> HIDE DEF b, out
<1>7. ASSUME NEW i \in AudioAt(a) PROVE out[i].index = Place(out, i)
  <2>1. i \in 1..Len(a) + Len(b) /\ i <= Len(a)
    BY <1>1, <1>2, <1>3
  <2> QED BY <1>5, <1>6, <2>1 DEF InOrder
<1>8. ASSUME NEW i \in AudioAt(b) PROVE out[i + Len(a)].index = Place(out, i + Len(a))
  <2>1. i \in 1..Len(s) /\ i + Len(a) \in 1..Len(a) + Len(b) /\ ~(i + Len(a) <= Len(a)) /\ (i + Len(a)) - Len(a) = i
    BY <1>1, <1>2, <1>3
  <2>2. out[i + Len(a)] = b[i]
    BY <1>6, <2>1
  <2>3. b[i].index = Chunks(a) + i
    BY <1>1, <2>1
  <2> QED BY <1>2, <1>5, <2>1, <2>2, <2>3
<1>9. InOrder(out)
  BY <1>4, <1>7, <1>8 DEF InOrder
<1> QED BY <1>2, <1>3, <1>9 DEF b, out

\* What has no audio in it changes neither order nor count.
LEMMA InOrderEnd ==
  ASSUME NEW a \in Seq(Item), InOrder(a)
  PROVE  /\ a \o <<End>> \in Seq(Item) /\ InOrder(a \o <<End>>)
         /\ Chunks(a \o <<End>>) = Chunks(a)
<1>1. <<End>> \in Seq(Item)
  BY Ends
<1>2. PICK b \in Seq(Item) : b = <<End>>
  BY <1>1
<1>3. AudioAt(b) = {} /\ Chunks(b) = 0
  BY <1>2, CountOther
<1>4. AudioAt(a \o b) = AudioAt(a) /\ AudioAt(a) \subseteq 1..Len(a) /\ Len(a) \in Nat
  <2>1. AudioAt(a \o b) = AudioAt(a) \cup {i + Len(a) : i \in AudioAt(b)}
    BY AudioConcat
  <2>2. AudioAt(a \o b) = AudioAt(a)
    BY <1>3, <2>1
  <2> QED BY <2>2, CountType
<1>5. Chunks(a \o b) = Chunks(a) /\ a \o b \in Seq(Item)
  <2>1. Chunks(a \o b) = Chunks(a) + Chunks(b) /\ Chunks(a) \in Nat
    BY CountConcat, CountType
  <2> QED BY <1>3, <2>1
<1>6. \A i \in AudioAt(a) : Place(a \o b, i) = Place(a, i)
  BY PlaceConcat
<1>7. \A i \in AudioAt(a) : (a \o b)[i] = a[i]
  BY <1>4, ConcatProperties
<1>8. InOrder(a \o b)
  BY <1>4, <1>6, <1>7 DEF InOrder
<1> QED BY <1>2, <1>5, <1>8

\* A response that has no audio yet is in order.
LEMMA InOrderBegin ==
  /\ InOrder(<<>>) /\ InOrder(<<Head_>>) /\ InOrder(<<Error>>)
BY CountOther DEF InOrder
-----------------------------------------------------------------------------
\* A response that ended normally belongs to a request that is over, and is
\* whole if the synthesis succeeded.
EndedWell(r) ==
    Has(Out(r), End) =>
        /\ state[r] \in Scheduler!Terminal
        /\ state[r] = "DONE" => Chunks(Out(r)) = total[r]

\* Every chunk that was popped is in the response, or kept back, or lost with it.
Accounted(r) ==
    /\ InOrder(Out(r))
    /\ Chunks(Out(r)) <= popped[r]
    /\ conn[r] = "READING" => popped[r] = 0 /\ kept[r] = <<>>
    /\ conn[r] = "STREAMING" =>
          /\ Chunks(Out(r)) + Len(kept[r]) = popped[r]
          /\ \A i \in DOMAIN kept[r] : kept[r][i] = Chunks(Out(r)) + i

\* A response that is no longer streamed has been completed.
Completed(r) == conn[r] = "WRITING" => Has(Out(r), End) \/ Has(Out(r), Error)

\* A streaming encoder keeps audio back only while it prebuffers, and writes
\* only when the client has read almost everything.
Backlog(r) ==
    conn[r] \in {"READING", "STREAMING"} /\ format[r] # "WAV" =>
        /\ IF Prebuffering(r) THEN Chunks(Out(r)) = 0 /\ Len(kept[r]) < PrebufferTarget
           ELSE kept[r] = <<>>
        /\ Chunks(write_buffer[r]) <= BufferBound(r)

Delivery(r) == EndedWell(r) /\ Accounted(r) /\ Completed(r) /\ Backlog(r)

\* The loop remembers a final state only if the request has reached it.
DrainKnows == lpc = "drain" /\ rs \in Scheduler!Terminal => state[cur] = rs

LoopTypes ==
    /\ format \in [Requests -> Formats]
    /\ client \in [Requests -> {"here", "gone"}]
    /\ released \in [Requests -> BOOLEAN]
    /\ cur \in Requests \cup {None}
    /\ rs \in Scheduler!States

\* What the scheduler promises the loop about each request.
Feed ==
    /\ state \in [Requests -> Scheduler!States]
    /\ output_queue \in [Requests -> Seq(Nat)]
    /\ popped \in [Requests -> Nat] /\ pushed \in [Requests -> Nat]
    /\ total \in [Requests -> Nat]
    /\ \A r \in Requests :
          /\ popped[r] + Len(output_queue[r]) = pushed[r]
          /\ \A i \in DOMAIN output_queue[r] : output_queue[r][i] = popped[r] + i
          /\ Len(output_queue[r]) <= MaxPending
          /\ pushed[r] <= total[r]
          /\ state[r] = "DONE" => pushed[r] = total[r]

\* Everything the other invariants say of a state.
Grounds == LoopInv /\ ResponseInv /\ Sched!SchedulerInv /\ Feed

DeliveryInv == LoopTypes /\ DrainKnows /\ \A r \in Requests : Delivery(r)

\* The constants of the server meet the assumption of the scheduler.
LEMMA Assumed == Sched!SchedulerAssumption
BY ServerAssumption DEF Sched!SchedulerAssumption

\* What is proved of the scheduler, about one request inside the server.
LEMMA SchedulerFeeds ==
  ASSUME Sched!SchedulerInv
  PROVE  Feed
<1> USE DEF Sched!SchedulerInv
<1>1. /\ state \in [Requests -> Scheduler!States]
      /\ output_queue \in [Requests -> Seq(Nat)]
      /\ popped \in [Requests -> Nat] /\ pushed \in [Requests -> Nat] /\ inferred \in [Requests -> Nat]
      /\ total \in [Requests -> 1..MaxChunks]
  BY DEF Sched!TypeOK, Sched!States, Sched!Active, Sched!Terminal,
         Scheduler!States, Scheduler!Active, Scheduler!Terminal
<1>2. ASSUME NEW r \in Requests
      PROVE  /\ popped[r] + Len(output_queue[r]) = pushed[r]
             /\ \A i \in DOMAIN output_queue[r] : output_queue[r][i] = popped[r] + i
             /\ Len(output_queue[r]) <= MaxPending
             /\ state[r] = "DONE" => pushed[r] = total[r]
  BY DEF Sched!ChunksInOrder, Sched!QueueBound, Sched!DoneAfterLastPush
<1>3. ASSUME NEW r \in Requests PROVE pushed[r] <= inferred[r] /\ inferred[r] <= total[r]
  <2>1. /\ inferred[r] = IF held = r /\ wpc = "push" THEN pushed[r] + 1 ELSE pushed[r]
        /\ inferred[r] <= total[r]
    BY DEF Sched!SessionAgrees
  <2>2. pushed[r] \in Nat
    BY <1>1
  <2>3. inferred[r] = pushed[r] \/ inferred[r] = pushed[r] + 1
    BY <2>1
  <2> QED BY <2>1, <2>2, <2>3
<1>4. MaxChunks \in Nat
  BY ServerAssumption
<1>5. total \in [Requests -> Nat]
  BY <1>1, <1>4
<1>6. ASSUME NEW r \in Requests PROVE pushed[r] <= total[r]
  BY <1>1, <1>3, <1>5
<1> QED BY <1>1, <1>2, <1>5, <1>6 DEF Feed

\* Sched is the scheduler of the server.
LEMMA SameInit == Scheduler!Init => Sched!SchedulerInv
<1>1. Scheduler!Init => Sched!Init
  BY DEF Scheduler!Init, Sched!Init
<1>2. Sched!SchedulerAssumption => (Sched!Init => Sched!SchedulerInv)
  BY Sched!InitInv DEF Sched!InitInv
<1> QED BY <1>1, <1>2, Assumed

\* The same for its steps.
LEMMA SameStep == [Scheduler!Next]_(Scheduler!vars) => [Sched!Next]_(Sched!vars)
<1>1. Scheduler!vars = Sched!vars
  BY DEF Scheduler!vars, Sched!vars
<1>2. Scheduler!Next => Sched!Next
  BY DEF Scheduler!Next, Sched!Next, Scheduler!Consumer, Sched!Consumer,
         Scheduler!Worker, Sched!Worker, Scheduler!contextVars, Sched!contextVars,
         Scheduler!Submit, Sched!Submit, Scheduler!TryPop, Sched!TryPop,
         Scheduler!Cancel, Sched!Cancel, Scheduler!Dequeue, Sched!Dequeue,
         Scheduler!CheckCancelled, Sched!CheckCancelled, Scheduler!Prepare, Sched!Prepare,
         Scheduler!EnterInferring, Sched!EnterInferring, Scheduler!CheckRoom, Sched!CheckRoom,
         Scheduler!CheckBeforeInfer, Sched!CheckBeforeInfer, Scheduler!Infer, Sched!Infer,
         Scheduler!PushAudio, Sched!PushAudio, Scheduler!FinishRequest, Sched!FinishRequest,
         Scheduler!Requeue, Sched!Requeue, Scheduler!Goto, Sched!Goto,
         Scheduler!Finish, Sched!Finish, Scheduler!EndTurn, Sched!EndTurn,
         Scheduler!LastChunkPushed, Sched!LastChunkPushed
<1> QED BY <1>1, <1>2 DEF Scheduler!vars, Sched!vars

\* What is proved of the loop, the responses and the scheduler holds together.
LEMMA GroundsHold == SafetySpec => []Grounds
<1>1. Init => Sched!SchedulerInv
  BY SameInit DEF Init
<1>2. LoopInv /\ Sched!SchedulerInv /\ [Next]_vars => Sched!SchedulerInv'
  <2>1. Sched!SchedulerAssumption => (Sched!SchedulerInv /\ [Sched!Next]_(Sched!vars) => Sched!SchedulerInv')
    BY Sched!StepInv DEF Sched!StepInv
  <2> QED BY <2>1, Assumed, SchedulerStep, SameStep
<1>3. SafetySpec => []Sched!SchedulerInv
  BY <1>1, <1>2, LoopHolds, PTL DEF SafetySpec
<1>4. LoopInv /\ ResponseInv /\ Sched!SchedulerInv => Grounds
  BY SchedulerFeeds DEF Grounds
<1> QED BY <1>3, <1>4, LoopHolds, ResponseHolds, PTL

-----------------------------------------------------------------------------
(* Steps in which nothing is written to a client. *)

\* A request that is over stays as it is; no text changes its length.
LEMMA StateFinal ==
  ASSUME Grounds, [Next]_vars
  PROVE  /\ \A r \in Requests : state[r] \in Scheduler!Terminal => state'[r] = state[r]
         /\ UNCHANGED total
<1>1. [Sched!Next]_(Sched!vars) /\ Sched!SchedulerInv
  BY SchedulerStep, SameStep DEF Grounds
<1>2. Sched!SchedulerAssumption =>
        (Sched!SchedulerInv /\ [Sched!Next]_(Sched!vars) =>
            \A r \in Requests : state[r] \in Sched!Terminal => state'[r] = state[r])
  BY Sched!FinalStays DEF Sched!FinalStays
<1>3. Sched!SchedulerAssumption => ([Sched!Next]_(Sched!vars) => UNCHANGED total)
  BY Sched!TotalStays DEF Sched!TotalStays
<1>4. Sched!Terminal = Scheduler!Terminal
  BY DEF Sched!Terminal, Scheduler!Terminal
<1> QED BY <1>1, <1>2, <1>3, <1>4, Assumed

\* The types of what one client is sent.
LEMMA OutTypes ==
  ASSUME ResponseInv, NEW r \in Requests
  PROVE  /\ sent[r] \in Seq(Item) /\ write_buffer[r] \in Seq(Item) /\ Out(r) \in Seq(Item)
         /\ kept[r] \in Seq(Nat) /\ Len(kept[r]) \in Nat
         /\ Chunks(Out(r)) \in Nat /\ Chunks(sent[r]) \in Nat /\ Chunks(write_buffer[r]) \in Nat
         /\ Chunks(Out(r)) = Chunks(sent[r]) + Chunks(write_buffer[r])
<1>1. sent[r] \in Seq(Item) /\ write_buffer[r] \in Seq(Item) /\ kept[r] \in Seq(Nat)
  BY DEF ResponseInv, BufferTypes
<1>2. Out(r) \in Seq(Item)
  BY <1>1 DEF Out
<1>3. Chunks(Out(r)) = Chunks(sent[r]) + Chunks(write_buffer[r])
  BY <1>1, CountConcat DEF Out
<1> QED BY <1>1, <1>2, <1>3, CountType

\* Nothing is written to the client of r, which may be given up.
Quiet(r) ==
    /\ sent'[r] = sent[r] /\ write_buffer'[r] = write_buffer[r] /\ kept'[r] = kept[r]
    /\ released'[r] = released[r] /\ format'[r] = format[r] /\ total'[r] = total[r]
    /\ state[r] \in Scheduler!Terminal => state'[r] = state[r]
    /\ \/ conn'[r] = conn[r] /\ popped'[r] = popped[r]
       \/ conn'[r] = "CLOSED" /\ popped'[r] >= popped[r]

\* A response that nothing is written to stays in order and accounted for.
LEMMA QuietDelivery ==
  ASSUME Grounds, Grounds', NEW r \in Requests, Delivery(r), Quiet(r)
  PROVE  Delivery(r)'
<1>1. Out(r)' = Out(r)
  BY DEF Quiet, Out
<1>2. EndedWell(r)'
  BY <1>1 DEF Delivery, Quiet, EndedWell
<1>3. Accounted(r)'
  <2>1. popped[r] \in Nat /\ popped'[r] \in Nat
    BY DEF Grounds, Feed
  <2>2. Chunks(Out(r)) \in Nat
    BY OutTypes DEF Grounds
  <2> QED BY <1>1, <2>1, <2>2 DEF Delivery, Quiet, Accounted
<1>4. Completed(r)'
  BY <1>1 DEF Delivery, Quiet, Completed
<1>5. Backlog(r)'
  BY <1>1 DEF Delivery, Quiet, Backlog, Prebuffering, BufferBound
<1> QED BY <1>2, <1>3, <1>4, <1>5 DEF Delivery

\* The steps in which r is read from, written to or drained.
Touched(r) ==
    \/ r = cur /\ (StartStream \/ StartFails \/ DrainPop \/ FinishStream \/ FinishWav \/ FinishWavError)
    \/ ReadEof(r) \/ SomeWrite(r)

\* A step leaves every response alone but the one it touches.
LEMMA QuietOthers ==
  ASSUME Grounds, LoopTypes, [Next]_vars, NEW r \in Requests, ~Touched(r)
  PROVE  Quiet(r)
<1>1. /\ state[r] \in Scheduler!Terminal => state'[r] = state[r]
      /\ total' = total
  BY StateFinal
<1>2. /\ sent \in [Requests -> Seq(Item)] /\ write_buffer \in [Requests -> Seq(Item)]
      /\ kept \in [Requests -> Seq(Nat)] /\ conn \in [Requests -> ConnStates]
      /\ released \in [Requests -> BOOLEAN] /\ popped \in [Requests -> Nat]
  BY DEF Grounds, Feed, ResponseInv, BufferTypes, LoopTypes
<1>3. lpc # "poll" => cur \in Requests
  BY DEF Grounds, LoopInv, VisitAgrees
<1>4. CASE WorkerStep
  <2>1. UNCHANGED popped
    BY <1>4 DEF WorkerStep, Scheduler!Worker, Scheduler!Dequeue, Scheduler!CheckCancelled,
        Scheduler!Prepare, Scheduler!EnterInferring, Scheduler!CheckRoom,
        Scheduler!CheckBeforeInfer, Scheduler!Infer, Scheduler!PushAudio,
        Scheduler!FinishRequest, Scheduler!Requeue, Scheduler!contextVars
  <2> QED BY <1>1, <1>4, <2>1 DEF WorkerStep, Quiet
<1>5. CASE StartStream \/ StartFails
  <2>1. r # cur /\ cur \in Requests
    BY <1>3, <1>5 DEF Touched, StartStream, StartFails
  <2> QED BY <1>1, <1>2, <1>5, <2>1 DEF StartStream, StartFails, Respond, schedulerVars, Scheduler!Cancel, Quiet
<1>6. CASE DrainPop
  <2>1. r # cur /\ cur \in Requests
    BY <1>3, <1>6 DEF Touched, DrainPop
  <2>2. /\ UNCHANGED <<sent, conn, format>>
        /\ popped' = [popped EXCEPT ![cur] = @ + 1]
        /\ \/ kept' = [kept EXCEPT ![cur] = Append(kept[cur], Head(output_queue[cur]))]
              /\ UNCHANGED <<write_buffer, released>>
           \/ /\ kept' = [kept EXCEPT ![cur] = <<>>]
              /\ write_buffer' = [write_buffer EXCEPT ![cur] = @ \o Audio(Append(kept[cur], Head(output_queue[cur])))]
              /\ released' = [released EXCEPT ![cur] = Prebuffering(cur) \/ @]
    BY <1>6 DEF DrainPop, Scheduler!TryPop
  <2>3. /\ kept'[r] = kept[r] /\ write_buffer'[r] = write_buffer[r] /\ released'[r] = released[r]
        /\ popped'[r] = popped[r]
    BY <1>2, <2>1, <2>2
  <2> QED BY <1>1, <2>2, <2>3 DEF Quiet
<1>7. CASE FinishStream \/ FinishWav \/ FinishWavError
  <2>1. r # cur /\ cur \in Requests
    BY <1>3, <1>7 DEF Touched, FinishStream, FinishWav, FinishWavError, AtEnd
  <2>2. /\ UNCHANGED <<sent, format, released, popped>>
        /\ \E items : write_buffer' = [write_buffer EXCEPT ![cur] = items]
        /\ conn' = [conn EXCEPT ![cur] = "WRITING"]
        /\ kept' = [kept EXCEPT ![cur] = <<>>] \/ UNCHANGED kept
    BY <1>7 DEF FinishStream, FinishWav, FinishWavError, Respond, schedulerVars
  <2>3. write_buffer'[r] = write_buffer[r] /\ kept'[r] = kept[r] /\ conn'[r] = conn[r]
    BY <1>2, <2>1, <2>2
  <2> QED BY <1>1, <2>2, <2>3 DEF Quiet
<1>8. CASE EncodeFails
  <2>1. cur \in Requests
    BY <1>3, <1>8 DEF EncodeFails
  <2>2. /\ UNCHANGED <<sent, format, released, write_buffer, kept>>
        /\ popped' = [popped EXCEPT ![cur] = @ + 1]
        /\ conn' = [conn EXCEPT ![cur] = "CLOSED"]
    BY <1>8 DEF EncodeFails, CloseConnection, Scheduler!TryPop
  <2>3. /\ r = cur => conn'[r] = "CLOSED" /\ popped'[r] >= popped[r]
        /\ r # cur => conn'[r] = conn[r] /\ popped'[r] = popped[r]
    BY <1>2, <2>1, <2>2
  <2> QED BY <1>1, <2>2, <2>3 DEF Quiet
<1>9. CASE FinishFails
  <2>1. /\ UNCHANGED <<sent, format, released, write_buffer, kept, popped>>
        /\ conn' = [conn EXCEPT ![cur] = "CLOSED"]
    BY <1>9 DEF FinishFails, CloseConnection, schedulerVars
  <2>2. popped[r] \in Nat /\ (conn'[r] = conn[r] \/ conn'[r] = "CLOSED")
    BY <1>2, <2>1
  <2> QED BY <1>1, <2>1, <2>2 DEF Quiet
<1>10. CASE DrainPauses \/ UNCHANGED vars
  BY <1>1, <1>10 DEF DrainPauses, schedulerVars, vars, Quiet
<1>11. ASSUME NEW q \in Requests, Dispatch(q) \/ DrainBegin(q) \/ Leave(q)
       PROVE  Quiet(r)
  <2>1. UNCHANGED <<sent, format, released, write_buffer, kept, popped, conn>>
    BY <1>11 DEF Dispatch, DrainBegin, Leave, schedulerVars, Scheduler!Submit
  <2> QED BY <1>1, <2>1 DEF Quiet
<1>12. ASSUME NEW q \in Requests, WriteFails(q)
       PROVE  Quiet(r)
  <2>1. /\ UNCHANGED <<sent, format, released, write_buffer, kept, popped>>
        /\ conn' = [conn EXCEPT ![q] = "CLOSED"]
    BY <1>12 DEF WriteFails, CloseConnection, schedulerVars
  <2>2. popped[r] \in Nat /\ (conn'[r] = conn[r] \/ conn'[r] = "CLOSED")
    BY <1>2, <2>1
  <2> QED BY <1>1, <2>1, <2>2 DEF Quiet
<1>13. ASSUME NEW q \in Requests, ReadEof(q), q # r
       PROVE  Quiet(r)
  <2>1. /\ UNCHANGED <<sent, format, released, kept, popped>>
        /\ write_buffer' = [write_buffer EXCEPT ![q] = <<>>]
        /\ conn' = [conn EXCEPT ![q] = "CLOSED"]
    BY <1>13 DEF ReadEof, CloseConnection, schedulerVars, Scheduler!Cancel
  <2>2. write_buffer'[r] = write_buffer[r] /\ conn'[r] = conn[r]
    BY <1>2, <1>13, <2>1
  <2> QED BY <1>1, <2>1, <2>2 DEF Quiet
<1>14. ASSUME NEW q \in Requests, SomeWrite(q), q # r
       PROVE  Quiet(r)
  <2>1. /\ UNCHANGED <<format, released, kept, popped>>
        /\ \E items : write_buffer' = [write_buffer EXCEPT ![q] = items]
        /\ \E items : sent' = [sent EXCEPT ![q] = items]
        /\ conn' = [conn EXCEPT ![q] = "CLOSED"] \/ UNCHANGED conn
    BY <1>14 DEF SomeWrite, Write, CloseConnection, schedulerVars
  <2>2. write_buffer'[r] = write_buffer[r] /\ sent'[r] = sent[r] /\ conn'[r] = conn[r]
    BY <1>2, <1>14, <2>1
  <2> QED BY <1>1, <2>1, <2>2 DEF Quiet
<1> QED BY <1>4, <1>5, <1>6, <1>7, <1>8, <1>9, <1>10, <1>11, <1>12, <1>13, <1>14
        DEF Next, FinishVisit, Visit, Touched

-----------------------------------------------------------------------------
(* Reading, writing and starting a response. *)

\* A response that is being streamed has not ended.
LEMMA StreamedOpen ==
  ASSUME NEW out, Streamed(out) \/ out = <<>>
  PROVE  ~Has(out, End) /\ ~Has(out, Error)
BY DEF Streamed, Has, End, Error

\* What a streaming connection has been sent does not end.
LEMMA StreamingOpen ==
  ASSUME ResponseInv, NEW r \in Requests, conn[r] = "STREAMING"
  PROVE  ~Has(Out(r), End) /\ ~Has(Out(r), Error)
<1>1. Streamed(Out(r)) \/ (sent[r] = <<>> /\ write_buffer[r] = <<>>)
  BY DEF ResponseInv, Response
<1>2. <<>> \in Seq(Item)
  OBVIOUS
<1>3. <<>> \o <<>> = <<>>
  BY <1>2, ConcatEmptySeq
<1> QED BY <1>1, <1>3, StreamedOpen DEF Out

\* A response with an end behind it has ended.
LEMMA EndsWithEnd ==
  ASSUME NEW a \in Seq(Item)
  PROVE  Has(a \o <<End>>, End)
<1>1. /\ Len(a) \in Nat /\ DOMAIN (a \o <<End>>) = 1..Len(a) + 1 /\ (a \o <<End>>)[Len(a) + 1] = End
  BY Ends
<1> QED BY <1>1 DEF Has

\* What is known of two pieces put together.
LEMMA ConcatFacts ==
  \A a, b \in Seq(Item) :
     /\ Len(a) \in Nat /\ Len(b) \in Nat /\ Len(a \o b) = Len(a) + Len(b)
     /\ DOMAIN (a \o b) = 1..Len(a) + Len(b)
     /\ \A i \in 1..Len(a) : (a \o b)[i] = a[i]
BY ConcatProperties

\* A client that was sent the end, or an error, was sent everything.
LEMMA EndIsLast ==
  ASSUME ResponseInv, NEW r \in Requests, Has(sent[r], End) \/ Has(sent[r], Error)
  PROVE  write_buffer[r] = <<>> /\ Out(r) = sent[r]
<1>1. sent[r] \in Seq(Item) /\ write_buffer[r] \in Seq(Item)
  BY OutTypes
<1>2. /\ Len(sent[r]) \in Nat /\ Len(write_buffer[r]) \in Nat
      /\ Len(Out(r)) = Len(sent[r]) + Len(write_buffer[r])
      /\ DOMAIN Out(r) = 1..Len(sent[r]) + Len(write_buffer[r])
      /\ \A i \in 1..Len(sent[r]) : Out(r)[i] = sent[r][i]
  BY <1>1, ConcatFacts DEF Out
<1>3. Shape(Out(r))
  BY DEF ResponseInv, Response
<1>4. PICK i \in 1..Len(sent[r]) : sent[r][i] = End \/ sent[r][i] = Error
  BY <1>1 DEF Has
<1>5. Out(r)[i] = End \/ Out(r)[i] = Error
  BY <1>2, <1>4
<1>6. \A m, n \in Nat : \A k \in 1..m : k \in 1..m + n /\ (m + n = 1 => k = m + n) /\ (k = m + n => n = 0)
  OBVIOUS
<1>7. i \in 1..Len(sent[r]) + Len(write_buffer[r])
  BY <1>2, <1>6
<1>8. i = Len(Out(r))
  <2>1. CASE Out(r) = <<Error>>
    <3>1. Len(Out(r)) = 1
      BY <2>1
    <3> QED BY <1>2, <1>6, <3>1
  <2>2. CASE Out(r) # <<Error>>
    <3>1. i \in DOMAIN Out(r)
      BY <1>2, <1>7
    <3>2. Out(r)[i].kind # "error" /\ (Out(r)[i].kind = "end" => i = Len(Out(r)))
      BY <1>3, <2>2, <3>1 DEF Shape
    <3>3. End.kind = "end" /\ Error.kind = "error"
      BY DEF End, Error
    <3> QED BY <1>5, <3>2, <3>3
  <2> QED BY <2>1, <2>2
<1>9. Len(write_buffer[r]) = 0
  BY <1>2, <1>6, <1>8
<1>10. write_buffer[r] = <<>>
  BY <1>1, <1>9
<1> QED BY <1>1, <1>10, ConcatEmptySeq DEF Out

\* A connection closed at the end of its input: what was sent is a beginning.
LEMMA ReadDelivery ==
  ASSUME Grounds, Grounds', NEW r \in Requests, Delivery(r), ReadEof(r), [Next]_vars
  PROVE  Delivery(r)'
<1>1. /\ conn'[r] = "CLOSED" /\ sent'[r] = sent[r] /\ write_buffer'[r] = <<>> /\ popped'[r] = popped[r]
  BY DEF ReadEof, CloseConnection, schedulerVars, Scheduler!Cancel, Grounds, ResponseInv, BufferTypes
<1>2. sent[r] \in Seq(Item) /\ write_buffer[r] \in Seq(Item)
  BY OutTypes DEF Grounds
<1>3. Out(r)' = sent[r]
  BY <1>1, <1>2, ConcatEmptySeq DEF Out
<1>4. EndedWell(r)'
  <2>1. Has(sent[r], End) => Out(r) = sent[r]
    BY EndIsLast DEF Grounds
  <2> QED BY <1>3, <2>1, StateFinal DEF EndedWell, Delivery, Scheduler!Terminal
<1>5. InOrder(sent[r]) /\ Chunks(sent[r]) <= Chunks(Out(r))
  BY <1>2, InOrderPrefix DEF Delivery, Accounted, Out
<1>6. Chunks(sent[r]) <= popped[r]
  <2>1. popped[r] \in Nat /\ Chunks(sent[r]) \in Nat /\ Chunks(Out(r)) \in Nat
    BY OutTypes DEF Grounds, Feed
  <2> QED BY <1>5, <2>1 DEF Delivery, Accounted
<1>7. Accounted(r)'
  BY <1>1, <1>3, <1>5, <1>6 DEF Accounted
<1> QED BY <1>1, <1>4, <1>7 DEF Delivery, Completed, Backlog

\* Writing moves items from the buffer to the socket.
LEMMA WriteMoves ==
  ASSUME ResponseInv, NEW r \in Requests, SomeWrite(r)
  PROVE  /\ Out(r)' = Out(r) /\ Chunks(write_buffer'[r]) <= Chunks(write_buffer[r])
         /\ Chunks(sent[r]) <= Chunks(sent'[r]) /\ sent'[r] \in Seq(Item)
         /\ kept' = kept /\ format' = format /\ released' = released /\ UNCHANGED schedulerVars
         /\ \/ conn' = conn
            \/ write_buffer'[r] = <<>> /\ conn[r] = "WRITING" /\ conn' = [conn EXCEPT ![r] = "CLOSED"]
<1>1. PICK n \in 1..Len(write_buffer[r]) : Write(r, n)
  BY DEF SomeWrite
<1> DEFINE taken == SubSeq(write_buffer[r], 1, n)
           rest == SubSeq(write_buffer[r], n + 1, Len(write_buffer[r]))
<1>2. /\ sent'[r] = sent[r] \o taken /\ write_buffer'[r] = rest
      /\ kept' = kept /\ format' = format /\ released' = released /\ UNCHANGED schedulerVars
      /\ conn[r] \in {"STREAMING", "WRITING"}
      /\ \/ conn' = conn
         \/ n = Len(write_buffer[r]) /\ conn[r] # "STREAMING" /\ conn' = [conn EXCEPT ![r] = "CLOSED"]
  BY <1>1 DEF Write, CloseConnection, ResponseInv, BufferTypes
<1>3. /\ write_buffer[r] \in Seq(Item) /\ sent[r] \in Seq(Item) /\ Len(write_buffer[r]) \in Nat
      /\ n \in 1..Len(write_buffer[r])
  BY DEF ResponseInv, BufferTypes
<1>4. taken \in Seq(Item) /\ rest \in Seq(Item) /\ taken \o rest = write_buffer[r]
  <2>1. taken \in Seq(Item) /\ rest \in Seq(Item)
    BY <1>3
  <2>2. taken \o rest = SubSeq(write_buffer[r], 1, Len(write_buffer[r]))
    BY <1>3, ConcatAdjacentSubSeq, SMT
  <2>3. SubSeq(write_buffer[r], 1, Len(write_buffer[r])) = write_buffer[r]
    BY <1>3, SubSeqFull
  <2> QED BY <2>1, <2>2, <2>3
<1>5. n = Len(write_buffer[r]) => rest = <<>>
  BY <1>3
<1> HIDE DEF taken, rest
<1>6. (sent[r] \o taken) \o rest = sent[r] \o write_buffer[r]
  <2>1. (sent[r] \o taken) \o rest = sent[r] \o (taken \o rest)
    BY <1>3, <1>4, ConcatItems
  <2> QED BY <1>4, <2>1
<1>7. Out(r)' = Out(r)
  BY <1>2, <1>6 DEF Out
<1>8. Chunks(rest) <= Chunks(write_buffer[r])
  <2>1. Chunks(write_buffer[r]) = Chunks(taken) + Chunks(rest)
    BY <1>4, CountConcat
  <2>2. Chunks(taken) \in Nat /\ Chunks(rest) \in Nat
    BY <1>4, CountType
  <2> QED BY <2>1, <2>2
<1>9. Chunks(sent[r]) <= Chunks(sent[r] \o taken) /\ sent[r] \o taken \in Seq(Item)
  <2>1. Chunks(sent[r] \o taken) = Chunks(sent[r]) + Chunks(taken)
    BY <1>3, <1>4, CountConcat
  <2>2. Chunks(taken) \in Nat /\ Chunks(sent[r]) \in Nat
    BY <1>3, <1>4, CountType
  <2> QED BY <1>3, <1>4, <2>1, <2>2
<1> QED BY <1>2, <1>5, <1>7, <1>8, <1>9

\* The bound on the write buffer leaves room for all that one pop encodes.
LEMMA BoundType ==
  ASSUME NEW r \in Requests
  PROVE  /\ BufferBound(r) \in Nat /\ BufferBound(r) >= HighWater + 1
         /\ format[r] = "OGG" => BufferBound(r) >= PrebufferTarget
BY ServerAssumption DEF BufferBound

\* Writing moves audio on, and neither makes nor loses any.
LEMMA WriteDelivery ==
  ASSUME Grounds, Grounds', NEW r \in Requests, Delivery(r), SomeWrite(r)
  PROVE  Delivery(r)'
<1>1. /\ Out(r)' = Out(r) /\ Chunks(write_buffer'[r]) <= Chunks(write_buffer[r])
      /\ kept' = kept /\ format' = format /\ released' = released /\ UNCHANGED <<state, popped, total>>
      /\ conn'[r] = conn[r] \/ conn'[r] = "CLOSED"
  BY WriteMoves DEF Grounds, schedulerVars, ResponseInv, BufferTypes
<1>2. EndedWell(r)' /\ Accounted(r)' /\ Completed(r)'
  BY <1>1 DEF Delivery, EndedWell, Accounted, Completed
<1>3. Chunks(write_buffer[r]) <= BufferBound(r) => Chunks(write_buffer'[r]) <= BufferBound(r)
  <2>1. Chunks(write_buffer[r]) \in Nat
    BY OutTypes DEF Grounds
  <2>2. Chunks(write_buffer'[r]) \in Nat
    <3>1. write_buffer'[r] \in Seq(Item)
      BY DEF Grounds, ResponseInv, BufferTypes
    <3> QED BY <3>1, CountType
  <2> QED BY <1>1, <2>1, <2>2, BoundType
<1>4. Backlog(r)'
  BY <1>1, <1>3 DEF Delivery, Backlog, Prebuffering, BufferBound
<1> QED BY <1>2, <1>4 DEF Delivery

\* A response begins empty, with a head, or as an error.
LEMMA StartDelivery ==
  ASSUME Grounds, Grounds', LoopTypes, NEW r \in Requests, r = cur, Delivery(r), StartStream \/ StartFails
  PROVE  Delivery(r)'
<1>1. /\ conn[r] = "READING" /\ sent[r] = <<>> /\ kept[r] = <<>> /\ popped[r] = 0
  BY DEF StartStream, StartFails, Grounds, LoopInv, VisitAgrees, ResponseInv, Response, Delivery, Accounted
<1>2. /\ sent' = sent /\ kept' = kept /\ popped' = popped /\ format' = format /\ released' = released
      /\ \/ conn'[r] = "STREAMING" /\ write_buffer'[r] \in {<<>>, <<Head_>>}
         \/ conn'[r] = "WRITING" /\ write_buffer'[r] = <<Error>>
  BY DEF StartStream, StartFails, Respond, schedulerVars, Scheduler!Cancel, Grounds, ResponseInv, BufferTypes
<1>3. Out(r)' = write_buffer'[r]
  <2>1. write_buffer'[r] \in Seq(Item)
    BY DEF Grounds, ResponseInv, BufferTypes
  <2> QED BY <1>1, <1>2, <2>1, ConcatEmptySeq DEF Out
<1>4. /\ ~Has(<<>>, End) /\ ~Has(<<Head_>>, End) /\ ~Has(<<Error>>, End) /\ Has(<<Error>>, Error)
  <2>1. /\ DOMAIN <<Head_>> = {1} /\ <<Head_>>[1] = Head_ /\ Head_ # End
        /\ DOMAIN <<Error>> = {1} /\ <<Error>>[1] = Error /\ Error # End
    BY DEF Head_, Error, End
  <2> QED BY <2>1 DEF Has
<1>5. Chunks(write_buffer'[r]) = 0 /\ InOrder(write_buffer'[r])
  BY <1>2, CountOther, InOrderBegin
<1>6. EndedWell(r)' /\ Completed(r)'
  BY <1>2, <1>3, <1>4 DEF EndedWell, Completed
<1>7. Accounted(r)'
  BY <1>1, <1>2, <1>3, <1>5 DEF Accounted
<1>8. Backlog(r)'
  <2>1. Prebuffering(r) => 0 < PrebufferTarget
    BY DEF Prebuffering
  <2>2. 0 <= BufferBound(r)
    BY BoundType
  <2>3. Prebuffering(r)' = Prebuffering(r) /\ BufferBound(r)' = BufferBound(r)
    BY <1>2 DEF Prebuffering, BufferBound
  <2> QED BY <1>1, <1>2, <1>3, <1>5, <2>1, <2>2, <2>3 DEF Backlog
<1> QED BY <1>6, <1>7, <1>8 DEF Delivery

-----------------------------------------------------------------------------
(* Popping a chunk. *)

\* The popped chunk follows what was kept back, and that follows what was sent.
LEMMA PoppedNext ==
  ASSUME Grounds, LoopTypes, NEW r \in Requests, r = cur, Delivery(r), DrainPop
  PROVE  \E all \in Seq(Nat) :
            /\ all = Append(kept[r], Head(output_queue[r])) /\ Len(all) = Len(kept[r]) + 1
            /\ \A i \in 1..Len(all) : all[i] = Chunks(Out(r)) + i
            /\ Chunks(Out(r)) + Len(all) = popped'[r]
            /\ conn[r] = "STREAMING" /\ popped'[r] = popped[r] + 1
            /\ Len(write_buffer[r]) <= HighWater
<1> DEFINE all == Append(kept[r], Head(output_queue[r]))
<1>1. conn[r] = "STREAMING" /\ output_queue[r] # <<>> /\ Len(write_buffer[r]) <= HighWater
  BY DEF DrainPop, MayPop, Grounds, LoopInv, VisitAgrees
<1>2. popped' = [popped EXCEPT ![r] = @ + 1]
  BY DEF DrainPop, Scheduler!TryPop
<1>3. popped \in [Requests -> Nat] /\ output_queue[r] \in Seq(Nat)
  BY DEF Grounds, Feed
<1>4. Head(output_queue[r]) = popped[r] + 1
  <2>1. 1 \in DOMAIN output_queue[r] /\ Head(output_queue[r]) = output_queue[r][1]
    BY <1>1, <1>3
  <2> QED BY <2>1 DEF Grounds, Feed
<1>5. kept[r] \in Seq(Nat) /\ Chunks(Out(r)) \in Nat /\ Len(kept[r]) \in Nat
  BY OutTypes DEF Grounds
<1>6. /\ Chunks(Out(r)) + Len(kept[r]) = popped[r]
      /\ \A i \in DOMAIN kept[r] : kept[r][i] = Chunks(Out(r)) + i
  BY <1>1 DEF Delivery, Accounted
<1>7. /\ all \in Seq(Nat) /\ Len(all) = Len(kept[r]) + 1
      /\ \A i \in 1..Len(kept[r]) : all[i] = kept[r][i]
      /\ all[Len(kept[r]) + 1] = popped[r] + 1
  BY <1>3, <1>4, <1>5
<1> HIDE DEF all
<1>8. DOMAIN kept[r] = 1..Len(kept[r])
  BY <1>5
<1>9. \A i \in 1..Len(all) : all[i] = Chunks(Out(r)) + i
  <2>1. \A i \in 1..Len(all) : i \in 1..Len(kept[r]) \/ i = Len(kept[r]) + 1
    BY <1>5, <1>7
  <2>2. popped[r] + 1 = Chunks(Out(r)) + (Len(kept[r]) + 1)
    BY <1>5, <1>6
  <2> QED BY <1>6, <1>7, <1>8, <2>1, <2>2
<1>10. popped'[r] = popped[r] + 1 /\ Chunks(Out(r)) + Len(all) = popped'[r]
  <2>1. popped[r] \in Nat /\ popped'[r] = popped[r] + 1
    BY <1>2, <1>3
  <2> QED BY <1>5, <1>6, <1>7, <2>1
<1> QED BY <1>1, <1>7, <1>9, <1>10 DEF all

\* Popping a chunk: it is kept back, or encoded behind what was kept.
LEMMA PopDelivery ==
  ASSUME Grounds, Grounds', LoopTypes, NEW r \in Requests, r = cur, Delivery(r), DrainPop
  PROVE  Delivery(r)'
<1>1. PICK all \in Seq(Nat) :
         /\ all = Append(kept[r], Head(output_queue[r])) /\ Len(all) = Len(kept[r]) + 1
         /\ \A i \in 1..Len(all) : all[i] = Chunks(Out(r)) + i
         /\ Chunks(Out(r)) + Len(all) = popped'[r]
         /\ conn[r] = "STREAMING" /\ popped'[r] = popped[r] + 1
         /\ Len(write_buffer[r]) <= HighWater
  BY PoppedNext
<1>2. /\ conn[r] = "STREAMING" /\ all \in Seq(Nat) /\ Len(all) = Len(kept[r]) + 1
      /\ \A i \in 1..Len(all) : all[i] = Chunks(Out(r)) + i
      /\ popped'[r] = popped[r] + 1
      /\ Chunks(Out(r)) + Len(all) = popped'[r]
      /\ Len(write_buffer[r]) <= HighWater
  BY <1>1
<1>3. /\ sent' = sent /\ format' = format /\ conn' = conn /\ state' = state /\ total' = total
      /\ \/ /\ kept'[r] = all /\ write_buffer' = write_buffer /\ released' = released
            /\ format[r] # "WAV" => Prebuffering(r) /\ ~Ready(r, Len(all), IsTerminal(rs))
         \/ /\ format[r] # "WAV"
            /\ write_buffer'[r] = write_buffer[r] \o Audio(all)
            /\ kept'[r] = <<>>
            /\ released'[r] = (Prebuffering(r) \/ released[r])
  BY <1>1 DEF DrainPop, Scheduler!TryPop, LoopTypes, Grounds, ResponseInv, BufferTypes
<1>4. /\ Chunks(Out(r)) \in Nat /\ Len(kept[r]) \in Nat /\ Len(all) \in Nat /\ popped[r] \in Nat
      /\ popped'[r] \in Nat /\ DOMAIN all = 1..Len(all)
      /\ sent[r] \in Seq(Item) /\ write_buffer[r] \in Seq(Item) /\ Out(r) \in Seq(Item)
  <2>1. ResponseInv /\ Feed
    BY DEF Grounds
  <2>2. /\ Chunks(Out(r)) \in Nat /\ Len(kept[r]) \in Nat
        /\ sent[r] \in Seq(Item) /\ write_buffer[r] \in Seq(Item) /\ Out(r) \in Seq(Item)
    BY <2>1, OutTypes
  <2>3. popped[r] \in Nat
    BY <2>1 DEF Feed
  <2>4. Len(all) \in Nat /\ DOMAIN all = 1..Len(all) /\ popped'[r] \in Nat
    BY <1>2, <2>2, <2>3
  <2> QED BY <2>2, <2>3, <2>4
<1>5. Completed(r)'
  BY <1>2, <1>3 DEF Completed
<1>6. CASE /\ kept'[r] = all /\ write_buffer' = write_buffer /\ released' = released
           /\ format[r] # "WAV" => Prebuffering(r) /\ ~Ready(r, Len(all), IsTerminal(rs))
  <2>1. Out(r)' = Out(r)
    BY <1>3, <1>6 DEF Out
  <2>2. EndedWell(r)'
    BY <1>3, <2>1 DEF Delivery, EndedWell
  <2>3. Accounted(r)'
    <3>1. Chunks(Out(r)) <= popped'[r] /\ InOrder(Out(r))
      BY <1>2, <1>4 DEF Delivery, Accounted
    <3> QED BY <1>2, <1>3, <1>4, <1>6, <2>1, <3>1 DEF Accounted
  <2>4. Backlog(r)'
    <3>1. Prebuffering(r)' = Prebuffering(r) /\ BufferBound(r)' = BufferBound(r)
      BY <1>3, <1>6 DEF Prebuffering, BufferBound
    <3>2. format[r] # "WAV" => Len(all) < PrebufferTarget
      BY <1>4, <1>6, ServerAssumption DEF Ready
    <3>3. format[r] # "WAV" => Prebuffering(r) /\ Chunks(Out(r)) = 0 /\ Chunks(write_buffer[r]) <= BufferBound(r)
      BY <1>2, <1>6 DEF Delivery, Backlog
    <3> QED BY <1>3, <1>6, <2>1, <3>1, <3>2, <3>3 DEF Backlog
  <2> QED BY <1>5, <2>2, <2>3, <2>4 DEF Delivery
<1>7. CASE /\ format[r] # "WAV"
           /\ write_buffer'[r] = write_buffer[r] \o Audio(all)
           /\ kept'[r] = <<>>
           /\ released'[r] = (Prebuffering(r) \/ released[r])
  <2>1. Audio(all) \in Seq(Item)
    BY <1>2, AudioItems
  <2>2. Out(r)' = Out(r) \o Audio(all)
    <3>1. Out(r)' = sent[r] \o (write_buffer[r] \o Audio(all))
      BY <1>3, <1>7 DEF Out
    <3>2. sent[r] \in Seq(Item) /\ write_buffer[r] \in Seq(Item)
      BY <1>4
    <3>3. (sent[r] \o write_buffer[r]) \o Audio(all) = sent[r] \o (write_buffer[r] \o Audio(all))
      BY <2>1, <3>2, ConcatItems, Zenon
    <3> QED BY <3>1, <3>3 DEF Out
  <2>3. InOrder(Out(r) \o Audio(all)) /\ Chunks(Out(r) \o Audio(all)) = Chunks(Out(r)) + Len(all)
    BY <1>2, <1>4, InOrderGrows DEF Delivery, Accounted
  <2>4. EndedWell(r)'
    <3>1. Streamed(Out(r)')
      BY <1>2, <1>3, <1>7 DEF Grounds, ResponseInv, Response
    <3>2. ~Has(Out(r)', End)
      BY <3>1, StreamedOpen
    <3> QED BY <3>2 DEF EndedWell
  <2>5. Accounted(r)'
    <3>1. Len(<<>>) = 0 /\ DOMAIN <<>> = {}
      OBVIOUS
    <3>2. Chunks(Out(r)') = popped'[r]
      BY <1>2, <2>2, <2>3
    <3>3. InOrder(Out(r)')
      BY <2>2, <2>3
    <3>4. popped'[r] + 0 = popped'[r] /\ popped'[r] <= popped'[r]
      BY <1>4
    <3> QED BY <1>2, <1>3, <1>7, <3>1, <3>2, <3>3, <3>4 DEF Accounted
  <2>6. Chunks(write_buffer'[r]) = Chunks(write_buffer[r]) + Len(all)
    <3>1. Chunks(write_buffer[r] \o Audio(all)) = Chunks(write_buffer[r]) + Chunks(Audio(all))
      BY <1>4, <2>1, CountConcat
    <3>2. Chunks(Audio(all)) = Len(all)
      BY <1>2, CountAudio
    <3> QED BY <1>7, <3>1, <3>2
  <2>7. /\ Chunks(write_buffer[r]) \in Nat /\ Len(write_buffer[r]) \in Nat
        /\ Chunks(write_buffer[r]) <= Len(write_buffer[r]) /\ Chunks(write_buffer[r]) <= Chunks(Out(r))
    <3>1. Chunks(Out(r)) = Chunks(sent[r]) + Chunks(write_buffer[r]) /\ Chunks(sent[r]) \in Nat
      BY OutTypes DEF Grounds
    <3>2. /\ Chunks(write_buffer[r]) \in Nat /\ Len(write_buffer[r]) \in Nat
          /\ Chunks(write_buffer[r]) <= Len(write_buffer[r])
      BY <1>4, CountType
    <3> QED BY <3>1, <3>2
  <2>8. Chunks(write_buffer'[r]) <= BufferBound(r)
    <3>1. CASE Prebuffering(r)
      <4>1. Chunks(Out(r)) = 0 /\ Len(kept[r]) < PrebufferTarget /\ format[r] = "OGG"
        BY <1>2, <1>7, <3>1 DEF Delivery, Backlog, Prebuffering
      <4>2. BufferBound(r) \in Nat /\ BufferBound(r) >= PrebufferTarget /\ PrebufferTarget \in Nat
        BY <4>1, BoundType, ServerAssumption
      <4> QED BY <1>2, <1>4, <2>6, <2>7, <4>1, <4>2
    <3>2. CASE ~Prebuffering(r)
      <4>1. Len(kept[r]) = 0
        BY <1>2, <1>7, <3>2 DEF Delivery, Backlog
      <4>2. BufferBound(r) \in Nat /\ BufferBound(r) >= HighWater + 1 /\ HighWater \in Nat
        BY BoundType, ServerAssumption
      <4> QED BY <1>2, <1>4, <2>6, <2>7, <4>1, <4>2
    <3> QED BY <3>1, <3>2
  <2>9. Backlog(r)'
    <3>1. ~Prebuffering(r)' /\ BufferBound(r)' = BufferBound(r)
      BY <1>3, <1>7 DEF Prebuffering, BufferBound
    <3> QED BY <1>7, <2>8, <3>1 DEF Backlog
  <2> QED BY <1>5, <2>4, <2>5, <2>9 DEF Delivery
<1> QED BY <1>3, <1>6, <1>7

-----------------------------------------------------------------------------
(* Ending a response; the invariant. *)

\* When the loop ends a response, the queue is empty and the state it read is
\* still the state of the request: everything was popped if that is DONE.
LEMMA AtTheEnd ==
  ASSUME Grounds, LoopTypes, DrainKnows, NEW r \in Requests, r = cur, Delivery(r), AtEnd
  PROVE  /\ conn[r] = "STREAMING" /\ Out(r) = sent[r] /\ rs \in Scheduler!Terminal /\ state[r] = rs
         /\ rs = "DONE" => popped[r] = total[r]
         /\ Chunks(Out(r)) + Len(kept[r]) = popped[r]
         /\ \A i \in 1..Len(kept[r]) : kept[r][i] = Chunks(Out(r)) + i
<1>1. /\ conn[r] = "STREAMING" /\ write_buffer[r] = <<>> /\ rs \in Scheduler!Terminal /\ state[r] = rs
  BY DEF AtEnd, IsTerminal, DrainKnows, Grounds, LoopInv, VisitAgrees
<1>2. sent[r] \in Seq(Item) /\ kept[r] \in Seq(Nat)
  BY OutTypes DEF Grounds
<1>3. Out(r) = sent[r]
  BY <1>1, <1>2, ConcatEmptySeq DEF Out
<1>4. output_queue[r] = <<>>
  <2>1. Len(write_buffer[r]) <= HighWater
    BY <1>1, ServerAssumption
  <2> QED BY <2>1 DEF AtEnd, MayPop
<1>5. popped[r] = pushed[r]
  <2>1. popped[r] + Len(output_queue[r]) = pushed[r] /\ popped[r] \in Nat
    BY DEF Grounds, Feed
  <2> QED BY <1>4, <2>1
<1>6. rs = "DONE" => popped[r] = total[r]
  BY <1>1, <1>5 DEF Grounds, Feed
<1>7. DOMAIN kept[r] = 1..Len(kept[r])
  BY <1>2
<1> QED BY <1>1, <1>3, <1>6, <1>7 DEF Delivery, Accounted

\* A response is completed by items that account for every chunk.
LEMMA CompleteDelivery ==
  ASSUME Grounds, Grounds', NEW r \in Requests,
         conn'[r] = "WRITING", popped'[r] = popped[r],
         Has(Out(r)', End) \/ Has(Out(r)', Error), EndedWell(r)',
         InOrder(Out(r)'), Chunks(Out(r)') <= popped[r]
  PROVE  Delivery(r)'
<1>1. Completed(r)'
  BY DEF Completed
<1>2. Accounted(r)'
  BY DEF Accounted
<1>3. Backlog(r)'
  BY DEF Backlog
<1> QED BY <1>1, <1>2, <1>3 DEF Delivery

\* Ending a response: only that of a request that is DONE gets what was kept.
LEMMA FinishDelivery ==
  ASSUME Grounds, Grounds', LoopTypes, DrainKnows, NEW r \in Requests, r = cur, Delivery(r),
         FinishStream \/ FinishWav \/ FinishWavError
  PROVE  Delivery(r)'
<1>1. AtEnd
  BY DEF FinishStream, FinishWav, FinishWavError
<1>2. /\ conn[r] = "STREAMING" /\ Out(r) = sent[r] /\ rs \in Scheduler!Terminal /\ state[r] = rs
      /\ rs = "DONE" => popped[r] = total[r]
      /\ Chunks(Out(r)) + Len(kept[r]) = popped[r]
      /\ \A i \in 1..Len(kept[r]) : kept[r][i] = Chunks(Out(r)) + i
  BY <1>1, AtTheEnd
<1>3. /\ sent' = sent /\ UNCHANGED <<state, popped, total, format>>
      /\ conn'[r] = "WRITING"
  BY DEF FinishStream, FinishWav, FinishWavError, Respond, schedulerVars, Grounds, ResponseInv, BufferTypes
<1>4. /\ Chunks(Out(r)) \in Nat /\ Len(kept[r]) \in Nat /\ popped[r] \in Nat
      /\ sent[r] \in Seq(Item) /\ kept[r] \in Seq(Nat)
  BY OutTypes DEF Grounds, Feed
<1>5. InOrder(sent[r])
  BY <1>2 DEF Delivery, Accounted
<1>6. Audio(kept[r]) \in Seq(Item) /\ <<End>> \in Seq(Item) /\ <<Head_>> \in Seq(Item)
  BY <1>4, AudioItems, Ends
<1>7. ASSUME NEW a \in Seq(Item), InOrder(a), Out(r)' = a \o <<End>>, Chunks(a) <= popped[r],
             state[r] = "DONE" => Chunks(a) = total[r]
      PROVE  Delivery(r)'
  <2>1. InOrder(Out(r)') /\ Chunks(Out(r)') = Chunks(a) /\ Has(Out(r)', End)
    BY <1>7, InOrderEnd, EndsWithEnd
  <2>2. EndedWell(r)'
    BY <1>2, <1>3, <1>7, <2>1 DEF EndedWell
  <2> QED BY <1>3, <1>7, <2>1, <2>2, CompleteDelivery
<1>8. CASE FinishStream /\ rs = "DONE"
  <2>1. write_buffer'[r] = Audio(kept[r]) \o <<End>>
    BY <1>8 DEF FinishStream, Respond, Grounds, ResponseInv, BufferTypes
  <2>2. Out(r)' = (sent[r] \o Audio(kept[r])) \o <<End>>
    <3>1. (sent[r] \o Audio(kept[r])) \o <<End>> = sent[r] \o (Audio(kept[r]) \o <<End>>)
      BY <1>4, <1>6, ConcatItems, Zenon
    <3> QED BY <1>3, <2>1, <3>1 DEF Out
  <2>3. /\ sent[r] \o Audio(kept[r]) \in Seq(Item) /\ InOrder(sent[r] \o Audio(kept[r]))
        /\ Chunks(sent[r] \o Audio(kept[r])) = Chunks(sent[r]) + Len(kept[r])
    <3>1. \A i \in 1..Len(kept[r]) : kept[r][i] = Chunks(sent[r]) + i
      BY <1>2
    <3> QED BY <1>4, <1>5, <3>1, InOrderGrows
  <2>4. popped[r] <= popped[r]
    BY <1>4
  <2> QED BY <1>2, <1>7, <1>8, <2>2, <2>3, <2>4
<1>9. CASE FinishStream /\ rs # "DONE"
  <2>1. write_buffer'[r] = <<End>>
    BY <1>9 DEF FinishStream, Respond, Grounds, ResponseInv, BufferTypes
  <2>2. Out(r)' = sent[r] \o <<End>>
    BY <1>3, <2>1 DEF Out
  <2>3. Chunks(sent[r]) <= popped[r]
    BY <1>2, <1>4
  <2> QED BY <1>2, <1>4, <1>5, <1>7, <1>9, <2>2, <2>3
<1>10. CASE FinishWav
  <2>1. rs = "DONE" /\ sent[r] = <<>> /\ write_buffer'[r] = <<Head_>> \o Audio(kept[r]) \o <<End>>
    BY <1>2, <1>10 DEF FinishWav, Respond, Grounds, ResponseInv, BufferTypes, Response
  <2>2. PICK h \in Seq(Item) : h = <<Head_>>
    BY <1>6
  <2>3. InOrder(h) /\ Chunks(h) = 0
    BY <2>2, InOrderBegin, CountOther
  <2>4. Chunks(Out(r)) = 0
    BY <1>2, <2>1, CountOther
  <2>5. /\ h \o Audio(kept[r]) \in Seq(Item) /\ InOrder(h \o Audio(kept[r]))
        /\ Chunks(h \o Audio(kept[r])) = Chunks(h) + Len(kept[r])
    <3>1. \A i \in 1..Len(kept[r]) : kept[r][i] = Chunks(h) + i
      BY <1>2, <2>3, <2>4
    <3> QED BY <1>4, <2>3, <3>1, InOrderGrows
  <2>6. Out(r)' = (h \o Audio(kept[r])) \o <<End>>
    <3>1. write_buffer'[r] \in Seq(Item)
      BY DEF Grounds, ResponseInv, BufferTypes
    <3>2. Out(r)' = write_buffer'[r]
      BY <1>3, <2>1, <3>1, ConcatEmptySeq DEF Out
    <3> QED BY <2>1, <2>2, <3>2
  <2>7. Chunks(h \o Audio(kept[r])) = popped[r] /\ popped[r] <= popped[r]
    BY <1>2, <1>4, <2>3, <2>4, <2>5
  <2> QED BY <1>2, <1>7, <2>1, <2>5, <2>6, <2>7
<1>11. CASE FinishWavError
  <2>1. sent[r] = <<>> /\ write_buffer'[r] = <<Error>>
    BY <1>2, <1>11 DEF FinishWavError, Respond, Grounds, ResponseInv, BufferTypes, Response
  <2>2. Out(r)' = <<Error>>
    <3>1. write_buffer'[r] \in Seq(Item)
      BY DEF Grounds, ResponseInv, BufferTypes
    <3>2. Out(r)' = write_buffer'[r]
      BY <1>3, <2>1, <3>1, ConcatEmptySeq DEF Out
    <3> QED BY <2>1, <3>2
  <2>3. ~Has(<<Error>>, End) /\ Has(<<Error>>, Error)
    <3>1. DOMAIN <<Error>> = {1} /\ <<Error>>[1] = Error /\ Error # End
      BY DEF Error, End
    <3> QED BY <3>1 DEF Has
  <2>4. EndedWell(r)'
    BY <2>2, <2>3 DEF EndedWell
  <2>5. InOrder(Out(r)') /\ Chunks(Out(r)') <= popped[r]
    BY <1>4, <2>2, InOrderBegin, CountOther
  <2> QED BY <1>3, <2>2, <2>3, <2>4, <2>5, CompleteDelivery
<1> QED BY <1>8, <1>9, <1>10, <1>11
-----------------------------------------------------------------------------
\* Nothing is delivered at first.
LEMMA InitDelivery == Init => DeliveryInv
<1> SUFFICES ASSUME Init PROVE DeliveryInv
  OBVIOUS
<1>1. LoopTypes
  BY DEF Init, LoopTypes, Scheduler!States
<1>2. DrainKnows
  BY DEF Init, DrainKnows
<1>3. ASSUME NEW r \in Requests PROVE Delivery(r)
  <2>1. /\ conn[r] = "READING" /\ sent[r] = <<>> /\ write_buffer[r] = <<>> /\ kept[r] = <<>>
        /\ popped[r] = 0
    BY DEF Init, Scheduler!Init
  <2>2. <<>> \in Seq(Item) /\ Len(<<>>) = 0
    OBVIOUS
  <2>3. Out(r) = <<>>
    BY <2>1, <2>2, ConcatEmptySeq DEF Out
  <2>4. ~Has(<<>>, End)
    BY DEF Has
  <2>5. EndedWell(r) /\ Completed(r)
    BY <2>1, <2>3, <2>4 DEF EndedWell, Completed
  <2>6. Accounted(r)
    BY <2>1, <2>3, CountOther, InOrderBegin DEF Accounted
  <2>7. Backlog(r)
    BY <2>1, <2>2, <2>3, CountOther, BoundType DEF Backlog, Prebuffering
  <2> QED BY <2>5, <2>6, <2>7 DEF Delivery
<1> QED BY <1>1, <1>2, <1>3 DEF DeliveryInv

\* The variables of the loop keep their types, and the loop what it read.
LEMMA StepLoopTypes ==
  ASSUME Grounds, Grounds', LoopTypes, DrainKnows, [Next]_vars
  PROVE  LoopTypes' /\ DrainKnows'
<1>1. UNCHANGED format
  BY DEF Next, FinishVisit, Visit, WorkerStep, StartStream, StartFails, DrainPop, EncodeFails,
         DrainPauses, FinishStream, FinishFails, FinishWav, FinishWavError, Dispatch, ReadEof,
         SomeWrite, Write, WriteFails, DrainBegin, Leave, vars
<1>2. client' \in [Requests -> {"here", "gone"}]
  <2>1. UNCHANGED client \/ \E r \in Requests : client' = [client EXCEPT ![r] = "gone"]
    BY DEF Next, FinishVisit, Visit, WorkerStep, StartStream, StartFails, DrainPop, EncodeFails,
         DrainPauses, FinishStream, FinishFails, FinishWav, FinishWavError, Dispatch, ReadEof,
         SomeWrite, Write, WriteFails, DrainBegin, Leave, vars
  <2> QED BY <2>1 DEF LoopTypes
<1>3. released' \in [Requests -> BOOLEAN]
  <2>1. UNCHANGED released \/ DrainPop
    BY DEF Next, FinishVisit, Visit, WorkerStep, StartStream, StartFails, EncodeFails,
         DrainPauses, FinishStream, FinishFails, FinishWav, FinishWavError, Dispatch, ReadEof,
         SomeWrite, Write, WriteFails, DrainBegin, Leave, vars
  <2>2. CASE DrainPop
    <3>1. UNCHANGED released \/ released' = [released EXCEPT ![cur] = Prebuffering(cur) \/ @]
      BY <2>2 DEF DrainPop
    <3>2. (Prebuffering(cur) \/ released[cur]) \in BOOLEAN
      OBVIOUS
    <3> QED BY <3>1, <3>2 DEF LoopTypes
  <2> QED BY <2>1, <2>2 DEF LoopTypes
<1>4. \/ UNCHANGED <<lpc, cur, rs>>
      \/ lpc' = "poll" /\ cur' = None /\ rs' = "NEW"
      \/ lpc' = "respond" /\ cur' \in Requests /\ rs' = rs
      \/ lpc' = "drain" /\ cur' \in Requests /\ rs' = state[cur'] /\ UNCHANGED state
  BY DEF Next, FinishVisit, Visit, WorkerStep, StartStream, StartFails, DrainPop, EncodeFails,
         DrainPauses, FinishStream, FinishFails, FinishWav, FinishWavError, Dispatch, ReadEof,
         SomeWrite, Write, WriteFails, DrainBegin, Leave, vars, loopVars, BackToPoll, schedulerVars
<1>5. cur' \in Requests \cup {None}
  BY <1>4 DEF LoopTypes
<1>6. rs' \in Scheduler!States
  BY <1>4 DEF LoopTypes, Grounds, Feed, Scheduler!States
<1>7. DrainKnows'
  <2>1. CASE UNCHANGED <<lpc, cur, rs>>
    <3>1. lpc = "drain" => cur \in Requests
      BY DEF Grounds, LoopInv, VisitAgrees
    <3> QED BY <2>1, <3>1, StateFinal DEF DrainKnows
  <2>2. CASE ~UNCHANGED <<lpc, cur, rs>>
    BY <1>4, <2>2 DEF DrainKnows
  <2> QED BY <2>1, <2>2
<1> QED BY <1>1, <1>2, <1>3, <1>5, <1>6, <1>7 DEF LoopTypes

\* Every step of the loop and of the worker keeps the invariant.
LEMMA StepDelivery == Grounds /\ Grounds' /\ DeliveryInv /\ [Next]_vars => DeliveryInv'
<1> SUFFICES ASSUME Grounds, Grounds', DeliveryInv, [Next]_vars PROVE DeliveryInv'
  OBVIOUS
<1>1. LoopTypes /\ DrainKnows /\ \A r \in Requests : Delivery(r)
  BY DEF DeliveryInv
<1>2. LoopTypes' /\ DrainKnows'
  BY <1>1, StepLoopTypes
<1>3. ASSUME NEW r \in Requests PROVE Delivery(r)'
  <2>1. CASE ~Touched(r)
    BY <1>1, <2>1, QuietOthers, QuietDelivery
  <2>2. CASE Touched(r)
    BY <1>1, <2>2, StartDelivery, PopDelivery, FinishDelivery, ReadDelivery, WriteDelivery DEF Touched
  <2> QED BY <2>1, <2>2
<1> QED BY <1>2, <1>3 DEF DeliveryInv

\* The invariant holds in every reachable state.
LEMMA DeliveryHolds == SafetySpec => [](Grounds /\ DeliveryInv)
BY GroundsHold, InitDelivery, StepDelivery, PTL DEF SafetySpec

-----------------------------------------------------------------------------
(* What follows for the properties of TtsServer. *)

\* What the client was sent, what waits for it and what the encoder keeps back
\* are the chunks popped so far, in the order of the text, for any texts,
\* buffers and prebuffers, and however the stream ends.
THEOREM InOrderDeliveryHolds == SafetySpec => []InOrderDelivery
<1>1. DeliveryInv => InOrderDelivery
  BY DEF DeliveryInv, Delivery, Accounted, InOrder, Out, InOrderDelivery
<1> QED BY <1>1, DeliveryHolds, PTL

\* A response that ends normally after a successful synthesis is whole,
\* although the worker may finish while the loop is draining.
THEOREM CompleteWhenDoneHolds == SafetySpec => []CompleteWhenDone
<1>1. Grounds /\ DeliveryInv => CompleteWhenDone
  <2> SUFFICES ASSUME Grounds, DeliveryInv, NEW r \in Requests, state[r] = "DONE", Has(sent[r], End)
               PROVE  Chunks(sent[r]) = total[r]
    BY DEF CompleteWhenDone
  <2>1. Out(r) = sent[r]
    BY EndIsLast DEF Grounds
  <2> QED BY <2>1 DEF DeliveryInv, Delivery, EndedWell
<1> QED BY <1>1, DeliveryHolds, PTL

\* The parts of the invariant make up the type invariant of the server.
LEMMA TypesHold ==
  ASSUME Grounds, DeliveryInv
  PROVE  TypeOK
<1>1. Sched!TypeOK
  BY DEF Grounds, Sched!SchedulerInv
<1>2. Scheduler!TypeOK
  BY <1>1 DEF Sched!TypeOK, Scheduler!TypeOK, Sched!WorkerSteps, Scheduler!WorkerSteps,
         Sched!States, Sched!Active, Sched!Terminal,
         Scheduler!States, Scheduler!Active, Scheduler!Terminal
<1>3. active_streams \in Nat
  BY FS_CardinalityType DEF Grounds, LoopInv, Counted
<1>4. conn \in [Requests -> {"READING", "STREAMING", "WRITING", "CLOSED"}]
  BY DEF Grounds, LoopInv, ConnStates
<1>5. write_buffer \in [Requests -> Seq(Item)] /\ kept \in [Requests -> Seq(Nat)] /\ sent \in [Requests -> Seq(Item)]
  BY DEF Grounds, ResponseInv, BufferTypes
<1>6. lpc \in {"poll", "respond", "drain"}
  BY DEF Grounds, LoopInv, VisitAgrees
<1> QED BY <1>2, <1>3, <1>4, <1>5, <1>6 DEF DeliveryInv, LoopTypes, TypeOK

\* The state both threads share keeps its types; no stream is cancelled and
\* every stream that ends well is whole.
THEOREM ServerInvHolds == SafetySpec => []ServerInv
<1>1. Grounds /\ DeliveryInv => TypeOK
  BY TypesHold
<1> QED BY <1>1, NeverCancelled, CompleteWhenDoneHolds, DeliveryHolds, PTL DEF ServerInv

\* A slow client of a streaming format makes the server hold no more chunks
\* than the output queue, the prebuffer and the write buffer take.
THEOREM BoundedBacklogHolds == SafetySpec => []BoundedBacklog
<1>1. Grounds /\ DeliveryInv => BoundedBacklog
  <2> SUFFICES ASSUME Grounds, DeliveryInv, NEW r \in Requests,
                      format[r] # "WAV", conn[r] = "STREAMING"
               PROVE  HeldChunks(r) <= MaxPending + BufferBound(r)
    BY DEF BoundedBacklog
  <2>1. /\ Chunks(Out(r)) \in Nat /\ Chunks(sent[r]) \in Nat /\ Chunks(write_buffer[r]) \in Nat
        /\ Chunks(Out(r)) = Chunks(sent[r]) + Chunks(write_buffer[r]) /\ Len(kept[r]) \in Nat
    BY OutTypes DEF Grounds
  <2>2. /\ popped[r] + Len(output_queue[r]) = pushed[r] /\ Len(output_queue[r]) <= MaxPending
        /\ popped[r] \in Nat /\ Len(output_queue[r]) \in Nat /\ MaxPending \in Nat
    BY ServerAssumption DEF Grounds, Feed
  <2>3. Chunks(Out(r)) + Len(kept[r]) = popped[r]
    BY DEF DeliveryInv, Delivery, Accounted
  <2>4. Chunks(write_buffer[r]) + Len(kept[r]) <= BufferBound(r)
    <3>1. CASE Prebuffering(r)
      <4>1. Chunks(Out(r)) = 0 /\ Len(kept[r]) < PrebufferTarget /\ format[r] = "OGG"
        BY <3>1 DEF DeliveryInv, Delivery, Backlog, Prebuffering
      <4>2. BufferBound(r) \in Nat /\ BufferBound(r) >= PrebufferTarget /\ PrebufferTarget \in Nat
        BY <4>1, BoundType, ServerAssumption
      <4> QED BY <2>1, <4>1, <4>2
    <3>2. CASE ~Prebuffering(r)
      <4>1. Len(kept[r]) = 0 /\ Chunks(write_buffer[r]) <= BufferBound(r)
        BY <3>2 DEF DeliveryInv, Delivery, Backlog
      <4> QED BY <2>1, <4>1
    <3> QED BY <3>1, <3>2
  <2>5. BufferBound(r) \in Nat
    BY BoundType
  <2>6. \A s, w, k, q, m, b \in Nat : q <= m /\ w + k <= b => (((s + w) + k) + q) - s <= m + b
    OBVIOUS
  <2>7. pushed[r] = ((Chunks(sent[r]) + Chunks(write_buffer[r])) + Len(kept[r])) + Len(output_queue[r])
    BY <2>1, <2>2, <2>3
  <2> QED BY <2>1, <2>2, <2>4, <2>5, <2>6, <2>7, Zenon DEF HeldChunks
<1> QED BY <1>1, DeliveryHolds, PTL

-----------------------------------------------------------------------------
(* The service that the server implements. *)

\* What the client of r knows agrees with the request and the connection.
Told(r) ==
    /\ Chunks(sent[r]) \in 0..total[r]
    /\ Has(sent[r], End) => state[r] \in Scheduler!Terminal
    /\ Has(sent[r], End) /\ state[r] = "DONE" => Chunks(sent[r]) = total[r]
    /\ conn[r] = "READING" => sent[r] = <<>>
    /\ conn[r] \in {"STREAMING", "WRITING"} => state[r] # "NEW"
    /\ conn[r] = "STREAMING" \/ write_buffer[r] # <<>> => ~Has(sent[r], End) /\ ~Has(sent[r], Error)
    /\ conn[r] = "WRITING" /\ write_buffer[r] = <<>> => Has(sent[r], End) \/ Has(sent[r], Error)

\* What the client was sent is in its response.
LEMMA SentIsPrefix ==
  ASSUME ResponseInv, NEW r \in Requests, NEW x, Has(sent[r], x)
  PROVE  Has(Out(r), x)
<1>1. sent[r] \in Seq(Item) /\ write_buffer[r] \in Seq(Item)
  BY OutTypes
<1>2. /\ Len(sent[r]) \in Nat /\ Len(write_buffer[r]) \in Nat
      /\ DOMAIN Out(r) = 1..Len(sent[r]) + Len(write_buffer[r])
      /\ \A i \in 1..Len(sent[r]) : Out(r)[i] = sent[r][i]
  BY <1>1, ConcatFacts DEF Out
<1>3. PICK i \in 1..Len(sent[r]) : sent[r][i] = x
  BY <1>1 DEF Has
<1>4. \A m, n \in Nat : \A k \in 1..m : k \in 1..m + n
  OBVIOUS
<1>5. i \in DOMAIN Out(r) /\ Out(r)[i] = x
  BY <1>2, <1>3, <1>4
<1> QED BY <1>5 DEF Has

\* The invariants say what the client knows.
LEMMA ToldHolds ==
  ASSUME Grounds, DeliveryInv, NEW r \in Requests
  PROVE  Told(r)
<1>1. Delivery(r) /\ ResponseInv
  BY DEF DeliveryInv, Grounds
<1>2. Chunks(sent[r]) \in 0..total[r]
  <2>1. /\ Chunks(sent[r]) \in Nat /\ Chunks(write_buffer[r]) \in Nat
        /\ Chunks(Out(r)) = Chunks(sent[r]) + Chunks(write_buffer[r]) /\ Chunks(Out(r)) <= popped[r]
    BY <1>1, OutTypes DEF Delivery, Accounted
  <2>2. /\ popped[r] + Len(output_queue[r]) = pushed[r] /\ pushed[r] <= total[r]
        /\ popped[r] \in Nat /\ Len(output_queue[r]) \in Nat /\ total[r] \in Nat
    BY DEF Grounds, Feed
  <2>3. \A s, w, p, q, t \in Nat : s + w <= p /\ p + q <= t => s \in 0..t
    OBVIOUS
  <2> QED BY <2>1, <2>2, <2>3
<1>3. Has(sent[r], End) => Out(r) = sent[r]
  BY <1>1, EndIsLast
<1>4. /\ Has(sent[r], End) => state[r] \in Scheduler!Terminal
      /\ Has(sent[r], End) /\ state[r] = "DONE" => Chunks(sent[r]) = total[r]
  BY <1>1, <1>3 DEF Delivery, EndedWell
<1>5. conn[r] = "READING" => sent[r] = <<>>
  BY <1>1 DEF ResponseInv, Response
<1>6. conn[r] \in {"STREAMING", "WRITING"} => state[r] # "NEW"
  BY DEF Grounds, LoopInv, ConnectionsAgree
<1>7. conn[r] = "STREAMING" \/ write_buffer[r] # <<>> => ~Has(sent[r], End) /\ ~Has(sent[r], Error)
  BY <1>1, EndIsLast, StreamingOpen, SentIsPrefix
<1>8. conn[r] = "WRITING" /\ write_buffer[r] = <<>> => Has(sent[r], End) \/ Has(sent[r], Error)
  <2>1. write_buffer[r] = <<>> => Out(r) = sent[r]
    BY <1>1, OutTypes, ConcatEmptySeq DEF Out
  <2> QED BY <1>1, <2>1 DEF Delivery, Completed
<1> QED BY <1>2, <1>4, <1>5, <1>6, <1>7, <1>8 DEF Told

\* The steps in which the client of r can learn something, or be given up.
Answers(r) ==
    \/ Dispatch(r) \/ ReadEof(r) \/ SomeWrite(r) \/ WriteFails(r)
    \/ r = cur /\ (EncodeFails \/ FinishFails)

\* What the client of r knows stays as it is.
Steady(r) ==
    /\ sent'[r] = sent[r]
    /\ state'[r] = "NEW" <=> state[r] = "NEW"
    /\ conn'[r] = "CLOSED" <=> conn[r] = "CLOSED"
    /\ conn[r] = "CLOSED" => client'[r] = client[r]

\* A step that answers nobody leaves what the client of r knows as it is.
LEMMA SteadyStep ==
  ASSUME Grounds, DeliveryInv, [Next]_vars, NEW r \in Requests, ~Answers(r)
  PROVE  Steady(r)
<1>1. /\ state \in [Requests -> Scheduler!States] /\ sent \in [Requests -> Seq(Item)]
      /\ conn \in [Requests -> ConnStates] /\ client \in [Requests -> {"here", "gone"}]
  BY DEF Grounds, Feed, ResponseInv, BufferTypes, DeliveryInv, LoopTypes
<1>2. lpc # "poll" => cur \in Requests /\ conn[cur] # "CLOSED"
  BY DEF Grounds, LoopInv, VisitAgrees
<1>3. CASE WorkerStep
  <2>1. state'[r] = "NEW" <=> state[r] = "NEW"
    BY <1>3, WorkerKeepsNew DEF WorkerStep, Grounds
  <2> QED BY <1>3, <2>1 DEF WorkerStep, Steady
<1>4. CASE StartStream \/ StartFails \/ FinishStream \/ FinishWav \/ FinishWavError
  <2>1. /\ UNCHANGED <<sent, state, client>> /\ lpc # "poll"
        /\ conn' = [conn EXCEPT ![cur] = "STREAMING"] \/ conn' = [conn EXCEPT ![cur] = "WRITING"]
    BY <1>4 DEF StartStream, StartFails, FinishStream, FinishWav, FinishWavError, AtEnd, Respond,
                schedulerVars, Scheduler!Cancel
  <2>2. conn'[r] = "CLOSED" <=> conn[r] = "CLOSED"
    BY <1>1, <1>2, <2>1
  <2> QED BY <2>1, <2>2 DEF Steady
<1>5. CASE DrainPop \/ DrainPauses \/ UNCHANGED vars
  BY <1>5 DEF DrainPop, DrainPauses, schedulerVars, Scheduler!TryPop, vars, Steady
<1>6. CASE EncodeFails \/ FinishFails
  <2>1. /\ UNCHANGED <<sent, state, client>> /\ lpc # "poll"
        /\ conn' = [conn EXCEPT ![cur] = "CLOSED"]
    BY <1>6 DEF EncodeFails, FinishFails, AtEnd, CloseConnection, schedulerVars, Scheduler!TryPop
  <2>2. r # cur
    BY <1>6 DEF Answers
  <2> QED BY <1>1, <2>1, <2>2 DEF Steady
<1>7. ASSUME NEW q \in Requests, Dispatch(q), q # r
      PROVE  Steady(r)
  BY <1>1, <1>7 DEF Dispatch, Scheduler!Submit, Steady
<1>8. ASSUME NEW q \in Requests, DrainBegin(q) \/ Leave(q)
      PROVE  Steady(r)
  BY <1>1, <1>8 DEF DrainBegin, Leave, schedulerVars, Steady
<1>9. ASSUME NEW q \in Requests, ReadEof(q) \/ WriteFails(q) \/ SomeWrite(q), q # r
      PROVE  Steady(r)
  <2>1. UNCHANGED state
    BY <1>9 DEF ReadEof, WriteFails, SomeWrite, Write, schedulerVars, Scheduler!Cancel
  <2>2. UNCHANGED sent \/ \E items : sent' = [sent EXCEPT ![q] = items]
    BY <1>9 DEF ReadEof, WriteFails, SomeWrite, Write
  <2>3. UNCHANGED conn \/ conn' = [conn EXCEPT ![q] = "CLOSED"]
    BY <1>9 DEF ReadEof, WriteFails, SomeWrite, Write, CloseConnection
  <2>4. UNCHANGED client \/ client' = [client EXCEPT ![q] = "gone"]
    BY <1>9 DEF ReadEof, WriteFails, SomeWrite, Write
  <2>5. sent'[r] = sent[r] /\ conn'[r] = conn[r] /\ client'[r] = client[r]
    BY <1>1, <1>9, <2>2, <2>3, <2>4
  <2> QED BY <2>1, <2>5 DEF Steady
<1> QED BY <1>3, <1>4, <1>5, <1>6, <1>7, <1>8, <1>9 DEF Next, FinishVisit, Visit, Answers

\* A step that answers one client tells the others nothing.
LEMMA OthersSteady ==
  ASSUME Grounds, DeliveryInv, NEW r \in Requests, NEW q \in Requests, q # r, Answers(r)
  PROVE  Steady(q)
<1>1. /\ state \in [Requests -> Scheduler!States] /\ sent \in [Requests -> Seq(Item)]
      /\ conn \in [Requests -> ConnStates] /\ client \in [Requests -> {"here", "gone"}]
  BY DEF Grounds, Feed, ResponseInv, BufferTypes, DeliveryInv, LoopTypes
<1>2. CASE Dispatch(r)
  BY <1>1, <1>2 DEF Dispatch, Scheduler!Submit, Steady
<1>3. CASE r = cur /\ (EncodeFails \/ FinishFails)
  <2>1. UNCHANGED <<sent, state, client>> /\ conn' = [conn EXCEPT ![r] = "CLOSED"]
    BY <1>3 DEF EncodeFails, FinishFails, AtEnd, CloseConnection, schedulerVars, Scheduler!TryPop
  <2> QED BY <1>1, <2>1 DEF Steady
<1>4. CASE ReadEof(r) \/ WriteFails(r) \/ SomeWrite(r)
  <2>1. UNCHANGED state
    BY <1>4 DEF ReadEof, WriteFails, SomeWrite, Write, schedulerVars, Scheduler!Cancel
  <2>2. UNCHANGED sent \/ \E items : sent' = [sent EXCEPT ![r] = items]
    BY <1>4 DEF ReadEof, WriteFails, SomeWrite, Write
  <2>3. UNCHANGED conn \/ conn' = [conn EXCEPT ![r] = "CLOSED"]
    BY <1>4 DEF ReadEof, WriteFails, SomeWrite, Write, CloseConnection
  <2>4. UNCHANGED client \/ client' = [client EXCEPT ![r] = "gone"]
    BY <1>4 DEF ReadEof, WriteFails, SomeWrite, Write
  <2>5. sent'[q] = sent[q] /\ conn'[q] = conn[q] /\ client'[q] = client[q]
    BY <1>1, <2>2, <2>3, <2>4
  <2> QED BY <2>1, <2>5 DEF Steady
<1> QED BY <1>2, <1>3, <1>4 DEF Answers

\* And to a steady client nothing happens in the service.
LEMMA SteadyService ==
  ASSUME Grounds, DeliveryInv, [Next]_vars, NEW r \in Requests, Steady(r)
  PROVE  phase'[r] = phase[r] /\ heard'[r] = heard[r]
<1>1. Has(sent[r], End) => state'[r] = state[r]
  BY ToldHolds, StateFinal DEF Told
<1>2. phase'[r] = phase[r]
  BY <1>1 DEF Steady, phase, Ended
<1> QED BY <1>2 DEF Steady, heard

\* A request whose response is on its way is open.
LEMMA OpenPhase ==
  ASSUME NEW r \in Requests, Told(r), conn[r] \in {"STREAMING", "WRITING"},
         conn[r] = "STREAMING" \/ write_buffer[r] # <<>>
  PROVE  phase[r] = "open"
BY DEF Told, phase, Ended

\* The service changes for one request only.
LEMMA Frame ==
  ASSUME NEW r \in Requests,
         \A q \in Requests \ {r} : phase'[q] = phase[q] /\ heard'[q] = heard[q]
  PROVE  /\ phase' = [phase EXCEPT ![r] = phase'[r]]
         /\ heard' = [heard EXCEPT ![r] = heard'[r]]
         /\ phase'[r] = phase[r] => phase' = phase
         /\ heard'[r] = heard[r] => heard' = heard
BY DEF phase, heard

ToldInv == \A r \in Requests : Told(r)

\* Writing to the socket lets the client hear more, or ends its answer.
LEMMA WriteService ==
  ASSUME Grounds, DeliveryInv, ToldInv, ToldInv', NEW r \in Requests, SomeWrite(r),
         total' = total, heard'[r] \in Nat,
         /\ phase' = [phase EXCEPT ![r] = phase'[r]]
         /\ heard' = [heard EXCEPT ![r] = heard'[r]]
         /\ phase'[r] = phase[r] => phase' = phase
         /\ heard'[r] = heard[r] => heard' = heard
  PROVE  [Service!Next]_(Service!serviceVars)
<1>1. /\ Out(r)' = Out(r) /\ state' = state /\ Chunks(sent[r]) <= Chunks(sent'[r])
      /\ \/ conn' = conn
         \/ write_buffer'[r] = <<>> /\ conn[r] = "WRITING" /\ conn'[r] = "CLOSED"
  <2>1. conn \in [Requests -> ConnStates]
    BY DEF Grounds, LoopInv
  <2> QED BY <2>1, WriteMoves DEF Grounds, schedulerVars
<1>2. /\ conn[r] \in {"STREAMING", "WRITING"} /\ write_buffer[r] # <<>>
      /\ client[r] = "here" /\ client' = client
  BY DEF SomeWrite, Write
<1>3. phase[r] = "open"
  BY <1>2, OpenPhase DEF ToldInv
<1>4. conn'[r] = "CLOSED" => Has(sent'[r], End) \/ Has(sent'[r], Error)
  <2> SUFFICES ASSUME conn'[r] = "CLOSED"
               PROVE  Has(sent'[r], End) \/ Has(sent'[r], Error)
    OBVIOUS
  <2>1. write_buffer'[r] = <<>> /\ conn[r] = "WRITING"
    BY <1>1, <1>2
  <2>2. sent'[r] \in Seq(Item)
    BY WriteMoves DEF Grounds
  <2>3. Out(r)' = sent'[r]
    BY <2>1, <2>2, ConcatEmptySeq DEF Out
  <2> QED BY <1>1, <2>1, <2>3 DEF DeliveryInv, Delivery, Completed
<1>5. /\ heard[r] = Chunks(sent[r]) /\ heard'[r] = Chunks(sent'[r])
      /\ heard[r] \in Nat /\ heard'[r] >= heard[r] /\ heard'[r] \in 0..total[r]
  <2>1. heard[r] = Chunks(sent[r]) /\ heard'[r] = Chunks(sent'[r])
    BY DEF heard
  <2>2. Chunks(sent[r]) \in 0..total[r] /\ Chunks(sent'[r]) \in 0..total[r]
    BY DEF ToldInv, Told
  <2>3. total[r] \in Nat
    BY DEF Grounds, Feed
  <2> QED BY <1>1, <2>1, <2>2, <2>3
<1>6. \A n \in 0..total[r] : Service!Hear(r, n) \/ Service!Fail(r, n) => Service!Next
  BY DEF Service!Next
<1>7. CASE Has(sent'[r], End) /\ state[r] = "DONE"
  <2>1. phase'[r] = "complete" /\ heard'[r] = total[r]
    BY <1>1, <1>5, <1>7 DEF phase, ToldInv, Told
  <2>2. Service!Complete(r)
    BY <1>3, <2>1 DEF Service!Complete
  <2> QED BY <2>2 DEF Service!Next
<1>8. CASE ~(Has(sent'[r], End) /\ state[r] = "DONE") /\ (Has(sent'[r], End) \/ Has(sent'[r], Error))
  <2>1. state[r] # "NEW"
    BY <1>2 DEF ToldInv, Told
  <2>2. phase'[r] = "failed"
    BY <1>1, <1>8, <2>1 DEF phase
  <2>3. Service!Fail(r, heard'[r])
    BY <1>3, <1>5, <2>2 DEF Service!Fail
  <2> QED BY <1>5, <1>6, <2>3
<1>9. CASE ~Has(sent'[r], End) /\ ~Has(sent'[r], Error)
  <2>1. phase'[r] = "open"
    <3>1. state[r] # "NEW"
      BY <1>2 DEF ToldInv, Told
    <3> QED BY <1>1, <1>4, <1>9, <3>1 DEF phase, Ended
  <2>2. phase' = phase
    BY <1>3, <2>1
  <2>3. CASE heard'[r] = heard[r]
    BY <2>2, <2>3 DEF Service!serviceVars
  <2>4. CASE heard'[r] # heard[r]
    <3>1. heard'[r] > heard[r]
      BY <1>5, <2>4
    <3>2. Service!Hear(r, heard'[r])
      BY <1>3, <2>2, <3>1 DEF Service!Hear
    <3> QED BY <1>5, <1>6, <3>2
  <2> QED BY <2>3, <2>4
<1> QED BY <1>7, <1>8, <1>9

\* Every step that answers a client is a step of the service.
LEMMA AnswerService ==
  ASSUME Grounds, DeliveryInv, ToldInv, ToldInv', [Next]_vars, NEW r \in Requests, Answers(r),
         \A q \in Requests \ {r} : phase'[q] = phase[q] /\ heard'[q] = heard[q]
  PROVE  [Service!Next]_(Service!serviceVars)
<1> USE DEF Service!serviceVars
<1>1. total' = total
  BY StateFinal
<1>2. /\ phase' = [phase EXCEPT ![r] = phase'[r]]
      /\ heard' = [heard EXCEPT ![r] = heard'[r]]
      /\ phase'[r] = phase[r] => phase' = phase
      /\ heard'[r] = heard[r] => heard' = heard
  BY Frame
<1>3. Told(r)
  BY ToldHolds
<1>4. heard[r] = Chunks(sent[r]) /\ heard[r] \in 0..total[r] /\ total[r] \in Nat
  BY <1>3 DEF heard, Told, Grounds, Feed
<1>5. /\ state \in [Requests -> Scheduler!States] /\ sent \in [Requests -> Seq(Item)]
      /\ conn \in [Requests -> ConnStates] /\ client \in [Requests -> {"here", "gone"}]
  BY DEF Grounds, Feed, ResponseInv, BufferTypes, DeliveryInv, LoopTypes
<1>6. CASE ~SomeWrite(r)
  <2>0. sent' = sent
    BY <1>6 DEF Answers, Dispatch, ReadEof, WriteFails, EncodeFails, FinishFails
  <2>1. heard' = heard
    BY <2>0 DEF heard
  <2>2. Service!Accept(r) \/ Service!Drop(r) \/ Service!Fail(r, heard[r]) \/ phase' = phase
    <3>1. CASE Dispatch(r)
      <4>1. phase[r] = "idle" /\ phase'[r] = "open"
        <5>1. /\ conn[r] = "READING" /\ conn'[r] = "READING" /\ state[r] = "NEW" /\ state'[r] # "NEW"
              /\ sent'[r] = <<>>
          BY <1>3, <1>5, <3>1 DEF Dispatch, Scheduler!Submit, Told
        <5>2. ~Has(<<>>, End) /\ ~Has(<<>>, Error)
          BY DEF Has
        <5> QED BY <5>1, <5>2 DEF phase, Ended
      <4> QED BY <1>1, <1>2, <2>1, <4>1 DEF Service!Accept
    <3>2. CASE ReadEof(r)
      <4>1. /\ conn[r] # "CLOSED" /\ conn'[r] = "CLOSED" /\ client'[r] = "gone"
            /\ UNCHANGED state
        BY <1>5, <3>2 DEF ReadEof, CloseConnection, schedulerVars, Scheduler!Cancel
      <4>2. \/ phase[r] \in {"idle", "open"} /\ phase'[r] = "dropped"
            \/ phase'[r] = phase[r]
        BY <2>0, <4>1 DEF phase, Ended
      <4> QED BY <1>1, <1>2, <2>1, <4>2 DEF Service!Drop
    <3>3. CASE WriteFails(r)
      <4>1. /\ conn[r] \in {"STREAMING", "WRITING"} /\ write_buffer[r] # <<>>
            /\ conn'[r] = "CLOSED" /\ client'[r] = "gone" /\ UNCHANGED state
        BY <1>5, <3>3 DEF WriteFails, CloseConnection, schedulerVars
      <4>2. phase[r] = "open"
        BY <1>3, <4>1, OpenPhase
      <4>3. phase'[r] = "dropped"
        BY <1>3, <2>0, <4>1 DEF Told, phase, Ended
      <4> QED BY <1>1, <1>2, <2>1, <4>2, <4>3 DEF Service!Drop
    <3>4. CASE r = cur /\ (EncodeFails \/ FinishFails)
      <4>1. /\ conn[r] = "STREAMING" /\ conn'[r] = "CLOSED" /\ UNCHANGED <<state, client>>
        BY <1>5, <3>4 DEF EncodeFails, FinishFails, AtEnd, CloseConnection, schedulerVars,
                          Scheduler!TryPop, Grounds, LoopInv, VisitAgrees
      <4>2. phase[r] = "open"
        BY <1>3, <4>1, OpenPhase
      <4>3. phase'[r] \in {"dropped", "failed"}
        BY <1>3, <2>0, <4>1 DEF Told, phase, Ended
      <4>4. heard' = [heard EXCEPT ![r] = heard[r]] /\ heard[r] >= heard[r]
        BY <1>2, <1>4, <2>1
      <4> QED BY <1>1, <1>2, <2>1, <4>2, <4>3, <4>4 DEF Service!Drop, Service!Fail
    <3> QED BY <1>6, <3>1, <3>2, <3>3, <3>4 DEF Answers
  <2> QED BY <1>1, <1>4, <2>1, <2>2 DEF Service!Next
<1>7. CASE SomeWrite(r)
  <2>1. sent'[r] \in Seq(Item)
    BY <1>7, WriteMoves DEF Grounds
  <2>2. heard'[r] \in Nat
    BY <2>1, CountType DEF heard
  <2> QED BY <1>1, <1>2, <1>7, <2>2, WriteService
<1> QED BY <1>6, <1>7

\* Every step of the server is a step of the service or changes nothing in it.
LEMMA ServiceStep ==
  Grounds /\ DeliveryInv /\ ToldInv /\ ToldInv' /\ [Next]_vars
     => [Service!Next]_(Service!serviceVars)
<1> SUFFICES ASSUME Grounds, DeliveryInv, ToldInv, ToldInv', [Next]_vars
             PROVE  [Service!Next]_(Service!serviceVars)
  OBVIOUS
<1>1. CASE \E r \in Requests : Answers(r)
  <2>1. PICK r \in Requests : Answers(r)
    BY <1>1
  <2>2. \A q \in Requests \ {r} : phase'[q] = phase[q] /\ heard'[q] = heard[q]
    BY <2>1, OthersSteady, SteadyService
  <2> QED BY <2>1, <2>2, AnswerService
<1>2. CASE ~\E r \in Requests : Answers(r)
  <2>1. \A r \in Requests : phase'[r] = phase[r] /\ heard'[r] = heard[r]
    BY <1>2, SteadyStep, SteadyService
  <2>2. phase' = phase /\ heard' = heard
    BY <2>1 DEF phase, heard
  <2> QED BY <2>2, StateFinal DEF Service!serviceVars
<1> QED BY <1>1, <1>2

\* No client has asked for anything at first.
LEMMA ServiceInit == Init => Service!Init
<1> SUFFICES ASSUME Init
             PROVE  Service!Init
  OBVIOUS
<1>1. ASSUME NEW r \in Requests
      PROVE  state[r] = "NEW" /\ conn[r] = "READING" /\ sent[r] = <<>>
  BY DEF Init, Scheduler!Init
<1>2. phase = [r \in Requests |-> "idle"]
  BY <1>1 DEF phase
<1>3. heard = [r \in Requests |-> 0]
  BY <1>1, CountOther DEF heard
<1>4. total \in [Requests -> 1..MaxChunks]
  BY DEF Init, Scheduler!Init
<1> QED BY <1>2, <1>3, <1>4 DEF Service!Init

\* The event loop, its buffers and encoders and the worker thread behind it
\* are, to a client, a service that answers an accepted request with its
\* chunks in order and says the answer is complete only after the last one.
THEOREM ServiceHolds == SafetySpec => ServiceSpec
<1>1. Grounds /\ DeliveryInv => ToldInv
  BY ToldHolds DEF ToldInv
<1> QED BY <1>1, ServiceInit, ServiceStep, GroundsHold, DeliveryHolds, PTL
        DEF SafetySpec, ServiceSpec, Service!Spec
=============================================================================
