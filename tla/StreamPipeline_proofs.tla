---------------------- MODULE StreamPipeline_proofs ----------------------
(* Proofs about StreamPipeline and StdioStream, for any number of streams  *)
(* and of chunks: the futures fit, the model has one user, and what is     *)
(* heard is in order.                                                      *)
EXTENDS StdioStream, TLAPS

LEMMA PipelineInit == Init => StreamInv
<1> SUFFICES ASSUME Init PROVE StreamInv
  OBVIOUS
<1> USE PipelineAssumption DEF Init, Streams
<1>1. TypeOK
  <2>1. heard \in Seq(Streams \X Nat)
    OBVIOUS
  <2>2. n_chunks \in [Streams -> 0..MaxChunks]
    OBVIOUS
  <2> QED BY <2>1, <2>2 DEF TypeOK, Steps, Phases
<1>2. \A s \in Streams : FutureFits(s) /\ NothingLeft(s) /\ RefusalHolds(s)
  BY DEF FutureFits, NothingLeft, RefusalHolds, Ended, Valid
<1>3. OneRuns
  BY DEF OneRuns, Ended
<1>4. HeardFits
  BY DEF HeardFits
<1> QED BY <1>1, <1>2, <1>3, <1>4 DEF StreamInv

-----------------------------------------------------------------------------
(* Every step of a stream preserves its invariant. *)

LEMMA TypeStep ==
  ASSUME StreamInv, NEW s \in Streams,
         Begin(s) \/ Stop(s) \/ Refuse(s) \/ Thread(s) \/ Worker(s)
  PROVE  TypeOK'
<1> USE PipelineAssumption DEF StreamInv, TypeOK, Goto, Async, Ready, Valid, futureVars,
            Steps, Phases
<1>1. CASE Begin(s)
  BY <1>1 DEF Begin
<1>2. CASE Stop(s)
  BY <1>2 DEF Stop
<1>3. ASSUME NEW answer \in BOOLEAN, Deliver(s, answer) PROVE TypeOK'
  BY <1>3 DEF Deliver
<1>4. CASE Prepare(s)
  <2>1. n_chunks' \in [Streams -> 0..MaxChunks]
    <3>1. CASE \E k \in 1..MaxChunks : n_chunks' = [n_chunks EXCEPT ![s] = k]
      BY <3>1
    <3>2. CASE UNCHANGED n_chunks
      BY <3>2
    <3> QED BY <1>4, <3>1, <3>2 DEF Prepare
  <2>2. spc' \in [Streams -> Steps] /\ done' \in [Streams -> BOOLEAN]
    BY <1>4 DEF Prepare
  <2>3. next_future' \in [Streams -> Phases] /\ ahead' \in [Streams -> Nat]
    <3>1. CASE Async(s, 0)
      BY <3>1
    <3>2. CASE UNCHANGED futureVars
      BY <3>2
    <3> QED BY <1>4, <3>1, <3>2 DEF Prepare
  <2> QED BY <1>4, <2>1, <2>2, <2>3 DEF Prepare
<1>5. CASE LoopHead(s)
  BY <1>5 DEF LoopHead
<1>6. CASE Get(s)
  BY <1>6 DEF Get
<1>7. CASE Launch(s)
  <2>1. spc' \in [Streams -> Steps]
    BY <1>7 DEF Launch
  <2>2. pos' \in [Streams -> Nat]
    <3>1. CASE pos' = [pos EXCEPT ![s] = @ + 1]
      BY <3>1
    <3>2. CASE UNCHANGED pos
      BY <3>2
    <3> QED BY <1>7, <3>1, <3>2 DEF Launch
  <2>3. next_future' \in [Streams -> Phases] /\ ahead' \in [Streams -> Nat]
    <3>1. CASE Async(s, pos[s] + 1)
      BY <3>1
    <3>2. CASE UNCHANGED futureVars
      BY <3>2
    <3> QED BY <1>7, <3>1, <3>2 DEF Launch
  <2> QED BY <1>7, <2>1, <2>2, <2>3 DEF Launch
<1>8. CASE Reap(s)
  BY <1>8 DEF Reap
<1>9. CASE WorkerCheck(s)
  BY <1>9 DEF WorkerCheck
<1>10. CASE WorkerInfer(s)
  BY <1>10 DEF WorkerInfer
<1> QED BY <1>1, <1>2, <1>3, <1>4, <1>5, <1>6, <1>7, <1>8, <1>9, <1>10 DEF Thread, Worker, Refuse

\* A step of one stream leaves the others alone.
LEMMA OthersStay ==
  ASSUME TypeOK, NEW s \in Streams, NEW t \in Streams, t # s,
         Begin(s) \/ Stop(s) \/ Refuse(s) \/ Thread(s) \/ Worker(s),
         FutureFits(t), NothingLeft(t), RefusalHolds(t)
  PROVE  /\ spc'[t] = spc[t] /\ pos'[t] = pos[t]
         /\ FutureFits(t)' /\ NothingLeft(t)' /\ RefusalHolds(t)'
<1>1. /\ spc'[t] = spc[t] /\ n_chunks'[t] = n_chunks[t] /\ pos'[t] = pos[t]
      /\ next_future'[t] = next_future[t] /\ ahead'[t] = ahead[t]
      /\ stopped'[t] = stopped[t] /\ done'[t] = done[t] /\ refused'[t] = refused[t]
  <2> USE DEF TypeOK, Goto, Async, futureVars
  <2>1. CASE Begin(s)
    BY <2>1 DEF Begin
  <2>2. CASE Stop(s)
    BY <2>2 DEF Stop
  <2>3. ASSUME NEW answer \in BOOLEAN, Deliver(s, answer)
        PROVE  <1>1
    BY <2>3 DEF Deliver
  <2>4. CASE Prepare(s)
    BY <2>4 DEF Prepare
  <2>5. CASE LoopHead(s)
    BY <2>5 DEF LoopHead
  <2>6. CASE Get(s)
    BY <2>6 DEF Get
  <2>7. CASE Launch(s)
    BY <2>7 DEF Launch
  <2>8. CASE Reap(s)
    BY <2>8 DEF Reap
  <2>9. CASE WorkerCheck(s)
    BY <2>9 DEF WorkerCheck
  <2>10. CASE WorkerInfer(s)
    BY <2>10 DEF WorkerInfer
  <2> QED BY <2>1, <2>2, <2>3, <2>4, <2>5, <2>6, <2>7, <2>8, <2>9, <2>10 DEF Thread, Worker, Refuse
<1> QED BY <1>1 DEF FutureFits, NothingLeft, RefusalHolds, Ended, Valid

\* What a step does to its own stream.
LEMMA OwnStep ==
  ASSUME TypeOK, NEW s \in Streams,
         Begin(s) \/ Stop(s) \/ Refuse(s) \/ Thread(s) \/ Worker(s),
         FutureFits(s), NothingLeft(s), RefusalHolds(s)
  PROVE  FutureFits(s)' /\ NothingLeft(s)' /\ RefusalHolds(s)'
<1> USE DEF TypeOK, Goto, Async, futureVars, Ready, Valid, Ended, Steps, Phases,
            FutureFits, NothingLeft, RefusalHolds
<1>1. CASE Begin(s)
  BY <1>1 DEF Begin
<1>2. CASE Stop(s)
  BY <1>2 DEF Stop
<1>3. ASSUME NEW answer \in BOOLEAN, Deliver(s, answer)
      PROVE  FutureFits(s)' /\ NothingLeft(s)' /\ RefusalHolds(s)'
  <2>1. FutureFits(s)' /\ NothingLeft(s)'
    <3>1. stopped[s] => stopped'[s]
      BY <1>3 DEF Deliver
    <3> QED BY <1>3, <3>1 DEF Deliver
  <2>2. refused[s] = FALSE
    BY <1>3 DEF Deliver
  <2>3. refused'[s] = ~answer /\ (~answer => stopped'[s]) /\ spc'[s] = "head"
    BY <1>3, <2>2 DEF Deliver
  <2> QED BY <2>1, <2>3
<1>4. CASE Prepare(s)
  <2>1. CASE spc' = [spc EXCEPT ![s] = "exited"]
    BY <1>4, <2>1 DEF Prepare
  <2>2. CASE spc' = [spc EXCEPT ![s] = "head"]
    BY <1>4, <2>2 DEF Prepare
  <2> QED BY <1>4, <2>1, <2>2 DEF Prepare
<1>5. CASE LoopHead(s)
  BY <1>5 DEF LoopHead
<1>6. CASE Get(s)
  BY <1>6 DEF Get
<1>7. CASE Launch(s)
  <2>1. CASE Async(s, pos[s] + 1) /\ pos[s] + 1 < n_chunks[s]
    BY <1>7, <2>1 DEF Launch
  <2>2. CASE UNCHANGED futureVars /\ ~(pos[s] + 1 < n_chunks[s] /\ ~stopped[s])
    BY <1>7, <2>2 DEF Launch
  <2> QED BY <1>7, <2>1, <2>2 DEF Launch
<1>8. CASE Reap(s)
  BY <1>8 DEF Reap
<1>9. CASE WorkerCheck(s)
  BY <1>9 DEF WorkerCheck
<1>10. CASE WorkerInfer(s)
  BY <1>10 DEF WorkerInfer
<1> QED BY <1>1, <1>2, <1>3, <1>4, <1>5, <1>6, <1>7, <1>8, <1>9, <1>10 DEF Thread, Worker, Refuse

\* A stream neither goes back nor ends and begins again.
LEMMA Forward ==
  ASSUME TypeOK, NEW s \in Streams,
         Begin(s) \/ Stop(s) \/ Refuse(s) \/ Thread(s) \/ Worker(s)
  PROVE  /\ pos'[s] \in {pos[s], pos[s] + 1}
         /\ spc[s] # "none" => spc'[s] # "none"
         /\ Ended(s) /\ ~Begin(s) => spc'[s] = spc[s]
<1> USE DEF TypeOK, Goto, Ended, Steps
<1>1. CASE Begin(s)
  BY <1>1 DEF Begin
<1>2. CASE Stop(s)
  BY <1>2 DEF Stop
<1>3. ASSUME NEW answer \in BOOLEAN, Deliver(s, answer)
      PROVE  /\ pos'[s] = pos[s] + 1
             /\ spc[s] = "deliver" /\ spc'[s] = "head"
  BY <1>3 DEF Deliver
<1>4. CASE Prepare(s)
  BY <1>4 DEF Prepare
<1>5. CASE LoopHead(s)
  BY <1>5 DEF LoopHead
<1>6. CASE Get(s)
  BY <1>6 DEF Get
<1>7. CASE Launch(s)
  BY <1>7 DEF Launch
<1>8. CASE Reap(s)
  BY <1>8 DEF Reap
<1>9. CASE WorkerCheck(s) \/ WorkerInfer(s)
  BY <1>9 DEF WorkerCheck, WorkerInfer
<1> QED BY <1>1, <1>2, <1>3, <1>4, <1>5, <1>6, <1>7, <1>8, <1>9 DEF Thread, Worker, Refuse

\* Only a call that finds no other stream running begins one.
LEMMA OneRunsStep ==
  ASSUME StreamInv, NEW s \in Streams,
         CallBegin(s) \/ Stop(s) \/ Refuse(s) \/ Thread(s) \/ Worker(s)
  PROVE  OneRuns'
<1>1. \A t \in Streams \ {s} : spc'[t] = spc[t]
  BY OthersStay DEF StreamInv, CallBegin
<1>2. CASE CallBegin(s)
  BY <1>1, <1>2 DEF CallBegin, OneRuns, Ended
<1>3. CASE ~CallBegin(s)
  <2>1. Ended(s) /\ ~Begin(s) => spc'[s] = spc[s]
    BY Forward DEF StreamInv, CallBegin
  <2>2. CASE ~Begin(s)
    BY <1>1, <2>1, <2>2 DEF StreamInv, OneRuns, Ended
  <2>3. CASE Begin(s)
    BY <1>3, <2>3 DEF Begin, Stop, Refuse, Deliver, Thread, Worker, Prepare, LoopHead, Get, Launch, Reap,
                      WorkerCheck, WorkerInfer, StreamInv, TypeOK, Goto, NothingLeft, Ended, Valid
  <2> QED BY <2>2, <2>3
<1> QED BY <1>2, <1>3

\* What is appended to heard is the chunk that the position passes.
LEMMA HeardStep ==
  ASSUME StreamInv, NEW s \in Streams,
         Begin(s) \/ Stop(s) \/ Refuse(s) \/ Thread(s) \/ Worker(s)
  PROVE  HeardFits'
<1>1. \A t \in Streams \ {s} : spc'[t] = spc[t] /\ pos'[t] = pos[t]
  BY OthersStay DEF StreamInv
<1>2. pos'[s] \in {pos[s], pos[s] + 1} /\ (spc[s] # "none" => spc'[s] # "none")
  BY Forward DEF StreamInv
<1>3. /\ pos \in [Streams -> Nat] /\ heard \in Seq(Streams \X Nat)
      /\ \A j \in DOMAIN heard : heard[j] \in Streams \X Nat
  BY DEF StreamInv, TypeOK
<1>4. \A t \in Streams : pos'[t] >= pos[t] /\ (spc[t] # "none" => spc'[t] # "none")
  BY <1>1, <1>2, <1>3
<1>5. \A j \in DOMAIN heard :
         LET t == heard[j][1] IN spc'[t] # "none" /\ heard[j][2] < pos'[t]
  <2> SUFFICES ASSUME NEW j \in DOMAIN heard
               PROVE  spc'[heard[j][1]] # "none" /\ heard[j][2] < pos'[heard[j][1]]
    OBVIOUS
  <2>1. heard[j][1] \in Streams /\ heard[j][2] \in Nat
    BY <1>3
  <2>2. spc[heard[j][1]] # "none" /\ heard[j][2] < pos[heard[j][1]]
    BY DEF StreamInv, HeardFits
  <2>3. pos[heard[j][1]] \in Nat /\ pos'[heard[j][1]] \in Nat
    BY <1>1, <1>2, <1>3, <2>1
  <2> QED BY <1>4, <2>1, <2>2, <2>3
<1>6. ASSUME NEW answer \in BOOLEAN, Deliver(s, answer)
      PROVE  HeardFits'
  <2>1. heard' = Append(heard, <<s, pos[s]>>) /\ pos'[s] = pos[s] + 1 /\ spc'[s] = "head"
    BY <1>6 DEF Deliver, StreamInv, TypeOK, Goto
  <2>2. <<s, pos[s]>>[2] < pos'[s]
    BY <1>3, <2>1
  <2>3. \A j \in DOMAIN heard' : (j \in DOMAIN heard /\ heard'[j] = heard[j])
                                \/ heard'[j] = <<s, pos[s]>>
    BY <1>3, <2>1
  <2> QED BY <1>5, <2>1, <2>2, <2>3 DEF HeardFits
<1>7. CASE UNCHANGED heard
  BY <1>5, <1>7 DEF HeardFits
<1> QED BY <1>6, <1>7 DEF Begin, Stop, Refuse, Deliver, Thread, Worker, Prepare, LoopHead, Get, Launch, Reap,
                          WorkerCheck, WorkerInfer

LEMMA StreamStep ==
  ASSUME StreamInv, NEW s \in Streams,
         CallBegin(s) \/ Stop(s) \/ Refuse(s) \/ Thread(s) \/ Worker(s)
  PROVE  StreamInv'
<1>1. Begin(s) \/ Stop(s) \/ Refuse(s) \/ Thread(s) \/ Worker(s)
  BY DEF CallBegin
<1>2. TypeOK'
  BY <1>1, TypeStep
<1>3. FutureFits(s)' /\ NothingLeft(s)' /\ RefusalHolds(s)'
  BY <1>1, OwnStep DEF StreamInv
<1>4. ASSUME NEW t \in Streams, t # s
      PROVE  FutureFits(t)' /\ NothingLeft(t)' /\ RefusalHolds(t)'
  BY <1>1, <1>4, OthersStay DEF StreamInv
<1>5. OneRuns' /\ HeardFits'
  BY <1>1, OneRunsStep, HeardStep
<1>6. \A t \in Streams : (FutureFits(t) /\ NothingLeft(t) /\ RefusalHolds(t))'
  BY <1>3, <1>4
<1> QED BY <1>2, <1>5, <1>6 DEF StreamInv

LEMMA PipelineStutter == StreamInv /\ UNCHANGED pipelineVars => StreamInv'
<1> SUFFICES ASSUME StreamInv, UNCHANGED pipelineVars PROVE StreamInv'
  OBVIOUS
<1>1. TypeOK'
  BY DEF StreamInv, TypeOK, pipelineVars, futureVars
<1>2. \A t \in Streams : (FutureFits(t) /\ NothingLeft(t) /\ RefusalHolds(t))'
  BY DEF StreamInv, FutureFits, NothingLeft, RefusalHolds, Ended, Valid, pipelineVars, futureVars
<1>3. OneRuns' /\ HeardFits'
  BY DEF StreamInv, OneRuns, HeardFits, Ended, pipelineVars
<1> QED BY <1>1, <1>2, <1>3 DEF StreamInv

LEMMA PipelineStep == StreamInv /\ [Next]_pipelineVars => StreamInv'
<1> SUFFICES ASSUME StreamInv, [Next]_pipelineVars PROVE StreamInv'
  OBVIOUS
<1>1. CASE UNCHANGED pipelineVars
  BY <1>1, PipelineStutter
<1>2. CASE Next
  <2>1. PICK s \in Streams :
           CallBegin(s) \/ Stop(s) \/ Refuse(s) \/ Thread(s) \/ Worker(s)
    BY <1>2 DEF Next
  <2> QED BY <2>1, StreamStep
<1> QED BY <1>1, <1>2

\* Whoever the caller is, the futures fit their chunks, an ended stream has left
\* no inference behind, and no callback comes after one that asked to stop.
THEOREM PipelineCorrect == Spec => []StreamInv
<1>1. Init => StreamInv
  BY PipelineInit
<1>2. StreamInv /\ [Next]_pipelineVars => StreamInv'
  BY PipelineStep
<1> QED BY <1>1, <1>2, PTL DEF Spec

\* Two inferences never use the model at the same time.
THEOREM OneUser == Spec => []ModelExclusive
<1>1. StreamInv => ModelExclusive
  BY DEF StreamInv, ModelExclusive, OneRuns, NothingLeft, Valid
<1> QED BY <1>1, PipelineCorrect, PTL

-----------------------------------------------------------------------------
(* The standard-input mode and the direct callers keep to the contract.    *)

LEMMA CallerInit == StdioInit => StdioInv /\ Init
<1> SUFFICES ASSUME StdioInit PROVE StdioInv /\ Init
  OBVIOUS
<1>1. Init /\ StreamInv
  BY PipelineInit DEF StdioInit
<1>2. CallerInv
  <2>1. \A s \in Streams : s > begun /\ spc[s] = "none"
    BY PipelineAssumption DEF StdioInit, Init, Streams
  <2>2. begun = 0 /\ handle = begun /\ begun \in 0..MaxStreams
    BY PipelineAssumption DEF StdioInit, NoStream
  <2>3. \A s \in Streams : Ended(s)
    BY <2>1 DEF Ended
  <2> QED BY <2>1, <2>2, <2>3 DEF StdioInit, CallerInv
<1> QED BY <1>1, <1>2 DEF StdioInv

LEMMA AllEnded == ASSUME StdioInv, Joinable PROVE \A t \in Streams : Ended(t)
<1> SUFFICES ASSUME NEW t \in Streams PROVE Ended(t)
  OBVIOUS
<1>1. CASE t # handle
  BY <1>1 DEF StdioInv, CallerInv
<1>2. CASE t = handle
  BY <1>2 DEF Joinable, Ended, NoStream, Streams
<1> QED BY <1>1, <1>2

\* A stream is only begun when all before it have ended.
LEMMA BeginsAlone ==
  ASSUME StdioInv, Joinable, Begin(begun + 1), begun < MaxStreams
  PROVE  begun + 1 \in Streams /\ CallBegin(begun + 1)
<1>1. begun + 1 \in Streams
  BY PipelineAssumption DEF StdioInv, CallerInv, Streams
<1> QED BY <1>1, AllEnded DEF CallBegin

\* Every step of the caller is one of the pipeline or leaves it alone.
LEMMA CallerKeepsContract == StdioInv /\ [StdioNext]_vars => [Next]_pipelineVars
<1> SUFFICES ASSUME StdioInv, [StdioNext]_vars PROVE [Next]_pipelineVars
  OBVIOUS
<1>1. CASE Synthesize
  <2>1. begun < MaxStreams
    BY <1>1 DEF Synthesize, StdioInv, CallerInv
  <2> QED BY <1>1, <2>1, BeginsAlone DEF Synthesize, Next
<1>2. CASE DirectBegin
  <2>1. Joinable
    BY <1>2 DEF DirectBegin, Joinable
  <2> QED BY <1>2, <2>1, BeginsAlone DEF DirectBegin, Next
<1>3. CASE DirectStop
  <2>1. handle \in Streams
    BY <1>3 DEF DirectStop, StdioInv, CallerInv, NoStream, Streams
  <2> QED BY <1>3, <2>1 DEF DirectStop, Next
<1>4. ASSUME NEW s \in Streams, DirectRefuses(s) \/ Run(s)
      PROVE  Next
  BY <1>4 DEF DirectRefuses, Run, Next
<1>5. CASE UNCHANGED pipelineVars
  BY <1>5
<1> QED BY <1>1, <1>2, <1>3, <1>4, <1>5
        DEF StdioNext, Stdio, Direct, Streaming, Main, Text, Flush, Eof, Join, Save, DirectJoin, vars

\* A step of the streams concerns the handle only, and begins no stream.
LEMMA RunsHandle ==
  ASSUME StdioInv, NEW s \in Streams,
         Refuse(s) \/ (Stop(s) /\ s = handle) \/ Run(s), UNCHANGED mainVars
  PROVE  CallerInv'
<1>1. \A t \in Streams \ {s} : spc'[t] = spc[t]
  BY OthersStay DEF StdioInv, StreamInv, Run
<1>2. (spc[s] # "none" => spc'[s] # "none") /\ (Ended(s) /\ ~Begin(s) => spc'[s] = spc[s])
  BY Forward DEF StdioInv, StreamInv, Run
<1>3. Ended(s) => ~Valid(s)
  BY DEF StdioInv, StreamInv, NothingLeft
<1>4. spc[s] # "none"
  <2>1. CASE Worker(s)
    BY <1>3, <2>1 DEF Worker, WorkerCheck, WorkerInfer, Valid, Ended
  <2>2. CASE ~Worker(s)
    BY <2>2 DEF Run, Thread, Refuse, Deliver, Stop, Prepare, LoopHead, Get, Launch, Reap
  <2> QED BY <2>1, <2>2
<1>5. s # handle => spc'[s] = spc[s]
  BY <1>2, <1>4 DEF StdioInv, CallerInv, Begin
<1> QED BY <1>1, <1>2, <1>4, <1>5 DEF StdioInv, CallerInv, mainVars, Ended

LEMMA CallerStep == StdioInv /\ [StdioNext]_vars => CallerInv'
<1> SUFFICES ASSUME StdioInv, [StdioNext]_vars PROVE CallerInv'
  OBVIOUS
<1>1. ASSUME Begin(begun + 1), Joinable, begun < MaxStreams,
             begun' = begun + 1, handle' = begun + 1, UNCHANGED saved, buffered' \in BOOLEAN,
             pc' \in {"test", "getline", "join"}
      PROVE  CallerInv'
  <2>1. begun + 1 \in Streams /\ \A t \in Streams : Ended(t)
    BY <1>1, BeginsAlone DEF CallBegin
  <2>2. /\ spc'[begun + 1] = "prepare"
        /\ \A t \in Streams : t # begun + 1 => spc'[t] = spc[t]
    BY <1>1, <2>1 DEF Begin, Goto, StdioInv, StreamInv, TypeOK
  <2>3. begun \in 0..MaxStreams /\ begun' \in 0..MaxStreams
    BY <1>1, PipelineAssumption DEF StdioInv, CallerInv
  <2>4. \A t \in Streams : t > begun' <=> spc'[t] = "none"
    <3> SUFFICES ASSUME NEW t \in Streams PROVE t > begun' <=> spc'[t] = "none"
      OBVIOUS
    <3>1. t \in Nat /\ begun \in Nat
      BY <2>3, PipelineAssumption DEF Streams
    <3>2. CASE t = begun + 1
      BY <1>1, <2>2, <3>1, <3>2
    <3>3. CASE t # begun + 1
      BY <1>1, <2>2, <3>1, <3>3 DEF StdioInv, CallerInv
    <3> QED BY <3>2, <3>3
  <2>5. \A t \in Streams : t # handle' => Ended(t)'
    BY <1>1, <2>1, <2>2 DEF Ended
  <2> QED BY <1>1, <2>3, <2>4, <2>5 DEF StdioInv, CallerInv
<1>2. CASE Synthesize
  BY <1>1, <1>2 DEF Synthesize, StdioInv, CallerInv
<1>3. CASE DirectBegin
  <2>1. Joinable
    BY <1>3 DEF DirectBegin, Joinable
  <2> QED BY <1>1, <1>3, <2>1 DEF DirectBegin, StdioInv, CallerInv
<1>4. ASSUME NEW s \in Streams, DirectRefuses(s) \/ (Run(s) /\ UNCHANGED mainVars)
      PROVE  CallerInv'
  <2>1. CASE DirectRefuses(s)
    <3>1. Refuse(s) /\ UNCHANGED mainVars
      BY <2>1 DEF DirectRefuses
    <3> QED BY <3>1, RunsHandle
  <2>2. CASE Run(s) /\ UNCHANGED mainVars
    BY <2>2, RunsHandle
  <2> QED BY <1>4, <2>1, <2>2
<1>5. CASE DirectStop
  <2>1. handle \in Streams
    BY <1>5 DEF DirectStop, StdioInv, CallerInv, NoStream, Streams
  <2> QED BY <1>5, <2>1, RunsHandle DEF DirectStop
<1>6. CASE Join \/ DirectJoin
  <2>1. \A t \in Streams : Ended(t)
    BY <1>6, AllEnded DEF Join, DirectJoin
  <2> QED BY <1>6, <2>1 DEF Join, DirectJoin, StdioInv, CallerInv, Ended, pipelineVars, NoStream
<1>7. CASE Text \/ Flush \/ Eof \/ Save
  BY <1>7 DEF Text, Flush, Eof, Save, StdioInv, CallerInv, Ended, pipelineVars
<1>8. CASE UNCHANGED vars
  BY <1>8 DEF vars, mainVars, StdioInv, CallerInv, Ended, pipelineVars
<1>9. StdioNext \/ UNCHANGED vars
  OBVIOUS
<1>10. CASE Streaming
  BY <1>4, <1>10 DEF Streaming
<1>11. CASE Direct
  <2>1. (\E s \in Streams : DirectRefuses(s)) \/ DirectBegin \/ DirectStop \/ DirectJoin
    BY <1>11 DEF Direct
  <2>2. CASE \E s \in Streams : DirectRefuses(s)
    <3>1. PICK s \in Streams : DirectRefuses(s)
      BY <2>2
    <3> QED BY <1>4, <3>1
  <2> QED BY <1>3, <1>5, <1>6, <2>1, <2>2
<1>12. CASE Stdio
  BY <1>2, <1>6, <1>7, <1>12 DEF Stdio, Main
<1> QED BY <1>8, <1>9, <1>10, <1>11, <1>12 DEF StdioNext

\* The standard-input mode and the direct callers are callers of the pipeline
\* that keep to its contract, and all of its invariants hold for them.
THEOREM StdioCorrect == StdioSpec => []StdioInv /\ Spec
<1>1. StdioInit => StdioInv /\ Init
  BY CallerInit
<1>2. StdioInv /\ [StdioNext]_vars => StdioInv' /\ [Next]_pipelineVars
  <2> SUFFICES ASSUME StdioInv, [StdioNext]_vars PROVE StdioInv' /\ [Next]_pipelineVars
    OBVIOUS
  <2>1. [Next]_pipelineVars
    BY CallerKeepsContract
  <2>2. StreamInv'
    BY <2>1, PipelineStep DEF StdioInv
  <2> QED BY <2>1, <2>2, CallerStep DEF StdioInv
<1> QED BY <1>1, <1>2, PTL DEF StdioSpec, Spec

-----------------------------------------------------------------------------
(* What is heard. *)

\* The chunk that is delivered comes behind all that were heard.
LEMMA DeliverInOrder ==
  ASSUME StdioInv, SpokenInOrder, NEW s \in Streams, NEW go \in BOOLEAN, Deliver(s, go)
  PROVE  \A j, k \in DOMAIN heard' :
            j < k => \/ heard'[j][1] < heard'[k][1]
                     \/ heard'[j][1] = heard'[k][1] /\ heard'[j][2] < heard'[k][2]
<1>1. heard \in Seq(Streams \X Nat) /\ pos[s] \in Nat
  BY DEF StdioInv, StreamInv, TypeOK
<1>2. s = begun /\ begun \in Nat
  <2>1. ~Ended(s)
    BY DEF Deliver, Ended
  <2>2. s = handle
    BY <2>1 DEF StdioInv, CallerInv
  <2> QED BY <2>2, PipelineAssumption DEF StdioInv, CallerInv, NoStream, Streams
<1>3. ASSUME NEW j \in DOMAIN heard
      PROVE  heard[j][1] < s \/ (heard[j][1] = s /\ heard[j][2] < pos[s])
  <2>1. heard[j][1] \in Streams
    BY <1>1
  <2>2. spc[heard[j][1]] # "none" /\ heard[j][2] < pos[heard[j][1]]
    BY DEF StdioInv, StreamInv, HeardFits
  <2>3. ~(heard[j][1] > begun)
    BY <2>1, <2>2 DEF StdioInv, CallerInv
  <2> QED BY <1>2, <2>1, <2>2, <2>3, PipelineAssumption DEF Streams
<1>4. /\ heard' = Append(heard, <<s, pos[s]>>)
      /\ DOMAIN heard' = 1..(Len(heard) + 1) /\ Len(heard) \in Nat /\ DOMAIN heard = 1..Len(heard)
      /\ heard'[Len(heard) + 1] = <<s, pos[s]>>
      /\ \A j \in DOMAIN heard : heard'[j] = heard[j]
  BY <1>1 DEF Deliver
<1> SUFFICES ASSUME NEW j \in DOMAIN heard', NEW k \in DOMAIN heard', j < k
             PROVE  \/ heard'[j][1] < heard'[k][1]
                    \/ heard'[j][1] = heard'[k][1] /\ heard'[j][2] < heard'[k][2]
  OBVIOUS
<1>5. CASE k = Len(heard) + 1
  <2>1. j \in DOMAIN heard
    BY <1>4, <1>5
  <2>2. heard'[k][1] = s /\ heard'[k][2] = pos[s] /\ heard'[j] = heard[j]
    BY <1>4, <1>5, <2>1
  <2> QED BY <1>3, <2>1, <2>2
<1>6. CASE k # Len(heard) + 1
  <2>1. j \in DOMAIN heard /\ k \in DOMAIN heard
    BY <1>4, <1>6
  <2> QED BY <1>4, <2>1 DEF SpokenInOrder
<1> QED BY <1>5, <1>6

\* At the end no stream runs that could add to what was saved.
LEMMA SpokenStep == StdioInv /\ SpokenInOrder /\ [StdioNext]_vars => SpokenInOrder'
<1> SUFFICES ASSUME StdioInv, SpokenInOrder, [StdioNext]_vars PROVE SpokenInOrder'
  OBVIOUS
<1>1. ASSUME NEW s \in Streams, NEW go \in BOOLEAN, Deliver(s, go), UNCHANGED mainVars
      PROVE  SpokenInOrder'
  <2>1. pc # "exit"
    BY <1>1 DEF Deliver, Ended, StdioInv, CallerInv, NoStream, Streams
  <2> QED BY <1>1, <2>1, DeliverInOrder DEF SpokenInOrder, mainVars
<1>2. CASE UNCHANGED heard /\ (pc' = "exit" => pc = "exit" /\ UNCHANGED <<file, saved>>)
  BY <1>2 DEF SpokenInOrder
<1>3. CASE Save
  BY <1>3 DEF Save, SpokenInOrder, pipelineVars
<1>4. CASE UNCHANGED vars
  BY <1>2, <1>4 DEF vars, mainVars, pipelineVars
<1>5. CASE Synthesize \/ DirectBegin
  BY <1>2, <1>5 DEF Synthesize, DirectBegin, Begin
<1>6. CASE Text \/ Flush \/ Eof \/ Join \/ DirectJoin
  BY <1>2, <1>6 DEF Text, Flush, Eof, Join, DirectJoin, pipelineVars
<1>7. CASE DirectStop
  BY <1>2, <1>7 DEF DirectStop, Stop, mainVars
<1>8. CASE \E s \in Streams : DirectRefuses(s)
  <2>1. PICK s \in Streams : DirectRefuses(s)
    BY <1>8
  <2> QED BY <1>1, <2>1 DEF DirectRefuses, Refuse
<1>9. CASE Streaming
  <2>1. PICK s \in Streams : Run(s) /\ UNCHANGED mainVars
    BY <1>9 DEF Streaming
  <2>2. CASE Deliver(s, TRUE)
    BY <1>1, <2>1, <2>2
  <2>3. CASE UNCHANGED heard
    BY <1>2, <2>1, <2>3 DEF mainVars
  <2> QED BY <2>1, <2>2, <2>3 DEF Run, Thread, Worker, Prepare, LoopHead, Get, Launch, Reap,
                                  WorkerCheck, WorkerInfer
<1> QED BY <1>3, <1>4, <1>5, <1>6, <1>7, <1>8, <1>9
        DEF StdioNext, Stdio, Direct, Main

\* What is heard is in the order of the texts and of their chunks, nothing comes
\* twice, and a file saved at the end holds all of it.
THEOREM SpokenInOrderHolds == StdioSpec => []SpokenInOrder
<1>1. StdioInit => SpokenInOrder
  BY DEF StdioInit, Init, SpokenInOrder
<1>2. StdioInv /\ SpokenInOrder /\ [StdioNext]_vars => SpokenInOrder'
  BY SpokenStep
<1> QED BY <1>1, <1>2, StdioCorrect, PTL DEF StdioSpec
=============================================================================
