------------------------ MODULE CoreAudioPlayback ------------------------
(***************************************************************************)
(* Playback on macOS (src/src/playback/playback_coreaudio.cpp) under the   *)
(* program that feeds it piece by piece, src/tools/kokopop_play.cpp.       *)
(*                                                                         *)
(* The program's thread starts the playback, writes, stops and waits.  The *)
(* audio device has a thread of its own: it plays the buffers it was given *)
(* in order and hands each one back through callback(), which fills it     *)
(* from data_queue_ and gives it to the device again.  data_mutex_ is only *)
(* held within one step, so it needs no variable.                          *)
(*                                                                         *)
(* Samples are counted in pieces of at most one buffer, numbered from 1 in *)
(* the order they are written; piece 0 is silence.  The device is external *)
(* and behaves as the mock of src/tests/test_playback_coreaudio.cpp, but   *)
(* its calls may fail; a buffer that primes the queue is never refused.    *)
(***************************************************************************)
EXTENDS Naturals, Sequences

CONSTANTS
    BufferCount,  \* BUFFER_COUNT
    MaxPieces,    \* bounds what the program writes
    MaxLost       \* bounds the buffers that AudioQueueEnqueueBuffer refuses

ASSUME PlaybackAssumption ==
    /\ BufferCount \in Nat
    /\ MaxPieces \in Nat
    /\ MaxLost \in Nat
    /\ MaxLost < BufferCount

VARIABLES
    pc,           \* what the program does next
    after,        \* where it goes on when stop() returns
    restarted,    \* it has restarted the playback at the file's sample rate
    queue_,       \* queue_ # nullptr
    running_, done_, drained_, stopped_,
    data_queue_,  \* the pieces written and not yet given to the device
    device,       \* the AudioQueue, "none" before its creation and once disposed
    enqueued,     \* the pieces in the device's buffers, in order of playing
    returning,    \* the device has played a buffer and calls callback()
    written,      \* how many pieces write() took
    played,       \* the pieces that were heard, in order
    lost,         \* the pieces in buffers that the device refused
    lostBuffers,  \* how many buffers it refused
    cut           \* a failing call made stop() dispose of a device that still played

program == <<pc, after, restarted>>
flags == <<running_, done_, drained_, stopped_>>
deviceVars == <<device, enqueued, returning>>
losses == <<lost, lostBuffers, cut>>
vars == <<program, queue_, flags, data_queue_, deviceVars, written, played, losses>>

Silence == 0
Live == {"running", "stopping"}
StopSteps == {"stop", "drain", "unhook", "stopDevice", "poll", "dispose", "end"}

Init ==
    /\ pc = "start" /\ after = "exit" /\ restarted = FALSE
    /\ queue_ = FALSE
    /\ running_ = FALSE /\ done_ = FALSE /\ drained_ = FALSE /\ stopped_ = TRUE
    /\ data_queue_ = <<>>
    /\ device = "none" /\ enqueued = <<>> /\ returning = FALSE
    /\ written = 0 /\ played = <<>>
    /\ lost = {} /\ lostBuffers = 0 /\ cut = FALSE

-----------------------------------------------------------------------------
(* The program: start, write, stop, wait, and the destructor. *)

\* stop() is called, and the program goes on at p.
CallStop(p) == pc' = "stop" /\ after' = p

\* start() succeeds: every buffer is primed and the device begins to play.
Start ==
    /\ pc = "start"
    /\ ~queue_
    /\ queue_' = TRUE
    /\ running_' = TRUE /\ done_' = FALSE /\ drained_' = FALSE /\ stopped_' = FALSE
    /\ device' = "running"
    /\ enqueued' = [b \in 1..BufferCount |->
                       IF b <= Len(data_queue_) THEN data_queue_[b] ELSE Silence]
    /\ data_queue_' = SubSeq(data_queue_, BufferCount + 1, Len(data_queue_))
    /\ lostBuffers' = 0
    /\ pc' = IF restarted THEN "write" ELSE "input"
    /\ UNCHANGED <<after, restarted, returning, written, played, lost, cut>>

\* AudioQueueNewOutput or the allocation of a buffer fails: no flag is set yet.
StartFailsEarly ==
    /\ pc = "start"
    /\ CallStop("exit")
    /\ UNCHANGED <<restarted, queue_, flags, data_queue_, deviceVars, written, played, losses>>

\* AudioQueueStart fails: the primed queue is disposed of at once.
StartFailsLate ==
    /\ pc = "start"
    /\ ~queue_
    /\ running_' = FALSE /\ done_' = FALSE /\ drained_' = FALSE /\ stopped_' = TRUE
    /\ CallStop("exit")
    /\ UNCHANGED <<restarted, queue_, data_queue_, deviceVars, written, played, losses>>

\* The input is no WAV file that can be played; it is one with another sample
\* rate; or it is what the playback was started for.
Input ==
    /\ pc = "input"
    /\ \/ CallStop("exit") /\ UNCHANGED restarted
       \/ CallStop("start") /\ restarted' = TRUE
       \/ pc' = "write" /\ UNCHANGED <<after, restarted>>
    /\ UNCHANGED <<queue_, flags, data_queue_, deviceVars, written, played, losses>>

\* Slip: the newest samples go in front.
WriteInFront(n) ==
    /\ pc = "write"
    /\ queue_ /\ ~done_
    /\ data_queue_' = [i \in 1..n |-> written + i] \o data_queue_
    /\ written' = written + n
    /\ UNCHANGED <<program, queue_, flags, deviceVars, played, losses>>

\* write() of n pieces.
Write(n) ==
    /\ pc = "write"
    /\ queue_ /\ ~done_
    /\ data_queue_' = data_queue_ \o [i \in 1..n |-> written + i]
    /\ written' = written + n
    /\ UNCHANGED <<program, queue_, flags, deviceVars, played, losses>>

\* The end of the input.
InputEnds ==
    /\ pc = "write"
    /\ CallStop("wait")
    /\ UNCHANGED <<restarted, queue_, flags, data_queue_, deviceVars, written, played, losses>>

\* stop() returns at once, or declares that nothing more will be written.
StopBegins ==
    /\ pc = "stop"
    /\ IF stopped_ THEN pc' = after /\ UNCHANGED done_
                   ELSE pc' = "drain" /\ done_' = TRUE
    /\ UNCHANGED <<after, restarted, queue_, running_, drained_, stopped_, data_queue_,
                   deviceVars, written, played, losses>>

\* drain_cv_: the callback has given the last piece to the device.
StopDrained ==
    /\ pc = "drain"
    /\ drained_
    /\ pc' = "unhook"
    /\ UNCHANGED <<after, restarted, queue_, flags, data_queue_, deviceVars, written, played, losses>>

StopUnhooks ==
    /\ pc = "unhook"
    /\ queue_' = FALSE
    /\ pc' = "stopDevice"
    /\ UNCHANGED <<after, restarted, flags, data_queue_, deviceVars, written, played, losses>>

\* Slip: stop the device immediately.
StopDeviceNow ==
    /\ pc = "stopDevice"
    /\ pc' = "dispose"
    /\ device' = "stopped" /\ enqueued' = <<>>
    /\ UNCHANGED <<after, restarted, queue_, flags, data_queue_, returning, written, played, losses>>

\* AudioQueueStop, not immediate: it plays what it holds.  Or the call fails.
StopDevice ==
    /\ pc = "stopDevice"
    /\ \/ device' = "stopping" /\ pc' = "poll"
       \/ pc' = "dispose" /\ UNCHANGED device
    /\ UNCHANGED <<after, restarted, queue_, flags, data_queue_, enqueued, returning,
                   written, played, losses>>

\* The loop on IsRunning ends.
StopPoll ==
    /\ pc = "poll"
    /\ device = "stopped"
    /\ pc' = "dispose"
    /\ UNCHANGED <<after, restarted, queue_, flags, data_queue_, deviceVars, written, played, losses>>

\* AudioQueueGetProperty fails: the loop gives up.
StopPollFails ==
    /\ pc = "poll"
    /\ pc' = "dispose"
    /\ UNCHANGED <<after, restarted, queue_, flags, data_queue_, deviceVars, written, played, losses>>

\* AudioQueueDispose waits for a callback under way and drops what is enqueued.
StopDisposes ==
    /\ pc = "dispose"
    /\ ~returning
    /\ cut' = (cut \/ device \in Live)
    /\ device' = "none" /\ enqueued' = <<>>
    /\ pc' = "end"
    /\ UNCHANGED <<after, restarted, queue_, flags, data_queue_, returning,
                   written, played, lost, lostBuffers>>

StopEnds ==
    /\ pc = "end"
    /\ running_' = FALSE /\ stopped_' = TRUE
    /\ pc' = after
    /\ UNCHANGED <<after, restarted, queue_, done_, drained_, data_queue_, deviceVars,
                   written, played, losses>>

\* wait() returns; the destructor calls stop() once more.
Wait ==
    /\ pc = "wait"
    /\ stopped_
    /\ CallStop("exit")
    /\ UNCHANGED <<restarted, queue_, flags, data_queue_, deviceVars, written, played, losses>>

-----------------------------------------------------------------------------
(* The device and its callback. *)

\* The device has played the buffer in front.
DevicePlays ==
    /\ device \in Live
    /\ ~returning
    /\ enqueued # <<>>
    /\ enqueued' = Tail(enqueued)
    /\ played' = IF Head(enqueued) = Silence THEN played ELSE Append(played, Head(enqueued))
    /\ returning' = TRUE
    /\ UNCHANGED <<program, queue_, flags, data_queue_, device, written, losses>>

\* A device that was told to stop has played all it held.
DeviceStops ==
    /\ device = "stopping"
    /\ ~returning
    /\ enqueued = <<>>
    /\ device' = "stopped"
    /\ UNCHANGED <<program, queue_, flags, data_queue_, enqueued, returning, written, played, losses>>

\* Slip: a buffer is only given back with something to play.
FillIfAny ==
    IF data_queue_ = <<>>
    THEN UNCHANGED <<data_queue_, enqueued, losses>>
    ELSE /\ data_queue_' = Tail(data_queue_)
         /\ enqueued' = Append(enqueued, Head(data_queue_))
         /\ UNCHANGED losses

\* fill_and_enqueue: the next piece, or silence; the device may refuse it.
FillAndEnqueue ==
    LET piece == IF data_queue_ = <<>> THEN Silence ELSE Head(data_queue_)
    IN  /\ data_queue_' = IF data_queue_ = <<>> THEN <<>> ELSE Tail(data_queue_)
        /\ \/ /\ enqueued' = Append(enqueued, piece)
              /\ UNCHANGED losses
           \/ /\ lostBuffers < MaxLost
              /\ lostBuffers' = lostBuffers + 1
              /\ lost' = lost \cup ({piece} \ {Silence})
              /\ UNCHANGED <<enqueued, cut>>

\* The last part of callback(): nothing is left, and nothing will come.
SignalDrained ==
    IF done_ /\ data_queue_' = <<>> /\ ~drained_
    THEN drained_' = TRUE /\ running_' = FALSE
    ELSE UNCHANGED <<drained_, running_>>

Callback ==
    /\ returning
    /\ returning' = FALSE
    /\ IF running_ /\ queue_ /\ ~drained_
       THEN FillAndEnqueue
       ELSE UNCHANGED <<data_queue_, enqueued, losses>>
    /\ SignalDrained
    /\ UNCHANGED <<program, queue_, done_, stopped_, device, written, played>>

-----------------------------------------------------------------------------
Writes == \E n \in 1..(MaxPieces - written) : Write(n)

Stop == StopBegins \/ StopDrained \/ StopUnhooks \/ StopDevice \/ StopPoll \/ StopDisposes \/ StopEnds

Device == DevicePlays \/ DeviceStops \/ Callback

Program ==
    \/ Start \/ StartFailsEarly \/ StartFailsLate
    \/ Input \/ Writes \/ InputEnds \/ Stop \/ Wait

Next == Program \/ StopPollFails \/ Device

\* The program's thread and the device go on whenever they can; the query of
\* IsRunning need not fail.
Spec == Init /\ [][Next]_vars /\ WF_vars(Program) /\ WF_vars(Device)

-----------------------------------------------------------------------------
Pieces(s) == {s[i] : i \in DOMAIN s} \ {Silence}

\* Pieces stand in the order they were written; silence may stand between.
Ascending(s) ==
    \A i, j \in DOMAIN s : (i < j /\ s[i] # Silence /\ s[j] # Silence) => s[i] < s[j]

\* Every piece of the first set was written before every one of the second.
Before(a, b) == \A x \in a, y \in b : x < y

TypeOK ==
    /\ pc \in {"start", "input", "write", "wait", "exit"} \cup StopSteps
    /\ after \in {"start", "wait", "exit"}
    /\ {restarted, queue_, running_, done_, drained_, stopped_} \subseteq BOOLEAN
    /\ data_queue_ \in Seq(Nat)
    /\ device \in Live \cup {"none", "stopped"}
    /\ enqueued \in Seq(Nat)
    /\ returning \in BOOLEAN
    /\ written \in Nat
    /\ played \in Seq(Nat)
    /\ lost \subseteq Nat
    /\ lostBuffers \in 0..MaxLost
    /\ cut \in BOOLEAN

\* Where a piece can be.
Everywhere == Pieces(played) \cup Pieces(enqueued) \cup lost \cup Pieces(data_queue_)

\* Nothing is played out of order or twice, and until a failing call cuts the
\* device off, every piece is in exactly one place: played, in a buffer,
\* refused by the device, or still queued.
PiecesAccounted ==
    /\ Ascending(played) /\ Ascending(enqueued) /\ Ascending(data_queue_)
    /\ Before(Pieces(played), Pieces(enqueued))
    /\ Before(Pieces(played) \cup Pieces(enqueued), Pieces(data_queue_))
    /\ Before(lost, Pieces(data_queue_))
    /\ Everywhere \subseteq 1..written
    /\ ~cut => 1..written \subseteq Everywhere

\* The handle, the flags and the device agree at every step of stop(); in
\* particular a callback that still uses queue_ never meets a disposed device.
HandleAgrees ==
    /\ queue_ => device = "running"
    /\ queue_ <=> pc \in {"input", "write", "drain", "unhook"} \/ (pc = "stop" /\ ~stopped_)
    /\ device \in Live => (queue_ \/ pc \in {"stopDevice", "poll", "dispose"})
    /\ device \in {"stopping", "stopped"} => pc \in {"poll", "dispose"}
    /\ device \notin Live => enqueued = <<>>
    /\ device = "none" => ~returning
    /\ stopped_ => ~queue_ /\ device = "none" /\ data_queue_ = <<>>
    /\ drained_ => done_ /\ data_queue_ = <<>>
    /\ (queue_ /\ ~drained_) => running_
    /\ pc \in {"unhook", "stopDevice", "poll", "dispose", "end"} => drained_ /\ ~stopped_
    /\ pc \in {"start", "wait", "exit"} => stopped_

PlaybackInv == TypeOK /\ PiecesAccounted /\ HandleAgrees

\* What stop() promises, "wait for queue to drain": when it has returned, all
\* that was written was heard, except what the device itself refused.
AllPlayedWhenStopped ==
    (pc \in {"wait", "exit"} /\ ~cut) => Pieces(played) \cup lost = 1..written

\* stop() returns, whenever it is called and from wherever, as long as one
\* buffer of the device still comes back.
StopReturns == pc \in StopSteps ~> pc \in {"start", "wait", "exit"}
=============================================================================
