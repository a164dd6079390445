---------------------------- MODULE TtsServer ----------------------------
(***************************************************************************)
(* The streaming side of AsyncHttpServer (src/src/http/async_server.cpp)   *)
(* composed with the SynthesisScheduler that feeds it.  One thread runs    *)
(* the event loop, the other is the worker; they share the RequestContexts *)
(* of the module SynthesisScheduler.                                       *)
(*                                                                         *)
(* A connection that carries a /tts request is closed after its response   *)
(* (close_after_write), so a connection is named by its request.  The loop *)
(* visits every connection once per iteration, reading, writing and then   *)
(* draining; here it takes the visits in any order, which only adds        *)
(* behaviours.  Bytes are counted in items: the response head, one item    *)
(* per chunk of audio, the end of the body, or an error response.          *)
(***************************************************************************)
EXTENDS Naturals, Sequences, FiniteSets

CONSTANTS
    Requests, None, MaxPending, MaxChunks,
    Formats,         \* the audio formats of this build that clients ask for
    HighWater,       \* WRITE_BUFFER_HIGH_WATER, in items
    PrebufferTarget  \* ogg_prebuffer_chunks of the OGG requests, 0 for none

ASSUME ServerAssumption ==
    /\ None \notin Requests
    /\ MaxPending \in Nat \ {0}
    /\ MaxChunks \in Nat \ {0}
    /\ Formats \subseteq {"PCM", "OGG", "WAV"}
    /\ HighWater \in Nat
    /\ PrebufferTarget \in Nat

VARIABLES
    pending, wpc, held, state, cancelled, output_queue,
    inferred, pushed, popped, total,
    format,          \* the audio format each request asks for
    client,          \* "here" until the client closes its side
    conn,            \* conn.state, "CLOSED" once it is erased
    write_buffer,    \* conn.write_buffer
    kept,            \* samples not encoded yet: Ogg prebuffer, or wav_accumulator
    released,        \* AudioEncoder::_prebuffer_released
    sent,            \* what the socket accepted, in order
    active_streams,  \* _active_streams
    lpc, cur, rs     \* the event loop: step, connection and the state it read

schedulerVars == <<pending, wpc, held, state, cancelled, output_queue,
                   inferred, pushed, popped, total>>
loopVars == <<lpc, cur, rs>>
vars == <<schedulerVars, format, client, conn, write_buffer, kept, released,
          sent, active_streams, loopVars>>

\* The worker's side, on the variables that both threads share.
Scheduler == INSTANCE SynthesisScheduler
    WITH pending <- pending, wpc <- wpc, held <- held, state <- state,
         cancelled <- cancelled, output_queue <- output_queue, inferred <- inferred,
         pushed <- pushed, popped <- popped, total <- total

Kinds == {"head", "audio", "end", "error"}
Item  == [kind : Kinds, index : Nat]

Head_   == [kind |-> "head", index |-> 0]
End     == [kind |-> "end", index |-> 0]
Error   == [kind |-> "error", index |-> 0]
Audio(s) == [i \in DOMAIN s |-> [kind |-> "audio", index |-> s[i]]]

\* Where the audio is in a piece of a response, how many chunks that makes,
\* and which of them, counted from the first, is at position i.
AudioAt(items) == {i \in DOMAIN items : items[i].kind = "audio"}
Chunks(items) == Cardinality(AudioAt(items))
Place(items, i) == Cardinality({j \in AudioAt(items) : j <= i})
Has(items, x) == \E i \in DOMAIN items : items[i] = x

Init ==
    /\ Scheduler!Init
    /\ format \in [Requests -> Formats]
    /\ client = [r \in Requests |-> "here"]
    /\ conn = [r \in Requests |-> "READING"]
    /\ write_buffer = [r \in Requests |-> <<>>]
    /\ kept = [r \in Requests |-> <<>>]
    /\ released = [r \in Requests |-> FALSE]
    /\ sent = [r \in Requests |-> <<>>]
    /\ active_streams = 0
    /\ lpc = "poll" /\ cur = None /\ rs = "NEW"

-----------------------------------------------------------------------------
(* Helpers of the event loop. *)

BackToPoll == lpc' = "poll" /\ cur' = None /\ rs' = "NEW"

\* _close_connection: erase the connection; a streaming one counts down.
CloseConnection(r) ==
    /\ conn' = [conn EXCEPT ![r] = "CLOSED"]
    /\ active_streams' = IF state[r] # "NEW" /\ active_streams > 0
                         THEN active_streams - 1 ELSE active_streams

\* _send_response and _send_error replace the buffer and end the streaming.
Respond(r, items) ==
    /\ write_buffer' = [write_buffer EXCEPT ![r] = items]
    /\ conn' = [conn EXCEPT ![r] = "WRITING"]

\* The encoder (AudioEncoder::push) given chunk c: what it keeps and emits.
Prebuffering(r) == format[r] = "OGG" /\ PrebufferTarget > 0 /\ ~released[r]
Ready(r, n, isFinal) == n >= PrebufferTarget \/ isFinal

IsTerminal(s) == s \in Scheduler!Terminal

-----------------------------------------------------------------------------
(* Requests and disconnects. *)

\* _dispatch_request of a valid POST /tts: submit it to the scheduler.
Dispatch(r) ==
    /\ lpc = "poll"
    /\ conn[r] = "READING"
    /\ Scheduler!Submit(r)
    /\ lpc' = "respond" /\ cur' = r /\ UNCHANGED rs
    /\ UNCHANGED <<format, client, conn, write_buffer, kept, released, sent, active_streams>>

\* Slip: a WAV response gets its head at once, too.
StartStreamWithHead ==
    /\ lpc = "respond"
    /\ conn' = [conn EXCEPT ![cur] = "STREAMING"]
    /\ write_buffer' = [write_buffer EXCEPT ![cur] = <<Head_>>]
    /\ active_streams' = active_streams + 1
    /\ BackToPoll
    /\ UNCHANGED <<schedulerVars, format, client, kept, released, sent>>

\* _send_streaming_response: the encoder starts and the head is buffered.
StartStream ==
    /\ lpc = "respond"
    /\ conn' = [conn EXCEPT ![cur] = "STREAMING"]
    /\ write_buffer' = [write_buffer EXCEPT ![cur] =
                           IF format[cur] = "WAV" THEN <<>> ELSE <<Head_>>]
    /\ active_streams' = active_streams + 1
    /\ BackToPoll
    /\ UNCHANGED <<schedulerVars, format, client, kept, released, sent>>

\* Slip: the stream is counted only after its encoder has started.
StartFailsUncounted ==
    /\ lpc = "respond"
    /\ format[cur] # "WAV"
    /\ Scheduler!Cancel(cur)
    /\ Respond(cur, <<Error>>)
    /\ BackToPoll
    /\ UNCHANGED <<format, client, kept, released, sent, active_streams>>

\* _send_streaming_response: the encoder fails to start, or start throws.
StartFails ==
    /\ lpc = "respond"
    /\ format[cur] # "WAV"
    /\ Scheduler!Cancel(cur)
    /\ Respond(cur, <<Error>>)
    /\ active_streams' = active_streams + 1
    /\ BackToPoll
    /\ UNCHANGED <<format, client, kept, released, sent>>

\* The client closes its side; the server has yet to notice.
Leave(r) ==
    /\ client[r] = "here"
    /\ conn[r] # "CLOSED"
    /\ client' = [client EXCEPT ![r] = "gone"]
    /\ UNCHANGED <<schedulerVars, format, conn, write_buffer, kept, released,
                   sent, active_streams, loopVars>>

\* Slip: a connection that has output left is cancelled but not closed yet.
ReadEofKeepsOpen(r) ==
    /\ lpc = "poll"
    /\ client[r] = "gone"
    /\ conn[r] # "CLOSED"
    /\ IF state[r] # "NEW" /\ ~cancelled[r]
       THEN Scheduler!Cancel(r) ELSE UNCHANGED schedulerVars
    /\ IF write_buffer[r] = <<>>
       THEN CloseConnection(r) ELSE UNCHANGED <<conn, active_streams>>
    /\ UNCHANGED <<format, client, write_buffer, kept, released, sent, loopVars>>

\* _handle_connection_read sees the end of the input: cancel and close.
ReadEof(r) ==
    /\ lpc = "poll"
    /\ client[r] = "gone"
    /\ conn[r] # "CLOSED"
    /\ IF state[r] # "NEW" /\ ~cancelled[r]
       THEN Scheduler!Cancel(r) ELSE UNCHANGED schedulerVars
    /\ write_buffer' = [write_buffer EXCEPT ![r] = <<>>]
    /\ CloseConnection(r)
    /\ UNCHANGED <<format, client, kept, released, sent, loopVars>>

\* Slip: whatever empties the buffer ends the response, even in mid-stream.
WriteClosesStream(r, n) ==
    /\ lpc = "poll"
    /\ client[r] = "here"
    /\ n \in 1..Len(write_buffer[r])
    /\ conn[r] \in {"STREAMING", "WRITING"}
    /\ sent' = [sent EXCEPT ![r] = @ \o SubSeq(write_buffer[r], 1, n)]
    /\ write_buffer' = [write_buffer EXCEPT ![r] = SubSeq(@, n + 1, Len(@))]
    /\ IF n = Len(write_buffer[r])
       THEN CloseConnection(r) ELSE UNCHANGED <<conn, active_streams>>
    /\ UNCHANGED <<schedulerVars, format, client, kept, released, loopVars>>

\* _handle_connection_write: the socket takes the first n items.
Write(r, n) ==
    /\ lpc = "poll"
    /\ client[r] = "here"
    /\ n \in 1..Len(write_buffer[r])
    /\ conn[r] \in {"STREAMING", "WRITING"}
    /\ sent' = [sent EXCEPT ![r] = @ \o SubSeq(write_buffer[r], 1, n)]
    /\ write_buffer' = [write_buffer EXCEPT ![r] = SubSeq(@, n + 1, Len(@))]
    /\ IF n = Len(write_buffer[r]) /\ conn[r] # "STREAMING"
       THEN CloseConnection(r) ELSE UNCHANGED <<conn, active_streams>>
    /\ UNCHANGED <<schedulerVars, format, client, kept, released, loopVars>>

\* _handle_connection_write: the client resets the connection after poll()
\* reported it writable, write() fails, and the connection is closed.
WriteFails(r) ==
    /\ lpc = "poll"
    /\ client[r] = "here"
    /\ write_buffer[r] # <<>>
    /\ conn[r] \in {"STREAMING", "WRITING"}
    /\ client' = [client EXCEPT ![r] = "gone"]
    /\ CloseConnection(r)
    /\ UNCHANGED <<schedulerVars, format, write_buffer, kept, released, sent, loopVars>>

-----------------------------------------------------------------------------
(* The drain of one streaming connection. *)

\* The state is loaded before the queue is drained.  (A cancelled request
\* would be closed instead: NoCancelledStream says there is none, and so
\* rs is never CANCELLED below.)
DrainBegin(r) ==
    /\ lpc = "poll"
    /\ conn[r] = "STREAMING"
    /\ ~cancelled[r]
    /\ lpc' = "drain" /\ cur' = r /\ rs' = state[r]
    /\ UNCHANGED <<schedulerVars, format, client, conn, write_buffer, kept,
                   released, sent, active_streams>>

\* Slip: the queue is drained whatever the client has read.
MayPopAlways(r) == output_queue[r] # <<>>

MayPop(r) == Len(write_buffer[r]) <= HighWater /\ output_queue[r] # <<>>

\* Slip: the popped chunk overtakes the ones that were held back.
DrainPopOvertakes ==
    /\ lpc = "drain"
    /\ MayPop(cur)
    /\ Scheduler!TryPop(cur)
    /\ LET c == Head(output_queue[cur])
           all == Append(kept[cur], c)
           keeps == \/ format[cur] = "WAV"
                    \/ Prebuffering(cur) /\ ~Ready(cur, Len(all), IsTerminal(rs))
       IN \/ /\ keeps
             /\ kept' = [kept EXCEPT ![cur] = all]
             /\ UNCHANGED <<write_buffer, released>>
          \/ /\ ~keeps
             /\ write_buffer' = [write_buffer EXCEPT ![cur] = @ \o Audio(<<c>> \o kept[cur])]
             /\ kept' = [kept EXCEPT ![cur] = <<>>]
             /\ released' = [released EXCEPT ![cur] = Prebuffering(cur) \/ @]
    /\ UNCHANGED <<format, client, conn, sent, active_streams, loopVars>>

\* One turn of the inner loop: pop a chunk and encode or accumulate it.
DrainPop ==
    /\ lpc = "drain"
    /\ MayPop(cur)
    /\ Scheduler!TryPop(cur)
    /\ LET c == Head(output_queue[cur])
           all == Append(kept[cur], c)
       IN \/ /\ format[cur] = "WAV"
             /\ kept' = [kept EXCEPT ![cur] = all]
             /\ UNCHANGED <<write_buffer, released>>
          \/ /\ Prebuffering(cur)
             /\ ~Ready(cur, Len(all), IsTerminal(rs))
             /\ kept' = [kept EXCEPT ![cur] = all]
             /\ UNCHANGED <<write_buffer, released>>
          \/ /\ format[cur] # "WAV"
             /\ Prebuffering(cur) => Ready(cur, Len(all), IsTerminal(rs))
             /\ write_buffer' = [write_buffer EXCEPT ![cur] = @ \o Audio(all)]
             /\ kept' = [kept EXCEPT ![cur] = <<>>]
             /\ released' = [released EXCEPT ![cur] = Prebuffering(cur) \/ @]
    /\ UNCHANGED <<format, client, conn, sent, active_streams, loopVars>>

\* The encoder fails on the popped chunk, or write throws: close without the end.
EncodeFails ==
    /\ lpc = "drain"
    /\ MayPop(cur)
    /\ format[cur] # "WAV"
    /\ Scheduler!TryPop(cur)
    /\ CloseConnection(cur)
    /\ BackToPoll
    /\ UNCHANGED <<format, client, write_buffer, kept, released, sent>>

\* The queue or the buffer stopped the loop and there is more to come.
DrainPauses ==
    /\ lpc = "drain"
    /\ ~MayPop(cur)
    /\ ~IsTerminal(rs) \/ write_buffer[cur] # <<>>
    /\ BackToPoll
    /\ UNCHANGED <<schedulerVars, format, client, conn, write_buffer, kept,
                   released, sent, active_streams>>

\* The request is over and everything before its end has been written.
AtEnd ==
    /\ lpc = "drain"
    /\ ~MayPop(cur)
    /\ IsTerminal(rs)
    /\ write_buffer[cur] = <<>>

\* Slip: finish() with nothing but the terminal chunk.
FinishWithoutTail ==
    /\ AtEnd
    /\ format[cur] # "WAV"
    /\ Respond(cur, <<End>>)
    /\ BackToPoll
    /\ UNCHANGED <<schedulerVars, format, client, kept, released, sent, active_streams>>

\* finish(), the tail it returns, and the terminal chunk.  Only a DONE
\* request has its prebuffered chunks encoded.
FinishStream ==
    /\ AtEnd
    /\ format[cur] # "WAV"
    /\ \/ /\ rs = "DONE"
          /\ Respond(cur, Audio(kept[cur]) \o <<End>>)
          /\ kept' = [kept EXCEPT ![cur] = <<>>]
       \/ /\ rs # "DONE"
          /\ Respond(cur, <<End>>)
          /\ UNCHANGED kept
    /\ BackToPoll
    /\ UNCHANGED <<schedulerVars, format, client, released, sent, active_streams>>

\* finish() fails: close without the terminal chunk.  Only Ogg has anything to
\* encode there; for PCM it returns true with nothing.
FinishFails ==
    /\ AtEnd
    /\ format[cur] = "OGG"
    /\ rs = "DONE"
    /\ CloseConnection(cur)
    /\ BackToPoll
    /\ UNCHANGED <<schedulerVars, format, client, write_buffer, kept, released, sent>>

\* _send_wav_response: the complete file, which Content-Length delimits.
FinishWav ==
    /\ AtEnd
    /\ format[cur] = "WAV"
    /\ rs = "DONE"
    /\ Respond(cur, <<Head_>> \o Audio(kept[cur]) \o <<End>>)
    /\ BackToPoll
    /\ UNCHANGED <<schedulerVars, format, client, kept, released, sent, active_streams>>

\* A WAV request that failed, or whose file is too large: an error response.
FinishWavError ==
    /\ AtEnd
    /\ format[cur] = "WAV"
    /\ Respond(cur, <<Error>>)
    /\ BackToPoll
    /\ UNCHANGED <<schedulerVars, format, client, kept, released, sent, active_streams>>

-----------------------------------------------------------------------------
WorkerStep ==
    /\ Scheduler!Worker
    /\ UNCHANGED <<format, client, conn, write_buffer, kept, released, sent,
                   active_streams, loopVars>>

\* The rest of a visit the loop has begun.
FinishVisit ==
    \/ StartStream
    \/ StartFails
    \/ DrainPop
    \/ EncodeFails
    \/ DrainPauses
    \/ FinishStream
    \/ FinishFails
    \/ FinishWav
    \/ FinishWavError

SomeWrite(r) == \E n \in 1..Len(write_buffer[r]) : Write(r, n)

Visit(r) ==
    \/ Dispatch(r)
    \/ ReadEof(r)
    \/ SomeWrite(r)
    \/ WriteFails(r)
    \/ DrainBegin(r)

Next ==
    \/ WorkerStep
    \/ FinishVisit
    \/ \E r \in Requests : Visit(r) \/ Leave(r)

SafetySpec == Init /\ [][Next]_vars

\* Both threads run; every iteration of the loop visits every connection;
\* a client that stays goes on reading its response.
Fairness ==
    /\ WF_vars(WorkerStep)
    /\ WF_vars(FinishVisit)
    /\ \A r \in Requests :
           SF_vars(ReadEof(r)) /\ SF_vars(SomeWrite(r)) /\ SF_vars(DrainBegin(r))

Spec == SafetySpec /\ Fairness

-----------------------------------------------------------------------------
TypeOK ==
    /\ Scheduler!TypeOK
    /\ format \in [Requests -> Formats]
    /\ client \in [Requests -> {"here", "gone"}]
    /\ conn \in [Requests -> {"READING", "STREAMING", "WRITING", "CLOSED"}]
    /\ write_buffer \in [Requests -> Seq(Item)]
    /\ kept \in [Requests -> Seq(Nat)]
    /\ released \in [Requests -> BOOLEAN]
    /\ sent \in [Requests -> Seq(Item)]
    /\ active_streams \in Nat
    /\ lpc \in {"poll", "respond", "drain"}
    /\ cur \in Requests \cup {None}
    /\ rs \in Scheduler!States

\* A connection that streams was never cancelled: the loop closes it in the
\* step that cancels, so the drain never meets a cancelled request.
NoCancelledStream ==
    \A r \in Requests : conn[r] = "STREAMING" => ~cancelled[r]

\* A response that ends normally after a successful synthesis carries every
\* chunk, although the worker may finish while the loop is draining.
CompleteWhenDone ==
    \A r \in Requests :
        (state[r] = "DONE" /\ Has(sent[r], End)) =>
            Chunks(sent[r]) = total[r]

\* The types, and what the loop relies on at the two ends of a stream.
ServerInv ==
    /\ TypeOK
    /\ NoCancelledStream
    /\ CompleteWhenDone

\* Chunk by chunk, what the client was sent, what waits in the write buffer
\* and what the encoder keeps back are the chunks popped so far, in order.
InOrderDelivery ==
    \A r \in Requests :
        LET out == sent[r] \o write_buffer[r]
        IN /\ \A i \in AudioAt(out) : out[i].index = Place(out, i)
           /\ conn[r] = "STREAMING" =>
                 /\ Chunks(out) + Len(kept[r]) = popped[r]
                 /\ \A i \in DOMAIN kept[r] : kept[r][i] = Chunks(out) + i

\* A WAV client gets the whole file or an error, never a part of the audio
\* followed by an error or by a second head.
OneResponse ==
    \A r \in Requests :
        LET out == sent[r] \o write_buffer[r]
        IN /\ Has(out, Error) => out = <<Error>>
           /\ Has(out, End) => out[Len(out)] = End
           /\ \A i \in DOMAIN out : out[i] = Head_ => i = 1

\* End to end, a slow client of a streaming format makes the server hold a
\* bounded number of chunks: output queue, prebuffer and write buffer.
HeldChunks(r) == pushed[r] - Chunks(sent[r])
BufferBound(r) ==
    IF format[r] = "OGG" /\ PrebufferTarget > HighWater + 1
    THEN PrebufferTarget ELSE HighWater + 1
BoundedBacklog ==
    \A r \in Requests :
        (format[r] # "WAV" /\ conn[r] = "STREAMING") =>
            HeldChunks(r) <= MaxPending + BufferBound(r)

\* The idle monitor sees exactly the responses that are being produced.
StreamsCounted ==
    active_streams = Cardinality({r \in Requests :
        /\ conn[r] \in {"STREAMING", "WRITING"}
        /\ state[r] # "NEW"})

\* A terminal chunk tells the client that the stream is whole; a failure is
\* signalled by its absence.
FailureTruncatesStream ==
    \A r \in Requests :
        (format[r] # "WAV" /\ Has(sent[r], End)) => state[r] = "DONE"

\* Whatever way a client is lost, the worker stops working for it.
LostClientReleased ==
    \A r \in Requests :
        (conn[r] = "CLOSED" /\ state[r] # "NEW") ~> state[r] \in Scheduler!Terminal

-----------------------------------------------------------------------------
(* The service this server implements. *)

Ended(r) == IF conn[r] # "CLOSED" THEN "open"
            ELSE IF client[r] = "gone" THEN "dropped" ELSE "failed"

phase ==
    [r \in Requests |->
        IF state[r] = "NEW" THEN IF conn[r] = "CLOSED" THEN "dropped" ELSE "idle"
        ELSE IF Has(sent[r], End) THEN IF state[r] = "DONE" THEN "complete" ELSE "failed"
        ELSE IF Has(sent[r], Error) THEN "failed"
        ELSE Ended(r)]

heard == [r \in Requests |-> Chunks(sent[r])]

Service == INSTANCE TtsService
    WITH phase <- phase, heard <- heard, total <- total
ServiceSpec == Service!Spec
=============================================================================
