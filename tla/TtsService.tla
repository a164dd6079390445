---------------------------- MODULE TtsService ----------------------------
(***************************************************************************)
(* What POST /tts promises to a client, without threads, queues, encoders  *)
(* or buffers.  A request that is accepted is answered with its chunks of  *)
(* audio in the order of the text; the answer is complete only after the   *)
(* last of them; it may instead fail, or be given up when the client has   *)
(* left; and once it is over nothing more is heard.                        *)
(***************************************************************************)
EXTENDS Naturals

CONSTANTS
    Requests,  \* the requests that may be made
    MaxChunks  \* the most chunks one text is split into

VARIABLES
    phase,     \* where each request is
    heard,     \* how many chunks of audio the client was sent
    total      \* how many chunks its text makes

serviceVars == <<phase, heard, total>>

Over == {"complete", "failed", "dropped"}

Init ==
    /\ phase = [r \in Requests |-> "idle"]
    /\ heard = [r \in Requests |-> 0]
    /\ total \in [Requests -> 1..MaxChunks]

Accept(r) ==
    /\ phase[r] = "idle"
    /\ phase' = [phase EXCEPT ![r] = "open"]
    /\ UNCHANGED <<heard, total>>

\* The client is sent the next chunks, up to chunk n.
Hear(r, n) ==
    /\ phase[r] = "open"
    /\ n > heard[r]
    /\ heard' = [heard EXCEPT ![r] = n]
    /\ UNCHANGED <<phase, total>>

\* The last chunks and the end of the answer; everything has been heard.
Complete(r) ==
    /\ phase[r] = "open"
    /\ phase' = [phase EXCEPT ![r] = "complete"]
    /\ heard' = [heard EXCEPT ![r] = total[r]]
    /\ UNCHANGED total

\* The answer ends short, after at most chunk n.
Fail(r, n) ==
    /\ phase[r] = "open"
    /\ n >= heard[r]
    /\ phase' = [phase EXCEPT ![r] = "failed"]
    /\ heard' = [heard EXCEPT ![r] = n]
    /\ UNCHANGED total

\* The client went away, before or after it made its request.
Drop(r) ==
    /\ phase[r] \in {"idle", "open"}
    /\ phase' = [phase EXCEPT ![r] = "dropped"]
    /\ UNCHANGED <<heard, total>>

Next ==
    \E r \in Requests :
        \/ Accept(r)
        \/ Complete(r)
        \/ Drop(r)
        \/ \E n \in 0..total[r] : Hear(r, n) \/ Fail(r, n)

Spec == Init /\ [][Next]_serviceVars
=============================================================================
