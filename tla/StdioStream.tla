---------------------------- MODULE StdioStream ----------------------------
(***************************************************************************)
(* The standard-input mode (src/src/stdio/stdio_stream.cpp) on top of the  *)
(* streaming pipeline: the main thread reads commands and begins a stream  *)
(* for every text that is to be spoken; the streams' callbacks write the   *)
(* audio to stdout and append it to the WAV accumulator, both in one order *)
(* (heard).  For comparison the run also has the direct callers of         *)
(* stream_synthesize (src/tests/test_streaming_pipeline.cpp), who may stop *)
(* a stream from outside or by the callback; which caller it is, is chosen *)
(* in the initial state.                                                   *)
(*                                                                         *)
(* Of the text buffer only counts whether it is empty.  An output path is  *)
(* given, so that join() saves the audio.                                  *)
(***************************************************************************)
EXTENDS StreamPipeline

VARIABLES
    pc,           \* what the main thread does next; "test" is a direct caller
    buffered,     \* ~_text_buffer.empty()
    begun,        \* how many streams were begun
    handle,       \* _handles: the stream that is not joined, 0 if there is none
    file,         \* the audio in the WAV file
    saved         \* the last save() succeeded

mainVars == <<pc, buffered, begun, handle, file, saved>>
vars == <<pipelineVars, mainVars>>

NoStream == 0

StdioInit ==
    /\ Init
    /\ pc \in {"getline", "test"}
    /\ buffered = FALSE
    /\ begun = 0 /\ handle = NoStream
    /\ file = <<>> /\ saved = FALSE

\* Whether join() on the handle returns.
Joinable == handle # NoStream => spc[handle] = "exited"

-----------------------------------------------------------------------------
(* The main thread: run(), join() and the destructor. *)

\* A line with a text and no flush.
Text ==
    /\ pc = "getline"
    /\ buffered' = TRUE
    /\ UNCHANGED <<pipelineVars, pc, begun, handle, file, saved>>

\* A line that has something spoken: a flush with text in the line or in the
\* buffer, or a stop with both.  Any other flush or stop changes nothing.
Flush ==
    /\ pc = "getline"
    /\ begun < MaxStreams
    /\ buffered' = TRUE
    /\ pc' = "synthesize"
    /\ UNCHANGED <<pipelineVars, begun, handle, file, saved>>

\* The end of the input: what is buffered is spoken.
Eof ==
    /\ pc = "getline"
    /\ buffered => begun < MaxStreams
    /\ pc' = IF buffered THEN "rest" ELSE "join"
    /\ UNCHANGED <<pipelineVars, buffered, begun, handle, file, saved>>

\* Slip: the stream before is not waited for.
SynthesizeAtOnce ==
    /\ pc \in {"synthesize", "rest"}
    /\ Begin(begun + 1)
    /\ begun' = begun + 1 /\ handle' = begun + 1
    /\ buffered' = FALSE
    /\ pc' = IF pc = "rest" THEN "join" ELSE "getline"
    /\ UNCHANGED <<file, saved>>

\* _synthesize: the stream before is joined, and the next begun.
Synthesize ==
    /\ pc \in {"synthesize", "rest"}
    /\ Joinable
    /\ Begin(begun + 1)
    /\ begun' = begun + 1 /\ handle' = begun + 1
    /\ buffered' = FALSE
    /\ pc' = IF pc = "rest" THEN "join" ELSE "getline"
    /\ UNCHANGED <<file, saved>>

\* join(): the last stream is waited for.
Join ==
    /\ pc = "join"
    /\ Joinable
    /\ pc' = "save"
    /\ handle' = NoStream
    /\ UNCHANGED <<pipelineVars, buffered, begun, file, saved>>

\* save(), once by join() and once more by the destructor's join(); with no
\* audio nothing is written, and the writing may fail.
Save ==
    /\ pc \in {"save", "destroy"}
    /\ pc' = IF pc = "save" THEN "destroy" ELSE "exit"
    /\ \/ saved' = TRUE /\ file' = heard
       \/ saved' = FALSE /\ heard # <<>> /\ UNCHANGED file
    /\ UNCHANGED <<pipelineVars, buffered, begun, handle>>

-----------------------------------------------------------------------------
(* A direct caller: it begins a stream, may stop it, and joins it. *)

DirectBegin ==
    /\ pc = "test"
    /\ handle = NoStream
    /\ begun < MaxStreams
    /\ Begin(begun + 1)
    /\ begun' = begun + 1 /\ handle' = begun + 1
    /\ UNCHANGED <<pc, buffered, file, saved>>

DirectStop ==
    /\ pc = "test"
    /\ handle # NoStream
    /\ Stop(handle)
    /\ UNCHANGED mainVars

DirectJoin ==
    /\ pc = "test"
    /\ handle # NoStream /\ Joinable
    /\ handle' = NoStream
    /\ UNCHANGED <<pipelineVars, pc, buffered, begun, file, saved>>

\* Its callback asks to stop.
DirectRefuses(s) ==
    /\ pc = "test"
    /\ Refuse(s)
    /\ UNCHANGED mainVars

-----------------------------------------------------------------------------
Main == Synthesize \/ Join \/ Save

Stdio == Text \/ Eof \/ Flush \/ Main

Direct == DirectBegin \/ DirectStop \/ DirectJoin \/ \E s \in Streams : DirectRefuses(s)

Streaming == \E s \in Streams : Run(s) /\ UNCHANGED mainVars

StdioNext == Stdio \/ Direct \/ Streaming

\* The main thread goes on except where it waits for input; the threads of a
\* stream run, and an inference returns.
StdioSpec ==
    /\ StdioInit /\ [][StdioNext]_vars
    /\ WF_vars(Main)
    /\ \A s \in Streams :
          WF_vars(Thread(s) /\ UNCHANGED mainVars) /\ WF_vars(Worker(s) /\ UNCHANGED mainVars)

-----------------------------------------------------------------------------
\* The handle is the only stream that may still run.
CallerInv ==
    /\ pc \in {"test", "getline", "synthesize", "rest", "join", "save", "destroy", "exit"}
    /\ buffered \in BOOLEAN /\ saved \in BOOLEAN
    /\ begun \in 0..MaxStreams
    /\ handle \in {NoStream, begun}
    /\ \A s \in Streams : s > begun <=> spc[s] = "none"
    /\ \A s \in Streams : s # handle => Ended(s)
    /\ pc \in {"synthesize", "rest"} => begun < MaxStreams
    /\ pc \in {"save", "destroy", "exit"} => handle = NoStream

\* The pipeline's invariants hold for this caller: among others, get() is never
\* called on an invalid future, no callback comes after one that asked to stop,
\* and a joined stream has left no inference behind, so that the model never has
\* two users and may be freed when the program ends.
StdioInv == StreamInv /\ CallerInv

\* Whatever is heard, on stdout and in the WAV file, is in the order of the
\* texts and of their chunks, with no chunk twice; and a file that was saved at
\* the end holds all of it.
SpokenInOrder ==
    /\ \A j, k \in DOMAIN heard :
          j < k => \/ heard[j][1] < heard[k][1]
                   \/ heard[j][1] = heard[k][1] /\ heard[j][2] < heard[k][2]
    /\ (pc = "exit" /\ saved) => file = heard

\* Every stream ends, stopped or not and whatever fails, and at the end of the
\* input the program does.
EverythingEnds ==
    /\ \A s \in Streams : spc[s] = "prepare" ~> spc[s] = "exited"
    /\ pc \in {"rest", "join"} ~> pc = "exit"
=============================================================================
