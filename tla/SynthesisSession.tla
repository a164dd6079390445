-------------------------- MODULE SynthesisSession --------------------------
(***************************************************************************)
(* SynthesisSession (src/src/synthesis/synthesis_session.cpp) behind the   *)
(* C API that exposes it (kokopop_synthesis_*, src/src/kokopop.cpp): a     *)
(* caller pushes text, finishes the input, then asks for audio a batch of  *)
(* chunks at a time until the session is done.  A call may fail or leave   *)
(* by an exception, and nothing keeps the caller from asking again.        *)
(*                                                                         *)
(* The units a text is cut into are an input; Chunker turns them into      *)
(* chunks.  A call of next is several steps, one per chunk it infers.      *)
(***************************************************************************)
EXTENDS Chunker

CONSTANTS
    Setups,      \* [mode, cfg]: the stream mode and the budgets of a session
    Styles,      \* the styles of a voice
    UnitLists,   \* what a text may be cut into
    MaxPieces,   \* bound: how often push_text is called
    MaxBatch,    \* the largest max_chunks a caller asks for
    GrowStep     \* grow_step_tokens

\* A unit without phonemes is dropped, and its tokens count the framing too.
Units == [tokens : Nat \ {0}, boundary : Boundaries, style : Styles]

ASSUME SessionAssumption ==
    /\ \A s \in Setups : s.mode \in {"LongForm", "Adaptative"} /\ WellFormed(s.cfg)
    /\ UnitLists \subseteq Seq(Units) \ {<<>>}
    /\ MaxPieces \in Nat /\ MaxBatch \in Nat /\ GrowStep \in Nat

VARIABLES
    setup,
    pieces,          \* what _text is made of, counted
    input_finished, started, prepared, done,
    units,           \* _adaptative_units, or what _plan.chunks was cut from
    chunks,          \* _plan.chunks
    cleared,         \* the plan's chunks whose tokens were released
    next_unit,       \* _adaptative_next_unit, counted from 1
    completed,       \* _chunks_completed
    total,           \* _chunks_total
    growth,          \* growth_max_tokens of the controller
    batch,           \* max_chunks of the call of next in progress, or 0
    out,             \* the audio it has generated
    delivered,       \* what the calls that succeeded have returned
    errors           \* what went wrong after the session was prepared

inputVars == <<setup, pieces, input_finished, started>>
planVars  == <<prepared, units, chunks>>
genVars   == <<done, cleared, next_unit, completed, total, growth>>
callVars  == <<batch, out, delivered, errors>>
vars == <<inputVars, planVars, genVars, callVars>>

LongForm == setup.mode = "LongForm"
cfg      == setup.cfg

Audio(c, isFinal) ==
    [index |-> completed, first |-> c.first, last |-> c.last, final |-> isFinal]

Init ==
    /\ setup \in Setups
    /\ pieces = 0
    /\ input_finished = FALSE /\ started = FALSE /\ prepared = FALSE /\ done = FALSE
    /\ units = <<>> /\ chunks = <<>> /\ cleared = {}
    /\ next_unit = 1 /\ completed = 0 /\ total = 0 /\ growth = 0
    /\ batch = 0 /\ out = <<>> /\ delivered = <<>> /\ errors = {}

-----------------------------------------------------------------------------
(* Input. *)

\* push_text of a non-empty text, before the session starts.
PushText ==
    /\ batch = 0 /\ ~started /\ ~input_finished
    /\ pieces < MaxPieces
    /\ pieces' = pieces + 1
    /\ UNCHANGED <<setup, input_finished, started, planVars, genVars, callVars>>

FinishInput ==
    /\ batch = 0 /\ pieces > 0
    /\ input_finished' = TRUE
    /\ UNCHANGED <<setup, pieces, started, planVars, genVars, callVars>>

\* prepare, which next begins with: the plan, or the units and the controller.
Prepare ==
    /\ batch = 0 /\ input_finished /\ ~prepared
    /\ started' = TRUE /\ prepared' = TRUE
    /\ \E u \in UnitLists :
         /\ units' = u
         /\ chunks' = IF LongForm THEN ChunkText(u, cfg) ELSE <<>>
    /\ total' = Len(chunks')
    /\ growth' = IF LongForm THEN growth ELSE cfg.target_max
    /\ UNCHANGED <<setup, pieces, input_finished, done, cleared, next_unit, completed, callVars>>

\* The voice is unknown, nothing is speakable or a chunk cannot be tokenized.
PrepareFails ==
    /\ batch = 0 /\ input_finished /\ ~prepared
    /\ started' = TRUE
    /\ UNCHANGED <<setup, pieces, input_finished, planVars, genVars, callVars>>

-----------------------------------------------------------------------------
(* next: the loop that generates up to `batch` chunks. *)

Next_(n) ==
    /\ batch = 0 /\ prepared /\ ~done
    /\ batch' = n
    /\ UNCHANGED <<inputVars, planVars, genVars, out, delivered, errors>>

InLoop == batch > 0 /\ ~done /\ Len(out) < batch

\* A call that returns false: whatever it had generated is dropped.
Fail(kind) ==
    /\ batch' = 0 /\ out' = <<>>
    /\ errors' = errors \cup {kind}
    /\ UNCHANGED delivered

\* A chunk was inferred: it is counted and joins the batch.
Emit(c, isFinal) ==
    /\ completed' = completed + 1
    /\ done' = isFinal
    /\ out' = Append(out, Audio(c, isFinal))
    /\ UNCHANGED <<batch, delivered, errors>>

\* The plan's next chunk; its tokens are released when infer_chunk returns,
\* whether or not it succeeded.
Release == cleared' = cleared \cup {completed + 1}

GenerateLong ==
    /\ InLoop /\ LongForm
    /\ completed + 1 \notin cleared
    /\ Release
    /\ Emit(chunks[completed + 1], completed + 1 = total)
    /\ UNCHANGED <<inputVars, planVars, next_unit, total, growth>>

\* Slip: a chunk that failed keeps its tokens, and can be tried again.
GenerateLongFailsKeeping ==
    /\ InLoop /\ LongForm
    /\ Fail("inference")
    /\ UNCHANGED <<inputVars, planVars, genVars>>

GenerateLongFails ==
    /\ InLoop /\ LongForm
    /\ Release
    /\ Fail("inference")
    /\ UNCHANGED <<inputVars, planVars, done, next_unit, completed, total, growth>>

\* The chunks that the controller's target may give.
NextChunks ==
    {BuildAdaptative(units, next_unit, cfg, target, completed = 0) :
         target \in Targets(cfg, growth)}

\* Slip: it moves past the chunk's first unit only.
AdvanceOne(c) == next_unit' = c.first + 1

\* The position moves past a chunk as it is built, before it is inferred.
Advance(c) == next_unit' = c.last + 1

\* Slip: off by one.
IsLastButOne(c) == c.last + 1 >= Len(units)

IsLast(c) == c.last = Len(units)

GenerateAdaptative ==
    /\ InLoop /\ ~LongForm /\ next_unit <= Len(units)
    /\ \E c \in NextChunks :
         /\ Advance(c)
         /\ Emit(c, IsLast(c))
         /\ total' = IF IsLast(c) THEN completed + 1 ELSE total
    /\ growth' \in IF completed = 0 /\ cfg.first_max > 0 THEN {growth}
                   ELSE Observe(cfg, growth, GrowStep)
    /\ UNCHANGED <<inputVars, planVars, cleared>>

\* Slip: the position stays before the chunk that failed.
GenerateAdaptativeFailsInPlace ==
    /\ InLoop /\ ~LongForm /\ next_unit <= Len(units)
    /\ Fail("inference")
    /\ UNCHANGED <<inputVars, planVars, genVars>>

\* The inference fails or throws, or the chunk cannot even be tokenized (total
\* stays): the position has moved.
GenerateAdaptativeFails ==
    /\ InLoop /\ ~LongForm /\ next_unit <= Len(units)
    /\ \E c \in NextChunks :
         /\ Advance(c)
         /\ total' \in {total} \cup IF IsLast(c) THEN {completed + 1} ELSE {}
    /\ Fail("inference")
    /\ UNCHANGED <<inputVars, planVars, done, cleared, completed, growth>>

\* No unit is left, after the last chunk failed: done, without a final chunk.
Exhausted ==
    /\ InLoop /\ ~LongForm
    /\ next_unit > Len(units)
    /\ done' = TRUE
    /\ UNCHANGED <<inputVars, planVars, cleared, next_unit, completed, total, growth, callVars>>

LoopEnded == batch > 0 /\ (done \/ Len(out) = batch)

Return ==
    /\ LoopEnded
    /\ delivered' = delivered \o out
    /\ batch' = 0 /\ out' = <<>>
    /\ UNCHANGED <<inputVars, planVars, genVars, errors>>

\* An exception leaves next before a chunk is counted or behind it, or the copy
\* of the batch cannot be allocated; guarded makes it an error code.  The batch
\* is dropped with the chunks it has counted, but no tokens are released.
Throws ==
    /\ InLoop \/ (batch > 0 /\ out # <<>>)
    /\ Fail(IF out = <<>> THEN "thrown" ELSE "dropped")
    /\ UNCHANGED <<inputVars, planVars, genVars>>

Generate == \/ GenerateLong \/ GenerateLongFails
            \/ GenerateAdaptative \/ GenerateAdaptativeFails \/ Exhausted

Call == \E n \in 1..MaxBatch : Next_(n)

Next ==
    \/ PushText \/ FinishInput \/ Prepare \/ PrepareFails
    \/ Call \/ Generate \/ Return \/ Throws

\* The caller asks again until it is done, whatever the calls answer; the steps
\* of a call follow each other on the caller's thread, and a caller that keeps
\* asking does not meet an exception every time.
Spec == Init /\ [][Next]_vars
             /\ WF_vars(Call) /\ SF_vars(Generate) /\ WF_vars(Return)

-----------------------------------------------------------------------------
(* Properties. *)

\* The values of the state.  A chunk that was counted was planned or built,
\* and the cap of the adaptative target stays between the two budgets.
TypeOK ==
    /\ setup \in Setups
    /\ pieces \in 0..MaxPieces
    /\ {input_finished, started, prepared, done} \subseteq BOOLEAN
    /\ batch \in 0..MaxBatch /\ Len(out) <= batch
    /\ next_unit \in 1..(Len(units) + 1)
    /\ completed \in 0..Len(units)
    /\ total \in 0..Len(units)
    /\ cleared \subseteq DOMAIN chunks
    /\ growth \in {0} \cup cfg.target_min..cfg.soft_max

\* Consecutive runs that start with unit `from`.
Consecutive(runs, from) ==
    \A i \in DOMAIN runs :
        runs[i].first = IF i = 1 THEN from ELSE runs[i - 1].last + 1

OneStyle(c) == \A i \in c.first..c.last : units[i].style = Style(units, c)

\* chunk_text and its rebalancing neither lose, repeat nor reorder a unit of
\* the text, and never put two emotion styles into one inference.
PlanCoversText ==
    chunks # <<>> =>
        /\ Consecutive(chunks, 1) /\ Last(chunks).last = Len(units)
        /\ \A i \in DOMAIN chunks : OneStyle(chunks[i])

\* No inference is asked for more tokens than the model's capacity, unless a
\* single unit alone is larger; adaptative chunks keep one style as well.
WithinCapacity ==
    LET asked == Range(chunks) \cup Range(out)
    IN  \A c \in asked : /\ Size(units, c) <= cfg.hard_max \/ c.first = c.last
                         /\ OneStyle(c)

\* rebalance_tiny_chunks is complete in one pass: no chunk below the minimum,
\* the exempt first one apart, could still join a neighbour.
NoMergeableTiny ==
    \A i, j \in DOMAIN chunks :
        /\ j \in {i - 1, i + 1}
        /\ ~Exempt(cfg, i) /\ Size(units, chunks[i]) < cfg.target_min
        => ~Mergeable(units, cfg, chunks[Min({i, j})], chunks[Max({i, j})])

\* The adaptative builder looks ahead: a final chunk below the minimum comes
\* out only if the chunk before it, unless that is the first, could not take it.
TinyTailAbsorbed ==
    (~LongForm /\ Len(out) >= 2 /\ Last(out).final) =>
        LET c == out[Len(out) - 1]  d == Last(out)
        IN  \/ Size(units, d) >= cfg.target_min
            \/ c.index = 0
            \/ Style(units, c) # Style(units, d)
            \/ Size(units, c) + Size(units, d) > cfg.hard_max

\* Whatever fails and however the caller retries, the audio it gets speaks
\* each unit at most once, in the order of the text, with growing indices,
\* and nothing follows a final chunk.
SpokenInOrder ==
    LET audio == delivered \o out
    IN  \A i \in 2..Len(audio) :
            /\ audio[i - 1].last < audio[i].first
            /\ audio[i - 1].index < audio[i].index
            /\ ~audio[i - 1].final

\* What a long-form session delivers is a prefix of the text, however often a
\* call fails and the caller asks again: it stops for good at a chunk whose
\* inference failed, because the tokens are gone, and goes on with a chunk whose
\* inference threw, because they are not.  Only a call that leaves with chunks
\* it has counted ("dropped") opens a gap.
LongFormGapless ==
    (LongForm /\ "dropped" \notin errors) => Consecutive(delivered, 1)

\* When no call failed, a session that is done has delivered
\* the whole text, numbered from 0, with one final chunk: the last.
CompleteWhenDone ==
    (done /\ batch = 0 /\ errors = {}) =>
        /\ Consecutive(delivered, 1) /\ Last(delivered).last = Len(units)
        /\ \A i \in DOMAIN delivered :
              /\ delivered[i].index = i - 1
              /\ delivered[i].final <=> i = total
        /\ total = Len(delivered)

\* The types, and how a session ends: on a final chunk that is not too small,
\* and with nothing left out.
SessionInv ==
    /\ TypeOK
    /\ TinyTailAbsorbed
    /\ CompleteWhenDone

\* A caller that keeps asking gets to the end: always in adaptative mode, and
\* unless an inference fails in long-form mode.
GenerationEnds == prepared ~> (done \/ (LongForm /\ "inference" \in errors))
=============================================================================
