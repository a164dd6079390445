------------------------------ MODULE Chunker ------------------------------
(***************************************************************************)
(* The assembly of units into chunks (src/src/synthesis/chunker): the      *)
(* greedy pass and the rebalancing of the long-form mode, and the builder  *)
(* and the feedback controller of the adaptative mode.                     *)
(*                                                                         *)
(* A unit is a fragment of text: its size in tokens, the boundary after it *)
(* and the style it is spoken in.  A chunk is a run of consecutive units,  *)
(* named by its first and last one.  Sizes are the sums of the units'      *)
(* estimates; the text and the phonemes are left out.                      *)
(***************************************************************************)
EXTENDS Integers, Sequences, SequencesExt, FiniteSetsExt

Score == [None |-> 0, ClauseWeak |-> 1, ClauseStrong |-> 2, Newline |-> 3,
          Sentence |-> 4, Paragraph |-> 5]

Boundaries   == DOMAIN Score
IsStrong(b)  == b \in {"Sentence", "Paragraph", "Newline"}
IsReasonable(b) == IsStrong(b) \/ b = "ClauseStrong"

\* The budgets as scale_chunk_budgets leaves them: each within the next one.
WellFormed(cfg) ==
    /\ {cfg.target_min, cfg.target_max, cfg.soft_max, cfg.hard_max} \subseteq Nat
    /\ 0 < cfg.target_min /\ cfg.target_min <= cfg.target_max
    /\ cfg.target_max <= cfg.soft_max /\ cfg.soft_max <= cfg.hard_max
    /\ cfg.first_max \in 0..cfg.target_max
    /\ cfg.overshoot \in 0..(cfg.hard_max - cfg.target_max)
    /\ cfg.short_first \in BOOLEAN

\* How many tokens the first units have, for every number of them.
Tokens(units) ==
    LET upto[i \in 0..Len(units)] ==
            IF i = 0 THEN 0 ELSE upto[i - 1] + units[i].tokens
    IN  upto

Run(first, last) == [first |-> first, last |-> last]
Size(units, c)  == Tokens(units)[c.last] - Tokens(units)[c.first - 1]
Style(units, c) == units[c.first].style
After(units, c) == units[c.last].boundary
Join(c, d)      == Run(c.first, d.last)

-----------------------------------------------------------------------------
(* chunk_text: the whole plan at once. *)

\* The chunk under construction once `chunks` are flushed and unit i is in it.
Current(chunks, i) == Run(IF chunks = <<>> THEN 1 ELSE Last(chunks).last + 1, i)

Short(chunks, cfg) == chunks = <<>> /\ cfg.short_first

\* Must `cur` be flushed before unit i joins it?
FlushBefore(units, cfg, chunks, cur, i) ==
    LET trial   == Size(units, cur) + units[i].tokens
        maxThis == IF Short(chunks, cfg) THEN cfg.first_max ELSE cfg.target_max
    IN  \/ Style(units, cur) # units[i].style
        \/ trial > cfg.hard_max
        \/ /\ Size(units, cur) >= cfg.target_min
           /\ \/ trial > maxThis
              \/ units[i].tokens > cfg.target_max
              \/ trial > cfg.target_max /\ IsStrong(After(units, cur))

\* Is `cur`, with its last unit just appended, flushed at once?
FlushAfter(units, cfg, chunks, cur) ==
    LET n == Size(units, cur)  b == After(units, cur)
    IN  IF Short(chunks, cfg)
        THEN \/ cfg.first_max > 0 /\ n >= cfg.first_max
             \/ cfg.first_max = 0 /\ b # "None"
             \/ n >= cfg.target_min /\ IsStrong(b)
        ELSE \/ n >= cfg.target_max /\ IsReasonable(b)
             \/ n >= cfg.soft_max /\ b # "None"
             \/ n >= cfg.hard_max

\* The chunks flushed once unit i is in, from those flushed before it.
Flush(units, cfg, chunks, i) ==
    LET cur   == Current(chunks, i - 1)
        kept  == IF cur.first < i /\ FlushBefore(units, cfg, chunks, cur, i)
                 THEN Append(chunks, cur) ELSE chunks
        grown == Current(kept, i)
    IN  IF FlushAfter(units, cfg, kept, grown) THEN Append(kept, grown) ELSE kept

Flushed(units, cfg) ==
    LET flushed[i \in 0..Len(units)] ==
            IF i = 0 THEN <<>> ELSE Flush(units, cfg, flushed[i - 1], i)
    IN  flushed

Assemble(units, cfg) ==
    LET chunks == Flushed(units, cfg)[Len(units)]
        rest   == Current(chunks, Len(units))
    IN  IF rest.first <= rest.last THEN Append(chunks, rest) ELSE chunks

\* Slip: the styles are not compared.
MergeableAcrossStyles(units, cfg, c, d) ==
    Size(units, c) + Size(units, d) <= cfg.target_max

\* May the two be one chunk: the same style, and within the target?
Mergeable(units, cfg, c, d) ==
    /\ Style(units, c) = Style(units, d)
    /\ Size(units, c) + Size(units, d) <= cfg.target_max

Exempt(cfg, i) == i = 1 /\ cfg.short_first

\* Slip: the first chunk is left alone, as if it were exempt from growing too.
JoinsPreviousButFirst(units, cfg, out, cur) ==
    Len(out) > 1 /\ Mergeable(units, cfg, Last(out), cur)

\* A tiny chunk joins the one before it (the last of `out`), or the one after.
JoinsPrevious(units, cfg, out, cur) ==
    out # <<>> /\ Mergeable(units, cfg, Last(out), cur)

JoinsNext(units, cfg, chunks, i) ==
    i < Len(chunks) /\ Mergeable(units, cfg, chunks[i], chunks[i + 1])

\* Chunk i is looked at, unless the one before has taken it in (`skip`).
Rebalance(units, cfg, chunks, acc, i) ==
    LET cur   == chunks[i]
        tiny  == ~Exempt(cfg, i) /\ Size(units, cur) < cfg.target_min
        back  == tiny /\ JoinsPrevious(units, cfg, acc.out, cur)
        ahead == tiny /\ ~back /\ JoinsNext(units, cfg, chunks, i)
        whole == IF ahead THEN Join(cur, chunks[i + 1]) ELSE cur
    IN  IF acc.skip THEN [acc EXCEPT !.skip = FALSE]
        ELSE [skip |-> ahead,
              out  |-> IF back THEN Append(Front(acc.out), Join(Last(acc.out), cur))
                       ELSE Append(acc.out, whole)]

Rebalanced(units, cfg, chunks) ==
    LET acc[i \in 0..Len(chunks)] ==
            IF i = 0 THEN [skip |-> FALSE, out |-> <<>>]
            ELSE Rebalance(units, cfg, chunks, acc[i - 1], i)
    IN  acc

RebalanceTiny(units, cfg, chunks) == Rebalanced(units, cfg, chunks)[Len(chunks)].out

ChunkText(units, cfg) == RebalanceTiny(units, cfg, Assemble(units, cfg))

-----------------------------------------------------------------------------
(* build_adaptative_chunk: the next chunk, from unit `from` on. *)

\* Does the loop stop once the chunk is `c`?
StopsAt(units, cfg, target, isFirst, c) ==
    LET n == Size(units, c)  b == After(units, c)
    IN  \/ n >= cfg.hard_max
        \/ isFirst /\ b # "None" /\ (cfg.first_max = 0 \/ n >= cfg.first_max)
        \/ /\ ~isFirst
           /\ \/ n >= cfg.target_min /\ IsStrong(b)
              \/ /\ n >= target /\ b # "None"
                 /\ Score[b] >= Score["Sentence"] \/ n >= target + cfg.overshoot
              \/ n >= Max({cfg.target_max, target})
              \/ n >= cfg.soft_max /\ b # "None"

\* Does unit i not fit in the chunk `c` before it?
Refuses(units, cfg, c, i) ==
    \/ Style(units, c) # units[i].style
    \/ Size(units, c) + units[i].tokens > cfg.hard_max

\* Slip: the capacity is not looked at.
AbsorbsAnyway(units, cfg, isFirst, c) ==
    LET tail == Run(c.last + 1, Len(units))
    IN  /\ ~isFirst /\ c.last < Len(units)
        /\ \A i \in tail.first..tail.last : units[i].style = Style(units, c)
        /\ Size(units, tail) < cfg.target_min

\* A tail of the same style, too small for a chunk of its own, joins `c`.
AbsorbsTail(units, cfg, isFirst, c) ==
    LET tail == Run(c.last + 1, Len(units))
    IN  /\ ~isFirst
        /\ c.last < Len(units)
        /\ \A i \in tail.first..tail.last : units[i].style = Style(units, c)
        /\ Size(units, tail) < cfg.target_min
        /\ Size(units, c) + Size(units, tail) <= cfg.hard_max

BuildAdaptative(units, from, cfg, targetTokens, isFirst) ==
    LET target == Max({cfg.target_min, Min({cfg.hard_max, targetTokens})})
        end == Min({e \in from..Len(units) :
                       \/ e = Len(units)
                       \/ StopsAt(units, cfg, target, isFirst, Run(from, e))
                       \/ Refuses(units, cfg, Run(from, e), e + 1)})
        chunk == Run(from, end)
    IN  IF AbsorbsTail(units, cfg, isFirst, chunk) THEN Run(from, Len(units)) ELSE chunk

(* AdaptativeChunkController.  Times are left out: the generation estimate *)
(* may be anything, and so may the lead of the buffer after a chunk.       *)

\* target_tokens: between the minimum and the cap the feedback allows.
Targets(cfg, growth) ==
    cfg.target_min..Max({cfg.target_min, Min({cfg.soft_max, growth})})

\* observe: the cap halves when synthesis falls behind, grows when it leads.
Observe(cfg, growth, step) ==
    {Max({cfg.target_min, growth \div 2}), growth,
     Min({cfg.soft_max, growth + step}), Min({cfg.soft_max, growth + step \div 2})}
=============================================================================
