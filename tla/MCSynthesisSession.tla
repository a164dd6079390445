------------------------- MODULE MCSynthesisSession -------------------------
(* Budgets and texts for SynthesisSession: the proportions of the presets *)
(* of chunker.cpp and kokopop.cpp, on texts of up to four units.          *)
EXTENDS SynthesisSession

Budgets(min, max, soft, first, short, over) ==
    [target_min |-> min, target_max |-> max, soft_max |-> soft, hard_max |-> 7,
     first_max |-> first, short_first |-> short, overshoot |-> over]

AdaptativePreset == Budgets(3, 4, 5, 0, TRUE, 1)
LongFormPreset   == Budgets(3, 5, 6, 4, FALSE, 1)
MandarinText     == Budgets(2, 4, 5, 4, TRUE, 1)

MCSetups ==
    {[mode |-> "LongForm", cfg |-> b] : b \in {LongFormPreset, MandarinText}}
    \cup {[mode |-> "Adaptative", cfg |-> b] : b \in {AdaptativePreset, MandarinText}}

Unit(sizes, boundaries, styles) ==
    [tokens : sizes, boundary : boundaries, style : styles]

\* Every run of one style ends with a sentence (prepare_segment_units makes it).
EndsSegments(u) ==
    \A i \in DOMAIN u :
        (IF i = Len(u) THEN TRUE ELSE u[i + 1].style # u[i].style) => u[i].boundary = "Sentence"

\* The two styles are alike, so the first unit takes the first one.
MCUnitLists ==
    {u \in [1..1 -> Unit({1, 3, 8}, {"Sentence"}, {"calm"})]
           \cup [1..2 -> Unit({1, 3, 8}, {"None", "ClauseWeak", "Sentence"}, {"calm", "sad"})]
           \cup [1..3 -> Unit({2, 6}, {"ClauseWeak", "Sentence"}, {"calm", "sad"})]
           \cup [1..4 -> Unit({1, 3}, {"ClauseStrong", "Sentence"}, {"calm"})]
     : u[1].style = "calm" /\ EndsSegments(u)}
=============================================================================
