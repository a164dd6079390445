--------------------------- MODULE MCTtsServer ---------------------------
(* Model values for TtsServer. *)
EXTENDS TtsServer, TLC

CONSTANTS r1, r2

MCOneRequest == {r1}
MCRequests == {r1, r2}

Symmetry == Permutations(MCRequests)
=============================================================================
