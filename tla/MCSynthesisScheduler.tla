---------------------- MODULE MCSynthesisScheduler ----------------------
(* Model values for SynthesisScheduler. *)
EXTENDS SynthesisScheduler

CONSTANTS r1, r2, r3

MCRequests == {r1, r2, r3}

\* Two texts that fill their output queue, and one that just fits into it.
MCInit ==
    /\ Init
    /\ total[r1] = 3 /\ total[r2] = 3
    /\ total[r3] = 2

MCSpec == MCInit /\ [][Next]_vars /\ WF_vars(Worker)
=============================================================================
