--------------------------- MODULE MCTtsAnswers ---------------------------
(* TtsServer with a record of the encoders that failed.  A client whose    *)
(* encoder fails in mid-stream can only see its response break off, and no *)
(* variable of the server tells that from a response that was forgotten.   *)
EXTENDS MCTtsServer

VARIABLE broken  \* history: the requests whose encoder failed

AnswerInit == Init /\ broken = {}

AnswerNext ==
    /\ Next
    /\ broken' = IF EncodeFails \/ FinishFails THEN broken \cup {cur} ELSE broken

AnswerSpec == AnswerInit /\ [][AnswerNext]_<<vars, broken>> /\ Fairness

\* The client can tell how the response ended: it left itself, it has the end of
\* the body or an error, or its encoder failed and the body breaks off.
Told(r) ==
    \/ client[r] = "gone"
    \/ Has(sent[r], End) \/ Has(sent[r], Error)
    \/ r \in broken

\* Every request that is accepted ends: the server closes its connection, and
\* not before the client was told.  (A synthesis that fails in mid-stream is told
\* by the same end as one that succeeds, which the run ServerFail shows.)
EveryRequestAnswered ==
    \A r \in Requests : state[r] # "NEW" ~> (conn[r] = "CLOSED" /\ Told(r))
=============================================================================
