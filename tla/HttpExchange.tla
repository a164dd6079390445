--------------------------- MODULE HttpExchange ---------------------------
(***************************************************************************)
(* What a client of the HTTP server can rely on, however its bytes are cut *)
(* into pieces: its requests are answered one by one in the order it sent  *)
(* them, every answer belongs to its request and has seen the body that    *)
(* was sent with it, and after an answer that announces the end there is   *)
(* none.  A connection may be refused, or end at any time.                 *)
(*                                                                         *)
(* An answer is the request it belongs to (0 for one that was not          *)
(* understood), the status code, the body the server has seen, and whether *)
(* it is the last of its connection.                                       *)
(***************************************************************************)
EXTENDS Naturals, Sequences

CONSTANTS
    Clients,
    Answers(_, _) \* the answers that request n of a script may get

VARIABLES
    script,       \* the requests a client has in mind
    link,         \* its connection: "new", "open" or "closed"
    heard         \* the answers it got

Over(c) == heard[c] # <<>> /\ heard[c][Len(heard[c])].last

Init ==
    /\ link = [c \in Clients |-> "new"]
    /\ heard = [c \in Clients |-> <<>>]

Connect(c) ==
    /\ link[c] = "new"
    /\ \E l \in {"open", "closed"} : link' = [link EXCEPT ![c] = l]
    /\ UNCHANGED <<script, heard>>

\* The last answer comes with the end of the connection.
Answer(c) ==
    /\ link[c] = "open"
    /\ ~Over(c)
    /\ Len(heard[c]) < Len(script[c])
    /\ \E a \in Answers(script[c], Len(heard[c]) + 1) :
          /\ heard' = [heard EXCEPT ![c] = Append(@, a)]
          /\ link' = IF a.last THEN [link EXCEPT ![c] = "closed"] ELSE link
    /\ UNCHANGED script

Close(c) ==
    /\ link[c] = "open"
    /\ link' = [link EXCEPT ![c] = "closed"]
    /\ UNCHANGED <<script, heard>>

Next == \E c \in Clients : Connect(c) \/ Answer(c) \/ Close(c)

Spec == Init /\ [][Next]_<<script, link, heard>>
=============================================================================
