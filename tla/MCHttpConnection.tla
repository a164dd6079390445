------------------------- MODULE MCHttpConnection -------------------------
(* Pairs of requests of every kind on one connection, and a second client. *)
EXTENDS HttpConnection

CONSTANTS c1, c2

\* A plain request for a page.
Get == [route |-> "page", keep |-> TRUE, fault |-> 0, fields |-> 0, endless |-> FALSE,
        chunked |-> FALSE, length |-> NoLength, sizes |-> <<>>, trailers |-> 0, torn |-> FALSE]
Post == [Get EXCEPT !.length = 2]
Chunked == [Get EXCEPT !.chunked = TRUE, !.sizes = <<1, 1>>]

Requests == {
    Get, Post, Chunked,
    [Get EXCEPT !.keep = FALSE],
    [Get EXCEPT !.fields = 2],
    [Get EXCEPT !.fields = 3, !.endless = TRUE],
    [Get EXCEPT !.fault = 400],
    [Get EXCEPT !.route = "tts"],
    [Post EXCEPT !.route = "bye"],
    [Post EXCEPT !.route = "tts"],
    [Post EXCEPT !.length = 0],
    [Post EXCEPT !.length = 3],
    [Chunked EXCEPT !.trailers = 1],
    [Chunked EXCEPT !.trailers = 3],
    [Chunked EXCEPT !.torn = TRUE],
    [Chunked EXCEPT !.sizes = <<2, 1>>]}

\* Every request before a page, and every request behind a chunked body.
MCScripts == {<<>>} \cup {<<r, Get>> : r \in Requests} \cup {<<Chunked, r>> : r \in Requests}

\* The second client sends nothing, when it is let in.
MCInit == Init /\ script[c2] = <<>>

MCSpec == MCInit /\ [][Next]_vars /\ Fairness
=============================================================================
