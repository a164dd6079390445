-------------------------- MODULE HttpConnection --------------------------
(***************************************************************************)
(* The connections of the asynchronous HTTP server                         *)
(* (src/src/http/async_server.cpp) with their parser: accepting, reading   *)
(* in pieces, pipelined requests, responses written in parts, keep-alive   *)
(* and the sweep of idle connections.                                      *)
(*                                                                         *)
(* The handlers run on the event loop one after the other, and two         *)
(* connections share nothing but the size of the table: every handler is   *)
(* an action, and what poll() reports decides which come when.  Streaming  *)
(* (TtsServer has it in detail) is only what it does to a connection.      *)
(*                                                                         *)
(* A client is external: it sends the tokens of its script, in pieces, as  *)
(* far as it likes, reads what it is sent as long as it stays, and may     *)
(* leave.  What it has sent but the server not read is not kept apart from *)
(* what it has not sent.                                                   *)
(***************************************************************************)
EXTENDS HttpParser

CONSTANTS
    Clients,
    Scripts,        \* the sequences of requests a client may send
    MaxConnections, \* MAX_CONNECTIONS
    ReadSize,       \* the size of buf in _handle_connection_read
    Timeout,        \* CONN_IDLE_TIMEOUT_MS, in ticks
    MaxPieces       \* bounds the pieces of a stream

\* A request as the client means it: its route, whether the connection is kept,
\* the error its head causes, how many fields it has, whether the head ends, and
\* its body: of a given length or in chunks, with trailers or torn.
Request ==
    [route : {"page", "bye", "tts"}, keep : BOOLEAN, fault : {0, 400, 431, 501},
     fields : Nat, endless : BOOLEAN, chunked : BOOLEAN, length : Int,
     sizes : Seq(Nat \ {0}), trailers : Nat, torn : BOOLEAN]

ASSUME ConnectionAssumption ==
    /\ Scripts \subseteq Seq(Request)
    /\ MaxConnections \in Nat \ {0}
    /\ ReadSize \in Nat \ {0}
    /\ Timeout \in Nat

VARIABLES
    script,       \* what a client sends
    link,         \* "new", "open" or "closed"
    gone,         \* the client has left
    fed,          \* how many tokens of the script the server has read
    conn,         \* the Connection
    age,          \* ticks since last_activity_ms
    heard         \* the answers that were written completely

vars == <<script, link, gone, fed, conn, age, heard>>

-----------------------------------------------------------------------------
(* What a client sends: a request as a record, and its tokens. *)

Line(i, r) ==
    [t |-> "line", id |-> i, fault |-> r.fault, keep |-> r.keep, route |-> r.route,
     chunked |-> r.chunked, length |-> r.length]

Bytes(i, from, n) == [j \in 1..n |-> [t |-> "byte", request |-> i, at |-> from + j]]

Total(sizes) ==
    LET sum[n \in 0..Len(sizes)] == IF n = 0 THEN 0 ELSE sum[n - 1] + sizes[n]
    IN  sum[Len(sizes)]

Fields(n) == FlattenSeq([j \in 1..n |-> <<[t |-> "field"]>> \o CRLF])

\* The chunks of r.sizes; in a torn one the CRLF behind the data is missing.
Chunks(i, r) ==
    LET Before(k) == Total(SubSeq(r.sizes, 1, k - 1))
        Chunk(k) == <<[t |-> "size", n |-> r.sizes[k]]>> \o CRLF
                    \o Bytes(i, Before(k), r.sizes[k])
                    \o (IF r.torn THEN <<>> ELSE CRLF)
    IN  FlattenSeq([k \in DOMAIN r.sizes |-> Chunk(k)])
        \o <<[t |-> "size", n |-> 0]>> \o CRLF \o Fields(r.trailers) \o CRLF

\* The body that the client means to send.
Body(i, r) == Bytes(i, 0, IF r.chunked THEN Total(r.sizes) ELSE Max({0, r.length}))

Wire(i, r) ==
    <<Line(i, r)>> \o CRLF \o Fields(r.fields)
    \o (IF r.endless THEN <<>> ELSE CRLF)
    \o (IF r.chunked THEN Chunks(i, r) ELSE Body(i, r))

Tokens(s) == FlattenSeq([i \in DOMAIN s |-> Wire(i, s[i])])

Rest(c) == SubSeq(Tokens(script[c]), fed[c] + 1, Len(Tokens(script[c])))

-----------------------------------------------------------------------------
(* A Connection. *)

NoAnswer == [to |-> 0, code |-> 0, seen |-> <<>>, last |-> FALSE]

\* A new Connection: what is left to write is counted in parts.
NewConnection ==
    [state |-> "reading", parser |-> Fresh(<<>>), keep_alive |-> FALSE,
     close_after_write |-> FALSE, answer |-> NoAnswer, write_buffer |-> 0, pieces |-> 0]

Parts == 2

\* _send_response and _send_error
Send(q, id, code, seen) ==
    [q EXCEPT !.state = "writing", !.write_buffer = Parts,
              !.answer = [to |-> id, code |-> code, seen |-> seen,
                          last |-> q.close_after_write \/ ~q.keep_alive]]

Closing(q) == [q EXCEPT !.keep_alive = FALSE, !.close_after_write = TRUE]

\* _send_streaming_response: the head is written at once, or with the audio.
Stream(q, id, seen) ==
    {[q EXCEPT !.state = "streaming", !.write_buffer = parts, !.pieces = 0,
               !.answer = [to |-> id, code |-> 200, seen |-> seen, last |-> TRUE]] :
        parts \in {0, 1}}

\* What ends a stream is written like a response.
EndStream(q, code) ==
    [q EXCEPT !.state = "writing", !.write_buffer = Parts, !.pieces = 0, !.answer.code = code]

\* _dispatch_request: a handler that answers and keeps the connection, one that
\* does not, and /tts, which may refuse the request, fail to start or stream.
Dispatch(q, line, body) ==
    IF line.route = "page"     THEN {Send(q, line.id, 200, body)}
    ELSE IF line.route = "bye" THEN {Send(Closing(q), line.id, 200, body)}
    ELSE IF line.length = NoLength /\ ~line.chunked THEN {Send(q, line.id, 411, <<>>)}
    ELSE {Send(q, line.id, 400, <<>>), Send(Closing(q), line.id, 500, <<>>)}
         \cup Stream(Closing(q), line.id, body)

\* _process_pending_requests: a request that is dispatched ends the loop.
ProcessPending(q) ==
    LET r == Parse(q.parser)
        p == [q EXCEPT !.parser = r.parser]
    IN  CASE r.status = "more"     -> {p}
          [] r.status = "error"    -> {Send(Closing(p), 0, r.code, <<>>)}
          [] r.status = "complete" ->
                Dispatch([p EXCEPT !.keep_alive = r.line.keep,
                                   !.close_after_write = ~r.line.keep],
                         r.line, r.body)

\* Slip: what was read ahead waits for the next bytes.
PrepareNextIdle(q) ==
    {[q EXCEPT !.state = "reading", !.keep_alive = FALSE, !.close_after_write = FALSE,
               !.answer = NoAnswer]}

\* _prepare_next_request: what was read ahead is processed.
PrepareNext(q) ==
    LET next == [q EXCEPT !.state = "reading", !.keep_alive = FALSE,
                          !.close_after_write = FALSE, !.answer = NoAnswer]
    IN  IF next.parser.buf = <<>> THEN {next} ELSE ProcessPending(next)

-----------------------------------------------------------------------------
Init ==
    /\ script \in [Clients -> Scripts]
    /\ link = [c \in Clients |-> "new"]
    /\ gone = [c \in Clients |-> FALSE]
    /\ fed = [c \in Clients |-> 0]
    /\ conn = [c \in Clients |-> NewConnection]
    /\ age = [c \in Clients |-> 0]
    /\ heard = [c \in Clients |-> <<>>]

Open == {c \in Clients : link[c] = "open"}

\* _close_connection; the record is reset, as nothing refers to it any more.
Close(c) ==
    /\ link' = [link EXCEPT ![c] = "closed"]
    /\ conn' = [conn EXCEPT ![c] = NewConnection]
    /\ age' = [age EXCEPT ![c] = 0]

\* _handle_server_accept: at the limit the connection is closed at once.
Accept(c) ==
    /\ link[c] = "new"
    /\ link' = [link EXCEPT ![c] = IF Cardinality(Open) < MaxConnections THEN "open" ELSE "closed"]
    /\ UNCHANGED <<script, gone, fed, conn, age, heard>>

\* _handle_connection_read with data.  Input is watched while a request is read
\* or a response streams; a client that has left is reported in every state.
ReadData(c, n) ==
    /\ link[c] = "open"
    /\ conn[c].state \in {"reading", "streaming"} \/ gone[c]
    /\ LET q == [conn[c] EXCEPT !.parser.buf = @ \o SubSeq(Rest(c), 1, n)]
       IN  \E next \in IF q.state = "reading" THEN ProcessPending(q) ELSE {q} :
              conn' = [conn EXCEPT ![c] = next]
    /\ fed' = [fed EXCEPT ![c] = @ + n]
    /\ age' = [age EXCEPT ![c] = 0]
    /\ UNCHANGED <<script, link, gone, heard>>

\* _handle_connection_read at the end of the input, or with an error.
ReadEof(c) ==
    /\ link[c] = "open"
    /\ gone[c]
    /\ Close(c)
    /\ UNCHANGED <<script, gone, fed, heard>>

\* _handle_connection_write: a part of the buffer.
WriteSome(c) ==
    /\ link[c] = "open" /\ ~gone[c]
    /\ \E n \in 1..conn[c].write_buffer :
          /\ n < conn[c].write_buffer \/ conn[c].state = "streaming"
          /\ conn' = [conn EXCEPT ![c].write_buffer = @ - n]
    /\ UNCHANGED <<script, link, gone, fed, age, heard>>

\* Slip: the connection is closed by the client.
WriteAllKeeping(c) ==
    /\ link[c] = "open" /\ ~gone[c]
    /\ conn[c].state = "writing" /\ conn[c].write_buffer > 0
    /\ heard' = [heard EXCEPT ![c] = Append(@, conn[c].answer)]
    /\ IF conn[c].keep_alive
       THEN \E next \in PrepareNext([conn[c] EXCEPT !.write_buffer = 0]) :
               conn' = [conn EXCEPT ![c] = next]
       ELSE conn' = [conn EXCEPT ![c].write_buffer = 0]
    /\ UNCHANGED <<script, link, gone, fed, age>>

\* The rest of the buffer: the connection is closed, or made ready for the next
\* request, without a new time of activity.
WriteAll(c) ==
    /\ link[c] = "open" /\ ~gone[c]
    /\ conn[c].state = "writing" /\ conn[c].write_buffer > 0
    /\ heard' = [heard EXCEPT ![c] = Append(@, conn[c].answer)]
    /\ IF conn[c].close_after_write \/ ~conn[c].keep_alive
       THEN Close(c)
       ELSE /\ \E next \in PrepareNext([conn[c] EXCEPT !.write_buffer = 0]) :
                  conn' = [conn EXCEPT ![c] = next]
            /\ UNCHANGED <<link, age>>
    /\ UNCHANGED <<script, gone, fed>>

\* A write to a client that has left fails.
WriteFails(c) ==
    /\ link[c] = "open" /\ gone[c]
    /\ conn[c].write_buffer > 0
    /\ Close(c)
    /\ UNCHANGED <<script, gone, fed, heard>>

\* The sweep of connections that are stuck in reading a request.
Sweep(c) ==
    /\ link[c] = "open"
    /\ conn[c].state = "reading"
    /\ age[c] > Timeout
    /\ Close(c)
    /\ UNCHANGED <<script, gone, fed, heard>>

\* The drain loop appends a piece of the stream.
StreamPiece(c) ==
    /\ link[c] = "open"
    /\ conn[c].state = "streaming"
    /\ conn[c].pieces < MaxPieces
    /\ conn' = [conn EXCEPT ![c].write_buffer = @ + 1, ![c].pieces = @ + 1]
    /\ UNCHANGED <<script, link, gone, fed, age, heard>>

\* It appends what ends the response, once the rest is written; a WAV file that
\* fails is an error response.
StreamEnds(c) ==
    /\ link[c] = "open"
    /\ conn[c].state = "streaming" /\ conn[c].write_buffer = 0
    /\ \E code \in {200, 500} :
          /\ code = 500 => conn[c].pieces = 0
          /\ conn' = [conn EXCEPT ![c] = EndStream(@, code)]
    /\ UNCHANGED <<script, link, gone, fed, age, heard>>

\* The encoder fails.
StreamBreaks(c) ==
    /\ link[c] = "open"
    /\ conn[c].state = "streaming"
    /\ Close(c)
    /\ UNCHANGED <<script, gone, fed, heard>>

-----------------------------------------------------------------------------
Leave(c) ==
    /\ link[c] = "open" /\ ~gone[c]
    /\ gone' = [gone EXCEPT ![c] = TRUE]
    /\ UNCHANGED <<script, link, fed, conn, age, heard>>

\* Time passes; an age beyond the limit needs no more count.
Tick ==
    /\ Open # {}
    /\ age' = [c \in Clients |-> IF c \in Open /\ age[c] <= Timeout THEN age[c] + 1 ELSE age[c]]
    /\ UNCHANGED <<script, link, gone, fed, conn, heard>>

Write(c) == WriteSome(c) \/ WriteAll(c) \/ WriteFails(c)

Drain(c) == StreamPiece(c) \/ StreamEnds(c) \/ StreamBreaks(c)

Read(c) == \E n \in 1..Min({ReadSize, Len(Rest(c))}) : ReadData(c, n)

Next ==
    \/ \E c \in Clients :
          \/ Accept(c) \/ Read(c) \/ ReadEof(c) \/ Write(c)
          \/ Sweep(c) \/ Drain(c) \/ Leave(c)
    \/ Tick

\* poll() reports what is ready again and again, the sweep and the drain are
\* part of every turn, a stream goes on, and time passes; a client that stays
\* reads, but need not send.
Fairness ==
    /\ \A c \in Clients :
          WF_vars(ReadEof(c)) /\ WF_vars(Write(c)) /\ WF_vars(Sweep(c)) /\ WF_vars(Drain(c))
    /\ WF_vars(Tick)

Spec == Init /\ [][Next]_vars /\ Fairness

-----------------------------------------------------------------------------
(* What a client may be answered. *)

\* A request that is understood.
Served(i, r) ==
    LET keep == r.keep
        Ans(code, seen, last) == [to |-> i, code |-> code, seen |-> seen, last |-> last]
    IN  IF r.route = "page"     THEN {Ans(200, Body(i, r), ~keep)}
        ELSE IF r.route = "bye" THEN {Ans(200, Body(i, r), TRUE)}
        ELSE IF r.length = NoLength /\ ~r.chunked THEN {Ans(411, <<>>, ~keep)}
        ELSE {Ans(400, <<>>, ~keep), Ans(500, <<>>, TRUE), Ans(200, Body(i, r), TRUE),
              Ans(500, Body(i, r), TRUE)}

\* The error of a request that is not.
Fault(r) ==
    IF r.endless         THEN 431
    ELSE IF r.fault # 0 THEN r.fault
    ELSE IF Len(Body(1, r)) > MaxBody THEN 413
    ELSE IF r.torn      THEN 400
    ELSE 0

\* A head or a trailer that is too long is refused, unless its end comes in time.
AnswersTo(s, n) ==
    LET r == s[n]
        Err(code) == [to |-> 0, code |-> code, seen |-> <<>>, last |-> TRUE]
        tooLong == {e \in {Err(431)} : 3 * Max({r.fields + 1, r.trailers}) + 1 > MaxHeader}
    IN  tooLong \cup (IF Fault(r) # 0 THEN {Err(Fault(r))} ELSE Served(n, r))

Exchange == INSTANCE HttpExchange
    WITH Answers <- AnswersTo, script <- script, link <- link, heard <- heard

\* However a client's bytes are cut into pieces and its requests are pipelined,
\* it is answered in order, once per request, to what it has sent, and nothing
\* after the last answer.
ExchangeSpec == Exchange!Spec

\* A connection that waits for input has no request that could be answered: one
\* that was read ahead while another was answered is not left in the buffer.
NothingParsedWaits ==
    \A c \in Open :
        conn[c].state = "reading" => Parse(conn[c].parser) = More(conn[c].parser)

\* While a request is read, the buffer is bounded by the limits of the parser;
\* only a trailer whose first line does not end is not.
BufferBounded ==
    \A c \in Open :
        LET p == conn[c].parser
        IN  /\ Len(p.body) <= MaxBody
            /\ (conn[c].state = "reading" /\ p.st # "trailer")
                   => Len(p.buf) <= Max({MaxHeader, MaxBody + 1})

\* However little a client sends, its connection ends: by its last answer, by
\* the sweep, or because the client has left.
EveryConnectionEnds ==
    \A c \in Clients : link[c] = "open" ~> link[c] = "closed"
=============================================================================
