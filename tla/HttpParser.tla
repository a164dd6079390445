---------------------------- MODULE HttpParser ----------------------------
(***************************************************************************)
(* The incremental request parser (src/src/http/async_http_parser.cpp):    *)
(* what next() makes of the bytes that have been appended so far.          *)
(*                                                                         *)
(* The input is a sequence of tokens.  CR and LF are bytes; a request      *)
(* line, a header field, the digits of a chunk size and a byte of a body   *)
(* count as one byte each.  A request line stands for the line and for     *)
(* what the fields say: its fault is the error that the head itself causes *)
(* (400 malformed, 431 too many fields, 501 unsupported coding), 0 if none.*)
(***************************************************************************)
EXTENDS Integers, Sequences, FiniteSetsExt, SequencesExt

CONSTANTS
    MaxHeader,    \* _max_header_size
    MaxBody       \* _max_body_size

ASSUME ParserAssumption == MaxHeader \in Nat /\ MaxBody \in Nat

CR == [t |-> "CR"]
LF == [t |-> "LF"]
CRLF == <<CR, LF>>
EmptyLine == CRLF \o CRLF
NoLength == -1

\* The position of the first occurrence of a pattern, 0 if there is none.
Find(s, pattern) ==
    LET At(i) == SubSeq(s, i, i + Len(pattern) - 1) = pattern
        found == {i \in 1..(Len(s) - Len(pattern) + 1) : At(i)}
    IN  IF found = {} THEN 0 ELSE Min(found)

From(s, i) == SubSeq(s, i, Len(s))

-----------------------------------------------------------------------------
(* A parser is its state, the buffer, the request line of the request it   *)
(* is in, how much it needs and the body so far.  A result is a status,    *)
(* the parser afterwards, and the request or the error.                    *)

NoLine == [t |-> "none"]

\* reset_current() keeps the buffer.
Fresh(buf) == [st |-> "head", buf |-> buf, line |-> NoLine, need |-> 0, body |-> <<>>]

Result(status, p, code, line, body) ==
    [status |-> status, parser |-> p, code |-> code, line |-> line, body |-> body]

More(p) == Result("more", p, 0, NoLine, <<>>)
GoOn(p) == Result("go", p, 0, NoLine, <<>>)
\* Slip: one request per read; the rest of the buffer is forgotten.
CompleteAlone(p, buf) == Result("complete", Fresh(<<>>), 200, p.line, p.body)

Complete(p, buf) == Result("complete", Fresh(buf), 200, p.line, p.body)
Error(code, buf) == Result("error", Fresh(buf), code, NoLine, <<>>)

\* Slip: nothing limits what is kept while a line or a head is not complete.
AwaitForever(p, code) == More(p)

\* A line or a head that is not complete is waited for up to a limit.
Await(p, code) == IF Len(p.buf) > MaxHeader THEN Error(code, p.buf) ELSE More(p)

\* The error that a head causes, 0 if none.
HeadCode(head) ==
    IF /\ head # <<>> /\ head[1].t = "line"
       /\ \A i \in 2..Len(head) : head[i].t \in {"CR", "LF", "field"}
    THEN head[1].fault
    ELSE 400

ParseHeaders(p) ==
    LET end  == Find(p.buf, EmptyLine)
        head == SubSeq(p.buf, 1, end - 1)
        rest == From(p.buf, end + 4)
        line == head[1]
        q    == [p EXCEPT !.buf = rest, !.line = line]
    IN  IF end = 0                 THEN Await(p, 431)
        ELSE IF HeadCode(head) # 0 THEN Error(HeadCode(head), rest)
        ELSE IF line.chunked       THEN GoOn([q EXCEPT !.st = "size"])
        ELSE IF line.length > MaxBody THEN Error(413, rest)
        ELSE IF line.length <= 0   THEN Complete(q, rest)
        ELSE GoOn([q EXCEPT !.st = "fixed", !.need = line.length])

ParseFixedBody(p) ==
    IF Len(p.buf) < p.need
    THEN More(p)
    ELSE Complete([p EXCEPT !.body = SubSeq(p.buf, 1, p.need)], From(p.buf, p.need + 1))

ParseChunkSize(p) ==
    LET end  == Find(p.buf, CRLF)
        rest == From(p.buf, end + 2)
        n    == p.buf[1].n
    IN  IF end = 0                      THEN Await(p, 400)
        ELSE IF end # 2 \/ p.buf[1].t # "size" THEN Error(400, rest)
        ELSE IF n = 0                   THEN GoOn([p EXCEPT !.st = "trailer", !.buf = rest])
        ELSE IF Len(p.body) + n > MaxBody THEN Error(413, rest)
        ELSE GoOn([p EXCEPT !.st = "data", !.buf = rest, !.need = n])

\* A chunk is only taken together with the CRLF behind it.
ParseChunkData(p) ==
    IF Len(p.buf) < p.need + 2 THEN More(p)
    ELSE IF SubSeq(p.buf, p.need + 1, p.need + 2) # CRLF THEN Error(400, p.buf)
    ELSE GoOn([p EXCEPT !.st = "size",
                        !.body = @ \o SubSeq(p.buf, 1, p.need),
                        !.buf = From(@, p.need + 3)])

\* A trailer may be empty; the first line of one that is not has no limit.
ParseChunkTrailer(p) ==
    LET line == Find(p.buf, CRLF)
        end  == Find(p.buf, EmptyLine)
    IN  IF line = 0      THEN More(p)
        ELSE IF line = 1 THEN Complete(p, From(p.buf, 3))
        ELSE IF end = 0  THEN Await(p, 431)
        ELSE Complete(p, From(p.buf, end + 4))

Step(p) ==
    CASE p.st = "head"    -> ParseHeaders(p)
      [] p.st = "fixed"   -> ParseFixedBody(p)
      [] p.st = "size"    -> ParseChunkSize(p)
      [] p.st = "data"    -> ParseChunkData(p)
      [] p.st = "trailer" -> ParseChunkTrailer(p)

\* next(): steps until one needs more, completes a request or fails.  run[n] is
\* the result after n steps; every step that goes on consumes a token, so that
\* as many steps as there are tokens, and one, are enough.  (The one result is
\* kept as a set of one, whose member TLC evaluates once for each step.)
Run(p) ==
    LET run[n \in 0..Len(p.buf) + 1] ==
            IF n = 0 THEN {GoOn(p)}
            ELSE {IF r.status = "go" THEN Step(r.parser) ELSE r : r \in run[n - 1]}
    IN  run

Parse(p) == CHOOSE r \in Run(p)[Len(p.buf) + 1] : TRUE
=============================================================================
