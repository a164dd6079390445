----------------------- MODULE HttpConnection_proofs -----------------------
(***************************************************************************)
(* Theorems about the connections of the HTTP server, for every set of     *)
(* clients, every script of requests, every limit and every cut of the     *)
(* bytes into reads.                                                       *)
(*                                                                         *)
(* The argument goes from the parser outwards.  A step of the parser that  *)
(* goes on consumes a token, so that next() ends; what it leaves behind    *)
(* either needs more, and would need it again (Step = More), or is ready   *)
(* for the next request (Fresh).  Steady says which of the two holds of a  *)
(* connection in each of its states, and the invariant follows from it:    *)
(* every handler that makes a connection read again first parses what was  *)
(* read ahead.                                                             *)
(*                                                                         *)
(* Parse and Total are recursive functions, FlattenSeq is one of the       *)
(* library: what they return is shown by induction over a set of numbers   *)
(* (Inductive), which has a least element (Least); that such a function    *)
(* exists at all is Recursion.                                             *)
(***************************************************************************)
EXTENDS HttpConnection, SequenceTheorems, WellFoundedInduction, TLAPS

-----------------------------------------------------------------------------
(* Induction and recursion over numbers. *)

\* A non-empty set of numbers has a least one.
LEMMA Least ==
  ASSUME NEW T, T \subseteq Nat, T # {}
  PROVE  \E m \in T : \A n \in T : m <= n
<1> DEFINE R == OpToRel(<, Nat)
<1>1. IsWellFoundedOn(R, Nat)
  BY NatLessThanWellFounded
<1>2. \A x, y \in Nat : <<y, x>> \in R <=> y < x
  BY DEF OpToRel
<1> HIDE DEF R
<1>3. PICK x \in T : \A y \in T : ~(<<y, x>> \in R)
  BY <1>1, WFMin
<1>4. ASSUME NEW y \in T PROVE x <= y
  <2>1. x \in Nat /\ y \in Nat
    OBVIOUS
  <2>2. ~(y < x)
    BY <1>2, <1>3, <2>1
  <2> QED BY <2>1, <2>2
<1> QED BY <1>4

\* Induction, over a set instead of a predicate.
LEMMA Inductive ==
  ASSUME NEW N \in Nat, NEW T, 0 \in T, \A n \in 1..N : n - 1 \in T => n \in T
  PROVE  0..N \subseteq T
<1> SUFFICES ASSUME (0..N) \ T # {}
             PROVE  FALSE
  OBVIOUS
<1>1. PICK m \in (0..N) \ T : \A n \in (0..N) \ T : m <= n
  <2>1. (0..N) \ T \subseteq Nat
    OBVIOUS
  <2> QED BY <2>1, Least
<1>2. m # 0 /\ m \in 1..N /\ m - 1 \in 0..N /\ ~(m <= m - 1)
  BY <1>1
<1>3. m - 1 \in T
  BY <1>1, <1>2
<1> QED BY <1>1, <1>2, <1>3

\* What is defined by recursion up to N, each value from the one before it.
Steps(N, S) == [(1..N) \X S -> S]

Recursive(f, N, first, step) ==
    f[0] = first /\ \A n \in 1..N : f[n] = step[<<n, f[n - 1]>>]

\* It exists.
LEMMA Recursion ==
  ASSUME NEW N \in Nat, NEW S, NEW a \in S, NEW step \in Steps(N, S)
  PROVE  \E f \in [0..N -> S] : Recursive(f, N, a, step)
<1> USE DEF Steps
<1> DEFINE Upto(m, f) == f \in [0..m -> S] /\ f[0] = a /\ \A n \in 1..m : f[n] = step[<<n, f[n - 1]>>]
           T == {m \in 0..N : \E f : Upto(m, f)}
<1>1. 0 \in T
  <2> DEFINE f == [n \in 0..0 |-> a]
  <2>1. Upto(0, f)
    OBVIOUS
  <2>2. \E h : Upto(0, h)
    BY <2>1
  <2> HIDE DEF Upto
  <2> QED BY <2>2
<1>2. ASSUME NEW m \in 1..N, m - 1 \in T
      PROVE  m \in T
  <2>1. PICK f : Upto(m - 1, f)
    BY <1>2
  <2> DEFINE g == [n \in 0..m |-> IF n = m THEN step[<<m, f[m - 1]>>] ELSE f[n]]
  <2>2. step[<<m, f[m - 1]>>] \in S
    BY <2>1
  <2>3. \A n \in 0..m : n # m => n \in 0..m - 1
    OBVIOUS
  <2>4. g \in [0..m -> S] /\ g[0] = a
    BY <2>1, <2>2, <2>3
  <2>5. ASSUME NEW n \in 1..m
        PROVE  g[n] = step[<<n, g[n - 1]>>]
    <3>1. n - 1 \in 0..m /\ n - 1 # m /\ n \in 0..m
      OBVIOUS
    <3>2. g[n - 1] = f[n - 1]
      BY <3>1
    <3>3. n # m => n \in 1..m - 1 /\ g[n] = f[n]
      BY <3>1
    <3> QED BY <2>1, <3>1, <3>2, <3>3
  <2>6. Upto(m, g)
    BY <2>4, <2>5
  <2>7. \E h : Upto(m, h)
    BY <2>6
  <2> HIDE DEF Upto
  <2> QED BY <2>7
<1> HIDE DEF T
<1>3. 0..N \subseteq T
  BY <1>1, <1>2, Inductive
<1>4. N \in T
  BY <1>3
<1> QED BY <1>4 DEF T, Recursive

-----------------------------------------------------------------------------
(* Types of the parser. *)

Lines ==
    [t : {"line"}, id : Nat, fault : {0, 400, 431, 501}, keep : BOOLEAN,
     route : {"page", "bye", "tts"}, chunked : BOOLEAN, length : Int]

Token ==
    {CR, LF} \cup [t : {"field"}] \cup [t : {"size"}, n : Nat]
    \cup [t : {"byte"}, request : Nat, at : Nat] \cup Lines

ParserStates == {"head", "fixed", "size", "data", "trailer"}

\* What a parser in the middle of a request has made sure of: the body so far,
\* together with what it still needs, is within the limit.
Fits(p) ==
    /\ Len(p.body) <= MaxBody
    /\ p.st = "fixed" => p.need \in 1..MaxBody
    /\ p.st = "data" => p.need > 0 /\ Len(p.body) + p.need <= MaxBody
    /\ p.st # "head" => p.line \in Lines

Shape ==
    [st : ParserStates, buf : Seq(Token), line : Lines \cup {NoLine}, need : Nat, body : Seq(Token)]

Parsers == {p \in Shape : Fits(p)}

Results ==
    [status : {"go", "more", "complete", "error"}, parser : Parsers, code : Nat,
     line : Lines \cup {NoLine}, body : Seq(Token)]

\* A step that goes on consumes a token, one that needs more changes nothing,
\* and one that ends a request starts afresh.
StepSound(p, r) ==
    /\ r \in Results
    /\ r.status = "go" => Len(r.parser.buf) < Len(p.buf)
    /\ r.status = "more" => r = More(p)
    /\ r.status \in {"complete", "error"} => r.parser = Fresh(r.parser.buf)
    /\ r.status = "complete" => r.line \in Lines

\* Two sequences one behind the other.
LEMMA Joined ==
  ASSUME NEW S, NEW s \in Seq(S), NEW t \in Seq(S)
  PROVE  s \o t \in Seq(S) /\ Len(s \o t) = Len(s) + Len(t)
<1>1. s \o t \in Seq(S)
  OBVIOUS
<1>2. Len(s \o t) = Len(s) + Len(t)
  OBVIOUS
<1> QED BY <1>1, <1>2

\* What the kind of a token says of it.
LEMMA TokenKinds ==
  ASSUME NEW x \in Token
  PROVE  /\ x.t = "line" => x \in Lines
         /\ x.t = "size" => x.n \in Nat
BY DEF Token, CR, LF, Lines

\* The ends of a line and of a head.
LEMMA Patterns ==
  /\ CRLF \in Seq(Token) /\ Len(CRLF) = 2
  /\ EmptyLine \in Seq(Token) /\ Len(EmptyLine) = 4
<1>1. CR \in Token /\ LF \in Token
  BY DEF Token
<1>2. CRLF \in Seq(Token) /\ Len(CRLF) = 2
  BY <1>1 DEF CRLF
<1>3. EmptyLine \in Seq(Token) /\ Len(EmptyLine) = 4
  <2>1. CRLF \o CRLF \in Seq(Token) /\ Len(CRLF \o CRLF) = Len(CRLF) + Len(CRLF)
    BY <1>2, Joined
  <2> QED BY <1>2, <2>1 DEF EmptyLine
<1> QED BY <1>2, <1>3

-----------------------------------------------------------------------------
(* Finding and cutting. *)

\* What is found is inside.
LEMMA FindPlace ==
  ASSUME NEW s \in Seq(Token), NEW pattern \in Seq(Token), Len(pattern) > 0
  PROVE  Find(s, pattern) = 0 \/ Find(s, pattern) \in 1..(Len(s) - Len(pattern) + 1)
<1> DEFINE found == {i \in 1..(Len(s) - Len(pattern) + 1) : SubSeq(s, i, i + Len(pattern) - 1) = pattern}
<1>1. Find(s, pattern) = IF found = {} THEN 0 ELSE Min(found)
  BY DEF Find
<1>2. found \subseteq 1..(Len(s) - Len(pattern) + 1) /\ found \subseteq Nat
  OBVIOUS
<1> HIDE DEF found
<1>3. CASE found # {}
  <2>1. \E m \in found : \A n \in found : m <= n
    BY <1>2, <1>3, Least
  <2>2. Min(found) \in found
    BY <2>1 DEF Min
  <2> QED BY <1>1, <1>2, <1>3, <2>2
<1> QED BY <1>1, <1>3

\* A part of a sequence, and what is left behind a position.
LEMMA PartPlace ==
  ASSUME NEW s \in Seq(Token), NEW m \in Nat \ {0}, NEW n \in Nat, n <= Len(s)
  PROVE  /\ SubSeq(s, m, n) \in Seq(Token)
         /\ Len(SubSeq(s, m, n)) = IF m <= n THEN n - m + 1 ELSE 0
         /\ \A i \in 1..n - m + 1 : SubSeq(s, m, n)[i] = s[m + i - 1]
<1>1. Len(s) \in Nat /\ m \in Int /\ n \in Int
  OBVIOUS
<1>2. \A i \in m..n : s[i] \in Token
  BY <1>1, ElementOfSeq
<1>3. /\ SubSeq(s, m, n) \in Seq(Token)
      /\ Len(SubSeq(s, m, n)) = IF m <= n THEN n - m + 1 ELSE 0
      /\ \A i \in 1..n - m + 1 : SubSeq(s, m, n)[i] = s[m + i - 1]
  <2> HIDE DEF Token
  <2>1. /\ \A i \in m..n : s[i] \in Token
        /\ m \in Int /\ n \in Int
    BY <1>1, <1>2
  <2>2. SubSeq(s, m, n) \in Seq(Token)
    BY <2>1, SubSeqProperties
  <2>3. Len(SubSeq(s, m, n)) = IF m <= n THEN n - m + 1 ELSE 0
    BY <2>1, SubSeqProperties
  <2>4. \A i \in 1..n - m + 1 : SubSeq(s, m, n)[i] = s[m + i - 1]
    BY <2>1, SubSeqProperties
  <2> QED BY <2>2, <2>3, <2>4
<1> QED BY <1>3

\* What is left behind a position.
LEMMA FromPlace ==
  ASSUME NEW s \in Seq(Token), NEW i \in 1..(Len(s) + 1)
  PROVE  From(s, i) \in Seq(Token) /\ Len(From(s, i)) = Len(s) - (i - 1)
<1>1. Len(s) \in Nat /\ i \in Nat \ {0}
  OBVIOUS
<1>2. /\ SubSeq(s, i, Len(s)) \in Seq(Token)
      /\ Len(SubSeq(s, i, Len(s))) = IF i <= Len(s) THEN Len(s) - i + 1 ELSE 0
  BY <1>1, PartPlace
<1> QED BY <1>1, <1>2 DEF From

-----------------------------------------------------------------------------
(* The steps of the parser. *)

\* A parser that is ready for a request.
LEMMA FreshType ==
  ASSUME NEW buf \in Seq(Token)
  PROVE  Fresh(buf) \in Parsers
<1>1. <<>> \in Seq(Token) /\ Len(<<>>) = 0 /\ MaxBody \in Nat
  BY ParserAssumption
<1> QED BY <1>1 DEF Fresh, Parsers, Shape, Fits, ParserStates

\* Needing more.
LEMMA MoreSound ==
  ASSUME NEW p \in Parsers
  PROVE  StepSound(p, More(p))
<1>1. <<>> \in Seq(Token)
  OBVIOUS
<1>2. More(p) \in Results /\ More(p).status = "more"
  BY <1>1 DEF More, Result, Results
<1> QED BY <1>2 DEF StepSound

\* Going on.
LEMMA GoSound ==
  ASSUME NEW p \in Parsers, NEW q \in Parsers, Len(q.buf) < Len(p.buf)
  PROVE  StepSound(p, GoOn(q))
<1>1. <<>> \in Seq(Token)
  OBVIOUS
<1>2. GoOn(q) \in Results /\ GoOn(q).status = "go" /\ GoOn(q).parser = q
  BY <1>1 DEF GoOn, Result, Results
<1> QED BY <1>2 DEF StepSound

\* Failing.
LEMMA ErrorSound ==
  ASSUME NEW p \in Parsers, NEW code \in Nat, NEW buf \in Seq(Token)
  PROVE  StepSound(p, Error(code, buf))
<1>1. <<>> \in Seq(Token)
  OBVIOUS
<1>2. Error(code, buf) \in Results /\ Error(code, buf).status = "error" /\ Error(code, buf).parser = Fresh(buf)
  BY <1>1, FreshType DEF Error, Result, Results
<1>3. Fresh(buf).buf = buf
  BY DEF Fresh
<1> QED BY <1>2, <1>3 DEF StepSound

\* Completing a request.
LEMMA CompleteSound ==
  ASSUME NEW p \in Parsers, NEW q, q.line \in Lines, q.body \in Seq(Token), NEW buf \in Seq(Token)
  PROVE  StepSound(p, Complete(q, buf))
<1>1. /\ Complete(q, buf) \in Results /\ Complete(q, buf).status = "complete"
      /\ Complete(q, buf).parser = Fresh(buf) /\ Complete(q, buf).line = q.line
  BY FreshType DEF Complete, Result, Results
<1>2. Fresh(buf).buf = buf
  BY DEF Fresh
<1> QED BY <1>1, <1>2 DEF StepSound

\* Waiting up to a limit.
LEMMA AwaitSound ==
  ASSUME NEW p \in Parsers, NEW code \in Nat
  PROVE  StepSound(p, Await(p, code))
<1>1. p.buf \in Seq(Token)
  BY DEF Parsers, Shape
<1> QED BY <1>1, MoreSound, ErrorSound DEF Await

\* The types of the fields of a parser.
LEMMA ParserTypes ==
  ASSUME NEW p \in Parsers
  PROVE  /\ p \in Shape
         /\ p.st \in ParserStates /\ p.buf \in Seq(Token) /\ p.need \in Nat /\ p.body \in Seq(Token)
         /\ p.line \in Lines \cup {NoLine}
         /\ Len(p.buf) \in Nat /\ Len(p.body) \in Nat /\ MaxBody \in Nat
         /\ Fits(p)
<1>1. p \in Shape /\ Fits(p)
  BY DEF Parsers
<1>2. /\ p.st \in ParserStates /\ p.buf \in Seq(Token) /\ p.need \in Nat /\ p.body \in Seq(Token)
      /\ p.line \in Lines \cup {NoLine}
  BY <1>1 DEF Shape
<1>3. Len(p.buf) \in Nat /\ Len(p.body) \in Nat /\ MaxBody \in Nat
  BY <1>2, ParserAssumption
<1> QED BY <1>1, <1>2, <1>3

\* What Fits says of a parser, state by state.
LEMMA FitsBy ==
  ASSUME NEW p \in Parsers
  PROVE  /\ Len(p.body) <= MaxBody
         /\ p.st = "fixed" => p.need > 0 /\ p.need <= MaxBody
         /\ p.st = "data" => p.need > 0 /\ Len(p.body) + p.need <= MaxBody
         /\ p.st # "head" => p.line \in Lines
<1>1. Fits(p) /\ p.need \in Nat /\ MaxBody \in Nat
  BY ParserTypes
<1> QED BY <1>1 DEF Fits

\* Where a line and a head end, if they do.
LEMMA Ends ==
  ASSUME NEW s \in Seq(Token)
  PROVE  /\ Find(s, EmptyLine) = 0 \/ Find(s, EmptyLine) \in 1..(Len(s) - 3)
         /\ Find(s, CRLF) = 0 \/ Find(s, CRLF) \in 1..(Len(s) - 1)
<1>1. Len(s) \in Nat /\ Len(s) - 4 + 1 = Len(s) - 3 /\ Len(s) - 2 + 1 = Len(s) - 1
  OBVIOUS
<1>2. EmptyLine \in Seq(Token) /\ Len(EmptyLine) = 4 /\ CRLF \in Seq(Token) /\ Len(CRLF) = 2
  BY Patterns
<1>3. Find(s, EmptyLine) = 0 \/ Find(s, EmptyLine) \in 1..(Len(s) - Len(EmptyLine) + 1)
  <2>1. Len(EmptyLine) > 0
    BY <1>2
  <2> QED BY <1>2, <2>1, FindPlace
<1>4. Find(s, CRLF) = 0 \/ Find(s, CRLF) \in 1..(Len(s) - Len(CRLF) + 1)
  <2>1. Len(CRLF) > 0
    BY <1>2
  <2> QED BY <1>2, <2>1, FindPlace
<1> QED BY <1>1, <1>2, <1>3, <1>4

\* A parser is its fields and what Fits says of them.
LEMMA Shaped ==
  ASSUME NEW p \in Shape, Fits(p)
  PROVE  p \in Parsers
BY DEF Parsers

\* What a head says of its request line.
LEMMA HeadLine ==
  ASSUME NEW head \in Seq(Token)
  PROVE  HeadCode(head) \in Nat /\ (HeadCode(head) = 0 => head[1] \in Lines)
<1>1. head # <<>> => head[1] \in Token
  OBVIOUS
<1>2. head # <<>> /\ head[1].t = "line" => head[1] \in Lines
  BY <1>1, TokenKinds
<1>3. \A l \in Lines : l.fault \in Nat
  BY DEF Lines
<1> QED BY <1>2, <1>3 DEF HeadCode

\* _parse_headers.
LEMMA HeadersSound ==
  ASSUME NEW p \in Parsers, p.st = "head"
  PROVE  StepSound(p, ParseHeaders(p))
<1> DEFINE end  == Find(p.buf, EmptyLine)
           head == SubSeq(p.buf, 1, end - 1)
           rest == From(p.buf, end + 4)
           line == head[1]
           q    == [p EXCEPT !.buf = rest, !.line = line]
<1>1. /\ p.buf \in Seq(Token) /\ Len(p.buf) \in Nat /\ p.need \in Nat /\ p.body \in Seq(Token)
      /\ Len(p.body) <= MaxBody /\ MaxBody \in Nat /\ Len(p.body) \in Nat
  BY ParserTypes, FitsBy
<1>2. end = 0 \/ end \in 1..(Len(p.buf) - 3)
  BY <1>1, Ends
<1>3. CASE end = 0
  <2>1. ParseHeaders(p) = Await(p, 431)
    BY <1>3 DEF ParseHeaders
  <2> QED BY <2>1, AwaitSound
<1>4. CASE end # 0
  <2>1. end \in Nat /\ end > 0 /\ end + 4 \in 1..(Len(p.buf) + 1) /\ end - 1 \in Nat /\ end - 1 <= Len(p.buf)
    BY <1>1, <1>2, <1>4
  <2>2. rest \in Seq(Token) /\ Len(rest) < Len(p.buf)
    BY <1>1, <2>1, FromPlace
  <2>3. head \in Seq(Token)
    BY <1>1, <2>1, PartPlace
  <2> DEFINE code == HeadCode(head)
  <2>4. code \in Nat /\ (code = 0 => line \in Lines)
    BY <2>3, HeadLine
  <2>5. ParseHeaders(p) =
          IF code # 0 THEN Error(code, rest)
          ELSE IF line.chunked THEN GoOn([q EXCEPT !.st = "size"])
          ELSE IF line.length > MaxBody THEN Error(413, rest)
          ELSE IF line.length <= 0   THEN Complete(q, rest)
          ELSE GoOn([q EXCEPT !.st = "fixed", !.need = line.length])
    BY <1>4 DEF ParseHeaders
  <2> HIDE DEF code, rest, line, head, end
  <2>6. CASE code # 0
    BY <2>2, <2>4, <2>5, <2>6, ErrorSound
  <2>7. CASE code = 0
    <3>1. line \in Lines /\ line.length \in Int
      BY <2>4, <2>7 DEF Lines
    <3>2. p \in Shape /\ p.st = "head"
      BY ParserTypes
    <3>3. q \in Shape /\ q.buf = rest /\ q.line = line /\ q.body = p.body
      BY <2>2, <3>1, <3>2 DEF Shape
    <3> HIDE DEF q
    <3>4. CASE line.chunked
      <4> DEFINE g == [q EXCEPT !.st = "size"]
      <4>1. ParseHeaders(p) = GoOn(g)
        BY <2>5, <2>7, <3>4
      <4>2. "size" \in ParserStates
        BY DEF ParserStates
      <4>3. g \in Shape /\ g.st = "size" /\ g.buf = rest /\ g.line = line /\ g.body = p.body
        BY <3>1, <3>3, <4>2 DEF Shape
      <4> HIDE DEF g
      <4>4. g \in Parsers
        BY <1>1, <3>1, <4>3, Shaped DEF Fits
      <4> QED BY <2>2, <4>1, <4>3, <4>4, GoSound
    <3>5. CASE ~line.chunked /\ line.length > MaxBody
      <4>1. ParseHeaders(p) = Error(413, rest)
        BY <2>5, <2>7, <3>5
      <4> QED BY <2>2, <4>1, ErrorSound
    <3>6. CASE ~line.chunked /\ ~(line.length > MaxBody) /\ line.length <= 0
      <4>1. ParseHeaders(p) = Complete(q, rest)
        BY <2>5, <2>7, <3>6
      <4>2. q.line \in Lines /\ q.body \in Seq(Token)
        BY <1>1, <3>1, <3>3
      <4> QED BY <2>2, <4>1, <4>2, CompleteSound
    <3>7. CASE ~line.chunked /\ ~(line.length > MaxBody) /\ ~(line.length <= 0)
      <4> DEFINE g == [q EXCEPT !.st = "fixed", !.need = line.length]
      <4>1. ParseHeaders(p) = GoOn(g)
        BY <2>5, <2>7, <3>7
      <4>2. line.length \in Nat /\ line.length \in 1..MaxBody /\ "fixed" \in ParserStates
        BY <1>1, <3>1, <3>7 DEF ParserStates
      <4>3. /\ g \in Shape /\ g.st = "fixed" /\ g.buf = rest /\ g.line = line
            /\ g.need = line.length /\ g.body = p.body
        BY <3>1, <3>3, <4>2 DEF Shape
      <4> HIDE DEF g
      <4>4. g \in Parsers
        BY <1>1, <3>1, <4>2, <4>3, Shaped DEF Fits
      <4> QED BY <2>2, <4>1, <4>3, <4>4, GoSound
    <3> QED BY <3>4, <3>5, <3>6, <3>7
  <2> QED BY <2>6, <2>7
<1> QED BY <1>3, <1>4

\* _parse_fixed_body.
LEMMA FixedBodySound ==
  ASSUME NEW p \in Parsers, p.st = "fixed"
  PROVE  StepSound(p, ParseFixedBody(p))
<1>1. /\ p \in Shape /\ p.buf \in Seq(Token) /\ Len(p.buf) \in Nat /\ p.need \in Nat /\ p.need > 0
      /\ p.line \in Lines
  BY ParserTypes, FitsBy
<1>2. CASE Len(p.buf) < p.need
  <2>1. ParseFixedBody(p) = More(p)
    BY <1>2 DEF ParseFixedBody
  <2> QED BY <2>1, MoreSound
<1>3. CASE ~(Len(p.buf) < p.need)
  <2> DEFINE q == [p EXCEPT !.body = SubSeq(p.buf, 1, p.need)]
             rest == From(p.buf, p.need + 1)
  <2>1. ParseFixedBody(p) = Complete(q, rest)
    BY <1>3 DEF ParseFixedBody
  <2>2. SubSeq(p.buf, 1, p.need) \in Seq(Token)
    BY <1>1, <1>3, PartPlace
  <2>3. rest \in Seq(Token)
    BY <1>1, <1>3, FromPlace
  <2>4. q.line \in Lines /\ q.body \in Seq(Token)
    BY <1>1, <2>2 DEF Shape
  <2> HIDE DEF q, rest
  <2> QED BY <2>1, <2>3, <2>4, CompleteSound
<1> QED BY <1>2, <1>3

\* _parse_chunk_size.
LEMMA ChunkSizeSound ==
  ASSUME NEW p \in Parsers, p.st = "size"
  PROVE  StepSound(p, ParseChunkSize(p))
<1> DEFINE end  == Find(p.buf, CRLF)
           rest == From(p.buf, end + 2)
           n    == p.buf[1].n
<1>1. /\ p \in Shape /\ p.buf \in Seq(Token) /\ Len(p.buf) \in Nat /\ p.need \in Nat
      /\ p.line \in Lines /\ p.body \in Seq(Token)
      /\ Len(p.body) <= MaxBody /\ MaxBody \in Nat /\ Len(p.body) \in Nat
  BY ParserTypes, FitsBy
<1>2. end = 0 \/ end \in 1..(Len(p.buf) - 1)
  BY <1>1, Ends
<1>3. CASE end = 0
  <2>1. ParseChunkSize(p) = Await(p, 400)
    BY <1>3 DEF ParseChunkSize
  <2> QED BY <2>1, AwaitSound
<1>4. CASE end # 0
  <2>1. end \in Nat /\ end > 0 /\ end + 2 \in 1..(Len(p.buf) + 1)
    BY <1>1, <1>2, <1>4
  <2>2. rest \in Seq(Token) /\ Len(rest) < Len(p.buf)
    BY <1>1, <2>1, FromPlace
  <2>3. p.buf[1].t = "size" => n \in Nat
    <3>1. 1 \in 1..Len(p.buf)
      BY <1>1, <2>1
    <3>2. p.buf[1] \in Token
      BY <1>1, <3>1, ElementOfSeq
    <3> QED BY <3>2, TokenKinds
  <2>4. ParseChunkSize(p) =
          IF end # 2 \/ p.buf[1].t # "size" THEN Error(400, rest)
          ELSE IF n = 0 THEN GoOn([p EXCEPT !.st = "trailer", !.buf = rest])
          ELSE IF Len(p.body) + n > MaxBody THEN Error(413, rest)
          ELSE GoOn([p EXCEPT !.st = "data", !.buf = rest, !.need = n])
    BY <1>4 DEF ParseChunkSize
  <2> HIDE DEF end, rest, n
  <2>5. CASE end # 2 \/ p.buf[1].t # "size"
    <3>1. ParseChunkSize(p) = Error(400, rest)
      BY <2>4, <2>5
    <3> QED BY <2>2, <3>1, ErrorSound
  <2>6. CASE ~(end # 2 \/ p.buf[1].t # "size") /\ n = 0
    <3> DEFINE g == [p EXCEPT !.st = "trailer", !.buf = rest]
    <3>1. ParseChunkSize(p) = GoOn(g)
      BY <2>4, <2>6
    <3>2. "trailer" \in ParserStates
      BY DEF ParserStates
    <3>3. g \in Shape /\ g.st = "trailer" /\ g.buf = rest /\ g.line = p.line /\ g.body = p.body
      BY <1>1, <2>2, <3>2 DEF Shape
    <3> HIDE DEF g
    <3>4. g \in Parsers
      BY <1>1, <3>3, Shaped DEF Fits
    <3> QED BY <2>2, <3>1, <3>3, <3>4, GoSound
  <2>7. CASE ~(end # 2 \/ p.buf[1].t # "size") /\ n # 0 /\ Len(p.body) + n > MaxBody
    <3>1. ParseChunkSize(p) = Error(413, rest)
      BY <2>4, <2>7
    <3> QED BY <2>2, <3>1, ErrorSound
  <2>8. CASE ~(end # 2 \/ p.buf[1].t # "size") /\ n # 0 /\ ~(Len(p.body) + n > MaxBody)
    <3> DEFINE g == [p EXCEPT !.st = "data", !.buf = rest, !.need = n]
    <3>1. ParseChunkSize(p) = GoOn(g)
      BY <2>4, <2>8
    <3>2. "data" \in ParserStates /\ n \in Nat
      BY <2>3, <2>8 DEF ParserStates
    <3>3. /\ g \in Shape /\ g.st = "data" /\ g.buf = rest /\ g.line = p.line /\ g.body = p.body
          /\ g.need = n
      BY <1>1, <2>2, <3>2 DEF Shape
    <3> HIDE DEF g
    <3>4. n > 0 /\ Len(p.body) + n <= MaxBody
      BY <1>1, <2>8, <3>2
    <3>5. g \in Parsers
      BY <1>1, <3>3, <3>4, Shaped DEF Fits
    <3> QED BY <2>2, <3>1, <3>3, <3>5, GoSound
  <2> QED BY <2>5, <2>6, <2>7, <2>8
<1> QED BY <1>3, <1>4

\* _parse_chunk_data.
LEMMA ChunkDataSound ==
  ASSUME NEW p \in Parsers, p.st = "data"
  PROVE  StepSound(p, ParseChunkData(p))
<1>1. /\ p \in Shape /\ p.buf \in Seq(Token) /\ Len(p.buf) \in Nat /\ p.need \in Nat
      /\ p.line \in Lines /\ p.body \in Seq(Token)
      /\ MaxBody \in Nat /\ Len(p.body) \in Nat
      /\ p.need > 0 /\ Len(p.body) + p.need <= MaxBody
  BY ParserTypes, FitsBy
<1>2. CASE Len(p.buf) < p.need + 2
  <2>1. ParseChunkData(p) = More(p)
    BY <1>2 DEF ParseChunkData
  <2> QED BY <2>1, MoreSound
<1>3. CASE ~(Len(p.buf) < p.need + 2) /\ SubSeq(p.buf, p.need + 1, p.need + 2) # CRLF
  <2>1. ParseChunkData(p) = Error(400, p.buf)
    BY <1>3 DEF ParseChunkData
  <2> QED BY <1>1, <2>1, ErrorSound
<1>4. CASE ~(Len(p.buf) < p.need + 2) /\ SubSeq(p.buf, p.need + 1, p.need + 2) = CRLF
  <2> DEFINE taken == SubSeq(p.buf, 1, p.need)
             g == [p EXCEPT !.st = "size", !.body = @ \o taken, !.buf = From(@, p.need + 3)]
  <2>1. ParseChunkData(p) = GoOn(g)
    BY <1>4 DEF ParseChunkData
  <2>2. 1 \in Nat \ {0} /\ p.need <= Len(p.buf)
    BY <1>1, <1>4
  <2>3. taken \in Seq(Token) /\ Len(taken) = p.need
    <3>1. Len(taken) = IF 1 <= p.need THEN p.need - 1 + 1 ELSE 0
      BY <1>1, <2>2, PartPlace
    <3>2. taken \in Seq(Token)
      BY <1>1, <2>2, PartPlace
    <3> QED BY <1>1, <3>1, <3>2
  <2>4. From(p.buf, p.need + 3) \in Seq(Token) /\ Len(From(p.buf, p.need + 3)) = Len(p.buf) - (p.need + 2)
    <3>1. p.need + 3 \in 1..(Len(p.buf) + 1) /\ p.need + 3 - 1 = p.need + 2
      BY <1>1, <1>4
    <3> DEFINE k == p.need + 3
    <3>2. k \in 1..(Len(p.buf) + 1) /\ Len(p.buf) - (k - 1) = Len(p.buf) - (p.need + 2)
      BY <1>1, <3>1
    <3> HIDE DEF k
    <3>3. From(p.buf, k) \in Seq(Token) /\ Len(From(p.buf, k)) = Len(p.buf) - (k - 1)
      BY <1>1, <3>2, FromPlace
    <3>4. From(p.buf, k) \in Seq(Token) /\ Len(From(p.buf, k)) = Len(p.buf) - (p.need + 2)
      BY <3>2, <3>3
    <3> QED BY <3>4 DEF k
  <2> HIDE DEF taken
  <2>5. p.body \o taken \in Seq(Token) /\ Len(p.body \o taken) = Len(p.body) + p.need
    BY <1>1, <2>3, Joined
  <2>6. "size" \in ParserStates
    BY DEF ParserStates
  <2>7. /\ g \in Shape /\ g.st = "size" /\ g.buf = From(p.buf, p.need + 3)
        /\ g.line = p.line /\ g.body = p.body \o taken
    BY <1>1, <2>4, <2>5, <2>6 DEF Shape
  <2> HIDE DEF g
  <2>8. g \in Parsers
    BY <1>1, <2>5, <2>7, Shaped DEF Fits
  <2>9. Len(g.buf) < Len(p.buf)
    BY <1>1, <2>4, <2>7
  <2> QED BY <2>1, <2>8, <2>9, GoSound
<1> QED BY <1>2, <1>3, <1>4

\* _parse_chunk_trailer.
LEMMA ChunkTrailerSound ==
  ASSUME NEW p \in Parsers, p.st = "trailer"
  PROVE  StepSound(p, ParseChunkTrailer(p))
<1> DEFINE line == Find(p.buf, CRLF)
           end  == Find(p.buf, EmptyLine)
<1>1. /\ p.buf \in Seq(Token) /\ Len(p.buf) \in Nat /\ p.line \in Lines /\ p.body \in Seq(Token)
  BY ParserTypes, FitsBy
<1>2. end = 0 \/ end \in 1..(Len(p.buf) - 3)
  BY <1>1, Ends
<1>3. line = 0 \/ line \in 1..(Len(p.buf) - 1)
  BY <1>1, Ends
<1>4. ParseChunkTrailer(p) =
        IF line = 0      THEN More(p)
        ELSE IF line = 1 THEN Complete(p, From(p.buf, 3))
        ELSE IF end = 0  THEN Await(p, 431)
        ELSE Complete(p, From(p.buf, end + 4))
  BY DEF ParseChunkTrailer
<1> HIDE DEF line, end
<1>5. CASE line = 0
  <2>1. ParseChunkTrailer(p) = More(p)
    BY <1>4, <1>5
  <2> QED BY <2>1, MoreSound
<1>6. CASE line = 1
  <2>1. ParseChunkTrailer(p) = Complete(p, From(p.buf, 3))
    BY <1>4, <1>6
  <2>2. 3 \in 1..(Len(p.buf) + 1)
    BY <1>1, <1>3, <1>6
  <2>3. From(p.buf, 3) \in Seq(Token)
    BY <1>1, <2>2, FromPlace
  <2> QED BY <1>1, <2>1, <2>3, CompleteSound
<1>7. CASE line # 0 /\ line # 1 /\ end = 0
  <2>1. ParseChunkTrailer(p) = Await(p, 431)
    BY <1>4, <1>7
  <2> QED BY <2>1, AwaitSound
<1>8. CASE line # 0 /\ line # 1 /\ end # 0
  <2>1. ParseChunkTrailer(p) = Complete(p, From(p.buf, end + 4))
    BY <1>4, <1>8
  <2>2. end + 4 \in 1..(Len(p.buf) + 1)
    BY <1>1, <1>2, <1>8
  <2>3. From(p.buf, end + 4) \in Seq(Token)
    BY <1>1, <2>2, FromPlace
  <2> QED BY <1>1, <2>1, <2>3, CompleteSound
<1> QED BY <1>5, <1>6, <1>7, <1>8

\* Every step of the parser is sound.
LEMMA StepIsSound ==
  ASSUME NEW p \in Parsers
  PROVE  StepSound(p, Step(p))
<1>1. p.st \in {"head", "fixed", "size", "data", "trailer"}
  BY ParserTypes DEF ParserStates
<1>2. CASE p.st = "head"
  <2>1. Step(p) = ParseHeaders(p)
    BY <1>2 DEF Step
  <2> QED BY <1>2, <2>1, HeadersSound
<1>3. CASE p.st = "fixed"
  <2>1. Step(p) = ParseFixedBody(p)
    BY <1>3 DEF Step
  <2> QED BY <1>3, <2>1, FixedBodySound
<1>4. CASE p.st = "size"
  <2>1. Step(p) = ParseChunkSize(p)
    BY <1>4 DEF Step
  <2> QED BY <1>4, <2>1, ChunkSizeSound
<1>5. CASE p.st = "data"
  <2>1. Step(p) = ParseChunkData(p)
    BY <1>5 DEF Step
  <2> QED BY <1>5, <2>1, ChunkDataSound
<1>6. CASE p.st = "trailer"
  <2>1. Step(p) = ParseChunkTrailer(p)
    BY <1>6 DEF Step
  <2> QED BY <1>6, <2>1, ChunkTrailerSound
<1> QED BY <1>1, <1>2, <1>3, <1>4, <1>5, <1>6

-----------------------------------------------------------------------------
(* next(): the steps of the parser, until one ends it. *)

\* One more step, of a result that goes on.
After(r) == IF r.status = "go" THEN Step(r.parser) ELSE r

\* It has a result.
LEMMA AfterType ==
  ASSUME NEW r \in Results
  PROVE  After(r) \in Results
<1>1. r.parser \in Parsers
  BY DEF Results
<1>2. StepSound(r.parser, Step(r.parser))
  BY <1>1, StepIsSound
<1> QED BY <1>2 DEF After, StepSound

\* The run is the function that its definition describes.
LEMMA RunSteps ==
  ASSUME NEW p \in Parsers
  PROVE  /\ Run(p)[0] = {GoOn(p)}
         /\ \A n \in 1..(Len(p.buf) + 1) : Run(p)[n] = {After(r) : r \in Run(p)[n - 1]}
<1> DEFINE N == Len(p.buf) + 1
           S == {{r} : r \in Results}
           step == [x \in (1..N) \X S |-> {After(r) : r \in x[2]}]
           IsRun(f) == f = [n \in 0..N |-> IF n = 0 THEN {GoOn(p)}
                                           ELSE {IF r.status = "go" THEN Step(r.parser) ELSE r : r \in f[n - 1]}]
<1>1. N \in Nat
  BY ParserTypes
<1>2. {GoOn(p)} \in S
  <2>1. <<>> \in Seq(Token)
    OBVIOUS
  <2>2. GoOn(p) \in Results
    BY <2>1 DEF GoOn, Result, Results
  <2> QED BY <2>2
<1>3. step \in Steps(N, S)
  <2>1. ASSUME NEW x \in (1..N) \X S
        PROVE  {After(r) : r \in x[2]} \in S
    <3>1. PICK r \in Results : x[2] = {r}
      OBVIOUS
    <3>2. {After(q) : q \in x[2]} = {After(r)}
      BY <3>1
    <3>3. After(r) \in Results
      BY AfterType
    <3> QED BY <3>2, <3>3
  <2> QED BY <2>1 DEF Steps
<1> HIDE DEF S, N
<1>4. PICK f \in [0..N -> S] : f[0] = {GoOn(p)} /\ \A n \in 1..N : f[n] = step[<<n, f[n - 1]>>]
  <2> DEFINE start == {GoOn(p)}
  <2>1. start \in S
    BY <1>2
  <2> HIDE DEF start, step, IsRun
  <2>2. \E f \in [0..N -> S] : Recursive(f, N, start, step)
    BY <1>1, <1>3, <2>1, Recursion
  <2> QED BY <2>2 DEF start, Recursive
<1>5. \A n \in 1..N : f[n] = {IF r.status = "go" THEN Step(r.parser) ELSE r : r \in f[n - 1]}
  <2> TAKE n \in 1..N
  <2>1. n - 1 \in 0..N
    BY <1>1
  <2>2. <<n, f[n - 1]>> \in (1..N) \X S
    BY <2>1
  <2>3. step[<<n, f[n - 1]>>] = {After(r) : r \in f[n - 1]}
    BY <2>2
  <2> QED BY <1>4, <2>3 DEF After
<1>6. IsRun(f)
  <2>1. \A n \in 0..N : n # 0 => n \in 1..N
    BY <1>1
  <2> QED BY <1>4, <1>5, <2>1
<1>7. \E h : IsRun(h)
  BY <1>6
<1>8. Run(p) = CHOOSE h : IsRun(h)
  BY DEF Run, N
<1> HIDE DEF IsRun
<1>9. IsRun(Run(p))
  BY <1>7, <1>8
<1>10. Run(p)[0] = {GoOn(p)}
  <2>1. 0 \in 0..N
    BY <1>1
  <2> QED BY <1>9, <2>1 DEF IsRun
<1>11. ASSUME NEW n \in 1..N
       PROVE  Run(p)[n] = {After(r) : r \in Run(p)[n - 1]}
  <2>1. n \in 0..N /\ n # 0
    BY <1>1
  <2>2. Run(p)[n] = {IF r.status = "go" THEN Step(r.parser) ELSE r : r \in Run(p)[n - 1]}
    BY <1>9, <2>1 DEF IsRun
  <2> QED BY <2>2 DEF After
<1> QED BY <1>10, <1>11 DEF N

\* What holds of the result after n steps: a step that goes on has consumed a
\* token, and one that needs more would need it again.
Reached(p, n, r) ==
    /\ r.status = "go" => Len(r.parser.buf) + n <= Len(p.buf)
    /\ r.status = "more" => r = More(r.parser) /\ Step(r.parser) = More(r.parser)
    /\ r.status \in {"complete", "error"} => r.parser = Fresh(r.parser.buf)
    /\ r.status = "complete" => r.line \in Lines
    /\ Step(p) = More(p) => IF n = 0 THEN r = GoOn(p) ELSE r = More(p)

\* Results tell apart what they are of.
LEMMA MoreFields ==
  ASSUME NEW p
  PROVE  /\ More(p).status = "more" /\ More(p).parser = p
         /\ GoOn(p).status = "go" /\ GoOn(p).parser = p
BY DEF More, GoOn, Result

\* What is said of the result after n steps holds.
LEMMA RunReaches ==
  ASSUME NEW p \in Parsers, NEW n \in 0..(Len(p.buf) + 1)
  PROVE  \E r \in Results : Run(p)[n] = {r} /\ Reached(p, n, r)
<1> DEFINE N == Len(p.buf) + 1
           Good(m) == \E r \in Results : Run(p)[m] = {r} /\ Reached(p, m, r)
           T == {m \in 0..N : Good(m)}
<1>1. N \in Nat /\ Len(p.buf) \in Nat
  BY ParserTypes
<1>2. 0 \in T
  <2>1. GoOn(p) \in Results
    <3>1. <<>> \in Seq(Token)
      OBVIOUS
    <3> QED BY <3>1 DEF GoOn, Result, Results
  <2>2. Reached(p, 0, GoOn(p))
    BY <1>1, MoreFields DEF Reached
  <2>3. Run(p)[0] = {GoOn(p)}
    BY RunSteps
  <2>4. Good(0)
    BY <2>1, <2>2, <2>3
  <2>5. 0 \in 0..N
    BY <1>1
  <2> HIDE DEF Good
  <2> QED BY <2>4, <2>5
<1>3. ASSUME NEW m \in 1..N, m - 1 \in T
      PROVE  m \in T
  <2>1. PICK r \in Results : Run(p)[m - 1] = {r} /\ Reached(p, m - 1, r)
    BY <1>3
  <2>2. Run(p)[m] = {After(r)}
    <3>1. Run(p)[m] = {After(q) : q \in Run(p)[m - 1]}
      BY RunSteps
    <3> QED BY <2>1, <3>1
  <2>3. After(r) \in Results
    BY AfterType
  <2>4. m \in Nat /\ m # 0 /\ m - 1 \in Nat
    BY <1>1
  <2>5. CASE r.status # "go"
    <3>1. After(r) = r
      BY <2>5 DEF After
    <3>2. Step(p) = More(p) => r = More(p)
      BY <2>1, <2>5, MoreFields DEF Reached
    <3>3. Reached(p, m, r)
      BY <2>1, <2>4, <2>5, <3>2 DEF Reached
    <3>4. Good(m)
      BY <2>2, <2>3, <3>1, <3>3
    <3> HIDE DEF Good
    <3> QED BY <3>4
  <2>6. CASE r.status = "go"
    <3> DEFINE q == r.parser
               s == Step(q)
    <3>1. After(r) = s
      BY <2>6 DEF After
    <3>2. q \in Parsers
      BY DEF Results
    <3>3. StepSound(q, s)
      BY <3>2, StepIsSound
    <3>4. s \in Results /\ s.parser \in Parsers
      BY <3>3 DEF StepSound, Results
    <3>5. Len(q.buf) \in Nat /\ Len(s.parser.buf) \in Nat
      BY <3>2, <3>4, ParserTypes
    <3> HIDE DEF s
    <3>6. s.status = "go" => Len(s.parser.buf) + m <= Len(p.buf)
      <4>1. Len(q.buf) + (m - 1) <= Len(p.buf)
        BY <2>1, <2>6 DEF Reached
      <4>2. s.status = "go" => Len(s.parser.buf) < Len(q.buf)
        BY <3>3 DEF StepSound
      <4>3. \A i, j, k, l \in Nat : i + (k - 1) <= l /\ j < i => j + k <= l
        OBVIOUS
      <4> HIDE DEF q
      <4> QED BY <1>1, <2>4, <3>5, <4>1, <4>2, <4>3
    <3>7. s.status = "more" => s = More(s.parser) /\ Step(s.parser) = More(s.parser)
      <4>1. s.status = "more" => s = More(q) /\ s.parser = q
        BY <3>3, MoreFields DEF StepSound
      <4> QED BY <4>1 DEF s
    <3>8. /\ s.status \in {"complete", "error"} => s.parser = Fresh(s.parser.buf)
          /\ s.status = "complete" => s.line \in Lines
      BY <3>3 DEF StepSound
    <3>9. Step(p) = More(p) => s = More(p)
      <4>1. ASSUME Step(p) = More(p)
            PROVE  q = p
        <5>1. r = GoOn(p)
          <6>1. r = More(p) => r.status = "more"
            BY MoreFields
          <6> QED BY <2>1, <2>6, <4>1, <6>1 DEF Reached
        <5> QED BY <5>1, MoreFields
      <4> QED BY <4>1 DEF s
    <3>10. Reached(p, m, s)
      BY <2>4, <3>6, <3>7, <3>8, <3>9 DEF Reached
    <3>11. Good(m)
      BY <2>2, <3>1, <3>4, <3>10
    <3> HIDE DEF Good
    <3> QED BY <3>11
  <2> QED BY <2>5, <2>6
<1>4. 0..N \subseteq T
  <2> HIDE DEF T
  <2> QED BY <1>1, <1>2, <1>3, Inductive
<1>5. Good(n)
  BY <1>4
<1> QED BY <1>5

\* next() ends: it needs more, and would need it again, or it has completed a
\* request or failed, and is ready for the next; and a parser that needs more
\* is left as it is.
THEOREM ParseSound ==
  ASSUME NEW p \in Parsers
  PROVE  LET r == Parse(p)
         IN  /\ r \in Results
             /\ r.status \in {"more", "complete", "error"}
             /\ r.status = "more" => r = More(r.parser) /\ Step(r.parser) = More(r.parser)
             /\ r.status \in {"complete", "error"} => r.parser = Fresh(r.parser.buf)
             /\ r.status = "complete" => r.line \in Lines
             /\ Step(p) = More(p) => r = More(p)
<1> DEFINE N == Len(p.buf) + 1
<1>1. N \in 0..N /\ N # 0 /\ Len(p.buf) \in Nat /\ N \in Nat
  BY ParserTypes
<1>2. \E r \in Results : Run(p)[N] = {r} /\ Reached(p, N, r)
  BY <1>1, RunReaches
<1>3. PICK r \in Results : Run(p)[N] = {r} /\ Reached(p, N, r)
  BY <1>2
<1>4. Parse(p) = r
  BY <1>3 DEF Parse
<1>5. r.status # "go"
  <2>1. r.parser \in Parsers
    BY DEF Results
  <2>2. Len(r.parser.buf) \in Nat
    BY <2>1, ParserTypes
  <2>3. r.status = "go" => Len(r.parser.buf) + (Len(p.buf) + 1) <= Len(p.buf)
    BY <1>3 DEF Reached
  <2>4. \A i, j \in Nat : ~(i + (j + 1) <= j)
    OBVIOUS
  <2> HIDE DEF N
  <2> QED BY <1>1, <2>2, <2>3, <2>4
<1>6. r.status \in {"more", "complete", "error"}
  BY <1>5 DEF Results
<1> HIDE DEF N
<1>7. /\ r.status = "more" => r = More(r.parser) /\ Step(r.parser) = More(r.parser)
      /\ r.status \in {"complete", "error"} => r.parser = Fresh(r.parser.buf)
      /\ r.status = "complete" => r.line \in Lines
      /\ Step(p) = More(p) => r = More(p)
  BY <1>1, <1>3 DEF Reached
<1> QED BY <1>4, <1>6, <1>7

-----------------------------------------------------------------------------
(* What a client sends is a sequence of tokens. *)

\* Sequences that are put one behind the other.
LEMMA FlattenType ==
  ASSUME NEW S, NEW seqs \in Seq(Seq(S))
  PROVE  FlattenSeq(seqs) \in Seq(S)
<1> DEFINE N == Len(seqs)
           Q == Seq(S)
           step == [x \in (1..N) \X Q |-> IF x[1] = 1 THEN seqs[x[1]] ELSE x[2] \o seqs[x[1]]]
           IsFlat(f) == f = [i \in 1..N |-> IF i = 1 THEN seqs[i] ELSE f[i - 1] \o seqs[i]]
<1>1. N \in Nat /\ \A i \in 1..N : seqs[i] \in Q
  OBVIOUS
<1>2. step \in Steps(N, Q)
  <2>1. ASSUME NEW x \in (1..N) \X Q
        PROVE  (IF x[1] = 1 THEN seqs[x[1]] ELSE x[2] \o seqs[x[1]]) \in Q
    <3>1. x[1] \in 1..N /\ x[2] \in Q /\ seqs[x[1]] \in Q
      BY <1>1
    <3>2. x[2] \o seqs[x[1]] \in Seq(S)
      BY <3>1, Joined
    <3> QED BY <3>1, <3>2
  <2> HIDE DEF Q
  <2> QED BY <2>1 DEF Steps
<1>3. \E f : IsFlat(f)
  <2>1. <<>> \in Q
    OBVIOUS
  <2>2. \E f \in [0..N -> Q] : Recursive(f, N, <<>>, step)
    <3> HIDE DEF step, Q, N
    <3> QED BY <1>1, <1>2, <2>1, Recursion
  <2>3. PICK f \in [0..N -> Q] : Recursive(f, N, <<>>, step)
    BY <2>2
  <2> DEFINE g == [i \in 1..N |-> f[i]]
  <2>4. ASSUME NEW i \in 1..N
        PROVE  g[i] = IF i = 1 THEN seqs[i] ELSE g[i - 1] \o seqs[i]
    <3>1. i - 1 \in 0..N /\ (i # 1 => i - 1 \in 1..N)
      BY <1>1
    <3>2. <<i, f[i - 1]>> \in (1..N) \X Q
      BY <3>1
    <3>3. f[i] = step[<<i, f[i - 1]>>]
      BY <2>3 DEF Recursive
    <3>4. f[i] = IF i = 1 THEN seqs[i] ELSE f[i - 1] \o seqs[i]
      BY <3>2, <3>3
    <3> QED BY <3>1, <3>4
  <2>5. IsFlat(g)
    BY <2>4
  <2> HIDE DEF IsFlat
  <2> QED BY <2>5
<1> DEFINE F == CHOOSE f : IsFlat(f)
<1>4. FlattenSeq(seqs) = IF N = 0 THEN seqs ELSE F[N]
  BY DEF FlattenSeq
<1>5. IsFlat(F)
  <2> HIDE DEF IsFlat
  <2> QED BY <1>3
<1> HIDE DEF F
<1> DEFINE T == {n \in 0..N : n = 0 \/ F[n] \in Q}
<1>6. 0 \in T
  BY <1>1
<1>7. ASSUME NEW n \in 1..N, n - 1 \in T
      PROVE  n \in T
  <2>1. n \in 0..N /\ n - 1 \in 0..N
    BY <1>1
  <2>2. F[n] = IF n = 1 THEN seqs[n] ELSE F[n - 1] \o seqs[n]
    BY <1>5
  <2>3. seqs[n] \in Q
    BY <1>1
  <2>4. n # 1 => F[n - 1] \in Q
    BY <1>1, <1>7
  <2>5. n # 1 => F[n - 1] \o seqs[n] \in Seq(S)
    BY <2>3, <2>4, Joined
  <2>6. F[n] \in Q
    BY <2>2, <2>3, <2>5
  <2> QED BY <2>1, <2>6
<1>8. 0..N \subseteq T
  <2> HIDE DEF T, N
  <2> QED BY <1>1, <1>6, <1>7, Inductive
<1>9. CASE N = 0
  <2>1. seqs = <<>>
    BY <1>9
  <2> QED BY <1>4, <1>9, <2>1
<1>10. CASE N # 0
  <2>1. N \in T
    BY <1>1, <1>8
  <2> QED BY <1>4, <1>10, <2>1
<1> QED BY <1>9, <1>10

\* The sum of sizes.
LEMMA TotalType ==
  ASSUME NEW sizes \in Seq(Nat)
  PROVE  Total(sizes) \in Nat
<1> DEFINE N == Len(sizes)
           step == [x \in (1..N) \X Nat |-> x[2] + sizes[x[1]]]
           IsSum(f) == f = [n \in 0..N |-> IF n = 0 THEN 0 ELSE f[n - 1] + sizes[n]]
<1>1. N \in Nat /\ \A i \in 1..N : sizes[i] \in Nat
  OBVIOUS
<1>2. step \in Steps(N, Nat)
  <2>1. ASSUME NEW x \in (1..N) \X Nat
        PROVE  x[2] + sizes[x[1]] \in Nat
    <3>1. x[2] \in Nat /\ sizes[x[1]] \in Nat
      BY <1>1
    <3> QED BY <3>1
  <2> QED BY <2>1 DEF Steps
<1>3. \E f : IsSum(f)
  <2>1. \E f \in [0..N -> Nat] : Recursive(f, N, 0, step)
    <3>1. 0 \in Nat
      OBVIOUS
    <3> HIDE DEF step, N
    <3> QED BY <1>1, <1>2, <3>1, Recursion
  <2>2. PICK f \in [0..N -> Nat] : Recursive(f, N, 0, step)
    BY <2>1
  <2>3. ASSUME NEW n \in 0..N
        PROVE  f[n] = IF n = 0 THEN 0 ELSE f[n - 1] + sizes[n]
    <3>1. n # 0 => n \in 1..N /\ n - 1 \in 0..N
      BY <1>1
    <3>2. n # 0 => <<n, f[n - 1]>> \in (1..N) \X Nat
      BY <3>1
    <3>3. n # 0 => f[n] = step[<<n, f[n - 1]>>]
      BY <2>2, <3>1 DEF Recursive
    <3>4. n # 0 => f[n] = f[n - 1] + sizes[n]
      BY <3>2, <3>3
    <3> QED BY <2>2, <3>4 DEF Recursive
  <2>4. IsSum(f)
    BY <2>3
  <2> HIDE DEF IsSum
  <2> QED BY <2>4
<1> DEFINE F == CHOOSE f : IsSum(f)
<1>4. Total(sizes) = F[N]
  BY DEF Total
<1>5. IsSum(F)
  <2> HIDE DEF IsSum
  <2> QED BY <1>3
<1> HIDE DEF F
<1> DEFINE T == {n \in 0..N : F[n] \in Nat}
<1>6. 0 \in T
  BY <1>1, <1>5
<1>7. ASSUME NEW n \in 1..N, n - 1 \in T
      PROVE  n \in T
  <2>1. n \in 0..N /\ n # 0 /\ sizes[n] \in Nat
    BY <1>1
  <2>2. F[n] = F[n - 1] + sizes[n]
    BY <1>5, <2>1
  <2> QED BY <1>7, <2>1, <2>2
<1>8. 0..N \subseteq T
  <2> HIDE DEF T, N
  <2> QED BY <1>1, <1>6, <1>7, Inductive
<1>9. N \in 0..N
  BY <1>1
<1> QED BY <1>4, <1>8, <1>9

\* The larger and the smaller of two numbers.
LEMMA TwoNumbers ==
  ASSUME NEW m \in Int, NEW n \in Int
  PROVE  /\ Max({m, n}) \in {m, n} /\ m <= Max({m, n}) /\ n <= Max({m, n})
         /\ Min({m, n}) \in {m, n} /\ Min({m, n}) <= m /\ Min({m, n}) <= n
<1>1. \E x \in {m, n} : \A y \in {m, n} : x >= y
  OBVIOUS
<1>2. Max({m, n}) \in {m, n} /\ \A y \in {m, n} : Max({m, n}) >= y
  BY <1>1 DEF Max
<1>3. \E x \in {m, n} : \A y \in {m, n} : x <= y
  OBVIOUS
<1>4. Min({m, n}) \in {m, n} /\ \A y \in {m, n} : Min({m, n}) <= y
  BY <1>3 DEF Min
<1> QED BY <1>2, <1>4

\* A token on its own.
LEMMA OneToken ==
  ASSUME NEW x \in Token
  PROVE  <<x>> \in Seq(Token)
<1> HIDE DEF Token
<1> QED OBVIOUS

\* Header fields.
LEMMA FieldsType ==
  ASSUME NEW n \in Nat
  PROVE  Fields(n) \in Seq(Token)
<1> DEFINE field == <<[t |-> "field"]>> \o CRLF
<1>1. field \in Seq(Token)
  <2>1. [t |-> "field"] \in Token
    BY DEF Token
  <2>2. <<[t |-> "field"]>> \in Seq(Token)
    BY <2>1, OneToken
  <2> QED BY <2>2, Patterns, Joined
<1> HIDE DEF field
<1>2. [j \in 1..n |-> field] \in Seq(Seq(Token))
  BY <1>1
<1>3. FlattenSeq([j \in 1..n |-> field]) \in Seq(Token)
  BY <1>2, FlattenType
<1> QED BY <1>3 DEF Fields, field

\* The bytes of a body.
LEMMA BytesType ==
  ASSUME NEW i \in Nat, NEW from \in Nat, NEW n \in Nat
  PROVE  Bytes(i, from, n) \in Seq(Token)
<1>1. ASSUME NEW j \in 1..n
      PROVE  [t |-> "byte", request |-> i, at |-> from + j] \in Token
  <2>1. from + j \in Nat
    OBVIOUS
  <2> QED BY <2>1 DEF Token
<1> HIDE DEF Token
<1>2. [j \in 1..n |-> [t |-> "byte", request |-> i, at |-> from + j]] \in [1..n -> Token]
  BY <1>1
<1>3. \A f \in [1..n -> Token] : f \in Seq(Token)
  OBVIOUS
<1> QED BY <1>2, <1>3 DEF Bytes

\* The sizes of its chunks.
LEMMA SizesType ==
  ASSUME NEW r \in Request
  PROVE  r.sizes \in Seq(Nat) /\ Len(r.sizes) \in Nat
BY DEF Request

\* Chunks.
LEMMA ChunksType ==
  ASSUME NEW i \in Nat, NEW r \in Request
  PROVE  Chunks(i, r) \in Seq(Token)
<1> DEFINE Before(k) == Total(SubSeq(r.sizes, 1, k - 1))
           Chunk(k) == <<[t |-> "size", n |-> r.sizes[k]]>> \o CRLF
                       \o Bytes(i, Before(k), r.sizes[k])
                       \o (IF r.torn THEN <<>> ELSE CRLF)
           chunks == [k \in DOMAIN r.sizes |-> Chunk(k)]
           end == <<[t |-> "size", n |-> 0]>>
<1>1. CRLF \in Seq(Token) /\ <<>> \in Seq(Token)
  BY Patterns
<1>2. r.sizes \in Seq(Nat) /\ Len(r.sizes) \in Nat /\ DOMAIN r.sizes = 1..Len(r.sizes)
  BY SizesType
<1>3. ASSUME NEW n \in Nat
      PROVE  <<[t |-> "size", n |-> n]>> \in Seq(Token)
  <2>1. [t |-> "size", n |-> n] \in Token
    BY DEF Token
  <2> QED BY <2>1, OneToken
<1>4. ASSUME NEW k \in 1..Len(r.sizes)
      PROVE  Chunk(k) \in Seq(Token)
  <2>1. r.sizes[k] \in Nat
    BY <1>2
  <2>2. Before(k) \in Nat
    <3>1. SubSeq(r.sizes, 1, k - 1) \in Seq(Nat)
      <4>1. \A j \in 1..(k - 1) : r.sizes[j] \in Nat
        BY <1>2
      <4>2. k - 1 \in Int /\ 1 \in Int
        BY <1>2
      <4> QED BY <4>1, <4>2, SubSeqProperties
    <3> QED BY <3>1, TotalType
  <2> HIDE DEF Before
  <2>3. <<[t |-> "size", n |-> r.sizes[k]]>> \o CRLF \in Seq(Token)
    BY <1>1, <1>3, <2>1, Joined
  <2>4. Bytes(i, Before(k), r.sizes[k]) \in Seq(Token)
    BY <2>1, <2>2, BytesType
  <2>5. (<<[t |-> "size", n |-> r.sizes[k]]>> \o CRLF) \o Bytes(i, Before(k), r.sizes[k]) \in Seq(Token)
    BY <2>3, <2>4, Joined
  <2>6. (IF r.torn THEN <<>> ELSE CRLF) \in Seq(Token)
    BY <1>1
  <2> QED BY <2>5, <2>6, Joined
<1>5. FlattenSeq(chunks) \in Seq(Token)
  <2>1. chunks \in [1..Len(r.sizes) -> Seq(Token)]
    BY <1>2, <1>4
  <2>2. \A f \in [1..Len(r.sizes) -> Seq(Token)] : f \in Seq(Seq(Token))
    BY <1>2
  <2>3. chunks \in Seq(Seq(Token))
    BY <2>1, <2>2
  <2> HIDE DEF chunks
  <2> QED BY <2>3, FlattenType
<1>6. end \in Seq(Token)
  BY <1>3
<1>7. Chunks(i, r) = FlattenSeq(chunks) \o end \o CRLF \o Fields(r.trailers) \o CRLF
  BY DEF Chunks
<1>8. Fields(r.trailers) \in Seq(Token)
  <2>1. r.trailers \in Nat
    BY DEF Request
  <2> QED BY <2>1, FieldsType
<1> HIDE DEF chunks, end
<1>9. FlattenSeq(chunks) \o end \in Seq(Token)
  BY <1>5, <1>6, Joined
<1>10. (FlattenSeq(chunks) \o end) \o CRLF \in Seq(Token)
  BY <1>1, <1>9, Joined
<1>11. ((FlattenSeq(chunks) \o end) \o CRLF) \o Fields(r.trailers) \in Seq(Token)
  BY <1>8, <1>10, Joined
<1>12. (((FlattenSeq(chunks) \o end) \o CRLF) \o Fields(r.trailers)) \o CRLF \in Seq(Token)
  BY <1>1, <1>11, Joined
<1> QED BY <1>7, <1>12

\* The body.
LEMMA BodyType ==
  ASSUME NEW i \in Nat, NEW r \in Request
  PROVE  Body(i, r) \in Seq(Token)
<1>1. Total(r.sizes) \in Nat
  BY SizesType, TotalType
<1>2. r.length \in Int
  BY DEF Request
<1>3. \A l \in Int : Max({0, l}) \in Nat
  <2> TAKE l \in Int
  <2>1. 0 \in Int
    OBVIOUS
  <2>2. Max({0, l}) \in {0, l} /\ 0 <= Max({0, l})
    BY <2>1, TwoNumbers, Zenon
  <2> QED BY <2>2
<1>4. Max({0, r.length}) \in Nat
  BY <1>2, <1>3
<1>5. (IF r.chunked THEN Total(r.sizes) ELSE Max({0, r.length})) \in Nat
  BY <1>1, <1>4
<1> QED BY <1>5, BytesType DEF Body

\* A request.
LEMMA WireType ==
  ASSUME NEW i \in Nat, NEW r \in Request
  PROVE  Wire(i, r) \in Seq(Token)
<1>1. CRLF \in Seq(Token) /\ <<>> \in Seq(Token)
  BY Patterns
<1>2. <<Line(i, r)>> \in Seq(Token)
  <2>1. Line(i, r) \in Lines
    BY DEF Line, Lines, Request
  <2>2. Line(i, r) \in Token
    BY <2>1 DEF Token
  <2> QED BY <2>2, OneToken
<1>3. Fields(r.fields) \in Seq(Token)
  <2>1. r.fields \in Nat
    BY DEF Request
  <2> QED BY <2>1, FieldsType
<1>4. (IF r.endless THEN <<>> ELSE CRLF) \in Seq(Token)
  BY <1>1
<1>5. (IF r.chunked THEN Chunks(i, r) ELSE Body(i, r)) \in Seq(Token)
  BY ChunksType, BodyType
<1> DEFINE line == <<Line(i, r)>>
           fields == Fields(r.fields)
           end == IF r.endless THEN <<>> ELSE CRLF
           data == IF r.chunked THEN Chunks(i, r) ELSE Body(i, r)
<1>6. Wire(i, r) = line \o CRLF \o fields \o end \o data
  BY DEF Wire
<1>7. line \in Seq(Token) /\ fields \in Seq(Token) /\ end \in Seq(Token) /\ data \in Seq(Token)
  BY <1>2, <1>3, <1>4, <1>5
<1> HIDE DEF line, fields, end, data
<1>8. line \o CRLF \in Seq(Token)
  BY <1>1, <1>7, Joined
<1>9. (line \o CRLF) \o fields \in Seq(Token)
  BY <1>7, <1>8, Joined
<1>10. ((line \o CRLF) \o fields) \o end \in Seq(Token)
  BY <1>7, <1>9, Joined
<1>11. (((line \o CRLF) \o fields) \o end) \o data \in Seq(Token)
  BY <1>7, <1>10, Joined
<1> QED BY <1>6, <1>11

\* All of a script.
LEMMA TokensType ==
  ASSUME NEW s \in Seq(Request)
  PROVE  Tokens(s) \in Seq(Token)
<1> DEFINE wires == [i \in DOMAIN s |-> Wire(i, s[i])]
<1>1. DOMAIN s = 1..Len(s) /\ Len(s) \in Nat /\ \A i \in 1..Len(s) : s[i] \in Request /\ i \in Nat
  OBVIOUS
<1>2. wires \in [1..Len(s) -> Seq(Token)]
  BY <1>1, WireType
<1>3. \A f \in [1..Len(s) -> Seq(Token)] : f \in Seq(Seq(Token))
  BY <1>1
<1>4. wires \in Seq(Seq(Token))
  BY <1>2, <1>3
<1> HIDE DEF wires
<1>5. FlattenSeq(wires) \in Seq(Token)
  BY <1>4, FlattenType
<1> QED BY <1>5 DEF Tokens, wires

-----------------------------------------------------------------------------
(* The invariant. *)

Answer == [to : Nat, code : Nat, seen : Seq(Token), last : BOOLEAN]

Connection ==
    [state : {"reading", "writing", "streaming"}, parser : Parsers, keep_alive : BOOLEAN,
     close_after_write : BOOLEAN, answer : Answer, write_buffer : Nat, pieces : Nat]

\* A connection that reads needs more than it has; one that answers has a parser
\* that is ready for the next request.
Steady(q) ==
    /\ q.state = "reading" => Step(q.parser) = More(q.parser)
    /\ q.state # "reading" => q.parser = Fresh(q.parser.buf)

TypeOK ==
    /\ script \in [Clients -> Seq(Request)]
    /\ link \in [Clients -> {"new", "open", "closed"}]
    /\ fed \in [Clients -> Nat]
    /\ conn \in [Clients -> Connection]

ConnectionInv == TypeOK /\ \A c \in Clients : Steady(conn[c])

\* What is not read yet.
LEMMA RestType ==
  ASSUME TypeOK, NEW c \in Clients
  PROVE  Rest(c) \in Seq(Token)
<1> DEFINE s == Tokens(script[c])
           m == fed[c] + 1
<1>1. s \in Seq(Token) /\ Len(s) \in Nat
  <2>1. script[c] \in Seq(Request)
    BY DEF TypeOK
  <2>2. s \in Seq(Token)
    BY <2>1, TokensType
  <2> HIDE DEF s
  <2> QED BY <2>2
<1>2. m \in Nat \ {0}
  BY DEF TypeOK
<1>3. Rest(c) = SubSeq(s, m, Len(s))
  BY DEF Rest
<1> HIDE DEF s, m
<1>4. Len(s) <= Len(s)
  BY <1>1
<1>5. SubSeq(s, m, Len(s)) \in Seq(Token)
  BY <1>1, <1>2, <1>4, PartPlace
<1> QED BY <1>3, <1>5

\* A buffer without an end of a head needs more, if it is not too long.
LEMMA EmptyWaits ==
  Step(Fresh(<<>>)) = More(Fresh(<<>>))
<1> DEFINE p == Fresh(<<>>)
<1>1. p.st = "head" /\ p.buf = <<>>
  BY DEF Fresh
<1>2. Len(p.buf) = 0 /\ p.buf \in Seq(Token)
  <2>1. <<>> \in Seq(Token) /\ Len(<<>>) = 0
    OBVIOUS
  <2> QED BY <1>1, <2>1
<1>3. Find(p.buf, EmptyLine) = 0
  <2>1. Find(p.buf, EmptyLine) = 0 \/ Find(p.buf, EmptyLine) \in 1..(Len(p.buf) - 3)
    BY <1>2, Ends
  <2> QED BY <1>2, <2>1
<1>4. Step(p) = ParseHeaders(p)
  BY <1>1 DEF Step
<1>5. ParseHeaders(p) = Await(p, 431)
  BY <1>3 DEF ParseHeaders
<1>6. Await(p, 431) = More(p)
  BY <1>2, ParserAssumption DEF Await
<1> QED BY <1>4, <1>5, <1>6

\* Answering.
LEMMA SendType ==
  ASSUME NEW q \in Connection, q.parser = Fresh(q.parser.buf),
         NEW id \in Nat, NEW code \in Nat, NEW seen \in Seq(Token)
  PROVE  Send(q, id, code, seen) \in Connection /\ Steady(Send(q, id, code, seen))
<1> DEFINE a == [to |-> id, code |-> code, seen |-> seen,
                 last |-> q.close_after_write \/ ~q.keep_alive]
           s == [q EXCEPT !.state = "writing", !.write_buffer = Parts, !.answer = a]
<1>1. a \in Answer
  <2>1. (q.close_after_write \/ ~q.keep_alive) \in BOOLEAN
    OBVIOUS
  <2> QED BY <2>1 DEF Answer
<1>2. Send(q, id, code, seen) = s
  BY DEF Send
<1> HIDE DEF a
<1>3. s \in Connection /\ s.state = "writing" /\ s.parser = q.parser
  BY <1>1 DEF Connection, Parts
<1> HIDE DEF s
<1>4. Steady(s)
  BY <1>3 DEF Steady
<1> QED BY <1>2, <1>3, <1>4

\* An answer to a request whose body is not echoed.
LEMMA SendEmpty ==
  ASSUME NEW q \in Connection, q.parser = Fresh(q.parser.buf), NEW id \in Nat, NEW code \in Nat
  PROVE  Send(q, id, code, <<>>) \in Connection /\ Steady(Send(q, id, code, <<>>))
<1>1. \A seen \in Seq(Token) : Send(q, id, code, seen) \in Connection /\ Steady(Send(q, id, code, seen))
  BY SendType
<1>2. <<>> \in Seq(Token)
  OBVIOUS
<1> QED BY <1>1, <1>2, Zenon

\* Closing leaves the parser alone.
LEMMA ClosingType ==
  ASSUME NEW q \in Connection
  PROVE  Closing(q) \in Connection /\ Closing(q).parser = q.parser
BY DEF Closing, Connection

\* Streaming.
LEMMA StreamType ==
  ASSUME NEW q \in Connection, q.parser = Fresh(q.parser.buf),
         NEW id \in Nat, NEW seen \in Seq(Token), NEW x \in Stream(q, id, seen)
  PROVE  x \in Connection /\ Steady(x)
<1> DEFINE a == [to |-> id, code |-> 200, seen |-> seen, last |-> TRUE]
<1>1. a \in Answer
  BY DEF Answer
<1>2. PICK parts \in {0, 1} :
        x = [q EXCEPT !.state = "streaming", !.write_buffer = parts, !.pieces = 0, !.answer = a]
  BY DEF Stream
<1> HIDE DEF a
<1>3. parts \in Nat /\ 0 \in Nat
  OBVIOUS
<1>4. x \in Connection
  BY <1>1, <1>2, <1>3 DEF Connection
<1>5. x.state = "streaming" /\ x.parser = q.parser
  BY <1>2 DEF Connection
<1> QED BY <1>4, <1>5 DEF Steady

\* The end of a stream.
LEMMA EndStreamType ==
  ASSUME NEW q \in Connection, q.state = "streaming", Steady(q), NEW code \in Nat
  PROVE  EndStream(q, code) \in Connection /\ Steady(EndStream(q, code))
<1> DEFINE a == [q.answer EXCEPT !.code = code]
           x == [q EXCEPT !.state = "writing", !.write_buffer = Parts, !.pieces = 0, !.answer = a]
<1>1. a \in Answer
  <2>1. q.answer \in Answer
    BY DEF Connection
  <2> QED BY <2>1 DEF Answer
<1>2. EndStream(q, code) = x
  BY DEF EndStream
<1> HIDE DEF a
<1>3. Parts \in Nat
  BY DEF Parts
<1>4. x \in Connection
  BY <1>1, <1>3 DEF Connection
<1>5. x.state = "writing" /\ x.parser = q.parser
  BY DEF Connection
<1> HIDE DEF x
<1>6. Steady(x)
  BY <1>5 DEF Steady
<1> QED BY <1>2, <1>4, <1>6

\* Whatever a request is dispatched to, the connection answers with a parser that
\* is ready.
LEMMA DispatchType ==
  ASSUME NEW q \in Connection, q.parser = Fresh(q.parser.buf),
         NEW line \in Lines, NEW body \in Seq(Token), NEW x \in Dispatch(q, line, body)
  PROVE  x \in Connection /\ Steady(x)
<1>1. line.id \in Nat /\ <<>> \in Seq(Token)
  BY DEF Lines
<1>2. Closing(q) \in Connection /\ Closing(q).parser = Fresh(Closing(q).parser.buf)
  BY ClosingType
<1>3. \/ \E code \in {200, 400, 411} : x \in {Send(q, line.id, code, body), Send(q, line.id, code, <<>>)}
      \/ \E code \in {200, 500} : x \in {Send(Closing(q), line.id, code, body), Send(Closing(q), line.id, code, <<>>)}
      \/ x \in Stream(Closing(q), line.id, body)
  BY DEF Dispatch
<1>4. ASSUME NEW code \in {200, 400, 411},
             x \in {Send(q, line.id, code, body), Send(q, line.id, code, <<>>)}
      PROVE  x \in Connection /\ Steady(x)
  <2>1. code \in Nat
    OBVIOUS
  <2>2. CASE x = Send(q, line.id, code, body)
    <3>1. Send(q, line.id, code, body) \in Connection /\ Steady(Send(q, line.id, code, body))
      BY <1>1, <2>1, SendType
    <3> QED BY <2>2, <3>1
  <2>3. CASE x = Send(q, line.id, code, <<>>)
    <3>1. Send(q, line.id, code, <<>>) \in Connection /\ Steady(Send(q, line.id, code, <<>>))
      BY <1>1, <2>1, SendEmpty
    <3> QED BY <2>3, <3>1
  <2> QED BY <1>4, <2>2, <2>3
<1>5. ASSUME NEW code \in {200, 500},
             x \in {Send(Closing(q), line.id, code, body), Send(Closing(q), line.id, code, <<>>)}
      PROVE  x \in Connection /\ Steady(x)
  <2>1. code \in Nat
    OBVIOUS
  <2> DEFINE z == Closing(q)
  <2>2. z \in Connection /\ z.parser = Fresh(z.parser.buf)
    BY <1>2
  <2>3. x = Send(z, line.id, code, body) \/ x = Send(z, line.id, code, <<>>)
    BY <1>5
  <2> HIDE DEF z
  <2>4. Send(z, line.id, code, body) \in Connection /\ Steady(Send(z, line.id, code, body))
    BY <1>1, <2>1, <2>2, SendType
  <2>5. Send(z, line.id, code, <<>>) \in Connection /\ Steady(Send(z, line.id, code, <<>>))
    BY <1>1, <2>1, <2>2, SendEmpty
  <2> QED BY <2>3, <2>4, <2>5
<1>6. CASE x \in Stream(Closing(q), line.id, body)
  BY <1>1, <1>2, <1>6, StreamType
<1> QED BY <1>3, <1>4, <1>5, <1>6

\* What was read is parsed until more is needed or there is something to answer.
LEMMA ProcessType ==
  ASSUME NEW q \in Connection, q.state = "reading", NEW x \in ProcessPending(q)
  PROVE  x \in Connection /\ Steady(x)
<1> DEFINE r == Parse(q.parser)
           p == [q EXCEPT !.parser = r.parser]
           d == [p EXCEPT !.keep_alive = r.line.keep, !.close_after_write = ~r.line.keep]
<1>1. q.parser \in Parsers
  BY DEF Connection
<1>2. /\ r \in Results
      /\ r.status \in {"more", "complete", "error"}
      /\ r.status = "more" => r = More(r.parser) /\ Step(r.parser) = More(r.parser)
      /\ r.status \in {"complete", "error"} => r.parser = Fresh(r.parser.buf)
      /\ r.status = "complete" => r.line \in Lines
  BY <1>1, ParseSound
<1>3. r.parser \in Parsers /\ r.code \in Nat /\ r.body \in Seq(Token)
  BY <1>2 DEF Results
<1>4. /\ r.status = "more" => x = p
      /\ r.status = "error" => x = Send(Closing(p), 0, r.code, <<>>)
      /\ r.status = "complete" => x \in Dispatch(d, r.line, r.body)
  BY DEF ProcessPending
<1> HIDE DEF r
<1>5. p \in Connection /\ p.parser = r.parser /\ p.state = "reading"
  BY <1>3 DEF Connection
<1>6. CASE r.status = "more"
  BY <1>2, <1>4, <1>5, <1>6 DEF Steady
<1>7. CASE r.status = "error"
  <2>1. Closing(p) \in Connection /\ Closing(p).parser = Fresh(Closing(p).parser.buf)
    <3> HIDE DEF p
    <3> QED BY <1>2, <1>5, <1>7, ClosingType
  <2>2. 0 \in Nat
    OBVIOUS
  <2> HIDE DEF p
  <2> QED BY <1>3, <1>4, <1>7, <2>1, <2>2, SendEmpty
<1>8. CASE r.status = "complete"
  <2>1. r.line.keep \in BOOLEAN /\ (~r.line.keep) \in BOOLEAN
    BY <1>2, <1>8 DEF Lines
  <2>2. d \in Connection /\ d.parser = p.parser
    <3> HIDE DEF p
    <3> QED BY <1>5, <2>1 DEF Connection
  <2> HIDE DEF d, p
  <2>3. d.parser = Fresh(d.parser.buf)
    BY <1>2, <1>5, <1>8, <2>2
  <2> QED BY <1>2, <1>3, <1>4, <1>8, <2>2, <2>3, DispatchType
<1> QED BY <1>2, <1>6, <1>7, <1>8

\* A new connection is steady.
LEMMA NewConnectionType ==
  NewConnection \in Connection /\ Steady(NewConnection)
<1>1. Fresh(<<>>) \in Parsers
  <2>1. <<>> \in Seq(Token)
    OBVIOUS
  <2> QED BY <2>1, FreshType
<1>2. NoAnswer \in Answer
  <2>1. <<>> \in Seq(Token)
    OBVIOUS
  <2> QED BY <2>1 DEF NoAnswer, Answer
<1>3. NewConnection \in Connection
  BY <1>1, <1>2 DEF NewConnection, Connection
<1>4. NewConnection.state = "reading" /\ NewConnection.parser = Fresh(<<>>)
  BY DEF NewConnection
<1> QED BY <1>3, <1>4, EmptyWaits DEF Steady

\* After an answer, what was read ahead is parsed.
LEMMA PrepareNextType ==
  ASSUME NEW q \in Connection, q.parser = Fresh(q.parser.buf), NEW x \in PrepareNext(q)
  PROVE  x \in Connection /\ Steady(x)
<1> DEFINE next == [q EXCEPT !.state = "reading", !.keep_alive = FALSE,
                             !.close_after_write = FALSE, !.answer = NoAnswer]
<1>1. NoAnswer \in Answer
  <2>1. <<>> \in Seq(Token)
    OBVIOUS
  <2> QED BY <2>1 DEF NoAnswer, Answer
<1>2. next \in Connection /\ next.state = "reading" /\ next.parser = q.parser
  BY <1>1 DEF Connection
<1>3. x \in IF next.parser.buf = <<>> THEN {next} ELSE ProcessPending(next)
  BY DEF PrepareNext
<1> HIDE DEF next
<1>4. CASE next.parser.buf = <<>>
  <2>1. x = next /\ next.parser = Fresh(<<>>)
    BY <1>2, <1>3, <1>4
  <2> QED BY <1>2, <2>1, EmptyWaits DEF Steady
<1>5. CASE next.parser.buf # <<>>
  BY <1>2, <1>3, <1>5, ProcessType
<1> QED BY <1>4, <1>5

-----------------------------------------------------------------------------
(* The handlers. *)

\* What the bytes of a read do to a connection before they are parsed.
LEMMA Appended ==
  ASSUME NEW q \in Connection, Steady(q), NEW more \in Seq(Token), NEW x,
         x = [q EXCEPT !.parser.buf = @ \o more]
  PROVE  x \in Connection /\ x.state = q.state /\ (q.state # "reading" => Steady(x))
<1> DEFINE p == q.parser
           buf == p.buf \o more
           r == [p EXCEPT !.buf = buf]
<1>1. p \in Parsers /\ p \in Shape /\ p.buf \in Seq(Token)
  <2>1. p \in Parsers
    BY DEF Connection
  <2> HIDE DEF p
  <2> QED BY <2>1, ParserTypes
<1>2. buf \in Seq(Token)
  <2> HIDE DEF p
  <2> QED BY <1>1, Joined
<1>3. x = [q EXCEPT !.parser = r]
  OBVIOUS
<1> HIDE DEF p, buf
<1>4. /\ r \in Shape /\ r.buf = buf /\ r.st = p.st /\ r.line = p.line /\ r.need = p.need
      /\ r.body = p.body
  BY <1>1, <1>2 DEF Shape
<1>5. p = Fresh(p.buf) => r = Fresh(r.buf)
  <2> DEFINE b == p.buf
  <2>1. \A x1, x2 : [Fresh(x1) EXCEPT !.buf = x2] = Fresh(x2)
    BY DEF Fresh
  <2> HIDE DEF b
  <2>2. p = Fresh(b) => r = Fresh(buf)
    BY <2>1
  <2> QED BY <1>4, <2>2 DEF b
<1> HIDE DEF r
<1>6. r \in Parsers
  <2>1. Fits(p)
    BY <1>1, ParserTypes
  <2>2. Fits(r)
    BY <1>4, <2>1 DEF Fits
  <2> QED BY <1>4, <2>2, Shaped
<1>7. x \in Connection /\ x.state = q.state /\ x.parser = r
  BY <1>3, <1>6 DEF Connection
<1>8. q.state # "reading" => p = Fresh(p.buf)
  BY DEF Steady, p
<1> QED BY <1>5, <1>7, <1>8 DEF Steady

\* One connection has another record.
LEMMA Replaced ==
  ASSUME NEW f \in [Clients -> Connection], \A d \in Clients : Steady(f[d]),
         NEW c \in Clients, NEW x \in Connection, Steady(x),
         NEW g, g = [f EXCEPT ![c] = x]
  PROVE  g \in [Clients -> Connection] /\ \A d \in Clients : Steady(g[d])
<1> HIDE DEF Connection
<1>1. g \in [Clients -> Connection]
  OBVIOUS
<1>2. ASSUME NEW d \in Clients
      PROVE  Steady(g[d])
  <2>1. g[d] = IF d = c THEN x ELSE f[d]
    OBVIOUS
  <2> QED BY <2>1
<1> QED BY <1>1, <1>2

\* A record whose state and parser are those of another is as steady.
LEMMA StillSteady ==
  ASSUME NEW q, Steady(q), NEW x, x.state = q.state, x.parser = q.parser
  PROVE  Steady(x)
BY DEF Steady

\* The invariant holds initially.
LEMMA InitConnection ==
  Init => ConnectionInv
<1> SUFFICES ASSUME Init
             PROVE  ConnectionInv
  OBVIOUS
<1>1. script \in [Clients -> Seq(Request)]
  BY ConnectionAssumption DEF Init
<1>2. link \in [Clients -> {"new", "open", "closed"}] /\ fed \in [Clients -> Nat]
  BY DEF Init
<1>3. conn \in [Clients -> Connection]
  BY NewConnectionType DEF Init
<1>4. \A c \in Clients : Steady(conn[c])
  BY NewConnectionType DEF Init
<1> QED BY <1>1, <1>2, <1>3, <1>4 DEF ConnectionInv, TypeOK

\* Every handler preserves it.
LEMMA NextConnection ==
  ConnectionInv /\ [Next]_vars => ConnectionInv'
<1> SUFFICES ASSUME ConnectionInv, [Next]_vars
             PROVE  ConnectionInv'
  OBVIOUS
<1>0. /\ script \in [Clients -> Seq(Request)]
      /\ link \in [Clients -> {"new", "open", "closed"}]
      /\ fed \in [Clients -> Nat]
      /\ conn \in [Clients -> Connection]
      /\ \A c \in Clients : conn[c] \in Connection /\ Steady(conn[c])
  BY DEF ConnectionInv, TypeOK
<1> DEFINE Settled(f) == f \in [Clients -> Connection] /\ \A d \in Clients : Steady(f[d])
<1>1. ASSUME script' = script, link' \in [Clients -> {"new", "open", "closed"}],
             fed' \in [Clients -> Nat], Settled(conn')
      PROVE  ConnectionInv'
  BY <1>0, <1>1 DEF ConnectionInv, TypeOK
<1>2. Settled(conn)
  BY <1>0
<1>3. ASSUME NEW c \in Clients, Close(c)
      PROVE  link' \in [Clients -> {"new", "open", "closed"}] /\ Settled(conn')
  <2>1. conn' = [conn EXCEPT ![c] = NewConnection]
    BY <1>3 DEF Close
  <2>2. Settled(conn')
    BY <1>0, <2>1, NewConnectionType, Replaced
  <2>3. link' \in [Clients -> {"new", "open", "closed"}]
    BY <1>0, <1>3 DEF Close
  <2> QED BY <2>2, <2>3
<1>4. ASSUME NEW c \in Clients, NEW x \in Connection, Steady(x), conn' = [conn EXCEPT ![c] = x]
      PROVE  Settled(conn')
  BY <1>0, <1>4, Replaced
<1> HIDE DEF Settled
<1>5. ASSUME NEW c \in Clients, Accept(c)
      PROVE  ConnectionInv'
  <2>1. link' \in [Clients -> {"new", "open", "closed"}]
    BY <1>0, <1>5 DEF Accept
  <2>2. script' = script /\ fed' = fed /\ conn' = conn
    BY <1>5 DEF Accept
  <2> QED BY <1>0, <1>1, <1>2, <2>1, <2>2
<1>6. ASSUME NEW c \in Clients, NEW n \in 1..Min({ReadSize, Len(Rest(c))}), ReadData(c, n)
      PROVE  ConnectionInv'
  <2> DEFINE more == SubSeq(Rest(c), 1, n)
             q == [conn[c] EXCEPT !.parser.buf = @ \o more]
  <2>1. n \in Nat /\ n <= Len(Rest(c)) /\ Rest(c) \in Seq(Token)
    <3>1. Rest(c) \in Seq(Token)
      BY RestType DEF ConnectionInv
    <3>2. Len(Rest(c)) \in Nat /\ ReadSize \in Nat
      BY <3>1, ConnectionAssumption
    <3> DEFINE k == Len(Rest(c))
    <3>3. k \in Nat /\ k \in Int /\ ReadSize \in Int /\ n \in 1..Min({ReadSize, k})
      BY <3>2
    <3> HIDE DEF k
    <3>4. Min({ReadSize, k}) \in {ReadSize, k} /\ Min({ReadSize, k}) <= k
      BY <3>3, TwoNumbers
    <3>5. n \in Nat /\ n <= k
      BY <3>3, <3>4
    <3> QED BY <3>1, <3>5 DEF k
  <2>2. more \in Seq(Token)
    BY <2>1, PartPlace
  <2>3. /\ \E next \in IF q.state = "reading" THEN ProcessPending(q) ELSE {q} :
              conn' = [conn EXCEPT ![c] = next]
        /\ script' = script /\ link' = link /\ fed' = [fed EXCEPT ![c] = @ + n]
    BY <1>6 DEF ReadData
  <2>4. PICK next \in IF q.state = "reading" THEN ProcessPending(q) ELSE {q} :
           conn' = [conn EXCEPT ![c] = next]
    BY <2>3
  <2> HIDE DEF more
  <2>5. q \in Connection /\ q.state = conn[c].state /\ (conn[c].state # "reading" => Steady(q))
    BY <1>0, <2>2, Appended
  <2> HIDE DEF q
  <2>6. next \in Connection /\ Steady(next)
    <3>1. CASE q.state = "reading"
      <4>1. next \in ProcessPending(q)
        BY <2>4, <3>1
      <4> QED BY <2>5, <3>1, <4>1, ProcessType
    <3>2. CASE q.state # "reading"
      <4>1. next = q
        BY <2>4, <3>2
      <4> QED BY <2>5, <3>2, <4>1
    <3> QED BY <3>1, <3>2
  <2>7. Settled(conn')
    BY <1>4, <2>4, <2>6
  <2>8. fed' \in [Clients -> Nat]
    BY <1>0, <2>1, <2>3
  <2> QED BY <1>0, <1>1, <2>3, <2>7, <2>8
<1>7. ASSUME NEW c \in Clients, ReadEof(c) \/ WriteFails(c) \/ Sweep(c) \/ StreamBreaks(c)
      PROVE  ConnectionInv'
  <2>1. Close(c) /\ script' = script /\ fed' = fed
    BY <1>7 DEF ReadEof, WriteFails, Sweep, StreamBreaks
  <2> QED BY <1>0, <1>1, <1>3, <2>1
<1>8. ASSUME NEW c \in Clients, WriteSome(c)
      PROVE  ConnectionInv'
  <2>1. script' = script /\ link' = link /\ fed' = fed
    BY <1>8 DEF WriteSome
  <2>2. PICK n \in 1..conn[c].write_buffer : conn' = [conn EXCEPT ![c].write_buffer = @ - n]
    BY <1>8 DEF WriteSome
  <2> DEFINE x == [conn[c] EXCEPT !.write_buffer = @ - n]
  <2>3. conn[c].write_buffer \in Nat
    BY <1>0 DEF Connection
  <2>4. conn[c].write_buffer - n \in Nat
    BY <2>3
  <2>5. x \in Connection /\ x.state = conn[c].state /\ x.parser = conn[c].parser
    BY <1>0, <2>4 DEF Connection
  <2>6. conn' = [conn EXCEPT ![c] = x]
    BY <2>2
  <2> HIDE DEF x
  <2>7. Steady(x)
    BY <1>0, <2>5, StillSteady
  <2> QED BY <1>0, <1>1, <1>4, <2>1, <2>5, <2>6, <2>7
<1>9. ASSUME NEW c \in Clients, WriteAll(c)
      PROVE  ConnectionInv'
  <2>1. script' = script /\ fed' = fed /\ conn[c].state = "writing"
    BY <1>9 DEF WriteAll
  <2>2. CASE Close(c)
    BY <1>0, <1>1, <1>3, <2>1, <2>2
  <2>3. CASE ~Close(c)
    <3> DEFINE q == [conn[c] EXCEPT !.write_buffer = 0]
    <3>1. link' = link /\ \E next \in PrepareNext(q) : conn' = [conn EXCEPT ![c] = next]
      BY <1>9, <2>3 DEF WriteAll
    <3>2. PICK next \in PrepareNext(q) : conn' = [conn EXCEPT ![c] = next]
      BY <3>1
    <3>3. q \in Connection /\ q.parser = conn[c].parser
      BY <1>0 DEF Connection
    <3>4. conn[c].parser = Fresh(conn[c].parser.buf)
      BY <1>0, <2>1 DEF Steady
    <3> HIDE DEF q
    <3>5. next \in Connection /\ Steady(next)
      BY <3>2, <3>3, <3>4, PrepareNextType
    <3>6. Settled(conn')
      BY <1>4, <3>2, <3>5
    <3> QED BY <1>0, <1>1, <2>1, <3>1, <3>6
  <2> QED BY <2>2, <2>3
<1>10. ASSUME NEW c \in Clients, StreamPiece(c)
       PROVE  ConnectionInv'
  <2>1. script' = script /\ link' = link /\ fed' = fed
    BY <1>10 DEF StreamPiece
  <2> DEFINE x == [conn[c] EXCEPT !.write_buffer = @ + 1, !.pieces = @ + 1]
  <2>2. conn[c].write_buffer \in Nat /\ conn[c].pieces \in Nat
    BY <1>0 DEF Connection
  <2>3. conn[c].write_buffer + 1 \in Nat /\ conn[c].pieces + 1 \in Nat
    BY <2>2
  <2>4. x \in Connection /\ x.state = conn[c].state /\ x.parser = conn[c].parser
    BY <1>0, <2>3 DEF Connection
  <2>5. conn' = [conn EXCEPT ![c] = x]
    BY <1>0, <1>10 DEF StreamPiece
  <2> HIDE DEF x
  <2>6. Steady(x)
    BY <1>0, <2>4, StillSteady
  <2> QED BY <1>0, <1>1, <1>4, <2>1, <2>4, <2>5, <2>6
<1>11. ASSUME NEW c \in Clients, StreamEnds(c)
       PROVE  ConnectionInv'
  <2>1. script' = script /\ link' = link /\ fed' = fed /\ conn[c].state = "streaming"
    BY <1>11 DEF StreamEnds
  <2>2. PICK code \in {200, 500} : /\ code = 500 => conn[c].pieces = 0
                                   /\ conn' = [conn EXCEPT ![c] = EndStream(@, code)]
    BY <1>11 DEF StreamEnds
  <2>3. EndStream(conn[c], code) \in Connection /\ Steady(EndStream(conn[c], code))
    <3>1. code \in Nat
      OBVIOUS
    <3> QED BY <1>0, <2>1, <3>1, EndStreamType
  <2>4. Settled(conn')
    BY <1>4, <2>2, <2>3, Zenon
  <2> QED BY <1>0, <1>1, <2>1, <2>4
<1>12. CASE (\E c \in Clients : Leave(c)) \/ Tick \/ UNCHANGED vars
  <2>1. script' = script /\ link' = link /\ fed' = fed /\ conn' = conn
    BY <1>12 DEF Leave, Tick, vars
  <2> QED BY <1>0, <1>1, <1>2, <2>1
<1>13. CASE \E c \in Clients : Read(c)
  BY <1>6, <1>13 DEF Read
<1> QED BY <1>5, <1>7, <1>8, <1>9, <1>10, <1>11, <1>12, <1>13 DEF Next, Write, Drain

\* In every reachable state the parser of a connection that reads would need more
\* than it has, and that of one that answers is ready for the next request.
THEOREM ConnectionInvHolds == Spec => []ConnectionInv
BY InitConnection, NextConnection, PTL DEF Spec

\* A connection that waits for input has no request that could be answered.
LEMMA NothingWaits ==
  ConnectionInv => NothingParsedWaits
<1> SUFFICES ASSUME ConnectionInv, NEW c \in Open, conn[c].state = "reading"
             PROVE  Parse(conn[c].parser) = More(conn[c].parser)
  BY DEF NothingParsedWaits
<1>1. c \in Clients
  BY DEF Open
<1>2. conn[c] \in Connection /\ Steady(conn[c])
  BY <1>1 DEF ConnectionInv, TypeOK
<1>3. conn[c].parser \in Parsers /\ Step(conn[c].parser) = More(conn[c].parser)
  BY <1>2 DEF Steady, Connection
<1> QED BY <1>3, ParseSound

\* However the bytes are cut and the requests are pipelined, a connection that
\* waits for input (_prepare_next_request, _handle_connection_read) has no
\* complete request in its buffer: none is left unanswered there.
THEOREM NothingParsedWaitsHolds == Spec => []NothingParsedWaits
BY ConnectionInvHolds, NothingWaits, PTL

-----------------------------------------------------------------------------
(* The bound of the buffer. *)

\* Only More needs more.
LEMMA Statuses ==
  ASSUME NEW p, NEW q, NEW code, NEW buf
  PROVE  /\ GoOn(q) # More(p) /\ Error(code, buf) # More(p) /\ Complete(q, buf) # More(p)
<1>1. /\ GoOn(q).status = "go" /\ Error(code, buf).status = "error"
      /\ Complete(q, buf).status = "complete" /\ More(p).status = "more"
  BY DEF GoOn, Error, Complete, More, Result
<1> QED BY <1>1

\* What is waited for is within the limit.
LEMMA AwaitBound ==
  ASSUME NEW p \in Parsers, NEW code, Await(p, code) = More(p)
  PROVE  Len(p.buf) <= MaxHeader
<1>1. Len(p.buf) \in Nat /\ MaxHeader \in Nat
  BY ParserTypes, ParserAssumption
<1>2. ~(Len(p.buf) > MaxHeader)
  BY Statuses DEF Await
<1> QED BY <1>1, <1>2

\* A parser that needs more, outside a trailer, has less than it could keep.
LEMMA WaitBound ==
  ASSUME NEW p \in Parsers, Step(p) = More(p), p.st # "trailer"
  PROVE  Len(p.buf) <= MaxHeader \/ Len(p.buf) <= MaxBody + 1
<1>1. /\ p.st \in {"head", "fixed", "size", "data"}
      /\ Len(p.buf) \in Nat /\ p.need \in Nat /\ Len(p.body) \in Nat
      /\ MaxBody \in Nat /\ MaxHeader \in Nat
  BY ParserTypes, ParserAssumption DEF ParserStates
<1>2. CASE p.st = "head"
  <2> DEFINE end  == Find(p.buf, EmptyLine)
             head == SubSeq(p.buf, 1, end - 1)
             rest == From(p.buf, end + 4)
             line == head[1]
             q    == [p EXCEPT !.buf = rest, !.line = line]
  <2>1. ParseHeaders(p) = More(p)
    BY <1>2 DEF Step
  <2>2. ParseHeaders(p) =
          IF end = 0 THEN Await(p, 431)
          ELSE IF HeadCode(head) # 0 THEN Error(HeadCode(head), rest)
          ELSE IF line.chunked THEN GoOn([q EXCEPT !.st = "size"])
          ELSE IF line.length > MaxBody THEN Error(413, rest)
          ELSE IF line.length <= 0   THEN Complete(q, rest)
          ELSE GoOn([q EXCEPT !.st = "fixed", !.need = line.length])
    BY DEF ParseHeaders
  <2> HIDE DEF end, head, rest, line, q
  <2>3. /\ \A g : GoOn(g) # More(p)
        /\ \A code, buf : Error(code, buf) # More(p)
        /\ \A g, buf : Complete(g, buf) # More(p)
    BY Statuses
  <2>4. CASE end = 0
    <3>1. ParseHeaders(p) = Await(p, 431)
      BY <2>2, <2>4
    <3> QED BY <2>1, <3>1, AwaitBound
  <2>5. CASE end # 0
    <3>1. CASE HeadCode(head) # 0
      <4>1. ParseHeaders(p) = Error(HeadCode(head), rest)
        BY <2>2, <2>5, <3>1
      <4> QED BY <2>1, <2>3, <4>1
    <3>2. CASE HeadCode(head) = 0 /\ line.chunked
      <4>1. ParseHeaders(p) = GoOn([q EXCEPT !.st = "size"])
        BY <2>2, <2>5, <3>2
      <4> QED BY <2>1, <2>3, <4>1
    <3>3. CASE HeadCode(head) = 0 /\ ~line.chunked /\ line.length > MaxBody
      <4>1. ParseHeaders(p) = Error(413, rest)
        BY <2>2, <2>5, <3>3
      <4> QED BY <2>1, <2>3, <4>1
    <3>4. CASE HeadCode(head) = 0 /\ ~line.chunked /\ ~(line.length > MaxBody) /\ line.length <= 0
      <4>1. ParseHeaders(p) = Complete(q, rest)
        BY <2>2, <2>5, <3>4
      <4> QED BY <2>1, <2>3, <4>1
    <3>5. CASE HeadCode(head) = 0 /\ ~line.chunked /\ ~(line.length > MaxBody) /\ ~(line.length <= 0)
      <4>1. ParseHeaders(p) = GoOn([q EXCEPT !.st = "fixed", !.need = line.length])
        BY <2>2, <2>5, <3>5
      <4> QED BY <2>1, <2>3, <4>1
    <3> QED BY <3>1, <3>2, <3>3, <3>4, <3>5
  <2> QED BY <2>4, <2>5
<1>3. CASE p.st = "fixed"
  <2>1. ParseFixedBody(p) = More(p)
    BY <1>3 DEF Step
  <2>2. Len(p.buf) < p.need
    BY <2>1, Statuses DEF ParseFixedBody
  <2>3. p.need <= MaxBody
    BY <1>3, FitsBy
  <2> QED BY <1>1, <2>2, <2>3
<1>4. CASE p.st = "size"
  <2> DEFINE end  == Find(p.buf, CRLF)
             rest == From(p.buf, end + 2)
             n    == p.buf[1].n
  <2>1. ParseChunkSize(p) = More(p)
    BY <1>4 DEF Step
  <2>2. ParseChunkSize(p) =
          IF end = 0 THEN Await(p, 400)
          ELSE IF end # 2 \/ p.buf[1].t # "size" THEN Error(400, rest)
          ELSE IF n = 0 THEN GoOn([p EXCEPT !.st = "trailer", !.buf = rest])
          ELSE IF Len(p.body) + n > MaxBody THEN Error(413, rest)
          ELSE GoOn([p EXCEPT !.st = "data", !.buf = rest, !.need = n])
    BY DEF ParseChunkSize
  <2> HIDE DEF end, rest, n
  <2>3. /\ \A g : GoOn(g) # More(p)
        /\ \A code, buf : Error(code, buf) # More(p)
    BY Statuses
  <2>4. ParseChunkSize(p) = Await(p, 400)
    <3> DEFINE large == Len(p.body) + n > MaxBody
               one == GoOn([p EXCEPT !.st = "trailer", !.buf = rest])
               other == GoOn([p EXCEPT !.st = "data", !.buf = rest, !.need = n])
    <3>1. one # More(p) /\ other # More(p) /\ Error(400, rest) # More(p) /\ Error(413, rest) # More(p)
      <4>1. one # More(p)
        BY Statuses, Zenon
      <4>2. other # More(p)
        BY Statuses, Zenon
      <4>3. Error(400, rest) # More(p) /\ Error(413, rest) # More(p)
        BY <2>3
      <4> QED BY <4>1, <4>2, <4>3
    <3>2. ParseChunkSize(p) =
            IF end = 0 THEN Await(p, 400)
            ELSE IF end # 2 \/ p.buf[1].t # "size" THEN Error(400, rest)
            ELSE IF n = 0 THEN one ELSE IF large THEN Error(413, rest) ELSE other
      BY <2>2
    <3> HIDE DEF large, one, other
    <3> QED BY <2>1, <3>1, <3>2
  <2> QED BY <2>1, <2>4, AwaitBound
<1>5. CASE p.st = "data"
  <2>1. ParseChunkData(p) = More(p)
    BY <1>5 DEF Step
  <2>2. Len(p.buf) < p.need + 2
    BY <2>1, Statuses DEF ParseChunkData
  <2>3. Len(p.body) + p.need <= MaxBody
    BY <1>5, FitsBy
  <2> QED BY <1>1, <2>2, <2>3
<1> QED BY <1>1, <1>2, <1>3, <1>4, <1>5

\* What is kept is bounded while a connection is steady.
LEMMA Bounded ==
  ConnectionInv => BufferBounded
<1> SUFFICES ASSUME ConnectionInv, NEW c \in Open
             PROVE  LET p == conn[c].parser
                    IN  /\ Len(p.body) <= MaxBody
                        /\ (conn[c].state = "reading" /\ p.st # "trailer")
                               => Len(p.buf) <= Max({MaxHeader, MaxBody + 1})
  BY DEF BufferBounded
<1> DEFINE p == conn[c].parser
<1>1. c \in Clients
  BY DEF Open
<1>2. conn[c] \in Connection /\ Steady(conn[c])
  BY <1>1 DEF ConnectionInv, TypeOK
<1>3. p \in Parsers /\ (conn[c].state = "reading" => Step(p) = More(p))
  BY <1>2 DEF Steady, Connection
<1> HIDE DEF p
<1>4. Len(p.body) <= MaxBody
  BY <1>3, FitsBy
<1>5. ASSUME conn[c].state = "reading", p.st # "trailer"
      PROVE  Len(p.buf) <= Max({MaxHeader, MaxBody + 1})
  <2> DEFINE m == MaxBody + 1
  <2>1. Len(p.buf) <= MaxHeader \/ Len(p.buf) <= m
    BY <1>3, <1>5, WaitBound
  <2>2. Len(p.buf) \in Nat /\ MaxHeader \in Int /\ m \in Int
    BY <1>3, ParserTypes, ParserAssumption
  <2> HIDE DEF m
  <2>3. /\ MaxHeader <= Max({MaxHeader, m}) /\ m <= Max({MaxHeader, m})
        /\ Max({MaxHeader, m}) \in {MaxHeader, m}
    BY <2>2, TwoNumbers
  <2>4. Len(p.buf) <= Max({MaxHeader, m})
    BY <2>1, <2>2, <2>3
  <2> QED BY <2>4 DEF m
<1> QED BY <1>4, <1>5 DEF p

\* The body that a parser keeps is within _max_body_size, and the buffer of a
\* connection that reads is bounded by the limits, but for a trailer.
THEOREM BufferBoundedHolds == Spec => []BufferBounded
BY ConnectionInvHolds, Bounded, PTL
=============================================================================
