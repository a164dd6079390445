---------------------- MODULE SynthesisSession_proofs ----------------------
(***************************************************************************)
(* Proofs about SynthesisSession, for every voice's styles, every list of  *)
(* units and every well-formed budget: first about Chunker, what the loops *)
(* of chunk_text, rebalance_tiny_chunks and build_adaptative_chunk give,   *)
(* then that a session speaks it in order and whole, whatever fails.       *)
(***************************************************************************)
EXTENDS SynthesisSession, SequenceTheorems, WellFoundedInduction, TLAPS

-----------------------------------------------------------------------------
(* Induction and recursion over numbers. *)

\* A non-empty set of numbers has a least one.
LEMMA Least ==
  ASSUME NEW T, T \subseteq Nat, T # {}
  PROVE  \E m \in T : \A n \in T : m <= n
<1> DEFINE R == OpToRel(<, Nat)
<1>1. IsWellFoundedOn(R, Nat)
  BY NatLessThanWellFounded
<1>2. \A x, y \in Nat : <<y, x>> \in R <=> y < x
  BY DEF OpToRel
<1> HIDE DEF R
<1>3. PICK x \in T : \A y \in T : ~(<<y, x>> \in R)
  BY <1>1, WFMin
<1>4. ASSUME NEW y \in T PROVE x <= y
  <2>1. x \in Nat /\ y \in Nat
    OBVIOUS
  <2>2. ~(y < x)
    BY <1>2, <1>3, <2>1
  <2> QED BY <2>1, <2>2
<1> QED BY <1>4

\* Induction, over a set instead of a predicate.
LEMMA Inductive ==
  ASSUME NEW N \in Nat, NEW T, 0 \in T, \A n \in 1..N : n - 1 \in T => n \in T
  PROVE  0..N \subseteq T
<1> SUFFICES ASSUME (0..N) \ T # {}
             PROVE  FALSE
  OBVIOUS
<1>1. PICK m \in (0..N) \ T : \A n \in (0..N) \ T : m <= n
  <2>1. (0..N) \ T \subseteq Nat
    OBVIOUS
  <2> QED BY <2>1, Least
<1>2. m # 0 /\ m \in 1..N /\ m - 1 \in 0..N /\ ~(m <= m - 1)
  BY <1>1
<1>3. m - 1 \in T
  BY <1>1, <1>2
<1> QED BY <1>1, <1>2, <1>3

\* What is defined by recursion up to N, each value from the one before it.
Steps(N, S) == [(1..N) \X S -> S]

Recursive(f, N, first, step) ==
    f[0] = first /\ \A n \in 1..N : f[n] = step[<<n, f[n - 1]>>]

\* It exists.
LEMMA Recursion ==
  ASSUME NEW N \in Nat, NEW S, NEW a \in S, NEW step \in Steps(N, S)
  PROVE  \E f \in [0..N -> S] : Recursive(f, N, a, step)
<1> USE DEF Steps
<1> DEFINE Upto(m, f) == f \in [0..m -> S] /\ f[0] = a /\ \A n \in 1..m : f[n] = step[<<n, f[n - 1]>>]
           T == {m \in 0..N : \E f : Upto(m, f)}
<1>1. 0 \in T
  <2> DEFINE f == [n \in 0..0 |-> a]
  <2>1. Upto(0, f)
    OBVIOUS
  <2>2. \E h : Upto(0, h)
    BY <2>1
  <2> HIDE DEF Upto
  <2> QED BY <2>2
<1>2. ASSUME NEW m \in 1..N, m - 1 \in T
      PROVE  m \in T
  <2>1. PICK f : Upto(m - 1, f)
    BY <1>2
  <2> DEFINE g == [n \in 0..m |-> IF n = m THEN step[<<m, f[m - 1]>>] ELSE f[n]]
  <2>2. step[<<m, f[m - 1]>>] \in S
    BY <2>1
  <2>3. \A n \in 0..m : n # m => n \in 0..m - 1
    OBVIOUS
  <2>4. g \in [0..m -> S] /\ g[0] = a
    BY <2>1, <2>2, <2>3
  <2>5. ASSUME NEW n \in 1..m
        PROVE  g[n] = step[<<n, g[n - 1]>>]
    <3>1. n - 1 \in 0..m /\ n - 1 # m /\ n \in 0..m
      OBVIOUS
    <3>2. g[n - 1] = f[n - 1]
      BY <3>1
    <3>3. n # m => n \in 1..m - 1 /\ g[n] = f[n]
      BY <3>1
    <3> QED BY <2>1, <3>1, <3>2, <3>3
  <2>6. Upto(m, g)
    BY <2>4, <2>5
  <2>7. \E h : Upto(m, h)
    BY <2>6
  <2> HIDE DEF Upto
  <2> QED BY <2>7
<1> HIDE DEF T
<1>3. 0..N \subseteq T
  BY <1>1, <1>2, Inductive
<1>4. N \in T
  BY <1>3
<1> QED BY <1>4 DEF T, Recursive

-----------------------------------------------------------------------------
(* The sizes of runs. *)

\* The larger and the smaller of two numbers.
LEMMA TwoNumbers ==
  ASSUME NEW m \in Int, NEW n \in Int
  PROVE  /\ Max({m, n}) \in {m, n} /\ m <= Max({m, n}) /\ n <= Max({m, n})
         /\ Min({m, n}) \in {m, n} /\ Min({m, n}) <= m /\ Min({m, n}) <= n
<1>1. \E x \in {m, n} : \A y \in {m, n} : x >= y
  OBVIOUS
<1>2. Max({m, n}) \in {m, n} /\ \A y \in {m, n} : Max({m, n}) >= y
  BY <1>1 DEF Max
<1>3. \E x \in {m, n} : \A y \in {m, n} : x <= y
  OBVIOUS
<1>4. Min({m, n}) \in {m, n} /\ \A y \in {m, n} : Min({m, n}) <= y
  BY <1>3 DEF Min
<1> QED BY <1>2, <1>4

\* A unit has tokens.
LEMMA UnitType ==
  ASSUME NEW u \in Seq(Units), NEW i \in 1..Len(u)
  PROVE  u[i].tokens \in Nat \ {0}
<1>1. u[i] \in Units
  OBVIOUS
<1> QED BY <1>1 DEF Units

\* A text's prefix sums are defined, and each adds its unit to the one before.
LEMMA TokensSum ==
  ASSUME NEW u \in Seq(Units)
  PROVE  /\ Tokens(u) \in [0..Len(u) -> Nat]
         /\ Tokens(u)[0] = 0
         /\ \A i \in 1..Len(u) : Tokens(u)[i] = Tokens(u)[i - 1] + u[i].tokens
<1> DEFINE N == Len(u)
           step == [x \in (1..N) \X Nat |-> x[2] + u[x[1]].tokens]
           IsSum(f) == f = [n \in 0..N |-> IF n = 0 THEN 0 ELSE f[n - 1] + u[n].tokens]
<1>1. N \in Nat /\ \A i \in 1..N : u[i].tokens \in Nat
  BY UnitType
<1>2. step \in Steps(N, Nat)
  <2>1. ASSUME NEW x \in (1..N) \X Nat
        PROVE  x[2] + u[x[1]].tokens \in Nat
    <3>1. x[2] \in Nat /\ u[x[1]].tokens \in Nat
      BY <1>1
    <3> QED BY <3>1
  <2> QED BY <2>1 DEF Steps
<1>3. PICK f \in [0..N -> Nat] : Recursive(f, N, 0, step)
  <2>1. 0 \in Nat
    OBVIOUS
  <2>2. \E f \in [0..N -> Nat] : Recursive(f, N, 0, step)
    <3> HIDE DEF step, N
    <3> QED BY <1>1, <1>2, <2>1, Recursion
  <2> QED BY <2>2
<1>4. ASSUME NEW n \in 0..N
      PROVE  f[n] = IF n = 0 THEN 0 ELSE f[n - 1] + u[n].tokens
  <2>1. n # 0 => n \in 1..N /\ n - 1 \in 0..N
    BY <1>1
  <2>2. n # 0 => <<n, f[n - 1]>> \in (1..N) \X Nat
    BY <2>1
  <2>3. n # 0 => f[n] = step[<<n, f[n - 1]>>]
    BY <1>3, <2>1 DEF Recursive
  <2>4. n # 0 => f[n] = f[n - 1] + u[n].tokens
    BY <2>2, <2>3
  <2> QED BY <1>3, <2>4 DEF Recursive
<1>5. IsSum(f)
  BY <1>4
<1> DEFINE F == CHOOSE h : IsSum(h)
<1>6. Tokens(u) = F
  BY DEF Tokens
<1>7. IsSum(F)
  <2>1. \E h : IsSum(h)
    <3> HIDE DEF IsSum
    <3> QED BY <1>5
  <2> HIDE DEF IsSum
  <2> QED BY <2>1
<1> HIDE DEF F
<1>8. F[0] = 0 /\ \A n \in 1..N : F[n] = F[n - 1] + u[n].tokens
  <2>1. 0 \in 0..N /\ \A n \in 1..N : n \in 0..N /\ n # 0
    BY <1>1
  <2> QED BY <1>7, <2>1
<1> DEFINE T == {n \in 0..N : F[n] \in Nat}
<1>9. 0 \in T
  BY <1>1, <1>8
<1>10. ASSUME NEW n \in 1..N, n - 1 \in T
       PROVE  n \in T
  <2>1. n \in 0..N /\ u[n].tokens \in Nat
    BY <1>1
  <2> QED BY <1>8, <1>10, <2>1
<1>11. 0..N \subseteq T
  <2> HIDE DEF T, N
  <2> QED BY <1>1, <1>9, <1>10, Inductive
<1>12. F \in [0..N -> Nat]
  <2>1. F = [n \in 0..N |-> F[n]]
    BY <1>7
  <2>2. \A n \in 0..N : F[n] \in Nat
    BY <1>11
  <2> QED BY <2>1, <2>2
<1> QED BY <1>6, <1>8, <1>12

\* The sums grow.
LEMMA TokensGrow ==
  ASSUME NEW u \in Seq(Units), NEW i \in 0..Len(u), NEW j \in i..Len(u)
  PROVE  Tokens(u)[i] <= Tokens(u)[j]
<1> DEFINE N == Len(u)
           S == Tokens(u)
           T == {n \in 0..N : n >= i => S[i] <= S[n]}
<1>1. N \in Nat /\ S \in [0..N -> Nat] /\ \A n \in 1..N : S[n] = S[n - 1] + u[n].tokens /\ u[n].tokens \in Nat
  BY TokensSum, UnitType
<1> HIDE DEF S
<1>2. 0 \in T
  BY <1>1
<1>3. ASSUME NEW n \in 1..N, n - 1 \in T
      PROVE  n \in T
  <2>1. n \in 0..N /\ n - 1 \in 0..N /\ i \in 0..N /\ n \in Nat /\ i \in Nat
    BY <1>1
  <2>2. S[n] = S[n - 1] + u[n].tokens /\ u[n].tokens \in Nat
    BY <1>1
  <2>3. S[n] \in Nat /\ S[n - 1] \in Nat /\ S[i] \in Nat
    BY <1>1, <2>1
  <2>4. n - 1 >= i => S[i] <= S[n - 1]
    BY <1>3
  <2>5. n >= i => n = i \/ n - 1 >= i
    BY <2>1
  <2>6. n >= i => S[i] <= S[n]
    BY <2>2, <2>3, <2>4, <2>5
  <2> QED BY <2>1, <2>6
<1>4. 0..N \subseteq T
  <2> HIDE DEF T, N
  <2> QED BY <1>1, <1>2, <1>3, Inductive
<1>5. j \in 0..N /\ j >= i
  BY <1>1
<1> QED BY <1>4, <1>5 DEF S

\* A run of units of a text of n units.
IsRun(c, n) == c.first \in 1..n /\ c.last \in 1..n /\ c.first <= c.last

Runs(n) == {c \in [first : 1..n, last : 1..n] : c.first <= c.last}

\* The size of a run is a number, at least that of its first unit; the sizes of
\* adjacent runs add up.
LEMMA SizeType ==
  ASSUME NEW u \in Seq(Units), NEW c, IsRun(c, Len(u))
  PROVE  /\ Size(u, c) \in Nat
         /\ u[c.first].tokens \in Nat \ {0} /\ u[c.first].tokens <= Size(u, c)
         /\ c.first = c.last => Size(u, c) = u[c.first].tokens
<1> DEFINE S == Tokens(u)
           f == c.first
           l == c.last
<1>1. Len(u) \in Nat /\ f \in 1..Len(u) /\ l \in 1..Len(u) /\ f <= l /\ f - 1 \in 0..Len(u)
      /\ f \in 0..Len(u) /\ l \in f..Len(u) /\ l \in 0..Len(u)
  BY DEF IsRun
<1>2. S[f] <= S[l]
  BY <1>1, TokensGrow
<1>3. S[f] = S[f - 1] + u[f].tokens
  BY <1>1, TokensSum
<1>4. u[f].tokens \in Nat \ {0}
  BY <1>1, UnitType
<1>5. S[f] \in Nat /\ S[l] \in Nat /\ S[f - 1] \in Nat
  BY <1>1, TokensSum
<1>6. Size(u, c) = S[l] - S[f - 1]
  BY DEF Size
<1> HIDE DEF S, f, l
<1>7. /\ Size(u, c) \in Nat
      /\ u[f].tokens \in Nat \ {0} /\ u[f].tokens <= Size(u, c)
      /\ f = l => Size(u, c) = u[f].tokens
  BY <1>2, <1>3, <1>4, <1>5, <1>6
<1> QED BY <1>7 DEF f, l

\* Two adjacent runs are one, of the size of both.
LEMMA SizeJoin ==
  ASSUME NEW u \in Seq(Units), NEW c, IsRun(c, Len(u)), NEW d, IsRun(d, Len(u)),
         d.first = c.last + 1
  PROVE  /\ Join(c, d) \in Runs(Len(u)) /\ IsRun(Join(c, d), Len(u))
         /\ Join(c, d).first = c.first /\ Join(c, d).last = d.last
         /\ Size(u, Join(c, d)) = Size(u, c) + Size(u, d)
<1> DEFINE S == Tokens(u)
<1>1. Join(c, d) = [first |-> c.first, last |-> d.last]
  BY DEF Join, Run
<1>2. Len(u) \in Nat /\ c.first \in 1..Len(u) /\ d.last \in 1..Len(u) /\ c.first <= d.last
      /\ c.last \in 0..Len(u) /\ d.last \in 0..Len(u) /\ c.first - 1 \in 0..Len(u)
      /\ d.first - 1 = c.last
  BY DEF IsRun
<1>3. S[c.last] \in Nat /\ S[d.last] \in Nat /\ S[c.first - 1] \in Nat
  BY <1>2, TokensSum
<1>4. Size(u, Join(c, d)) = S[d.last] - S[c.first - 1]
  BY <1>1 DEF Size
<1>5. Size(u, c) = S[c.last] - S[c.first - 1]
  BY DEF Size
<1>6. Size(u, d) = S[d.last] - S[c.last]
  BY <1>2 DEF Size
<1>7. Size(u, Join(c, d)) = Size(u, c) + Size(u, d)
  <2> HIDE DEF S
  <2> QED BY <1>3, <1>4, <1>5, <1>6
<1>8. Join(c, d) \in Runs(Len(u)) /\ IsRun(Join(c, d), Len(u))
  BY <1>1, <1>2 DEF Runs, IsRun
<1> QED BY <1>1, <1>7, <1>8

\* A run and the unit behind it.
LEMMA SizeNext ==
  ASSUME NEW u \in Seq(Units), NEW c, IsRun(c, Len(u)), NEW i, i = c.last + 1, i \in 1..Len(u)
  PROVE  /\ Run(c.first, i) \in Runs(Len(u)) /\ IsRun(Run(c.first, i), Len(u))
         /\ Size(u, Run(c.first, i)) = Size(u, c) + u[i].tokens
<1> DEFINE d == Run(i, i)
<1>1. d.first = i /\ d.last = i /\ IsRun(d, Len(u)) /\ Join(c, d) = Run(c.first, i)
  BY DEF Run, Join, IsRun
<1>2. Size(u, d) = u[i].tokens
  BY <1>1, SizeType
<1> QED BY <1>1, <1>2, SizeJoin

-----------------------------------------------------------------------------
(* chunk_text. *)

\* A chunk that may be inferred: within the capacity or a single unit, and of
\* one style.
Sound(u, b, c) ==
    /\ IsRun(c, Len(u))
    /\ Size(u, c) <= b.hard_max \/ c.first = c.last
    /\ \A i \in c.first..c.last : u[i].style = Style(u, c)

\* How far the chunks reach.
Covered(s) == IF s = <<>> THEN 0 ELSE s[Len(s)].last

\* Chunks of the first units, none left out.
Plan(u, b, s) ==
    /\ s \in Seq(Runs(Len(u)))
    /\ Consecutive(s, 1)
    /\ \A k \in DOMAIN s : Sound(u, b, s[k]) /\ k <= s[k].last

Tiny(u, b, c) == Size(u, c) < b.target_min

\* The unit behind the chunk has another style or would exceed the target.
Barrier(u, b, c) ==
    /\ c.last + 1 \in 1..Len(u)
    /\ \/ u[c.last + 1].style # Style(u, c)
       \/ Size(u, c) + u[c.last + 1].tokens > b.target_max

\* A tiny chunk among the first m was flushed because it had to be.
Separated(u, b, s, m) ==
    \A k \in 1..m : ~Exempt(b, k) /\ Tiny(u, b, s[k]) => Barrier(u, b, s[k])

\* The loop of chunk_text behind unit i.
Assembled(u, b, s, i) ==
    /\ Plan(u, b, s) /\ Separated(u, b, s, Len(s))
    /\ Covered(s) <= i
    /\ Covered(s) < i => Sound(u, b, Current(s, i))

\* The chunk under construction begins behind what is flushed.
LEMMA CurrentIs ==
  ASSUME NEW s, NEW i
  PROVE  Current(s, i) = Run(Covered(s) + 1, i)
BY DEF Current, Covered, Last

\* The fields of a run.
LEMMA RunIs ==
  ASSUME NEW f, NEW l
  PROVE  Run(f, l).first = f /\ Run(f, l).last = l
BY DEF Run

\* What is known of a plan without looking at its chunks.
LEMMA PlanType ==
  ASSUME NEW u \in Seq(Units), NEW b, NEW s, Plan(u, b, s)
  PROVE  /\ Covered(s) \in 0..Len(u) /\ Len(s) \in Nat /\ Len(u) \in Nat /\ DOMAIN s = 1..Len(s)
         /\ s = <<>> <=> Len(s) = 0
         /\ Len(s) <= Covered(s)
         /\ \A k \in 1..Len(s) : s[k] \in Runs(Len(u)) /\ IsRun(s[k], Len(u)) /\ Sound(u, b, s[k])
<1>1. s \in Seq(Runs(Len(u))) /\ Len(u) \in Nat
  BY DEF Plan
<1>2. Len(s) \in Nat /\ DOMAIN s = 1..Len(s) /\ (s = <<>> <=> Len(s) = 0)
      /\ \A k \in 1..Len(s) : s[k] \in Runs(Len(u))
  BY <1>1
<1>3. \A k \in 1..Len(s) : IsRun(s[k], Len(u)) /\ Sound(u, b, s[k])
  BY <1>2 DEF Plan, Sound
<1>4. Covered(s) \in 0..Len(u)
  <2>1. CASE s = <<>>
    BY <2>1, <1>1 DEF Covered
  <2>2. CASE s # <<>>
    <3>1. Len(s) \in 1..Len(s)
      BY <1>2, <2>2
    <3>2. s[Len(s)].last \in 1..Len(u)
      BY <3>1, <1>3 DEF IsRun
    <3> QED BY <2>2, <3>2 DEF Covered
  <2> QED BY <2>1, <2>2
<1>5. Len(s) <= Covered(s)
  <2>1. CASE s = <<>>
    BY <1>2, <2>1 DEF Covered
  <2>2. CASE s # <<>>
    <3>1. Len(s) \in DOMAIN s
      BY <1>2, <2>2
    <3> QED BY <2>2, <3>1 DEF Covered, Plan
  <2> QED BY <2>1, <2>2
<1> QED BY <1>1, <1>2, <1>3, <1>4, <1>5

\* A plan that a chunk is appended to.
LEMMA PlanGrows ==
  ASSUME NEW u \in Seq(Units), NEW b, NEW s, Plan(u, b, s),
         NEW m \in 1..Len(u), Covered(s) < m, NEW c, c = Run(Covered(s) + 1, m), Sound(u, b, c)
  PROVE  /\ Plan(u, b, Append(s, c)) /\ Covered(Append(s, c)) = m
         /\ Len(Append(s, c)) = Len(s) + 1 /\ Append(s, c)[Len(s) + 1] = c
         /\ \A k \in 1..Len(s) : Append(s, c)[k] = s[k]
<1> DEFINE t == Append(s, c)
           n == Len(s) + 1
<1>1. /\ Covered(s) \in 0..Len(u) /\ Len(s) \in Nat /\ Len(u) \in Nat /\ DOMAIN s = 1..Len(s)
      /\ Len(s) <= Covered(s)
      /\ \A k \in 1..Len(s) : Sound(u, b, s[k]) /\ k <= s[k].last
      /\ s = <<>> <=> Len(s) = 0
      /\ s \in Seq(Runs(Len(u)))
  BY PlanType DEF Plan
<1>2. c \in Runs(Len(u)) /\ c.first = Covered(s) + 1 /\ c.last = m
  BY <1>1 DEF Runs, Run
<1>3. t \in Seq(Runs(Len(u))) /\ Len(t) = n /\ t[n] = c /\ (\A k \in 1..Len(s) : t[k] = s[k])
      /\ DOMAIN t = 1..n /\ n \in Nat /\ t # <<>> /\ n \in 1..n
  <2>1. s \in Seq(Runs(Len(u))) /\ Len(s) \in Nat
    BY <1>1
  <2>2. /\ t \in Seq(Runs(Len(u))) /\ Len(t) = n /\ t # <<>>
        /\ t[n] = c /\ \A k \in 1..Len(s) : t[k] = s[k]
    BY <1>2, <2>1, AppendProperties
  <2>3. n \in Nat /\ n \in 1..n
    BY <2>1
  <2> HIDE DEF t, n
  <2>4. DOMAIN t = 1..n
    BY <2>2
  <2> QED BY <2>2, <2>3, <2>4
<1>4. Covered(t) = m
  BY <1>2, <1>3 DEF Covered
<1>5. n <= c.last
  BY <1>1, <1>2
<1>6. Consecutive(t, 1)
  <2>1. ASSUME NEW i \in 1..n
        PROVE  t[i].first = IF i = 1 THEN 1 ELSE t[i - 1].last + 1
    <3>1. CASE i = n
      <4>1. CASE s = <<>>
        BY <1>1, <1>2, <1>3, <3>1, <4>1 DEF Covered
      <4>2. CASE s # <<>>
        <5>1. i # 1 /\ i - 1 = Len(s) /\ i - 1 \in 1..Len(s)
          BY <1>1, <3>1, <4>2
        <5>2. t[i - 1].last = Covered(s)
          BY <1>3, <4>2, <5>1 DEF Covered
        <5> QED BY <1>2, <1>3, <3>1, <5>1, <5>2
      <4> QED BY <4>1, <4>2
    <3>2. CASE i # n
      <4>1. i \in 1..Len(s) /\ (i # 1 => i - 1 \in 1..Len(s))
        BY <1>1, <3>2
      <4>2. s[i].first = IF i = 1 THEN 1 ELSE s[i - 1].last + 1
        BY <1>1, <4>1 DEF Plan, Consecutive
      <4> QED BY <1>3, <4>1, <4>2
    <3> QED BY <3>1, <3>2
  <2> HIDE DEF t, n
  <2> QED BY <1>3, <2>1 DEF Consecutive
<1>7. \A k \in DOMAIN t : Sound(u, b, t[k]) /\ k <= t[k].last
  <2>1. \A k \in 1..n : k = n \/ k \in 1..Len(s)
    BY <1>1
  <2> HIDE DEF t, n
  <2> QED BY <1>1, <1>3, <1>5, <2>1
<1>8. Plan(u, b, t)
  <2> HIDE DEF t, n
  <2> QED BY <1>3, <1>6, <1>7 DEF Plan
<1> HIDE DEF t, n
<1>9. Len(t) = Len(s) + 1 /\ t[Len(s) + 1] = c
  BY <1>3 DEF n
<1> QED BY <1>3, <1>4, <1>8, <1>9 DEF t

\* A chunk that is tiny and not exempt is flushed at a barrier.
LEMMA SeparatedGrows ==
  ASSUME NEW u \in Seq(Units), NEW b, NEW s, NEW t, NEW c, Len(s) \in Nat,
         Separated(u, b, s, Len(s)), Len(t) = Len(s) + 1, t[Len(s) + 1] = c,
         \A k \in 1..Len(s) : t[k] = s[k],
         ~Exempt(b, Len(s) + 1) /\ Tiny(u, b, c) => Barrier(u, b, c)
  PROVE  Separated(u, b, t, Len(t))
<1>1. ASSUME NEW k \in 1..Len(t), ~Exempt(b, k), Tiny(u, b, t[k])
      PROVE  Barrier(u, b, t[k])
  <2>1. k = Len(s) + 1 \/ k \in 1..Len(s)
    OBVIOUS
  <2>2. CASE k = Len(s) + 1
    BY <1>1, <2>2
  <2>3. CASE k \in 1..Len(s)
    BY <1>1, <2>3 DEF Separated
  <2> QED BY <2>1, <2>2, <2>3
<1> QED BY <1>1 DEF Separated

\* The chunk that may be short is the one exempt from rebalancing.
LEMMA ExemptIsShort ==
  ASSUME NEW s, NEW b, Len(s) \in Nat, s = <<>> <=> Len(s) = 0
  PROVE  Short(s, b) <=> Exempt(b, Len(s) + 1)
BY DEF Short, Exempt

\* What is flushed before a unit joins it is not tiny, or ends at a barrier.
LEMMA FlushedBefore ==
  ASSUME NEW u \in Seq(Units), NEW b, WellFormed(b), NEW s,
         NEW c, NEW i, IsRun(c, Len(u)), i = c.last + 1, i \in 1..Len(u),
         FlushBefore(u, b, s, c, i)
  PROVE  Tiny(u, b, c) => Barrier(u, b, c)
<1>1. Size(u, c) \in Nat /\ u[i].tokens \in Nat
  BY SizeType, UnitType
<1>2. b.target_max \in Nat /\ b.hard_max \in Nat /\ b.target_min \in Nat /\ b.target_max <= b.hard_max
  BY DEF WellFormed
<1>3. \/ Style(u, c) # u[i].style
      \/ Size(u, c) + u[i].tokens > b.hard_max
      \/ Size(u, c) >= b.target_min
  BY DEF FlushBefore
<1> QED BY <1>1, <1>2, <1>3 DEF Tiny, Barrier

\* What is flushed after its last unit is not tiny, unless it is exempt.
LEMMA FlushedAfter ==
  ASSUME NEW u \in Seq(Units), NEW b, WellFormed(b), NEW s,
         NEW c, IsRun(c, Len(u)), FlushAfter(u, b, s, c), ~Short(s, b)
  PROVE  ~Tiny(u, b, c)
<1>1. Size(u, c) \in Nat
  BY SizeType
<1>2. /\ b.target_max \in Nat /\ b.hard_max \in Nat /\ b.target_min \in Nat /\ b.soft_max \in Nat
      /\ b.target_min <= b.target_max /\ b.target_max <= b.soft_max /\ b.soft_max <= b.hard_max
  BY DEF WellFormed
<1>3. Size(u, c) >= b.target_max \/ Size(u, c) >= b.soft_max \/ Size(u, c) >= b.hard_max
  BY DEF FlushAfter
<1> QED BY <1>1, <1>2, <1>3 DEF Tiny

\* A single unit is sound, and so is a chunk that a unit joined.
LEMMA SoundUnit ==
  ASSUME NEW u \in Seq(Units), NEW b, NEW i \in 1..Len(u)
  PROVE  Sound(u, b, Run(i, i))
BY RunIs DEF Sound, IsRun, Style

\* A unit of the style that fits the capacity joins a chunk.
LEMMA SoundNext ==
  ASSUME NEW u \in Seq(Units), NEW b, NEW c, Sound(u, b, c), NEW i, i = c.last + 1, i \in 1..Len(u),
         Style(u, c) = u[i].style, Size(u, c) + u[i].tokens <= b.hard_max
  PROVE  Sound(u, b, Run(c.first, i))
<1> DEFINE d == Run(c.first, i)
<1>1. IsRun(c, Len(u)) /\ \A j \in c.first..c.last : u[j].style = Style(u, c)
  BY DEF Sound
<1>2. IsRun(d, Len(u)) /\ Size(u, d) = Size(u, c) + u[i].tokens
  BY <1>1, SizeNext
<1>3. d.first = c.first /\ d.last = i /\ Style(u, d) = Style(u, c)
  BY RunIs DEF Style
<1>4. \A j \in c.first..i : j \in c.first..c.last \/ j = i
  BY <1>1 DEF IsRun
<1>5. \A j \in d.first..d.last : u[j].style = Style(u, d)
  BY <1>1, <1>3, <1>4
<1> HIDE DEF d
<1>6. Sound(u, b, d)
  BY <1>2, <1>5 DEF Sound
<1> QED BY <1>6 DEF d

\* The loop's body keeps what the loop has made sure of.
LEMMA FlushKeeps ==
  ASSUME NEW u \in Seq(Units), NEW b, WellFormed(b), NEW i \in 1..Len(u),
         NEW s, Assembled(u, b, s, i - 1)
  PROVE  Assembled(u, b, Flush(u, b, s, i), i)
<1> DEFINE cur   == Current(s, i - 1)
           first == cur.first < i
           kept  == IF cur.first < i /\ FlushBefore(u, b, s, cur, i) THEN Append(s, cur) ELSE s
           grown == Current(kept, i)
<1>0. Len(u) \in Nat /\ i \in Nat /\ i - 1 \in 0..Len(u)
  OBVIOUS
<1>1. /\ Plan(u, b, s) /\ Separated(u, b, s, Len(s)) /\ Covered(s) <= i - 1
      /\ Covered(s) < i - 1 => Sound(u, b, cur)
      /\ Covered(s) \in 0..Len(u) /\ Len(s) \in Nat /\ (s = <<>> <=> Len(s) = 0)
  BY PlanType DEF Assembled
<1>2. cur = Run(Covered(s) + 1, i - 1) /\ cur.first = Covered(s) + 1 /\ cur.last = i - 1
  BY CurrentIs, RunIs
<1>3. cur.first < i <=> Covered(s) < i - 1
  BY <1>0, <1>1, <1>2
<1>4. /\ Plan(u, b, kept) /\ Separated(u, b, kept, Len(kept)) /\ Covered(kept) <= i - 1
      /\ Sound(u, b, grown)
  <2>1. CASE cur.first < i /\ FlushBefore(u, b, s, cur, i)
    <3>1. kept = Append(s, cur)
      BY <2>1
    <3>2. Sound(u, b, cur) /\ IsRun(cur, Len(u)) /\ i - 1 \in 1..Len(u) /\ Covered(s) < i - 1 /\ i = cur.last + 1
      BY <1>0, <1>1, <1>2, <1>3, <2>1 DEF Sound
    <3>3. Tiny(u, b, cur) => Barrier(u, b, cur)
      <4> HIDE DEF cur
      <4> QED BY <2>1, <3>2, FlushedBefore
    <3>4. /\ Plan(u, b, kept) /\ Covered(kept) = i - 1
          /\ Len(kept) = Len(s) + 1 /\ kept[Len(s) + 1] = cur /\ \A k \in 1..Len(s) : kept[k] = s[k]
      <4> HIDE DEF cur
      <4> QED BY <1>1, <1>2, <3>1, <3>2, PlanGrows
    <3>5. Separated(u, b, kept, Len(kept))
      <4> HIDE DEF cur, kept
      <4> QED BY <1>1, <3>3, <3>4, SeparatedGrows
    <3>6. grown = Run(i, i)
      <4>1. grown = Run(Covered(kept) + 1, i)
        BY CurrentIs
      <4> QED BY <1>0, <3>4, <4>1
    <3>7. Sound(u, b, grown)
      BY <3>6, SoundUnit
    <3> HIDE DEF kept, grown
    <3> QED BY <1>0, <3>4, <3>5, <3>7
  <2>2. CASE cur.first < i /\ ~FlushBefore(u, b, s, cur, i)
    <3>1. kept = s
      BY <2>2
    <3>2. Sound(u, b, cur) /\ IsRun(cur, Len(u)) /\ i = cur.last + 1
      BY <1>0, <1>1, <1>2, <1>3, <2>2 DEF Sound
    <3>3. Style(u, cur) = u[i].style /\ ~(Size(u, cur) + u[i].tokens > b.hard_max)
      <4> HIDE DEF cur
      <4> QED BY <2>2 DEF FlushBefore
    <3>4. Size(u, cur) \in Nat /\ u[i].tokens \in Nat /\ b.hard_max \in Nat
      BY <3>2, SizeType, UnitType DEF WellFormed
    <3>5. Size(u, cur) + u[i].tokens <= b.hard_max
      <4> HIDE DEF cur
      <4> QED BY <3>3, <3>4
    <3>6. grown = Run(cur.first, i)
      BY <1>2, <3>1, CurrentIs
    <3>7. Sound(u, b, Run(cur.first, i))
      <4> HIDE DEF cur
      <4> QED BY <3>2, <3>3, <3>5, SoundNext
    <3> HIDE DEF kept, grown
    <3> QED BY <1>1, <3>1, <3>6, <3>7
  <2>3. CASE ~(cur.first < i)
    <3>1. kept = s /\ Covered(s) = i - 1
      BY <1>0, <1>1, <1>3, <2>3
    <3>2. grown = Run(i, i)
      <4>1. grown = Run(Covered(kept) + 1, i)
        BY CurrentIs
      <4> QED BY <1>0, <3>1, <4>1
    <3>3. Sound(u, b, grown)
      BY <3>2, SoundUnit
    <3> HIDE DEF kept, grown
    <3> QED BY <1>1, <3>1, <3>3
  <2> QED BY <2>1, <2>2, <2>3
<1>5. Flush(u, b, s, i) = IF FlushAfter(u, b, kept, grown) THEN Append(kept, grown) ELSE kept
  BY DEF Flush
<1> HIDE DEF kept, grown, cur
<1>6. /\ Covered(kept) \in 0..Len(u) /\ Len(kept) \in Nat /\ (kept = <<>> <=> Len(kept) = 0)
      /\ Covered(kept) < i /\ IsRun(grown, Len(u))
  BY <1>0, <1>4, PlanType DEF Sound
<1>7. grown = Run(Covered(kept) + 1, i)
  BY CurrentIs DEF grown
<1>8. CASE FlushAfter(u, b, kept, grown)
  <2> DEFINE t == Append(kept, grown)
  <2>1. /\ Plan(u, b, t) /\ Covered(t) = i
        /\ Len(t) = Len(kept) + 1 /\ t[Len(kept) + 1] = grown /\ \A k \in 1..Len(kept) : t[k] = kept[k]
    BY <1>4, <1>6, <1>7, PlanGrows
  <2>2. ~Exempt(b, Len(kept) + 1) /\ Tiny(u, b, grown) => Barrier(u, b, grown)
    BY <1>6, <1>8, FlushedAfter, ExemptIsShort
  <2> HIDE DEF t
  <2>3. Separated(u, b, t, Len(t))
    BY <1>4, <1>6, <2>1, <2>2, SeparatedGrows
  <2>4. Assembled(u, b, t, i)
    BY <1>0, <2>1, <2>3 DEF Assembled
  <2> QED BY <1>5, <1>8, <2>4 DEF t
<1>9. CASE ~FlushAfter(u, b, kept, grown)
  <2>1. Covered(kept) <= i
    BY <1>0, <1>6
  <2>2. Assembled(u, b, kept, i)
    BY <1>4, <2>1 DEF Assembled, grown
  <2> QED BY <1>5, <1>9, <2>2
<1> QED BY <1>8, <1>9

\* The loop's body is defined on any chunks.
Pair  == [first : Int, last : Int]
Loose == Seq(Pair)

\* The chunk under construction is one.
LEMMA CurrentType ==
  ASSUME NEW s \in Loose, NEW i \in Int
  PROVE  Current(s, i) \in Pair /\ Append(s, Current(s, i)) \in Loose
<1>1. Covered(s) \in Int
  <2>1. CASE s = <<>>
    BY <2>1 DEF Covered
  <2>2. CASE s # <<>>
    <3>1. Len(s) \in 1..Len(s)
      BY <2>2 DEF Loose
    <3>2. s[Len(s)] \in Pair
      BY <3>1 DEF Loose
    <3> QED BY <2>2, <3>2 DEF Covered, Pair
  <2> QED BY <2>1, <2>2
<1>2. Current(s, i) = [first |-> Covered(s) + 1, last |-> i]
  BY CurrentIs DEF Run
<1>3. Current(s, i) \in Pair
  BY <1>1, <1>2 DEF Pair
<1> QED BY <1>3 DEF Loose

\* Flushing gives chunks again.
LEMMA FlushType ==
  ASSUME NEW u, NEW b, NEW s \in Loose, NEW i \in Int
  PROVE  Flush(u, b, s, i) \in Loose
<1> DEFINE cur  == Current(s, i - 1)
           kept == IF cur.first < i /\ FlushBefore(u, b, s, cur, i) THEN Append(s, cur) ELSE s
<1>1. i - 1 \in Int
  OBVIOUS
<1>2. kept \in Loose
  BY <1>1, CurrentType
<1>3. Flush(u, b, s, i) = IF FlushAfter(u, b, kept, Current(kept, i)) THEN Append(kept, Current(kept, i)) ELSE kept
  BY DEF Flush
<1> HIDE DEF kept
<1> QED BY <1>2, <1>3, CurrentType

\* The chunks flushed so far are defined behind every unit.
LEMMA FlushedSteps ==
  ASSUME NEW u \in Seq(Units), NEW b
  PROVE  /\ Flushed(u, b)[0] = <<>>
         /\ \A n \in 1..Len(u) : Flushed(u, b)[n] = Flush(u, b, Flushed(u, b)[n - 1], n)
<1> DEFINE N == Len(u)
           step == [x \in (1..N) \X Loose |-> Flush(u, b, x[2], x[1])]
           IsLoop(f) == f = [n \in 0..N |-> IF n = 0 THEN <<>> ELSE Flush(u, b, f[n - 1], n)]
<1>1. N \in Nat
  OBVIOUS
<1>2. step \in Steps(N, Loose)
  <2>1. ASSUME NEW x \in (1..N) \X Loose
        PROVE  Flush(u, b, x[2], x[1]) \in Loose
    <3>1. x[2] \in Loose /\ x[1] \in Int
      OBVIOUS
    <3> QED BY <3>1, FlushType
  <2> QED BY <2>1 DEF Steps
<1>3. PICK f \in [0..N -> Loose] : Recursive(f, N, <<>>, step)
  <2>1. <<>> \in Loose
    BY DEF Loose
  <2>2. \E f \in [0..N -> Loose] : Recursive(f, N, <<>>, step)
    <3> HIDE DEF step, N
    <3> QED BY <1>1, <1>2, <2>1, Recursion
  <2> QED BY <2>2
<1>4. ASSUME NEW n \in 0..N
      PROVE  f[n] = IF n = 0 THEN <<>> ELSE Flush(u, b, f[n - 1], n)
  <2>1. n # 0 => n \in 1..N /\ n - 1 \in 0..N
    BY <1>1
  <2>2. n # 0 => <<n, f[n - 1]>> \in (1..N) \X Loose
    BY <2>1
  <2>3. n # 0 => f[n] = step[<<n, f[n - 1]>>]
    BY <1>3, <2>1 DEF Recursive
  <2>4. n # 0 => f[n] = Flush(u, b, f[n - 1], n)
    BY <2>2, <2>3
  <2>5. f[0] = <<>>
    BY <1>3 DEF Recursive
  <2> QED BY <2>4, <2>5
<1>5. IsLoop(f)
  <2>1. f = [n \in 0..N |-> f[n]]
    OBVIOUS
  <2> HIDE DEF N
  <2> QED BY <1>4, <2>1
<1> DEFINE F == CHOOSE h : IsLoop(h)
<1>6. Flushed(u, b) = F
  BY DEF Flushed
<1>7. IsLoop(F)
  <2>1. \E h : IsLoop(h)
    <3> HIDE DEF IsLoop
    <3> QED BY <1>5
  <2> HIDE DEF IsLoop
  <2> QED BY <2>1
<1> HIDE DEF F
<1>8. 0 \in 0..N /\ \A n \in 1..N : n \in 0..N /\ n # 0
  BY <1>1
<1>9. F[0] = <<>> /\ \A n \in 1..N : F[n] = Flush(u, b, F[n - 1], n)
  BY <1>7, <1>8
<1> QED BY <1>6, <1>9

\* Assemble covers the text with sound chunks, and leaves a tiny one before
\* another only if they cannot be joined.
LEMMA AssembleSound ==
  ASSUME NEW u \in Seq(Units), u # <<>>, NEW b, WellFormed(b)
  PROVE  /\ Plan(u, b, Assemble(u, b)) /\ Covered(Assemble(u, b)) = Len(u)
         /\ Separated(u, b, Assemble(u, b), Len(Assemble(u, b)) - 1)
<1> DEFINE N == Len(u)
           F == Flushed(u, b)
           T == {n \in 0..N : Assembled(u, b, F[n], n)}
<1>0. N \in Nat /\ N \in 1..N
  OBVIOUS
<1>1. Assembled(u, b, <<>>, 0)
  <2>1. Len(<<>>) = 0 /\ Covered(<<>>) = 0 /\ <<>> \in Seq(Runs(Len(u))) /\ DOMAIN <<>> = {}
    BY DEF Covered
  <2>2. Plan(u, b, <<>>)
    BY <2>1 DEF Plan, Consecutive
  <2>3. Separated(u, b, <<>>, Len(<<>>))
    BY <2>1 DEF Separated
  <2> QED BY <2>1, <2>2, <2>3 DEF Assembled
<1>2. 0 \in T
  BY <1>0, <1>1, FlushedSteps
<1>3. ASSUME NEW n \in 1..N, n - 1 \in T
      PROVE  n \in T
  <2>1. F[n] = Flush(u, b, F[n - 1], n)
    BY FlushedSteps
  <2>2. Assembled(u, b, F[n - 1], n - 1)
    BY <1>3
  <2> HIDE DEF F
  <2>3. Assembled(u, b, F[n], n)
    BY <2>1, <2>2, FlushKeeps
  <2>4. n \in 0..N
    BY <1>0
  <2> QED BY <2>3, <2>4
<1>4. 0..N \subseteq T
  <2> HIDE DEF T, N
  <2> QED BY <1>0, <1>2, <1>3, Inductive
<1> DEFINE s == F[N]
           rest == Current(s, N)
<1>5. Assembled(u, b, s, N)
  <2>1. N \in 0..N
    BY <1>0
  <2> QED BY <1>4, <2>1
<1>6. Assemble(u, b) = IF rest.first <= rest.last THEN Append(s, rest) ELSE s
  BY DEF Assemble
<1> HIDE DEF F, s
<1>7. /\ Plan(u, b, s) /\ Separated(u, b, s, Len(s)) /\ Covered(s) <= N
      /\ Covered(s) < N => Sound(u, b, rest)
      /\ Covered(s) \in Nat /\ Len(s) \in Nat
  BY <1>5, PlanType DEF Assembled
<1>8. rest = Run(Covered(s) + 1, N) /\ rest.first = Covered(s) + 1 /\ rest.last = N
  BY CurrentIs, RunIs
<1> HIDE DEF rest
<1>9. CASE Covered(s) < N
  <2>1. Assemble(u, b) = Append(s, rest)
    BY <1>0, <1>6, <1>7, <1>8, <1>9
  <2> DEFINE t == Append(s, rest)
  <2>2. /\ Plan(u, b, t) /\ Covered(t) = N /\ Len(t) = Len(s) + 1
        /\ \A k \in 1..Len(s) : t[k] = s[k]
    BY <1>0, <1>7, <1>8, <1>9, PlanGrows
  <2> HIDE DEF t
  <2>3. Len(t) - 1 = Len(s)
    BY <1>7, <2>2
  <2>4. Separated(u, b, t, Len(t) - 1)
    BY <1>7, <2>2, <2>3 DEF Separated
  <2> QED BY <2>1, <2>2, <2>4 DEF t
<1>10. CASE Covered(s) = N
  <2>1. Assemble(u, b) = s
    BY <1>0, <1>6, <1>7, <1>8, <1>10
  <2>2. \A k \in 1..(Len(s) - 1) : k \in 1..Len(s)
    BY <1>7
  <2>3. Separated(u, b, s, Len(s) - 1)
    BY <1>7, <2>2 DEF Separated
  <2> QED BY <1>7, <1>10, <2>1, <2>3
<1>11. Covered(s) < N \/ Covered(s) = N
  BY <1>0, <1>7
<1> QED BY <1>9, <1>10, <1>11

-----------------------------------------------------------------------------
(* rebalance_tiny_chunks. *)

\* No chunk among the first, nor the one behind it, could still be joined.
Apart(u, b, s) ==
    \A k \in 1..(Len(s) - 1) :
        \/ ~Exempt(b, k) /\ Tiny(u, b, s[k])
        \/ Tiny(u, b, s[k + 1])
        => ~Mergeable(u, b, s[k], s[k + 1])

\* The pass behind chunk i of `a`: nothing is skipped, since no chunk is joined
\* with the one ahead, and the last chunk contains chunk i.
Rebalancing(u, b, a, acc, i) ==
    /\ acc.skip = FALSE
    /\ Plan(u, b, acc.out) /\ Apart(u, b, acc.out)
    /\ Len(acc.out) <= i
    /\ IF i = 0 THEN acc.out = <<>>
       ELSE /\ acc.out # <<>>
            /\ Last(acc.out).last = a[i].last
            /\ Style(u, Last(acc.out)) = Style(u, a[i])
            /\ Size(u, a[i]) <= Size(u, Last(acc.out))

\* A barrier behind c keeps what ends with c from joining what follows.
LEMMA BarrierHolds ==
  ASSUME NEW u \in Seq(Units), NEW b, WellFormed(b), NEW c, IsRun(c, Len(u)), Barrier(u, b, c),
         NEW d, IsRun(d, Len(u)), d.first = c.last + 1,
         NEW l, IsRun(l, Len(u)), Style(u, l) = Style(u, c), Size(u, c) <= Size(u, l)
  PROVE  ~Mergeable(u, b, l, d)
<1>1. /\ Size(u, c) \in Nat /\ Size(u, d) \in Nat /\ Size(u, l) \in Nat
      /\ u[d.first].tokens \in Nat /\ u[d.first].tokens <= Size(u, d)
  BY SizeType
<1>2. b.target_max \in Nat
  BY DEF WellFormed
<1>3. u[d.first].style # Style(u, c) \/ Size(u, c) + u[d.first].tokens > b.target_max
  BY DEF Barrier
<1>4. Style(u, d) # Style(u, l) \/ ~(Size(u, l) + Size(u, d) <= b.target_max)
  BY <1>1, <1>2, <1>3 DEF Style
<1> QED BY <1>4 DEF Mergeable

\* Two chunks that may be one.
LEMMA SoundJoin ==
  ASSUME NEW u \in Seq(Units), NEW b, WellFormed(b), NEW c, Sound(u, b, c), NEW d, Sound(u, b, d),
         d.first = c.last + 1, Mergeable(u, b, c, d)
  PROVE  /\ Sound(u, b, Join(c, d)) /\ Style(u, Join(c, d)) = Style(u, c)
         /\ Size(u, Join(c, d)) = Size(u, c) + Size(u, d)
<1> DEFINE j == Join(c, d)
<1>1. /\ IsRun(c, Len(u)) /\ IsRun(d, Len(u))
      /\ \A i \in c.first..c.last : u[i].style = Style(u, c)
      /\ \A i \in d.first..d.last : u[i].style = Style(u, d)
  BY DEF Sound
<1>2. /\ IsRun(j, Len(u)) /\ j.first = c.first /\ j.last = d.last
      /\ Size(u, j) = Size(u, c) + Size(u, d)
  BY <1>1, SizeJoin
<1>3. Style(u, c) = Style(u, d) /\ Size(u, c) + Size(u, d) <= b.target_max
  BY DEF Mergeable
<1>4. b.target_max \in Nat /\ b.hard_max \in Nat /\ b.target_max <= b.hard_max
      /\ Size(u, c) \in Nat /\ Size(u, d) \in Nat
  BY <1>1, SizeType DEF WellFormed
<1> HIDE DEF j
<1>5. Size(u, j) <= b.hard_max
  BY <1>2, <1>3, <1>4
<1>6. Style(u, j) = Style(u, c)
  BY <1>2 DEF Style
<1>7. \A i \in j.first..j.last : u[i].style = Style(u, j)
  <2>1. \A i \in j.first..j.last : i \in c.first..c.last \/ i \in d.first..d.last
    BY <1>1, <1>2 DEF IsRun
  <2> QED BY <1>1, <1>3, <1>6, <2>1
<1>8. Sound(u, b, j)
  BY <1>2, <1>5, <1>7 DEF Sound
<1> QED BY <1>2, <1>6, <1>8 DEF j

\* A plan without its last chunk, and what that chunk is.
LEMMA PlanFront ==
  ASSUME NEW u \in Seq(Units), NEW b, NEW s, Plan(u, b, s), s # <<>>
  PROVE  /\ Plan(u, b, Front(s)) /\ Len(Front(s)) = Len(s) - 1
         /\ \A k \in 1..(Len(s) - 1) : Front(s)[k] = s[k]
         /\ Last(s).first = Covered(Front(s)) + 1 /\ Sound(u, b, Last(s)) /\ IsRun(Last(s), Len(u))
         /\ Covered(s) = Last(s).last /\ Covered(Front(s)) < Last(s).last
<1> DEFINE p == Front(s)
           n == Len(s) - 1
<1>1. /\ Len(s) \in Nat \ {0} /\ DOMAIN s = 1..Len(s) /\ s \in Seq(Runs(Len(u)))
      /\ \A k \in 1..Len(s) : Sound(u, b, s[k]) /\ IsRun(s[k], Len(u))
  <2>1. s \in Seq(Runs(Len(u)))
    BY DEF Plan
  <2>2. Len(s) \in Nat /\ DOMAIN s = 1..Len(s) /\ Len(s) # 0
    BY PlanType
  <2> QED BY <2>1, <2>2, PlanType
<1>2. /\ p \in Seq(Runs(Len(u))) /\ Len(p) = n /\ \A k \in 1..n : p[k] = s[k]
  BY <1>1 DEF Front
<1>3. n \in Nat /\ DOMAIN p = 1..n /\ (\A k \in 1..n : k \in 1..Len(s)) /\ (p = <<>> <=> n = 0)
  BY <1>1, <1>2
<1>4. Last(s) = s[Len(s)] /\ Sound(u, b, Last(s)) /\ IsRun(Last(s), Len(u)) /\ Covered(s) = Last(s).last
  BY <1>1 DEF Last, Covered
<1>5. Consecutive(p, 1)
  <2>1. ASSUME NEW i \in 1..n
        PROVE  p[i].first = IF i = 1 THEN 1 ELSE p[i - 1].last + 1
    <3>1. i \in 1..Len(s) /\ (i # 1 => i - 1 \in 1..n)
      BY <1>3
    <3>2. s[i].first = IF i = 1 THEN 1 ELSE s[i - 1].last + 1
      BY <1>1, <3>1 DEF Plan, Consecutive
    <3> QED BY <1>2, <3>1, <3>2
  <2> HIDE DEF p, n
  <2> QED BY <1>3, <2>1 DEF Consecutive
<1>6. Plan(u, b, p)
  <2>1. \A k \in 1..n : Sound(u, b, s[k]) /\ k <= s[k].last
    BY <1>1, <1>3 DEF Plan
  <2>2. \A k \in DOMAIN p : Sound(u, b, p[k]) /\ k <= p[k].last
    BY <1>2, <1>3, <2>1
  <2> HIDE DEF p, n
  <2> QED BY <1>2, <1>5, <2>2 DEF Plan
<1>7. Last(s).first = Covered(p) + 1
  <2>1. Len(s) \in DOMAIN s
    BY <1>1
  <2>2. Last(s).first = IF Len(s) = 1 THEN 1 ELSE s[Len(s) - 1].last + 1
    BY <1>4, <2>1 DEF Plan, Consecutive
  <2>3. CASE n = 0
    <3>1. Covered(p) = 0
      BY <1>3, <2>3 DEF Covered
    <3> QED BY <1>1, <2>2, <2>3, <3>1
  <2>4. CASE n # 0
    <3>1. n \in 1..n /\ Len(s) # 1
      BY <1>1, <1>3, <2>4
    <3>2. Covered(p) = s[n].last
      BY <1>2, <1>3, <2>4, <3>1 DEF Covered
    <3> QED BY <2>2, <3>1, <3>2
  <2> QED BY <2>3, <2>4
<1>8. Covered(p) < Last(s).last
  <2>1. Covered(p) \in Nat
    BY <1>6, PlanType
  <2> HIDE DEF p
  <2> QED BY <1>4, <1>7, <2>1 DEF IsRun
<1> QED BY <1>2, <1>4, <1>6, <1>7, <1>8

\* A chunk follows the one before it.
LEMMA Follows ==
  ASSUME NEW u \in Seq(Units), NEW b, NEW s, Plan(u, b, s), NEW k \in 1..Len(s)
  PROVE  s[k].first = IF k = 1 THEN 1 ELSE s[k - 1].last + 1
<1>1. k \in DOMAIN s
  BY PlanType
<1> QED BY <1>1 DEF Plan, Consecutive

\* The pass over one chunk keeps what the pass has made sure of.
LEMMA RebalanceKeeps ==
  ASSUME NEW u \in Seq(Units), NEW b, WellFormed(b),
         NEW a, Plan(u, b, a), Separated(u, b, a, Len(a) - 1),
         NEW i \in 1..Len(a), NEW acc, Rebalancing(u, b, a, acc, i - 1)
  PROVE  Rebalancing(u, b, a, Rebalance(u, b, a, acc, i), i)
<1> DEFINE cur   == a[i]
           s     == acc.out
           tiny  == ~Exempt(b, i) /\ Size(u, cur) < b.target_min
           back  == tiny /\ JoinsPrevious(u, b, s, cur)
           ahead == tiny /\ ~back /\ JoinsNext(u, b, a, i)
           whole == IF ahead THEN Join(cur, a[i + 1]) ELSE cur
           t     == IF back THEN Append(Front(s), Join(Last(s), cur)) ELSE Append(s, cur)
<1>1. /\ Len(a) \in Nat /\ i \in Nat /\ Len(u) \in Nat
      /\ cur \in Runs(Len(u)) /\ IsRun(cur, Len(u)) /\ Sound(u, b, cur)
  BY PlanType
<1>2. /\ acc.skip = FALSE /\ Plan(u, b, s) /\ Apart(u, b, s) /\ Len(s) <= i - 1
      /\ Len(s) \in Nat /\ (s = <<>> <=> Len(s) = 0) /\ Covered(s) \in Nat /\ Covered(s) \in 0..Len(u)
  BY PlanType DEF Rebalancing
<1>3. i # 1 => /\ i - 1 \in 1..(Len(a) - 1) /\ i - 1 \in 1..Len(a) /\ s # <<>>
               /\ Last(s).last = a[i - 1].last
               /\ Style(u, Last(s)) = Style(u, a[i - 1])
               /\ Size(u, a[i - 1]) <= Size(u, Last(s))
  BY <1>1 DEF Rebalancing
<1>4. i = 1 => s = <<>>
  BY DEF Rebalancing
<1>5. cur.first = Covered(s) + 1
  <2>1. cur.first = IF i = 1 THEN 1 ELSE a[i - 1].last + 1
    BY Follows
  <2>2. Covered(s) = IF i = 1 THEN 0 ELSE a[i - 1].last
    BY <1>3, <1>4 DEF Covered, Last
  <2> QED BY <2>1, <2>2
<1>6. cur = Run(Covered(s) + 1, cur.last) /\ cur.last \in 1..Len(u) /\ Covered(s) < cur.last
  BY <1>1, <1>2, <1>5 DEF Run, Runs, IsRun
<1>7. ~ahead
  <2> SUFFICES ASSUME tiny, i < Len(a)
               PROVE  ~Mergeable(u, b, a[i], a[i + 1])
    BY DEF JoinsNext
  <2>1. i \in 1..(Len(a) - 1) /\ i + 1 \in 1..Len(a) /\ i + 1 # 1
    BY <1>1
  <2>2. Barrier(u, b, cur)
    BY <2>1 DEF Separated, Tiny
  <2>3. IsRun(a[i + 1], Len(u)) /\ a[i + 1].first = cur.last + 1
    BY <1>1, <2>1, PlanType, Follows
  <2>4. Size(u, cur) <= Size(u, cur)
    BY <1>1, SizeType
  <2> HIDE DEF cur, tiny
  <2>5. ~Mergeable(u, b, cur, a[i + 1])
    BY <1>1, <2>2, <2>3, <2>4, BarrierHolds
  <2> QED BY <2>5 DEF cur
<1>8. Rebalance(u, b, a, acc, i) = [skip |-> FALSE, out |-> t]
  <2>1. Rebalance(u, b, a, acc, i) =
            IF acc.skip THEN [acc EXCEPT !.skip = FALSE]
            ELSE [skip |-> ahead,
                  out  |-> IF back THEN Append(Front(s), Join(Last(s), cur)) ELSE Append(s, whole)]
    BY DEF Rebalance
  <2>2. whole = cur /\ ahead = FALSE
    BY <1>7
  <2> HIDE DEF ahead, whole, back, cur
  <2> QED BY <1>2, <2>1, <2>2
<1>9. /\ Plan(u, b, t) /\ Apart(u, b, t) /\ Len(t) <= i /\ t # <<>>
      /\ Last(t).last = cur.last /\ Style(u, Last(t)) = Style(u, cur)
      /\ Size(u, cur) <= Size(u, Last(t))
  <2>1. CASE ~back
    <3>1. t = Append(s, cur)
      BY <2>1
    <3>2. tiny /\ s # <<>> => ~Mergeable(u, b, Last(s), cur)
      BY <2>1 DEF JoinsPrevious
    <3>3. tiny <=> ~Exempt(b, i) /\ Tiny(u, b, cur)
      BY DEF Tiny
    <3> HIDE DEF t, cur, tiny, s
    <3>4. /\ Plan(u, b, t) /\ Len(t) = Len(s) + 1 /\ t[Len(s) + 1] = cur
          /\ \A k \in 1..Len(s) : t[k] = s[k]
      BY <1>1, <1>2, <1>6, <3>1, PlanGrows
    <3>5. Len(t) <= i /\ Len(t) - 1 = Len(s) /\ Last(t) = cur /\ Len(t) # 0
      BY <1>1, <1>2, <3>4 DEF Last
    <3>6. Size(u, cur) \in Nat
      BY <1>1, SizeType
    <3>7. t # <<>>
      BY <3>4, <3>5, PlanType
    <3>8. ASSUME NEW k \in 1..Len(s),
                 \/ ~Exempt(b, k) /\ Tiny(u, b, t[k])
                 \/ Tiny(u, b, t[k + 1])
          PROVE  ~Mergeable(u, b, t[k], t[k + 1])
      <4>1. CASE k # Len(s)
        <5>1. k \in 1..(Len(s) - 1) /\ k + 1 \in 1..Len(s)
          BY <1>2, <4>1
        <5>2. t[k] = s[k] /\ t[k + 1] = s[k + 1]
          BY <3>4, <5>1
        <5> QED BY <1>2, <3>8, <5>1, <5>2 DEF Apart
      <4>2. CASE k = Len(s)
        <5>1. t[k] = Last(s) /\ t[k + 1] = cur /\ s # <<>> /\ i # 1
          BY <1>2, <1>4, <3>4, <4>2 DEF Last
        <5>2. CASE Tiny(u, b, cur)
          <6>1. ~Exempt(b, i)
            BY <5>1 DEF Exempt
          <6> QED BY <3>2, <3>3, <5>1, <5>2, <6>1
        <5>3. CASE ~Exempt(b, k) /\ Tiny(u, b, Last(s))
          <6> DEFINE c == a[i - 1]
                     h == i - 1
          <6>1. /\ h \in 1..(Len(a) - 1) /\ h \in 1..Len(a) /\ Last(s).last = c.last
                /\ Style(u, Last(s)) = Style(u, c) /\ Size(u, c) <= Size(u, Last(s))
            BY <1>3, <5>1
          <6>2. ~Exempt(b, h)
            <7>1. h = 1 => k = 1
              BY <1>1, <1>2, <4>2
            <7> QED BY <5>3, <7>1 DEF Exempt
          <6>3. IsRun(c, Len(u)) /\ IsRun(Last(s), Len(u)) /\ cur.first = c.last + 1
            <7>1. IsRun(a[h], Len(u))
              BY <6>1, PlanType
            <7>2. IsRun(Last(s), Len(u))
              BY <1>2, <5>1, PlanFront
            <7>3. cur.first = c.last + 1
              BY <5>1, Follows DEF cur
            <7> QED BY <7>1, <7>2, <7>3
          <6>4. Size(u, c) \in Nat /\ Size(u, Last(s)) \in Nat /\ b.target_min \in Nat
            BY <6>3, SizeType DEF WellFormed
          <6>5. Tiny(u, b, c)
            BY <5>3, <6>1, <6>4 DEF Tiny
          <6>6. Barrier(u, b, a[h])
            BY <6>1, <6>2, <6>5 DEF Separated
          <6>7. ~Mergeable(u, b, Last(s), cur)
            <7> HIDE DEF c
            <7>1. Barrier(u, b, c)
              BY <6>6 DEF c
            <7> QED BY <1>1, <6>1, <6>3, <7>1, BarrierHolds
          <6> QED BY <5>1, <6>7
        <5> QED BY <3>8, <5>1, <5>2, <5>3
      <4> QED BY <4>1, <4>2
    <3>9. Apart(u, b, t)
      BY <3>5, <3>8 DEF Apart
    <3> QED BY <3>4, <3>5, <3>6, <3>7, <3>9
  <2>2. CASE back
    <3> DEFINE p == Front(s)
               l == Last(s)
               j == Join(l, cur)
    <3>1. t = Append(p, j) /\ s # <<>> /\ Mergeable(u, b, l, cur)
      BY <2>2 DEF JoinsPrevious
    <3> HIDE DEF t, cur, s, back
    <3>0. Len(s) # 0
      BY <1>2, <3>1
    <3>2. /\ Plan(u, b, p) /\ Len(p) = Len(s) - 1
          /\ \A k \in 1..(Len(s) - 1) : p[k] = s[k]
          /\ l.first = Covered(p) + 1 /\ Sound(u, b, l) /\ IsRun(l, Len(u))
          /\ Covered(s) = l.last /\ Covered(p) < l.last
      BY <1>2, <3>1, PlanFront
    <3>3. cur.first = l.last + 1
      BY <1>5, <3>2
    <3>4. Sound(u, b, j) /\ Style(u, j) = Style(u, l) /\ Size(u, j) = Size(u, l) + Size(u, cur)
      BY <1>1, <3>1, <3>2, <3>3, SoundJoin
    <3>5. Size(u, l) \in Nat /\ Size(u, cur) \in Nat /\ Size(u, j) \in Nat
      <4>1. IsRun(j, Len(u))
        BY <3>4 DEF Sound
      <4> QED BY <1>1, <3>2, <4>1, SizeType
    <3>6. j = Run(Covered(p) + 1, cur.last) /\ j.last = cur.last
      BY <3>2 DEF Join, Run
    <3>7. Covered(p) < cur.last
      <4>1. Covered(p) \in Nat
        BY <3>2, PlanType
      <4> QED BY <1>1, <3>2, <3>3, <4>1 DEF IsRun
    <3> HIDE DEF p, l, j
    <3>8. /\ Plan(u, b, t) /\ Len(t) = Len(p) + 1 /\ t[Len(p) + 1] = j
          /\ \A k \in 1..Len(p) : t[k] = p[k]
      BY <1>6, <3>1, <3>2, <3>4, <3>6, <3>7, PlanGrows
    <3>9. /\ Len(t) = Len(s) /\ Len(t) <= i /\ Last(t) = j /\ t[Len(s)] = j
          /\ \A k \in 1..(Len(s) - 1) : t[k] = s[k]
      BY <1>1, <1>2, <3>0, <3>2, <3>8 DEF Last
    <3>10. t # <<>>
      BY <3>0, <3>2, <3>8, <3>9, PlanType
    <3>11. Style(u, j) = Style(u, cur) /\ Size(u, cur) <= Size(u, j)
      BY <3>1, <3>4, <3>5 DEF Mergeable
    <3>12. ASSUME NEW k \in 1..(Len(s) - 1),
                  \/ ~Exempt(b, k) /\ Tiny(u, b, t[k])
                  \/ Tiny(u, b, t[k + 1])
           PROVE  ~Mergeable(u, b, t[k], t[k + 1])
      <4>1. t[k] = s[k]
        BY <3>9
      <4>2. CASE k + 1 # Len(s)
        <5>1. k + 1 \in 1..(Len(s) - 1)
          BY <1>2, <4>2
        <5>2. t[k + 1] = s[k + 1]
          BY <3>9, <5>1
        <5> QED BY <1>2, <3>12, <4>1, <5>2 DEF Apart
      <4>3. CASE k + 1 = Len(s)
        <5>1. s[k + 1] = l /\ t[k + 1] = j
          BY <3>9, <4>3 DEF l, Last
        <5>2. Tiny(u, b, j) => Tiny(u, b, l)
          <6>1. b.target_min \in Nat
            BY DEF WellFormed
          <6> QED BY <3>4, <3>5, <6>1 DEF Tiny
        <5>3. ~Mergeable(u, b, s[k], l)
          BY <1>2, <3>12, <4>1, <5>1, <5>2 DEF Apart
        <5>4. Size(u, s[k]) \in Nat /\ b.target_max \in Nat
          <6>1. k \in 1..Len(s)
            BY <1>2
          <6>2. IsRun(s[k], Len(u))
            BY <1>2, <6>1, PlanType
          <6> QED BY <6>2, SizeType DEF WellFormed
        <5>5. ~Mergeable(u, b, s[k], j)
          BY <3>4, <3>5, <5>3, <5>4 DEF Mergeable
        <5> QED BY <4>1, <5>1, <5>5
      <4> QED BY <4>2, <4>3
    <3>13. Apart(u, b, t)
      BY <3>9, <3>12 DEF Apart
    <3> QED BY <3>6, <3>8, <3>9, <3>10, <3>11, <3>13
  <2> QED BY <2>1, <2>2
<1> HIDE DEF t, cur, s
<1> DEFINE next == [skip |-> FALSE, out |-> t]
<1>10. next.skip = FALSE /\ next.out = t
  OBVIOUS
<1> HIDE DEF next
<1>11. Rebalancing(u, b, a, next, i)
  BY <1>1, <1>9, <1>10 DEF Rebalancing, cur
<1> QED BY <1>8, <1>11 DEF next

\* The pass is defined behind every chunk.
Passes == [skip : BOOLEAN, out : Loose]

\* Chunks without the last.
LEMMA FrontType ==
  ASSUME NEW s \in Loose, s # <<>>
  PROVE  Front(s) \in Loose /\ Last(s).first \in Int
<1>1. s \in Seq(Pair)
  BY DEF Loose
<1>2. Len(s) \in 1..Len(s)
  BY <1>1
<1>3. Last(s) \in Pair
  BY <1>1, <1>2 DEF Last
<1>4. Front(s) \in Seq(Pair)
  BY <1>1 DEF Front
<1> QED BY <1>3, <1>4 DEF Loose, Pair

\* The body of the pass gives a result of the pass again.
LEMMA RebalanceType ==
  ASSUME NEW u, NEW b, NEW a \in Loose, NEW acc \in Passes, NEW i \in 1..Len(a)
  PROVE  Rebalance(u, b, a, acc, i) \in Passes
<1> DEFINE cur   == a[i]
           tiny  == ~Exempt(b, i) /\ Size(u, cur) < b.target_min
           back  == tiny /\ JoinsPrevious(u, b, acc.out, cur)
           ahead == tiny /\ ~back /\ JoinsNext(u, b, a, i)
           whole == IF ahead THEN Join(cur, a[i + 1]) ELSE cur
           t     == IF back THEN Append(Front(acc.out), Join(Last(acc.out), cur))
                    ELSE Append(acc.out, whole)
<1>1. a \in Seq(Pair) /\ cur \in Pair /\ acc.out \in Loose /\ acc.skip \in BOOLEAN
  BY DEF Passes, Loose
<1>2. whole \in Pair
  <2>1. CASE ahead
    <3>1. i + 1 \in 1..Len(a)
      BY <1>1, <2>1 DEF JoinsNext
    <3>2. a[i + 1] \in Pair
      BY <1>1, <3>1
    <3>3. whole = [first |-> cur.first, last |-> a[i + 1].last]
      BY <2>1 DEF Join, Run
    <3> QED BY <1>1, <3>2, <3>3 DEF Pair
  <2>2. CASE ~ahead
    BY <1>1, <2>2
  <2> QED BY <2>1, <2>2
<1>3. t \in Loose
  <2>1. CASE back
    <3>1. acc.out # <<>>
      BY <2>1 DEF JoinsPrevious
    <3>2. Front(acc.out) \in Loose /\ Last(acc.out).first \in Int
      BY <1>1, <3>1, FrontType
    <3>3. Join(Last(acc.out), cur) \in Pair
      BY <1>1, <3>2 DEF Join, Run, Pair
    <3>4. t = Append(Front(acc.out), Join(Last(acc.out), cur))
      BY <2>1
    <3> HIDE DEF t, cur
    <3> QED BY <3>2, <3>3, <3>4 DEF Loose
  <2>2. CASE ~back
    <3>1. t = Append(acc.out, whole)
      BY <2>2
    <3> HIDE DEF whole, t
    <3> QED BY <1>1, <1>2, <3>1 DEF Loose
  <2> QED BY <2>1, <2>2
<1>4. Rebalance(u, b, a, acc, i) = IF acc.skip THEN [acc EXCEPT !.skip = FALSE]
                                  ELSE [skip |-> ahead, out |-> t]
  BY DEF Rebalance
<1>5. ahead \in BOOLEAN
  OBVIOUS
<1> HIDE DEF ahead, t
<1>6. [skip |-> ahead, out |-> t] \in Passes
  BY <1>3, <1>5 DEF Passes
<1>7. [acc EXCEPT !.skip = FALSE] \in Passes
  BY DEF Passes
<1> QED BY <1>4, <1>6, <1>7

\* The pass is its body, repeated.
LEMMA RebalancedSteps ==
  ASSUME NEW u, NEW b, NEW a \in Loose
  PROVE  /\ Rebalanced(u, b, a)[0] = [skip |-> FALSE, out |-> <<>>]
         /\ \A n \in 1..Len(a) :
              Rebalanced(u, b, a)[n] = Rebalance(u, b, a, Rebalanced(u, b, a)[n - 1], n)
<1> DEFINE N == Len(a)
           first == [skip |-> FALSE, out |-> <<>>]
           step == [x \in (1..N) \X Passes |-> Rebalance(u, b, a, x[2], x[1])]
           IsLoop(f) == f = [n \in 0..N |-> IF n = 0 THEN first ELSE Rebalance(u, b, a, f[n - 1], n)]
<1>1. N \in Nat
  BY DEF Loose
<1>2. step \in Steps(N, Passes)
  <2>1. ASSUME NEW x \in (1..N) \X Passes
        PROVE  Rebalance(u, b, a, x[2], x[1]) \in Passes
    <3>1. x[2] \in Passes /\ x[1] \in 1..N
      OBVIOUS
    <3> QED BY <3>1, RebalanceType
  <2> QED BY <2>1 DEF Steps
<1>3. PICK f \in [0..N -> Passes] : Recursive(f, N, first, step)
  <2>1. first \in Passes
    BY DEF Passes, Loose
  <2>2. \E f \in [0..N -> Passes] : Recursive(f, N, first, step)
    <3> HIDE DEF step, N, first
    <3> QED BY <1>1, <1>2, <2>1, Recursion
  <2> QED BY <2>2
<1>4. ASSUME NEW n \in 0..N
      PROVE  f[n] = IF n = 0 THEN first ELSE Rebalance(u, b, a, f[n - 1], n)
  <2>1. n # 0 => n \in 1..N /\ n - 1 \in 0..N
    BY <1>1
  <2>2. n # 0 => <<n, f[n - 1]>> \in (1..N) \X Passes
    BY <2>1
  <2>3. n # 0 => f[n] = step[<<n, f[n - 1]>>]
    BY <1>3, <2>1 DEF Recursive
  <2>4. n # 0 => f[n] = Rebalance(u, b, a, f[n - 1], n)
    BY <2>2, <2>3
  <2>5. f[0] = first
    BY <1>3 DEF Recursive
  <2> QED BY <2>4, <2>5
<1>5. IsLoop(f)
  <2>1. f = [n \in 0..N |-> f[n]]
    OBVIOUS
  <2> HIDE DEF N, first
  <2> QED BY <1>4, <2>1
<1> DEFINE F == CHOOSE h : IsLoop(h)
<1>6. Rebalanced(u, b, a) = F
  BY DEF Rebalanced
<1>7. IsLoop(F)
  <2>1. \E h : IsLoop(h)
    <3> HIDE DEF IsLoop
    <3> QED BY <1>5
  <2> HIDE DEF IsLoop
  <2> QED BY <2>1
<1> HIDE DEF F
<1>8. 0 \in 0..N /\ \A n \in 1..N : n \in 0..N /\ n # 0
  BY <1>1
<1>9. F[0] = first /\ \A n \in 1..N : F[n] = Rebalance(u, b, a, F[n - 1], n)
  <2> HIDE DEF first
  <2> QED BY <1>7, <1>8
<1> QED BY <1>6, <1>9

\* The whole pass over the chunks of a text.
LEMMA Rebalances ==
  ASSUME NEW u \in Seq(Units), u # <<>>, NEW b, WellFormed(b),
         NEW a, a = Assemble(u, b)
  PROVE  /\ Plan(u, b, a) /\ Covered(a) = Len(u) /\ Len(a) \in Nat /\ Len(a) # 0
         /\ \A n \in 0..Len(a) : Rebalancing(u, b, a, Rebalanced(u, b, a)[n], n)
<1> DEFINE N == Len(a)
           F == Rebalanced(u, b, a)
           T == {n \in 0..N : Rebalancing(u, b, a, F[n], n)}
<1>1. Plan(u, b, a) /\ Covered(a) = Len(u) /\ Separated(u, b, a, N - 1)
  BY AssembleSound
<1>2. N \in Nat /\ N # 0 /\ a # <<>> /\ Len(u) # 0
  <2>1. Len(u) \in Nat /\ Len(u) # 0
    OBVIOUS
  <2>2. a # <<>>
    BY <1>1, <2>1 DEF Covered
  <2> QED BY <1>1, <2>1, <2>2, PlanType
<1>3. a \in Loose
  <2>1. a \in Seq(Runs(Len(u)))
    BY <1>1 DEF Plan
  <2>2. Runs(Len(u)) \subseteq Pair
    BY DEF Runs, Pair
  <2> QED BY <2>1, <2>2 DEF Loose
<1>4. 0 \in T
  <2>1. F[0] = [skip |-> FALSE, out |-> <<>>]
    BY <1>3, RebalancedSteps
  <2>2. Plan(u, b, <<>>)
    <3>1. <<>> \in Seq(Runs(Len(u))) /\ DOMAIN <<>> = {}
      OBVIOUS
    <3> QED BY <3>1 DEF Plan, Consecutive
  <2>3. Apart(u, b, <<>>) /\ Len(<<>>) = 0
    BY DEF Apart
  <2>4. 0 \in 0..N
    BY <1>2
  <2> HIDE DEF F, N
  <2>5. F[0].skip = FALSE /\ F[0].out = <<>>
    BY <2>1
  <2>6. Rebalancing(u, b, a, F[0], 0)
    BY <2>2, <2>3, <2>5 DEF Rebalancing
  <2> QED BY <2>4, <2>6
<1>5. ASSUME NEW n \in 1..N, n - 1 \in T
      PROVE  n \in T
  <2>1. F[n] = Rebalance(u, b, a, F[n - 1], n)
    BY <1>3, RebalancedSteps
  <2>2. Rebalancing(u, b, a, F[n - 1], n - 1) /\ n \in 0..N
    BY <1>2, <1>5
  <2> HIDE DEF F
  <2>3. Rebalancing(u, b, a, F[n], n)
    BY <1>1, <2>1, <2>2, RebalanceKeeps
  <2> QED BY <2>2, <2>3
<1>6. 0..N \subseteq T
  <2> HIDE DEF T, N
  <2> QED BY <1>2, <1>4, <1>5, Inductive
<1> QED BY <1>1, <1>2, <1>6

\* rebalance_tiny_chunks never joins a chunk with the one behind it: chunk_text
\* flushes a chunk that is too small only before a unit of another style or one
\* that would exceed the target, so its branch for the next chunk is dead.
THEOREM NothingJoinsNext ==
  ASSUME NEW u \in Seq(Units), u # <<>>, NEW b, WellFormed(b),
         NEW n \in 0..Len(Assemble(u, b))
  PROVE  ~Rebalanced(u, b, Assemble(u, b))[n].skip
<1>1. Rebalancing(u, b, Assemble(u, b), Rebalanced(u, b, Assemble(u, b))[n], n)
  BY Rebalances
<1> QED BY <1>1 DEF Rebalancing

\* The plan of a text: sound chunks that cover it, none of which is tiny and
\* could be joined.
THEOREM ChunkTextSound ==
  ASSUME NEW u \in Seq(Units), u # <<>>, NEW b, WellFormed(b)
  PROVE  /\ Plan(u, b, ChunkText(u, b)) /\ Apart(u, b, ChunkText(u, b))
         /\ Covered(ChunkText(u, b)) = Len(u) /\ ChunkText(u, b) # <<>>
<1> DEFINE a == Assemble(u, b)
           N == Len(a)
           c == Rebalanced(u, b, a)[N].out
<1>1. ChunkText(u, b) = c
  BY DEF ChunkText, RebalanceTiny
<1>2. Covered(a) = Len(u) /\ N \in Nat /\ N # 0 /\ Rebalancing(u, b, a, Rebalanced(u, b, a)[N], N)
  <2> HIDE DEF a
  <2>1. a = Assemble(u, b)
    BY DEF a
  <2>2. /\ Covered(a) = Len(u) /\ N \in Nat /\ N # 0
        /\ \A n \in 0..N : Rebalancing(u, b, a, Rebalanced(u, b, a)[n], n)
    BY <2>1, Rebalances
  <2>3. N \in 0..N
    BY <2>2
  <2> QED BY <2>2, <2>3
<1> HIDE DEF a
<1>3. Plan(u, b, c) /\ Apart(u, b, c) /\ c # <<>> /\ Last(c).last = a[N].last
  BY <1>2 DEF Rebalancing
<1>4. a # <<>>
  BY <1>2
<1>5. Covered(c) = Len(u)
  <2> HIDE DEF c
  <2> QED BY <1>2, <1>3, <1>4 DEF Covered, Last
<1> QED BY <1>1, <1>3, <1>5

-----------------------------------------------------------------------------
(* build_adaptative_chunk. *)

\* The chunk begins where it was asked to, is sound, and if it leaves a tail it
\* could not absorb it.
THEOREM BuildSound ==
  ASSUME NEW u \in Seq(Units), NEW b, WellFormed(b), NEW from \in 1..Len(u),
         NEW goal, NEW isFirst, NEW c, c = BuildAdaptative(u, from, b, goal, isFirst)
  PROVE  /\ Sound(u, b, c) /\ c.first = from /\ c = Run(c.first, c.last)
         /\ c.last # Len(u) => ~AbsorbsTail(u, b, isFirst, c)
<1> DEFINE N == Len(u)
           target == Max({b.target_min, Min({b.hard_max, goal})})
           Stops(e) == \/ e = N
                       \/ StopsAt(u, b, target, isFirst, Run(from, e))
                       \/ Refuses(u, b, Run(from, e), e + 1)
           ends == {e \in from..N : Stops(e)}
           end == Min(ends)
           d == Run(from, end)
<1>1. N \in Nat /\ from \in Nat /\ from <= N /\ N \in from..N
  OBVIOUS
<1>2. c = IF AbsorbsTail(u, b, isFirst, d) THEN Run(from, N) ELSE d
  BY DEF BuildAdaptative
<1>3. end \in ends /\ \A e \in ends : end <= e
  <2>1. ends \subseteq Nat /\ N \in ends
    BY <1>1
  <2> HIDE DEF ends
  <2>2. \E m \in ends : \A e \in ends : m <= e
    BY <2>1, Least
  <2> QED BY <2>2 DEF Min
<1>4. end \in from..N /\ \A e \in from..(end - 1) : ~Refuses(u, b, Run(from, e), e + 1)
  <2>1. end \in from..N
    BY <1>3
  <2>2. ASSUME NEW e \in from..(end - 1)
        PROVE  ~Refuses(u, b, Run(from, e), e + 1)
    <3>1. e \in from..N /\ ~(end <= e)
      BY <2>1
    <3>2. e \notin ends
      BY <1>3, <3>1
    <3>3. ~Stops(e)
      BY <3>1, <3>2
    <3> QED BY <3>3
  <2> QED BY <2>1, <2>2
<1> HIDE DEF end, ends
<1>5. d.first = from /\ d.last = end /\ IsRun(d, N) /\ Style(u, d) = u[from].style
  BY <1>1, <1>4, RunIs DEF IsRun, Style
<1>6. \A i \in from..end : u[i].style = u[from].style
  <2>1. ASSUME NEW i \in from..end, i # from
        PROVE  u[i].style = u[from].style
    <3>1. i - 1 \in from..(end - 1) /\ i = (i - 1) + 1
      BY <1>1, <1>4, <2>1
    <3>2. ~Refuses(u, b, Run(from, i - 1), (i - 1) + 1)
      BY <1>4, <3>1
    <3>3. Style(u, Run(from, i - 1)) = u[(i - 1) + 1].style
      BY <3>2 DEF Refuses
    <3> QED BY <3>1, <3>3, RunIs DEF Style
  <2> QED BY <2>1
<1>7. Size(u, d) <= b.hard_max \/ d.first = d.last
  <2>1. CASE end = from
    BY <1>5, <2>1
  <2>2. CASE end # from
    <3> DEFINE e == end - 1
               h == Run(from, e)
    <3>1. e \in from..(end - 1) /\ e \in 1..N /\ end = e + 1 /\ end \in 1..N
      BY <1>1, <1>4, <2>2
    <3>2. h.first = from /\ h.last = e /\ IsRun(h, N)
      BY <1>1, <3>1, RunIs DEF IsRun
    <3>3. ~Refuses(u, b, h, end)
      BY <1>4, <3>1
    <3> HIDE DEF e, h
    <3>4. Size(u, d) = Size(u, h) + u[end].tokens
      <4>1. end = h.last + 1
        BY <3>1, <3>2
      <4> QED BY <3>1, <3>2, <4>1, SizeNext
    <3>5. Size(u, h) \in Nat /\ u[end].tokens \in Nat /\ b.hard_max \in Nat
      BY <3>1, <3>2, SizeType, UnitType DEF WellFormed
    <3>6. ~(Size(u, h) + u[end].tokens > b.hard_max)
      BY <3>3 DEF Refuses
    <3> HIDE DEF d
    <3> QED BY <3>4, <3>5, <3>6
  <2> QED BY <2>1, <2>2
<1>8. Sound(u, b, d)
  BY <1>5, <1>6, <1>7 DEF Sound
<1> HIDE DEF d
<1>9. CASE AbsorbsTail(u, b, isFirst, d)
  <2> DEFINE tail == Run(d.last + 1, N)
  <2>1. c = Run(from, N) /\ c.first = from /\ c.last = N
    BY <1>2, <1>9, RunIs
  <2>2. /\ d.last < N
        /\ \A i \in tail.first..tail.last : u[i].style = Style(u, d)
        /\ Size(u, d) + Size(u, tail) <= b.hard_max
    BY <1>9 DEF AbsorbsTail
  <2>3. tail.first = d.last + 1 /\ tail.last = N
    BY RunIs
  <2>4. IsRun(tail, N) /\ Join(d, tail) = c
    BY <1>1, <1>4, <1>5, <2>1, <2>2, <2>3 DEF IsRun, Join, Run
  <2> HIDE DEF tail
  <2>5. Size(u, c) = Size(u, d) + Size(u, tail) /\ IsRun(c, N)
    BY <1>5, <2>3, <2>4, SizeJoin
  <2>6. \A i \in from..N : u[i].style = u[from].style
    <3>1. \A i \in from..N : i \in from..end \/ i \in tail.first..tail.last
      BY <1>1, <1>4, <1>5, <2>3
    <3> QED BY <1>5, <1>6, <2>2, <3>1
  <2>7. Sound(u, b, c)
    BY <2>1, <2>2, <2>5, <2>6 DEF Sound, Style
  <2> QED BY <2>1, <2>7
<1>10. CASE ~AbsorbsTail(u, b, isFirst, d)
  BY <1>2, <1>5, <1>8, <1>10 DEF d
<1> QED BY <1>9, <1>10

-----------------------------------------------------------------------------
(* The session. *)

AudioType == [index : Nat, first : Nat, last : Nat, final : BOOLEAN]

\* What was generated and not lost since.
Heard == delivered \o out

Types ==
    /\ setup \in Setups
    /\ pieces \in 0..MaxPieces
    /\ {input_finished, started, prepared, done} \subseteq BOOLEAN
    /\ batch \in 0..MaxBatch
    /\ out \in Seq(AudioType) /\ Len(out) <= batch
    /\ delivered \in Seq(AudioType)
    /\ completed \in Nat /\ total \in Nat /\ next_unit \in Nat

\* Before prepare nothing has happened, behind it the text is there.
Planned ==
    IF prepared
    THEN units \in UnitLists /\ chunks = IF LongForm THEN ChunkText(units, cfg) ELSE <<>>
    ELSE /\ units = <<>> /\ chunks = <<>> /\ cleared = {}
         /\ batch = 0 /\ delivered = <<>> /\ errors = {}
         /\ next_unit = 1 /\ completed = 0 /\ total = 0 /\ growth = 0 /\ ~done

\* Where the session is in its text.
Positioned ==
    /\ cleared \subseteq DOMAIN chunks
    /\ LongForm =>
          /\ next_unit = 1 /\ growth = 0
          /\ prepared => /\ total = Len(chunks) /\ completed <= total
                         /\ done <=> completed = total
    /\ ~LongForm =>
          /\ next_unit \in 1..(Len(units) + 1) /\ completed < next_unit
          /\ total <= Len(units)
          /\ prepared => growth \in cfg.target_min..cfg.soft_max

\* What was heard is a chunk of the plan, or lies behind the position; it is
\* final if it ends the text.
Voiced(a) ==
    /\ Sound(units, cfg, a) /\ a.index < completed
    /\ a.final => done
    /\ LongForm => /\ a.first = chunks[a.index + 1].first /\ a.last = chunks[a.index + 1].last
                   /\ a.final <=> a.index + 1 = total
    /\ ~LongForm => /\ a.last < next_unit
                    /\ a.final <=> a.last = Len(units)

AllVoiced == \A i \in DOMAIN Heard : Voiced(Heard[i])

\* The chunks of a batch in adaptative mode follow each other, up to the
\* position, and none could have absorbed a tail.
BatchFits ==
    ~LongForm =>
        /\ \A k \in DOMAIN out :
              /\ out[k].last # Len(units) => ~AbsorbsTail(units, cfg, out[k].index = 0, out[k])
              /\ k # 1 => out[k].first = out[k - 1].last + 1
        /\ out # <<>> => Last(out).last + 1 = next_unit

\* Nothing was lost as long as nothing failed.
Faultless ==
    errors = {} =>
        /\ Len(Heard) = completed
        /\ \A i \in DOMAIN Heard : Heard[i].index = i - 1
        /\ ~LongForm =>
              /\ Consecutive(Heard, 1)
              /\ next_unit = IF Heard = <<>> THEN 1 ELSE Last(Heard).last + 1
              /\ done => total = completed
        /\ done => Heard # <<>> /\ Last(Heard).final

\* A long-form session goes no further behind a chunk that failed.
Stuck ==
    LongForm /\ "dropped" \notin errors =>
        /\ \A i \in DOMAIN Heard : Heard[i].index = i - 1
        /\ IF "inference" \in errors THEN completed + 1 \in cleared /\ out = <<>>
           ELSE Len(Heard) = completed

IndInv ==
    /\ Types /\ Planned /\ Positioned
    /\ AllVoiced /\ SpokenInOrder /\ BatchFits /\ Faultless /\ Stuck

\* What the plan and the text of a session are.
LEMMA Grounded ==
  ASSUME Types, Planned
  PROVE  /\ WellFormed(cfg) /\ units \in Seq(Units) /\ Len(units) \in Nat
         /\ {cfg.target_min, cfg.target_max, cfg.soft_max, cfg.hard_max} \subseteq Nat
         /\ prepared => units # <<>> /\ Len(units) # 0
         /\ prepared /\ LongForm =>
              /\ Plan(units, cfg, chunks) /\ Apart(units, cfg, chunks)
              /\ Covered(chunks) = Len(units) /\ chunks # <<>>
              /\ Len(chunks) \in 1..Len(units)
         /\ ~prepared \/ ~LongForm => chunks = <<>>
<1>1. WellFormed(cfg)
  BY SessionAssumption DEF Types, cfg
<1>2. {cfg.target_min, cfg.target_max, cfg.soft_max, cfg.hard_max} \subseteq Nat
  BY <1>1 DEF WellFormed
<1>3. units \in Seq(Units) /\ (prepared => units # <<>>)
  <2>1. CASE prepared
    <3>1. units \in UnitLists
      BY <2>1 DEF Planned
    <3>2. units \in Seq(Units) \ {<<>>}
      BY <3>1, SessionAssumption
    <3> QED BY <3>2
  <2>2. CASE ~prepared
    <3>1. units = <<>>
      BY <2>2 DEF Planned
    <3> QED BY <2>2, <3>1
  <2> QED BY <2>1, <2>2
<1>4. Len(units) \in Nat /\ (prepared => Len(units) # 0)
  BY <1>3
<1>5. ASSUME prepared, LongForm
      PROVE  /\ Plan(units, cfg, chunks) /\ Apart(units, cfg, chunks)
             /\ Covered(chunks) = Len(units) /\ chunks # <<>>
             /\ Len(chunks) \in 1..Len(units)
  <2>1. chunks = ChunkText(units, cfg)
    BY <1>5 DEF Planned
  <2>2. /\ Plan(units, cfg, chunks) /\ Apart(units, cfg, chunks)
        /\ Covered(chunks) = Len(units) /\ chunks # <<>>
    <3> HIDE DEF cfg
    <3> QED BY <1>1, <1>3, <1>5, <2>1, ChunkTextSound
  <2>3. Len(chunks) \in Nat /\ Len(chunks) # 0 /\ Len(chunks) <= Covered(chunks)
    <3> HIDE DEF cfg
    <3> QED BY <1>3, <2>2, PlanType
  <2> QED BY <1>4, <2>2, <2>3
<1>6. ~prepared \/ ~LongForm => chunks = <<>>
  BY DEF Planned
<1> QED BY <1>1, <1>2, <1>3, <1>4, <1>5, <1>6

\* The pieces of what was heard.
LEMMA HeardType ==
  ASSUME Types
  PROVE  /\ Heard \in Seq(AudioType) /\ Len(Heard) \in Nat /\ DOMAIN Heard = 1..Len(Heard)
         /\ Len(Heard) = Len(delivered) + Len(out)
         /\ Len(delivered) \in Nat /\ Len(out) \in Nat /\ DOMAIN out = 1..Len(out)
         /\ DOMAIN delivered = 1..Len(delivered)
         /\ \A i \in 1..Len(delivered) : i \in DOMAIN Heard /\ Heard[i] = delivered[i]
         /\ \A i \in 1..Len(out) : Len(delivered) + i \in DOMAIN Heard
                                   /\ Heard[Len(delivered) + i] = out[i]
         /\ \A i \in DOMAIN Heard : Heard[i] \in AudioType
<1>1. delivered \in Seq(AudioType) /\ out \in Seq(AudioType)
  BY DEF Types
<1>2. /\ Heard \in Seq(AudioType) /\ Len(Heard) = Len(delivered) + Len(out)
      /\ \A i \in 1..Len(delivered) : Heard[i] = delivered[i]
  BY <1>1, ConcatProperties DEF Heard
<1>3. /\ Len(Heard) \in Nat /\ DOMAIN Heard = 1..Len(Heard)
      /\ Len(delivered) \in Nat /\ Len(out) \in Nat
      /\ DOMAIN out = 1..Len(out) /\ DOMAIN delivered = 1..Len(delivered)
      /\ \A i \in DOMAIN Heard : Heard[i] \in AudioType
  BY <1>1, <1>2
<1>4. ASSUME NEW i \in 1..Len(out)
      PROVE  Len(delivered) + i \in DOMAIN Heard /\ Heard[Len(delivered) + i] = out[i]
  <2> DEFINE j == Len(delivered) + i
  <2>1. j \in 1..(Len(delivered) + Len(out)) /\ ~(j <= Len(delivered)) /\ j - Len(delivered) = i
    BY <1>3
  <2>2. (delivered \o out)[j] = out[j - Len(delivered)]
    <3> HIDE DEF j
    <3> QED BY <1>1, <2>1
  <2> QED BY <1>2, <1>3, <2>1, <2>2 DEF Heard
<1>5. \A i \in 1..Len(delivered) : i \in DOMAIN Heard
  BY <1>2, <1>3
<1> QED BY <1>1, <1>2, <1>3, <1>4, <1>5

\* What two chunks of the same units have in common.
LEMMA SameRun ==
  ASSUME NEW u, NEW b, NEW c, NEW d, c.first = d.first, c.last = d.last
  PROVE  /\ Size(u, c) = Size(u, d) /\ Style(u, c) = Style(u, d)
         /\ Sound(u, b, c) <=> Sound(u, b, d)
         /\ \A x : AbsorbsTail(u, b, x, c) <=> AbsorbsTail(u, b, x, d)
<1>1. Size(u, c) = Size(u, d) /\ Style(u, c) = Style(u, d)
  BY DEF Size, Style
<1>2. Sound(u, b, c) <=> Sound(u, b, d)
  BY <1>1 DEF Sound, IsRun
<1>3. \A x : AbsorbsTail(u, b, x, c) <=> AbsorbsTail(u, b, x, d)
  BY <1>1 DEF AbsorbsTail
<1> QED BY <1>1, <1>2, <1>3

\* The last of a sequence.
LEMMA LastOf ==
  ASSUME NEW S, NEW s \in Seq(S), s # <<>>
  PROVE  Len(s) \in DOMAIN s /\ Len(s) \in 1..Len(s) /\ Last(s) = s[Len(s)] /\ Len(s) \in Nat \ {0}
BY DEF Last

-----------------------------------------------------------------------------
(* What the invariant implies. *)

\* Every chunk counted is planned or lies behind the position.
LEMMA ImpliesTypeOK ==
  ASSUME Types, Planned, Positioned
  PROVE  TypeOK
<1>1. /\ Len(units) \in Nat /\ cfg.target_min \in Nat /\ cfg.soft_max \in Nat
      /\ prepared /\ LongForm => Len(chunks) \in 1..Len(units)
  BY Grounded
<1>2. completed \in Nat /\ total \in Nat /\ next_unit \in Nat
  BY DEF Types
<1>3. next_unit \in 1..(Len(units) + 1) /\ completed \in 0..Len(units) /\ total \in 0..Len(units)
      /\ growth \in {0} \cup cfg.target_min..cfg.soft_max
  <2>1. CASE ~prepared
    <3>1. next_unit = 1 /\ completed = 0 /\ total = 0 /\ growth = 0
      BY <2>1 DEF Planned
    <3> QED BY <1>1, <3>1
  <2>2. CASE prepared /\ LongForm
    <3>1. next_unit = 1 /\ growth = 0 /\ total = Len(chunks) /\ completed <= total
      BY <2>2 DEF Positioned
    <3> QED BY <1>1, <1>2, <2>2, <3>1
  <2>3. CASE prepared /\ ~LongForm
    <3>1. next_unit \in 1..(Len(units) + 1) /\ completed < next_unit /\ total <= Len(units)
          /\ growth \in cfg.target_min..cfg.soft_max
      BY <2>3 DEF Positioned
    <3> QED BY <1>1, <1>2, <3>1
  <2> QED BY <2>1, <2>2, <2>3
<1>4. cleared \subseteq DOMAIN chunks
  BY DEF Positioned
<1>5. setup \in Setups /\ pieces \in 0..MaxPieces
      /\ {input_finished, started, prepared, done} \subseteq BOOLEAN
      /\ batch \in 0..MaxBatch /\ Len(out) <= batch
  BY DEF Types
<1> QED BY <1>3, <1>4, <1>5 DEF TypeOK

\* The plan covers the text in one style per chunk.
LEMMA ImpliesPlanCovers ==
  ASSUME Types, Planned
  PROVE  PlanCoversText
<1> SUFFICES ASSUME chunks # <<>>
             PROVE  /\ Consecutive(chunks, 1) /\ Last(chunks).last = Len(units)
                    /\ \A i \in DOMAIN chunks : OneStyle(chunks[i])
  BY DEF PlanCoversText
<1>1. Plan(units, cfg, chunks) /\ Covered(chunks) = Len(units)
  BY Grounded
<1>2. Last(chunks).last = Len(units)
  BY <1>1 DEF Covered, Last
<1>3. Consecutive(chunks, 1) /\ \A i \in DOMAIN chunks : OneStyle(chunks[i])
  BY <1>1 DEF Plan, Sound, OneStyle
<1> QED BY <1>2, <1>3

\* What was planned or generated is within the capacity.
LEMMA ImpliesCapacity ==
  ASSUME Types, Planned, AllVoiced
  PROVE  WithinCapacity
<1>1. ASSUME NEW c \in Range(chunks) \cup Range(out)
      PROVE  Sound(units, cfg, c)
  <2>1. CASE c \in Range(chunks)
    <3>1. PICK i \in DOMAIN chunks : c = chunks[i]
      BY <2>1 DEF Range
    <3>2. chunks # <<>>
      BY <3>1
    <3>3. Plan(units, cfg, chunks)
      BY <3>2, Grounded
    <3> QED BY <3>1, <3>3 DEF Plan
  <2>2. CASE c \in Range(out)
    <3>1. PICK i \in DOMAIN out : c = out[i]
      BY <2>2 DEF Range
    <3>2. Len(delivered) + i \in DOMAIN Heard /\ Heard[Len(delivered) + i] = out[i]
      BY <3>1, HeardType
    <3>3. Voiced(Heard[Len(delivered) + i])
      BY <3>2 DEF AllVoiced
    <3> QED BY <3>1, <3>2, <3>3 DEF Voiced
  <2> QED BY <2>1, <2>2
<1> QED BY <1>1 DEF WithinCapacity, Sound, OneStyle

\* No tiny chunk of the plan could still be joined.
LEMMA ImpliesNoTiny ==
  ASSUME Types, Planned
  PROVE  NoMergeableTiny
<1> SUFFICES ASSUME NEW i \in DOMAIN chunks, NEW j \in DOMAIN chunks, j \in {i - 1, i + 1},
                    ~Exempt(cfg, i), Size(units, chunks[i]) < cfg.target_min
             PROVE  ~Mergeable(units, cfg, chunks[Min({i, j})], chunks[Max({i, j})])
  BY DEF NoMergeableTiny
<1>1. chunks # <<>>
  OBVIOUS
<1>2. /\ Plan(units, cfg, chunks) /\ Apart(units, cfg, chunks) /\ units \in Seq(Units)
  BY <1>1, Grounded
<1>3. Len(chunks) \in Nat /\ DOMAIN chunks = 1..Len(chunks)
  <2> HIDE DEF cfg
  <2> QED BY <1>2, PlanType
<1>4. CASE j = i - 1
  <2>1. Min({i, j}) = j /\ Max({i, j}) = i
    <3>1. i \in Int /\ j \in Int
      BY <1>3
    <3>2. /\ Min({i, j}) \in {i, j} /\ Min({i, j}) <= i /\ Min({i, j}) <= j
          /\ Max({i, j}) \in {i, j} /\ i <= Max({i, j}) /\ j <= Max({i, j})
      BY <3>1, TwoNumbers
    <3> QED BY <1>4, <3>1, <3>2
  <2>2. j \in 1..(Len(chunks) - 1) /\ j + 1 = i
    BY <1>3, <1>4
  <2>3. Tiny(units, cfg, chunks[j + 1])
    BY <2>2 DEF Tiny
  <2>4. ~Mergeable(units, cfg, chunks[j], chunks[j + 1])
    BY <1>2, <2>2, <2>3 DEF Apart
  <2> QED BY <2>1, <2>2, <2>4
<1>5. CASE j = i + 1
  <2>1. Min({i, j}) = i /\ Max({i, j}) = j
    <3>1. i \in Int /\ j \in Int
      BY <1>3
    <3>2. /\ Min({i, j}) \in {i, j} /\ Min({i, j}) <= i /\ Min({i, j}) <= j
          /\ Max({i, j}) \in {i, j} /\ i <= Max({i, j}) /\ j <= Max({i, j})
      BY <3>1, TwoNumbers
    <3> QED BY <1>5, <3>1, <3>2
  <2>2. i \in 1..(Len(chunks) - 1)
    BY <1>3, <1>5
  <2>3. Tiny(units, cfg, chunks[i])
    BY DEF Tiny
  <2>4. ~Mergeable(units, cfg, chunks[i], chunks[i + 1])
    BY <1>2, <2>2, <2>3 DEF Apart
  <2> QED BY <1>5, <2>1, <2>4
<1> QED BY <1>4, <1>5

\* The chunk before a tiny last one could not absorb it.
LEMMA ImpliesAbsorbed ==
  ASSUME Types, Planned, AllVoiced, BatchFits
  PROVE  TinyTailAbsorbed
<1> DEFINE n == Len(out)
           c == out[n - 1]
           d == Last(out)
<1> SUFFICES ASSUME ~LongForm, n >= 2, d.final
             PROVE  \/ Size(units, d) >= cfg.target_min
                    \/ c.index = 0
                    \/ Style(units, c) # Style(units, d)
                    \/ Size(units, c) + Size(units, d) > cfg.hard_max
  BY DEF TinyTailAbsorbed
<1>1. n \in Nat /\ n \in 1..n /\ n - 1 \in 1..n /\ DOMAIN out = 1..n /\ d = out[n] /\ n # 1
  BY HeardType DEF Last
<1>2. \A i \in 1..n : Voiced(out[i])
  <2>1. ASSUME NEW i \in 1..n
        PROVE  Voiced(out[i])
    <3>1. Len(delivered) + i \in DOMAIN Heard /\ Heard[Len(delivered) + i] = out[i]
      BY HeardType
    <3> QED BY <3>1 DEF AllVoiced
  <2> QED BY <2>1
<1>3. /\ c.last # Len(units) => ~AbsorbsTail(units, cfg, c.index = 0, c)
      /\ d.first = c.last + 1
  BY <1>1 DEF BatchFits
<1>4. Sound(units, cfg, c) /\ Sound(units, cfg, d) /\ d.last = Len(units)
  BY <1>1, <1>2 DEF Voiced
<1> HIDE DEF c, d
<1>5. IsRun(c, Len(units)) /\ IsRun(d, Len(units)) /\ Len(units) \in Nat /\ c.last < Len(units)
  BY <1>3, <1>4, Grounded DEF Sound, IsRun
<1>6. \A i \in d.first..d.last : units[i].style = Style(units, d)
  BY <1>4 DEF Sound
<1>7. Size(units, c) \in Nat /\ Size(units, d) \in Nat /\ cfg.target_min \in Nat /\ cfg.hard_max \in Nat
  <2>1. units \in Seq(Units) /\ cfg.target_min \in Nat /\ cfg.hard_max \in Nat
    BY Grounded
  <2> QED BY <1>5, <2>1, SizeType
<1> DEFINE tail == Run(c.last + 1, Len(units))
<1>8. tail.first = d.first /\ tail.last = d.last
  BY <1>3, <1>4, RunIs
<1>9. Size(units, tail) = Size(units, d)
  BY <1>8, SameRun
<1>10. \/ c.index = 0
       \/ \E i \in tail.first..tail.last : units[i].style # Style(units, c)
       \/ ~(Size(units, tail) < cfg.target_min)
       \/ ~(Size(units, c) + Size(units, tail) <= cfg.hard_max)
  <2>1. ~AbsorbsTail(units, cfg, c.index = 0, c)
    BY <1>3, <1>5
  <2> QED BY <1>5, <2>1 DEF AbsorbsTail
<1>11. (\E i \in tail.first..tail.last : units[i].style # Style(units, c)) => Style(units, c) # Style(units, d)
  BY <1>6, <1>8
<1> HIDE DEF tail
<1> QED BY <1>7, <1>9, <1>10, <1>11

\* What was heard in long-form mode, when nothing is missing from it.
LEMMA LongRuns ==
  ASSUME Types, Planned, Positioned, AllVoiced, LongForm,
         \A i \in DOMAIN Heard : Heard[i].index = i - 1
  PROVE  /\ Consecutive(delivered, 1)
         /\ \A i \in DOMAIN Heard : i \in DOMAIN chunks /\ Heard[i].last = chunks[i].last
<1>1. CASE ~prepared
  <2>1. delivered = <<>> /\ Len(out) = 0
    BY <1>1, HeardType DEF Planned, Types
  <2>2. DOMAIN Heard = {} /\ DOMAIN delivered = {}
    BY <2>1, HeardType
  <2> QED BY <2>2 DEF Consecutive
<1>2. CASE prepared
  <2>1. /\ Plan(units, cfg, chunks) /\ units \in Seq(Units)
        /\ completed \in Nat /\ completed <= Len(chunks) /\ total = Len(chunks)
    BY <1>2, Grounded DEF Positioned, Types
  <2>2. Len(chunks) \in Nat /\ DOMAIN chunks = 1..Len(chunks)
    <3> HIDE DEF cfg
    <3> QED BY <2>1, PlanType
  <2>3. ASSUME NEW i \in DOMAIN Heard
        PROVE  i \in DOMAIN chunks /\ Heard[i].first = chunks[i].first /\ Heard[i].last = chunks[i].last
    <3>1. Voiced(Heard[i]) /\ Heard[i].index = i - 1 /\ i \in Nat /\ i >= 1
      BY HeardType DEF AllVoiced
    <3>2. i - 1 < completed /\ (i - 1) + 1 = i
      BY <3>1 DEF Voiced
    <3>3. Heard[i].first = chunks[i].first /\ Heard[i].last = chunks[i].last
      BY <3>1, <3>2 DEF Voiced
    <3> QED BY <2>1, <2>2, <3>1, <3>2, <3>3
  <2>4. ASSUME NEW i \in DOMAIN delivered
        PROVE  delivered[i].first = IF i = 1 THEN 1 ELSE delivered[i - 1].last + 1
    <3>1. i \in 1..Len(delivered) /\ Len(delivered) \in Nat /\ (i # 1 => i - 1 \in 1..Len(delivered))
      BY HeardType
    <3>2. i \in DOMAIN Heard /\ Heard[i] = delivered[i]
          /\ (i # 1 => i - 1 \in DOMAIN Heard /\ Heard[i - 1] = delivered[i - 1])
      BY <3>1, HeardType
    <3>3. delivered[i].first = chunks[i].first /\ i \in 1..Len(chunks)
          /\ (i # 1 => delivered[i - 1].last = chunks[i - 1].last)
      BY <2>2, <2>3, <3>2
    <3>4. chunks[i].first = IF i = 1 THEN 1 ELSE chunks[i - 1].last + 1
      <4> HIDE DEF cfg
      <4> QED BY <2>1, <3>3, Follows
    <3> QED BY <3>3, <3>4
  <2>5. Consecutive(delivered, 1)
    BY <2>4 DEF Consecutive
  <2> QED BY <2>3, <2>5
<1> QED BY <1>1, <1>2

\* A long-form session that dropped no batch it had counted has no gap.
LEMMA ImpliesGapless ==
  ASSUME Types, Planned, Positioned, AllVoiced, Stuck
  PROVE  LongFormGapless
<1> SUFFICES ASSUME LongForm, "dropped" \notin errors
             PROVE  Consecutive(delivered, 1)
  BY DEF LongFormGapless
<1>1. \A i \in DOMAIN Heard : Heard[i].index = i - 1
  BY DEF Stuck
<1> QED BY <1>1, LongRuns

\* A session that is done and lost nothing has spoken everything.
LEMMA ImpliesComplete ==
  ASSUME Types, Planned, Positioned, AllVoiced, SpokenInOrder, Faultless
  PROVE  CompleteWhenDone
<1> SUFFICES ASSUME done, batch = 0, errors = {}
             PROVE  /\ Consecutive(delivered, 1) /\ Last(delivered).last = Len(units)
                    /\ \A i \in DOMAIN delivered :
                          /\ delivered[i].index = i - 1
                          /\ delivered[i].final <=> i = total
                    /\ total = Len(delivered)
  BY DEF CompleteWhenDone
<1>1. Heard = delivered
  <2>1. out = <<>> /\ delivered \in Seq(AudioType)
    BY HeardType DEF Types
  <2> QED BY <2>1 DEF Heard
<1>2. /\ Len(delivered) = completed
      /\ \A i \in DOMAIN Heard : Heard[i].index = i - 1
      /\ delivered # <<>> /\ Last(delivered).final
      /\ ~LongForm => Consecutive(delivered, 1) /\ total = completed
  BY <1>1 DEF Faultless
<1>3. /\ prepared /\ Len(delivered) \in Nat /\ DOMAIN delivered = 1..Len(delivered)
      /\ Len(delivered) \in DOMAIN delivered /\ Last(delivered) = delivered[Len(delivered)]
  BY <1>1, <1>2, HeardType DEF Planned, Last
<1>4. \A i \in DOMAIN delivered : Voiced(delivered[i]) /\ delivered[i].index = i - 1
  BY <1>1, <1>2 DEF AllVoiced
<1>5. CASE LongForm
  <2>1. total = Len(chunks) /\ completed = total /\ Covered(chunks) = Len(units) /\ chunks # <<>>
    BY <1>3, <1>5, Grounded DEF Positioned
  <2>2. Consecutive(delivered, 1) /\ delivered[Len(delivered)].last = chunks[Len(delivered)].last
    BY <1>1, <1>2, <1>3, <1>5, LongRuns
  <2>3. Last(delivered).last = Len(units)
    BY <1>2, <1>3, <2>1, <2>2 DEF Covered
  <2>4. ASSUME NEW i \in DOMAIN delivered
        PROVE  delivered[i].final <=> i = total
    <3>1. (delivered[i].final <=> delivered[i].index + 1 = total) /\ delivered[i].index + 1 = i
      BY <1>3, <1>4, <1>5 DEF Voiced
    <3> QED BY <3>1
  <2> QED BY <1>2, <1>4, <2>1, <2>2, <2>3, <2>4
<1>6. CASE ~LongForm
  <2>1. Last(delivered).last = Len(units)
    BY <1>2, <1>3, <1>4, <1>6 DEF Voiced
  <2>2. ASSUME NEW i \in DOMAIN delivered, i # Len(delivered)
        PROVE  ~delivered[i].final
    <3>1. i + 1 \in 2..Len(delivered) /\ (i + 1) - 1 = i
      BY <1>3, <2>2
    <3>2. ~delivered[(i + 1) - 1].final
      BY <1>1, <3>1 DEF SpokenInOrder, Heard
    <3> QED BY <3>1, <3>2
  <2>3. \A i \in DOMAIN delivered : delivered[i].final <=> i = total
    BY <1>2, <1>3, <1>6, <2>2
  <2> QED BY <1>2, <1>4, <1>6, <2>1, <2>3
<1> QED BY <1>5, <1>6

\* The chunks of a plan follow each other.
LEMMA PlanOrder ==
  ASSUME NEW u \in Seq(Units), NEW b, NEW s, Plan(u, b, s),
         NEW j \in 1..Len(s), NEW k \in 1..Len(s), j < k
  PROVE  s[j].last < s[k].first
<1> DEFINE Goal(n) == n <= j \/ s[j].last < s[n].first
           T == {n \in 0..Len(s) : Goal(n)}
<1>1. Len(s) \in Nat /\ j \in Nat /\ k \in Nat /\ 1 <= j
  BY PlanType
<1>2. \A n \in 1..Len(s) : s[n].first \in Nat /\ s[n].last \in Nat /\ s[n].first <= s[n].last
  BY PlanType DEF IsRun
<1>3. 0 \in T
  BY <1>1
<1>4. ASSUME NEW n \in 1..Len(s), n - 1 \in T
      PROVE  n \in T
  <2>1. CASE n <= j
    BY <1>1, <2>1
  <2>2. CASE n > j
    <3>1. n # 1 /\ n - 1 \in 1..Len(s) /\ n \in Nat
      BY <1>1, <2>2
    <3>2. s[n].first = s[n - 1].last + 1
      BY <3>1, Follows
    <3>3. n - 1 = j \/ s[j].last < s[n - 1].first
      BY <1>1, <1>4, <2>2
    <3>4. s[j].last < s[n].first
      <4>1. CASE n - 1 = j
        BY <1>2, <3>1, <3>2, <4>1
      <4>2. CASE s[j].last < s[n - 1].first
        <5>1. s[j].last \in Nat /\ s[n - 1].first \in Nat /\ s[n - 1].last \in Nat
              /\ s[n - 1].first <= s[n - 1].last
          BY <1>2, <3>1
        <5> QED BY <3>2, <4>2, <5>1
      <4> QED BY <3>3, <4>1, <4>2
    <3> QED BY <3>4
  <2> QED BY <1>1, <2>1, <2>2
<1>5. 0..Len(s) \subseteq T
  <2> HIDE DEF T
  <2> QED BY <1>1, <1>3, <1>4, Inductive
<1>6. Goal(k)
  BY <1>1, <1>5
<1> QED BY <1>1, <1>6

-----------------------------------------------------------------------------
(* What was heard, and how it grows. *)

Ordered(s) ==
    \A i \in 2..Len(s) :
        /\ s[i - 1].last < s[i].first
        /\ s[i - 1].index < s[i].index
        /\ ~s[i - 1].final

\* SpokenInOrder says that what was heard is ordered.
LEMMA SpokenIs ==
  SpokenInOrder <=> Ordered(Heard)
BY DEF SpokenInOrder, Ordered, Heard

\* Appending to the batch appends to what was heard.
LEMMA AppendLast ==
  ASSUME NEW d \in Seq(AudioType), NEW o \in Seq(AudioType), NEW a \in AudioType
  PROVE  d \o Append(o, a) = Append(d \o o, a)
OBVIOUS

\* What follows the last keeps the order.
LEMMA OrderedGrows ==
  ASSUME NEW s \in Seq(AudioType), NEW a \in AudioType, Ordered(s),
         s # <<>> => /\ s[Len(s)].last < a.first
                     /\ s[Len(s)].index < a.index
                     /\ ~s[Len(s)].final
  PROVE  Ordered(Append(s, a))
<1>1. /\ Len(Append(s, a)) = Len(s) + 1 /\ Append(s, a)[Len(s) + 1] = a
      /\ \A i \in 1..Len(s) : Append(s, a)[i] = s[i]
      /\ Len(s) \in Nat
  BY AppendProperties
<1> DEFINE t == Append(s, a)
<1> SUFFICES ASSUME NEW i \in 2..Len(t)
             PROVE  /\ t[i - 1].last < t[i].first
                    /\ t[i - 1].index < t[i].index
                    /\ ~t[i - 1].final
  BY DEF Ordered
<1>2. CASE i = Len(s) + 1
  <2>1. i - 1 = Len(s) /\ Len(s) \in 1..Len(s) /\ s # <<>>
    BY <1>1, <1>2
  <2>2. t[i - 1] = s[Len(s)] /\ t[i] = a
    BY <1>1, <1>2, <2>1
  <2> QED BY <2>1, <2>2
<1>3. CASE i # Len(s) + 1
  <2>1. i \in 2..Len(s) /\ i \in 1..Len(s) /\ i - 1 \in 1..Len(s)
    BY <1>1, <1>3
  <2>2. t[i - 1] = s[i - 1] /\ t[i] = s[i]
    BY <1>1, <2>1
  <2> QED BY <2>1, <2>2 DEF Ordered
<1> QED BY <1>2, <1>3

\* What was returned is a prefix of what was heard.
LEMMA OrderedFront ==
  ASSUME NEW d \in Seq(AudioType), NEW o \in Seq(AudioType), Ordered(d \o o)
  PROVE  Ordered(d)
<1>1. /\ Len(d \o o) = Len(d) + Len(o) /\ Len(d) \in Nat /\ Len(o) \in Nat
      /\ \A i \in 1..Len(d) : (d \o o)[i] = d[i]
  BY ConcatProperties
<1> SUFFICES ASSUME NEW i \in 2..Len(d)
             PROVE  /\ d[i - 1].last < d[i].first
                    /\ d[i - 1].index < d[i].index
                    /\ ~d[i - 1].final
  BY DEF Ordered
<1>2. i \in 2..Len(d \o o) /\ i \in 1..Len(d) /\ i - 1 \in 1..Len(d)
  BY <1>1
<1>3. (d \o o)[i] = d[i] /\ (d \o o)[i - 1] = d[i - 1]
  BY <1>1, <1>2
<1> QED BY <1>2, <1>3 DEF Ordered

-----------------------------------------------------------------------------
(* The steps. *)

\* What was heard stays true of a session that moves on.
LEMMA VoicedStays ==
  ASSUME Types, NEW a \in AudioType, Voiced(a),
         UNCHANGED <<setup, units, chunks>>,
         completed' \in Nat, completed <= completed',
         next_unit' \in Nat, next_unit <= next_unit',
         done => done', LongForm => total' = total
  PROVE  Voiced(a)'
<1>1. a.index \in Nat /\ a.last \in Nat /\ completed \in Nat /\ next_unit \in Nat
  BY DEF AudioType, Types
<1>2. LongForm' = LongForm /\ cfg' = cfg
  BY DEF LongForm, cfg
<1>3. Sound(units', cfg', a) <=> Sound(units, cfg, a)
  BY <1>2
<1>4. a.index < completed' /\ (a.last < next_unit => a.last < next_unit')
  BY <1>1 DEF Voiced
<1>5. /\ a.final => done'
      /\ LongForm => /\ a.first = chunks'[a.index + 1].first /\ a.last = chunks'[a.index + 1].last
                     /\ a.final <=> a.index + 1 = total'
      /\ ~LongForm => a.last < next_unit' /\ (a.final <=> a.last = Len(units'))
  BY <1>4 DEF Voiced
<1> QED BY <1>2, <1>3, <1>4, <1>5 DEF Voiced

\* A step at which the plan, the position and what was heard stay.
LEMMA InputStep ==
  ASSUME IndInv, UNCHANGED <<setup, planVars, genVars, callVars>>,
         pieces' \in 0..MaxPieces, {input_finished', started'} \subseteq BOOLEAN
  PROVE  IndInv'
<1>1. /\ setup' = setup /\ prepared' = prepared /\ units' = units /\ chunks' = chunks
      /\ done' = done /\ cleared' = cleared /\ next_unit' = next_unit /\ completed' = completed
      /\ total' = total /\ growth' = growth /\ batch' = batch /\ out' = out
      /\ delivered' = delivered /\ errors' = errors
  BY DEF planVars, genVars, callVars
<1>2. LongForm' = LongForm /\ cfg' = cfg /\ Heard' = Heard
  BY <1>1 DEF LongForm, cfg, Heard
<1>3. Types'
  BY <1>1 DEF IndInv, Types
<1>4. Planned'
  BY <1>1, <1>2 DEF IndInv, Planned
<1>5. Positioned'
  BY <1>1, <1>2 DEF IndInv, Positioned
<1>6. AllVoiced'
  BY <1>1, <1>2 DEF IndInv, AllVoiced, Voiced
<1>7. SpokenInOrder'
  BY <1>1 DEF IndInv, SpokenInOrder
<1>8. BatchFits'
  BY <1>1, <1>2 DEF IndInv, BatchFits
<1>9. Faultless'
  BY <1>1, <1>2 DEF IndInv, Faultless
<1>10. Stuck'
  BY <1>1, <1>2 DEF IndInv, Stuck
<1> QED BY <1>3, <1>4, <1>5, <1>6, <1>7, <1>8, <1>9, <1>10 DEF IndInv

\* Nothing has happened yet.
LEMMA InitHolds ==
  Init => IndInv
<1> SUFFICES ASSUME Init PROVE IndInv
  OBVIOUS
<1>1. Heard = <<>> /\ Len(Heard) = 0 /\ DOMAIN Heard = {} /\ Len(out) = 0 /\ DOMAIN out = {}
  BY DEF Init, Heard
<1>2. Types
  <2>1. <<>> \in Seq(AudioType)
    OBVIOUS
  <2>2. 0 \in 0..MaxPieces /\ 0 \in 0..MaxBatch
    BY SessionAssumption
  <2>3. out \in Seq(AudioType) /\ delivered \in Seq(AudioType) /\ Len(out) <= batch
    BY <1>1, <2>1 DEF Init
  <2> QED BY <2>2, <2>3 DEF Init, Types
<1>3. Planned
  BY DEF Init, Planned
<1>4. Positioned
  BY DEF Init, Positioned
<1>5. AllVoiced
  BY <1>1 DEF AllVoiced
<1>6. SpokenInOrder
  BY <1>1, SpokenIs DEF Ordered
<1>7. BatchFits
  BY <1>1 DEF Init, BatchFits
<1>8. Faultless
  BY <1>1 DEF Init, Faultless, Consecutive
<1>9. Stuck
  BY <1>1 DEF Init, Stuck
<1> QED BY <1>2, <1>3, <1>4, <1>5, <1>6, <1>7, <1>8, <1>9 DEF IndInv

\* The plan or the units are made, at the start of the text.
LEMMA PrepareStep ==
  ASSUME IndInv, Prepare
  PROVE  IndInv'
<1>1. /\ setup' = setup /\ pieces' = pieces /\ input_finished' = input_finished /\ done' = done
      /\ cleared' = cleared /\ next_unit' = next_unit /\ completed' = completed
      /\ batch' = batch /\ out' = out /\ delivered' = delivered /\ errors' = errors
      /\ started' = TRUE /\ prepared' = TRUE /\ batch = 0 /\ ~prepared
      /\ total' = Len(chunks') /\ growth' = IF LongForm THEN growth ELSE cfg.target_max
  BY DEF Prepare, callVars
<1>2. LongForm' = LongForm /\ cfg' = cfg /\ Heard' = Heard
  BY <1>1 DEF LongForm, cfg, Heard
<1>3. /\ delivered = <<>> /\ errors = {} /\ cleared = {} /\ ~done
      /\ next_unit = 1 /\ completed = 0 /\ growth = 0
  BY <1>1 DEF IndInv, Planned
<1>4. Len(out) = 0 /\ DOMAIN out = {} /\ Len(Heard) = 0 /\ DOMAIN Heard = {} /\ Heard = <<>>
  <2>1. Types
    BY DEF IndInv
  <2>2. Len(out) = 0 /\ Len(Heard) = 0
    BY <1>1, <1>3, <2>1, HeardType DEF Types
  <2>3. Heard \in Seq(AudioType) /\ DOMAIN out = {} /\ DOMAIN Heard = {}
    BY <2>1, <2>2, HeardType
  <2> QED BY <2>2, <2>3
<1>5. units' \in UnitLists /\ chunks' = IF LongForm THEN ChunkText(units', cfg) ELSE <<>>
  BY DEF Prepare
<1>6. WellFormed(cfg) /\ units' \in Seq(Units) /\ units' # <<>>
  <2>1. WellFormed(cfg)
    BY SessionAssumption DEF IndInv, Types, cfg
  <2>2. units' \in Seq(Units) \ {<<>>}
    BY <1>5, SessionAssumption
  <2> QED BY <2>1, <2>2
<1>7. Len(units') \in Nat /\ Len(units') # 0
  BY <1>6
<1>8. total' \in Nat /\ (LongForm => total' # 0) /\ (~LongForm => total' = 0)
  <2>1. CASE LongForm
    <3>1. Plan(units', cfg, chunks') /\ chunks' # <<>>
      BY <1>5, <1>6, <2>1, ChunkTextSound
    <3>2. Len(chunks') \in Nat /\ Len(chunks') # 0
      <4> HIDE DEF cfg
      <4> QED BY <1>6, <3>1, PlanType
    <3> QED BY <1>1, <2>1, <3>2
  <2>2. CASE ~LongForm
    BY <1>1, <1>5, <2>2
  <2> QED BY <2>1, <2>2
<1>9. Types'
  BY <1>1, <1>8 DEF IndInv, Types
<1>10. Planned'
  BY <1>1, <1>2, <1>5 DEF Planned
<1>11. Positioned'
  <2>1. cleared' \subseteq DOMAIN chunks'
    BY <1>1, <1>3
  <2>2. LongForm => /\ next_unit' = 1 /\ growth' = 0
                    /\ total' = Len(chunks') /\ completed' <= total' /\ (done' <=> completed' = total')
    BY <1>1, <1>3, <1>8
  <2>3. ~LongForm => /\ next_unit' \in 1..(Len(units') + 1) /\ completed' < next_unit'
                     /\ total' <= Len(units') /\ growth' \in cfg.target_min..cfg.soft_max
    BY <1>1, <1>3, <1>6, <1>7, <1>8 DEF WellFormed
  <2> QED BY <1>1, <1>2, <2>1, <2>2, <2>3 DEF Positioned
<1>12. AllVoiced'
  BY <1>2, <1>4 DEF AllVoiced
<1>13. SpokenInOrder'
  BY <1>1 DEF IndInv, SpokenInOrder
<1>14. BatchFits'
  <2>1. DOMAIN out' = {} /\ out' = <<>>
    <3>1. out = <<>>
      BY <1>4 DEF IndInv, Types
    <3> QED BY <1>1, <1>4, <3>1
  <2> QED BY <2>1 DEF BatchFits
<1>15. Faultless'
  BY <1>1, <1>2, <1>3, <1>4 DEF Faultless, Consecutive
<1>16. Stuck'
  BY <1>1, <1>2, <1>3, <1>4 DEF Stuck
<1> QED BY <1>9, <1>10, <1>11, <1>12, <1>13, <1>14, <1>15, <1>16 DEF IndInv

\* A call begins with an empty batch.
LEMMA CallStep ==
  ASSUME IndInv, NEW n \in 1..MaxBatch, Next_(n)
  PROVE  IndInv'
<1>1. /\ setup' = setup /\ pieces' = pieces /\ input_finished' = input_finished /\ started' = started
      /\ prepared' = prepared /\ units' = units /\ chunks' = chunks
      /\ done' = done /\ cleared' = cleared /\ next_unit' = next_unit /\ completed' = completed
      /\ total' = total /\ growth' = growth /\ out' = out
      /\ delivered' = delivered /\ errors' = errors /\ batch' = n /\ batch = 0 /\ prepared
  BY DEF Next_, inputVars, planVars, genVars
<1>2. LongForm' = LongForm /\ cfg' = cfg /\ Heard' = Heard
  BY <1>1 DEF LongForm, cfg, Heard
<1>3. Types'
  <2>1. Len(out) = 0 /\ MaxBatch \in Nat
    BY <1>1, HeardType, SessionAssumption DEF IndInv, Types
  <2>2. n \in 0..MaxBatch /\ Len(out) <= n
    BY <2>1
  <2> QED BY <1>1, <2>2 DEF IndInv, Types
<1>4. Planned'
  BY <1>1, <1>2 DEF IndInv, Planned
<1>5. Positioned'
  BY <1>1, <1>2 DEF IndInv, Positioned
<1>6. AllVoiced'
  BY <1>1, <1>2 DEF IndInv, AllVoiced, Voiced
<1>7. SpokenInOrder'
  BY <1>1 DEF IndInv, SpokenInOrder
<1>8. BatchFits'
  BY <1>1, <1>2 DEF IndInv, BatchFits
<1>9. Faultless'
  BY <1>1, <1>2 DEF IndInv, Faultless
<1>10. Stuck'
  BY <1>1, <1>2 DEF IndInv, Stuck
<1> QED BY <1>3, <1>4, <1>5, <1>6, <1>7, <1>8, <1>9, <1>10 DEF IndInv

\* Inside the loop the session is prepared, and something is left to say.
LEMMA Looping ==
  ASSUME IndInv, InLoop
  PROVE  /\ Types /\ Planned /\ prepared /\ ~done /\ batch \in Nat /\ batch > 0 /\ Len(out) < batch
         /\ batch \in 0..MaxBatch
         /\ completed \in Nat /\ total \in Nat /\ next_unit \in Nat
         /\ LongForm => completed + 1 \in DOMAIN chunks /\ completed < total
<1>1. Types /\ Planned /\ Positioned
  BY DEF IndInv
<1>2. batch > 0 /\ ~done /\ Len(out) < batch /\ batch \in 0..MaxBatch /\ batch \in Nat
  BY <1>1, SessionAssumption DEF InLoop, Types
<1>3. prepared
  BY <1>1, <1>2 DEF Planned
<1>4. completed \in Nat /\ total \in Nat /\ next_unit \in Nat
  BY <1>1 DEF Types
<1>5. ASSUME LongForm
      PROVE  completed + 1 \in DOMAIN chunks /\ completed < total
  <2>1. completed < total /\ total = Len(chunks)
    BY <1>1, <1>2, <1>3, <1>4, <1>5 DEF Positioned
  <2>2. Len(chunks) \in Nat /\ DOMAIN chunks = 1..Len(chunks)
    <3>1. Plan(units, cfg, chunks) /\ units \in Seq(Units)
      BY <1>1, <1>3, <1>5, Grounded
    <3> HIDE DEF cfg
    <3> QED BY <3>1, PlanType
  <2> QED BY <1>4, <2>1, <2>2
<1> QED BY <1>1, <1>2, <1>3, <1>4, <1>5

\* The audio of a chunk joins what was heard.
LEMMA Joined ==
  ASSUME Types, NEW a \in AudioType, delivered' = delivered, out' = Append(out, a)
  PROVE  /\ Heard' = Append(Heard, a)
         /\ Len(Heard') = Len(Heard) + 1 /\ Heard'[Len(Heard) + 1] = a /\ Last(Heard') = a
         /\ Heard' # <<>> /\ DOMAIN Heard' = 1..(Len(Heard) + 1)
         /\ \A i \in 1..Len(Heard) : Heard'[i] = Heard[i]
         /\ out' \in Seq(AudioType) /\ Len(out') = Len(out) + 1 /\ out'[Len(out) + 1] = a
         /\ DOMAIN out' = 1..(Len(out) + 1) /\ Last(out') = a
         /\ \A i \in 1..Len(out) : out'[i] = out[i]
<1>1. /\ Heard \in Seq(AudioType) /\ Len(Heard) \in Nat
      /\ out \in Seq(AudioType) /\ Len(out) \in Nat /\ delivered \in Seq(AudioType)
  BY HeardType DEF Types
<1>2. Heard' = Append(Heard, a)
  BY <1>1, AppendLast DEF Heard
<1>3. /\ Append(Heard, a) \in Seq(AudioType)
      /\ Len(Append(Heard, a)) = Len(Heard) + 1 /\ Append(Heard, a)[Len(Heard) + 1] = a
      /\ \A i \in 1..Len(Heard) : Append(Heard, a)[i] = Heard[i]
  BY <1>1, AppendProperties
<1>4. /\ Append(out, a) \in Seq(AudioType)
      /\ Len(Append(out, a)) = Len(out) + 1 /\ Append(out, a)[Len(out) + 1] = a
      /\ \A i \in 1..Len(out) : Append(out, a)[i] = out[i]
  BY <1>1, AppendProperties
<1>5. DOMAIN Append(out, a) = 1..(Len(out) + 1) /\ DOMAIN Append(Heard, a) = 1..(Len(Heard) + 1)
  BY <1>3, <1>4
<1>6. Append(Heard, a) # <<>>
  <2>1. Len(Append(Heard, a)) # 0
    BY <1>1, <1>3
  <2> HIDE DEF Heard
  <2> QED BY <2>1
<1>7. Last(Append(Heard, a)) = a
  BY <1>3 DEF Last
<1>8. Last(Append(out, a)) = a
  BY <1>4 DEF Last
<1> QED BY <1>2, <1>3, <1>4, <1>5, <1>6, <1>7, <1>8

\* What is heard behind a step that adds one chunk or none.
LEMMA HeardGrows ==
  ASSUME IndInv, NEW a \in AudioType, delivered' = delivered, out' = Append(out, a),
         UNCHANGED <<setup, units, chunks>>,
         completed' \in Nat, completed <= completed',
         next_unit' \in Nat, next_unit <= next_unit',
         done => done', LongForm => total' = total,
         Voiced(a)',
         Heard # <<>> => /\ Heard[Len(Heard)].last < a.first
                         /\ Heard[Len(Heard)].index < a.index
                         /\ ~Heard[Len(Heard)].final
  PROVE  AllVoiced' /\ SpokenInOrder'
<1>1. Types
  BY DEF IndInv
<1>2. AllVoiced'
  <2> SUFFICES ASSUME NEW i \in DOMAIN Heard'
               PROVE  Voiced(Heard[i])'
    BY DEF AllVoiced
  <2>1. Len(Heard) \in Nat /\ DOMAIN Heard = 1..Len(Heard)
    BY <1>1, HeardType
  <2>2. i \in 1..(Len(Heard) + 1)
    BY <1>1, Joined
  <2>3. CASE i = Len(Heard) + 1
    <3>1. Heard'[i] = a
      BY <1>1, <2>3, Joined
    <3>2. Voiced(a)' => Voiced(Heard[i])'
      BY <3>1 DEF Voiced
    <3> QED BY <3>2
  <2>4. CASE i # Len(Heard) + 1
    <3>1. i \in DOMAIN Heard
      BY <2>1, <2>2, <2>4
    <3>2. Heard'[i] = Heard[i]
      BY <1>1, <2>1, <3>1, Joined
    <3>3. Heard[i] \in AudioType /\ Voiced(Heard[i])
      BY <1>1, <3>1, HeardType DEF IndInv, AllVoiced
    <3>4. \A x \in AudioType : Voiced(x) => Voiced(x)'
      BY <1>1, VoicedStays
    <3>5. ASSUME NEW x \in AudioType, x = Heard[i], Voiced(x)'
          PROVE  Voiced(Heard[i])'
      <4>1. Heard'[i] = x
        BY <3>2, <3>5
      <4> QED BY <3>5, <4>1 DEF Voiced
    <3>6. \A x \in AudioType : x = Heard[i] => Voiced(x)
      BY <3>3
    <3> QED BY <3>3, <3>4, <3>5, <3>6
  <2> QED BY <2>3, <2>4
<1>3. SpokenInOrder'
  <2>1. Ordered(Heard) /\ Heard \in Seq(AudioType)
    BY <1>1, SpokenIs, HeardType DEF IndInv
  <2>2. Ordered(Append(Heard, a))
    BY <2>1, OrderedGrows
  <2>3. Heard' = Append(Heard, a)
    BY <1>1, Joined
  <2>4. Ordered(Heard')
    BY <2>2, <2>3
  <2>5. SpokenInOrder' <=> Ordered(Heard')
    BY DEF SpokenInOrder, Ordered, Heard
  <2> QED BY <2>4, <2>5
<1> QED BY <1>2, <1>3

\* What is heard behind a step that loses the batch.
LEMMA HeardShrinks ==
  ASSUME IndInv, delivered' = delivered, out' = <<>>,
         UNCHANGED <<setup, units, chunks>>,
         completed' \in Nat, completed <= completed',
         next_unit' \in Nat, next_unit <= next_unit',
         done => done', LongForm => total' = total
  PROVE  /\ AllVoiced' /\ SpokenInOrder' /\ BatchFits'
         /\ DOMAIN Heard' \subseteq DOMAIN Heard /\ \A i \in DOMAIN Heard' : Heard'[i] = Heard[i]
<1>1. Types /\ delivered \in Seq(AudioType) /\ out \in Seq(AudioType)
  BY DEF IndInv, Types
<1>2. Heard' = delivered
  BY <1>1 DEF Heard
<1>3. DOMAIN Heard' \subseteq DOMAIN Heard /\ \A i \in DOMAIN Heard' : Heard'[i] = Heard[i]
  BY <1>1, <1>2, HeardType
<1>4. AllVoiced'
  <2> SUFFICES ASSUME NEW i \in DOMAIN Heard'
               PROVE  Voiced(Heard[i])'
    BY DEF AllVoiced
  <2>1. i \in DOMAIN Heard /\ Heard'[i] = Heard[i]
    BY <1>3
  <2>2. Heard[i] \in AudioType /\ Voiced(Heard[i])
    BY <1>1, <2>1, HeardType DEF IndInv, AllVoiced
  <2>3. \A x \in AudioType : Voiced(x) => Voiced(x)'
    BY <1>1, VoicedStays
  <2>4. ASSUME NEW x \in AudioType, x = Heard[i], Voiced(x)'
        PROVE  Voiced(Heard[i])'
    <3>1. Heard'[i] = x
      BY <2>1, <2>4
    <3> QED BY <2>4, <3>1 DEF Voiced
  <2>5. \A x \in AudioType : x = Heard[i] => Voiced(x)
    BY <2>2
  <2> QED BY <2>2, <2>3, <2>4, <2>5
<1>5. SpokenInOrder'
  <2>1. Ordered(delivered \o out)
    BY SpokenIs DEF IndInv, Heard
  <2>2. Ordered(Heard')
    BY <1>1, <1>2, <2>1, OrderedFront
  <2>3. SpokenInOrder' <=> Ordered(Heard')
    BY DEF SpokenInOrder, Ordered, Heard
  <2> QED BY <2>2, <2>3
<1>6. BatchFits'
  BY DEF BatchFits
<1> QED BY <1>3, <1>4, <1>5, <1>6

\* The fields of a chunk's audio.
LEMMA AudioIs ==
  ASSUME NEW c, NEW f
  PROVE  /\ Audio(c, f).index = completed /\ Audio(c, f).first = c.first
         /\ Audio(c, f).last = c.last /\ Audio(c, f).final = f
         /\ completed \in Nat /\ c.first \in Nat /\ c.last \in Nat /\ f \in BOOLEAN
              => Audio(c, f) \in AudioType
BY DEF Audio, AudioType

\* The plan's next chunk follows all that was heard.
LEMMA LongStep ==
  ASSUME IndInv, GenerateLong
  PROVE  IndInv'
<1> DEFINE k == completed + 1
           c == chunks[k]
           f == k = total
<1>1. /\ Types /\ Planned /\ prepared /\ ~done /\ Len(out) < batch /\ batch \in Nat
      /\ completed \in Nat /\ total \in Nat /\ next_unit \in Nat
      /\ LongForm /\ k \in DOMAIN chunks /\ completed < total
  BY Looping DEF GenerateLong
<1>2. /\ setup' = setup /\ pieces' = pieces /\ input_finished' = input_finished /\ started' = started
      /\ prepared' = prepared /\ units' = units /\ chunks' = chunks
      /\ next_unit' = next_unit /\ total' = total /\ growth' = growth
      /\ batch' = batch /\ delivered' = delivered /\ errors' = errors
      /\ completed' = k /\ done' = f /\ out' = Append(out, Audio(c, f))
      /\ cleared' = cleared \cup {k} /\ k \notin cleared
  BY DEF GenerateLong, Release, Emit, inputVars, planVars
<1>3. LongForm' /\ cfg' = cfg
  BY <1>1, <1>2 DEF LongForm, cfg
<1>4. /\ Plan(units, cfg, chunks) /\ units \in Seq(Units)
      /\ Len(chunks) \in Nat /\ DOMAIN chunks = 1..Len(chunks) /\ total = Len(chunks)
  <2>1. Plan(units, cfg, chunks) /\ units \in Seq(Units) /\ total = Len(chunks)
    BY <1>1, Grounded DEF IndInv, Positioned
  <2>2. Len(chunks) \in Nat /\ DOMAIN chunks = 1..Len(chunks)
    <3> HIDE DEF cfg
    <3> QED BY <2>1, PlanType
  <2> QED BY <2>1, <2>2
<1>5. Sound(units, cfg, c) /\ c.first \in Nat /\ c.last \in Nat
  <2>1. IsRun(c, Len(units)) /\ Sound(units, cfg, c) /\ Len(units) \in Nat
    <3> HIDE DEF cfg
    <3> QED BY <1>1, <1>4, PlanType
  <2> QED BY <2>1 DEF IsRun
<1>6. \E a \in AudioType :
        /\ a = Audio(c, f)
        /\ a.index = completed /\ a.first = c.first /\ a.last = c.last /\ a.final = f
  <2> HIDE DEF c, f
  <2>1. f \in BOOLEAN
    BY DEF f
  <2> QED BY <1>1, <1>5, <2>1, AudioIs
<1>21. PICK a \in AudioType :
        /\ a = Audio(c, f)
        /\ a.index = completed /\ a.first = c.first /\ a.last = c.last /\ a.final = f
  BY <1>6
<1>7. a.index + 1 = k /\ completed < k /\ k \in Nat /\ out' = Append(out, a)
  BY <1>1, <1>2, <1>21
<1>8. Sound(units, cfg, a)
  BY <1>5, <1>21, SameRun
<1>9. Voiced(a)'
  <2>1. Sound(units', cfg', a)
    BY <1>2, <1>3, <1>8
  <2>2. a.index < completed' /\ (a.final => done')
    BY <1>2, <1>21, <1>7
  <2>3. /\ a.first = chunks'[a.index + 1].first /\ a.last = chunks'[a.index + 1].last
        /\ a.final <=> a.index + 1 = total'
    BY <1>2, <1>21, <1>7
  <2> QED BY <1>3, <2>1, <2>2, <2>3 DEF Voiced
<1> DEFINE n == Len(Heard)
           h == Heard[n]
<1>10. n \in Nat /\ DOMAIN Heard = 1..n /\ Heard \in Seq(AudioType)
  BY <1>1, HeardType
<1>11. ASSUME Heard # <<>>
       PROVE  h.last < a.first /\ h.index < a.index /\ ~h.final
  <2>1. n \in DOMAIN Heard /\ Heard[n] \in AudioType
    BY <1>1, <1>10, <1>11, HeardType
  <2>2. Voiced(h) /\ h.index \in Nat
    BY <2>1 DEF IndInv, AllVoiced, AudioType
  <2>3. h.index < completed /\ ~h.final /\ h.last = chunks[h.index + 1].last
    BY <1>1, <2>2 DEF Voiced
  <2>4. h.index + 1 \in 1..Len(chunks) /\ h.index + 1 < k
    BY <1>1, <1>4, <2>2, <2>3
  <2>5. chunks[h.index + 1].last < chunks[k].first
    <3> HIDE DEF cfg, h, k
    <3> QED BY <1>1, <1>4, <2>4, PlanOrder
  <2> QED BY <1>21, <2>3, <2>5
<1>12. AllVoiced' /\ SpokenInOrder'
  <2> HIDE DEF k, f, n
  <2>1. completed' \in Nat /\ completed <= completed' /\ next_unit' \in Nat /\ next_unit <= next_unit'
    BY <1>1, <1>2, <1>7
  <2> QED BY <1>1, <1>2, <1>7, <1>9, <1>11, <2>1, HeardGrows DEF n
<1>13. /\ Heard' # <<>> /\ Len(Heard') = n + 1 /\ Heard'[n + 1] = a /\ Last(Heard') = a
       /\ DOMAIN Heard' = 1..(n + 1) /\ \A i \in 1..n : Heard'[i] = Heard[i]
       /\ out' \in Seq(AudioType) /\ Len(out') = Len(out) + 1
  BY <1>1, <1>2, <1>7, Joined
<1>14. Types'
  <2>1. Len(out') <= batch
    BY <1>1, <1>13, HeardType
  <2>2. /\ setup' \in Setups /\ pieces' \in 0..MaxPieces
        /\ {input_finished', started', prepared', done'} \subseteq BOOLEAN
        /\ batch' \in 0..MaxBatch /\ delivered' \in Seq(AudioType)
    BY <1>1, <1>2 DEF Types
  <2> QED BY <1>1, <1>2, <1>7, <1>13, <2>1, <2>2 DEF Types
<1>15. Planned'
  BY <1>1, <1>2, <1>3 DEF Planned
<1>16. Positioned'
  <2>1. cleared' \subseteq DOMAIN chunks'
    BY <1>1, <1>2 DEF IndInv, Positioned
  <2>2. next_unit' = 1 /\ growth' = 0 /\ total' = Len(chunks')
    BY <1>1, <1>2 DEF IndInv, Positioned
  <2>3. completed' <= total'
    BY <1>1, <1>2
  <2>4. done' <=> completed' = total'
    BY <1>2
  <2> QED BY <1>3, <2>1, <2>2, <2>3, <2>4 DEF Positioned
<1>17. BatchFits'
  BY <1>3 DEF BatchFits
<1>18. ASSUME \A i \in DOMAIN Heard : Heard[i].index = i - 1, n = completed
       PROVE  Len(Heard') = completed' /\ \A i \in DOMAIN Heard' : Heard'[i].index = i - 1
  <2> HIDE DEF n
  <2>1. ASSUME NEW i \in 1..(n + 1)
        PROVE  Heard'[i].index = i - 1
    <3>1. CASE i = n + 1
      BY <1>21, <1>10, <1>13, <1>18, <3>1
    <3>2. CASE i # n + 1
      BY <1>10, <1>13, <1>18, <3>2
    <3> QED BY <3>1, <3>2
  <2> QED BY <1>2, <1>13, <1>18, <2>1
<1>19. Faultless'
  <2> SUFFICES ASSUME errors = {}
               PROVE  /\ Len(Heard') = completed'
                      /\ \A i \in DOMAIN Heard' : Heard'[i].index = i - 1
                      /\ done' => Last(Heard').final
    BY <1>2, <1>3, <1>13 DEF Faultless
  <2>1. Len(Heard') = completed' /\ \A i \in DOMAIN Heard' : Heard'[i].index = i - 1
    BY <1>18 DEF IndInv, Faultless
  <2>2. done' => Last(Heard').final
    BY <1>2, <1>21, <1>13
  <2> QED BY <2>1, <2>2
<1>20. Stuck'
  <2> SUFFICES ASSUME "dropped" \notin errors
               PROVE  /\ \A i \in DOMAIN Heard' : Heard'[i].index = i - 1
                      /\ "inference" \notin errors /\ Len(Heard') = completed'
    BY <1>2 DEF Stuck
  <2>1. "inference" \notin errors
    BY <1>1, <1>2 DEF IndInv, Stuck
  <2>2. Len(Heard') = completed' /\ \A i \in DOMAIN Heard' : Heard'[i].index = i - 1
    BY <1>1, <1>18, <2>1 DEF IndInv, Stuck
  <2> QED BY <2>1, <2>2
<1> QED BY <1>12, <1>14, <1>15, <1>16, <1>17, <1>19, <1>20 DEF IndInv

\* A chunk the controller's target gives begins at the position.
LEMMA NextChunkSound ==
  ASSUME IndInv, InLoop, ~LongForm, next_unit <= Len(units), NEW c \in NextChunks
  PROVE  /\ Sound(units, cfg, c) /\ c.first = next_unit
         /\ c.last # Len(units) => ~AbsorbsTail(units, cfg, completed = 0, c)
         /\ c.first \in Nat /\ c.last \in Nat /\ c.first <= c.last /\ c.last <= Len(units)
         /\ completed + 1 <= c.first /\ Len(units) \in Nat
<1>1. /\ Types /\ Planned /\ prepared /\ completed \in Nat /\ next_unit \in Nat
      /\ WellFormed(cfg) /\ units \in Seq(Units) /\ Len(units) \in Nat
  BY Looping, Grounded
<1>2. next_unit \in 1..Len(units) /\ completed < next_unit
  BY <1>1 DEF IndInv, Positioned
<1>3. PICK goal : c = BuildAdaptative(units, next_unit, cfg, goal, completed = 0)
  BY DEF NextChunks
<1>4. /\ Sound(units, cfg, c) /\ c.first = next_unit
      /\ c.last # Len(units) => ~AbsorbsTail(units, cfg, completed = 0, c)
  <2> HIDE DEF cfg
  <2> QED BY <1>1, <1>2, <1>3, BuildSound
<1>5. c.first \in Nat /\ c.last \in Nat /\ c.first <= c.last /\ c.last <= Len(units)
  BY <1>1, <1>4 DEF Sound, IsRun
<1> QED BY <1>1, <1>2, <1>4, <1>5

\* The feedback keeps the cap between the budgets.
LEMMA ObserveBounds ==
  ASSUME NEW b, WellFormed(b), NEW g \in b.target_min..b.soft_max, NEW step \in Nat,
         NEW x \in Observe(b, g, step)
  PROVE  x \in b.target_min..b.soft_max
<1>1. b.target_min \in Nat /\ b.soft_max \in Nat /\ b.target_min <= b.soft_max /\ g \in Nat
  BY DEF WellFormed
<1>2. /\ g \div 2 \in Nat /\ g \div 2 <= g /\ step \div 2 \in Nat
      /\ g + step \in Nat /\ g + step \div 2 \in Nat /\ g <= g + step /\ g <= g + step \div 2
  BY <1>1
<1>3. x = Max({b.target_min, g \div 2}) => x \in b.target_min..b.soft_max
  <2> DEFINE y == g \div 2
  <2>1. b.target_min \in Int /\ y \in Int
    BY <1>1, <1>2
  <2> HIDE DEF y
  <2>2. Max({b.target_min, y}) \in {b.target_min, y}
        /\ b.target_min <= Max({b.target_min, y})
    BY <2>1, TwoNumbers
  <2> QED BY <1>1, <1>2, <2>2 DEF y
<1>4. x = Min({b.soft_max, g + step}) => x \in b.target_min..b.soft_max
  <2> DEFINE y == g + step
  <2>1. b.soft_max \in Int /\ y \in Int
    BY <1>1, <1>2
  <2> HIDE DEF y
  <2>2. Min({b.soft_max, y}) \in {b.soft_max, y}
        /\ Min({b.soft_max, y}) <= b.soft_max
    BY <2>1, TwoNumbers
  <2> QED BY <1>1, <1>2, <2>2 DEF y
<1>5. x = Min({b.soft_max, g + step \div 2}) => x \in b.target_min..b.soft_max
  <2> DEFINE y == g + step \div 2
  <2>1. b.soft_max \in Int /\ y \in Int
    BY <1>1, <1>2
  <2> HIDE DEF y
  <2>2. Min({b.soft_max, y}) \in {b.soft_max, y}
        /\ Min({b.soft_max, y}) <= b.soft_max
    BY <2>1, TwoNumbers
  <2> QED BY <1>1, <1>2, <2>2 DEF y
<1> QED BY <1>3, <1>4, <1>5 DEF Observe

\* A chunk at the position follows all that was heard, and the last of the batch.
LEMMA AdaptativeStep ==
  ASSUME IndInv, GenerateAdaptative
  PROVE  IndInv'
<1>1. /\ Types /\ Planned /\ prepared /\ ~done /\ Len(out) < batch /\ batch \in Nat
      /\ completed \in Nat /\ total \in Nat /\ next_unit \in Nat
      /\ ~LongForm /\ InLoop /\ next_unit <= Len(units)
  BY Looping DEF GenerateAdaptative
<1>2. /\ setup' = setup /\ pieces' = pieces /\ input_finished' = input_finished /\ started' = started
      /\ prepared' = prepared /\ units' = units /\ chunks' = chunks /\ cleared' = cleared
      /\ growth' \in IF completed = 0 /\ cfg.first_max > 0 THEN {growth}
                     ELSE Observe(cfg, growth, GrowStep)
  BY DEF GenerateAdaptative, inputVars, planVars
<1>3. PICK c \in NextChunks :
         /\ Advance(c)
         /\ Emit(c, IsLast(c))
         /\ total' = IF IsLast(c) THEN completed + 1 ELSE total
  BY DEF GenerateAdaptative
<1> DEFINE f == c.last = Len(units)
<1>4. /\ batch' = batch /\ delivered' = delivered /\ errors' = errors
      /\ completed' = completed + 1 /\ done' = f /\ out' = Append(out, Audio(c, f))
      /\ next_unit' = c.last + 1 /\ total' = IF f THEN completed + 1 ELSE total
  BY <1>3 DEF Emit, Advance, IsLast
<1>5. ~LongForm' /\ cfg' = cfg
  BY <1>1, <1>2 DEF LongForm, cfg
<1>6. /\ Sound(units, cfg, c) /\ c.first = next_unit
      /\ c.last # Len(units) => ~AbsorbsTail(units, cfg, completed = 0, c)
      /\ c.first \in Nat /\ c.last \in Nat /\ c.first <= c.last /\ c.last <= Len(units)
      /\ completed + 1 <= c.first /\ Len(units) \in Nat
  BY <1>1, NextChunkSound
<1>7. \E a \in AudioType :
        /\ a = Audio(c, f)
        /\ a.index = completed /\ a.first = c.first /\ a.last = c.last /\ a.final = f
  <2> HIDE DEF f
  <2>1. f \in BOOLEAN
    BY DEF f
  <2> QED BY <1>1, <1>6, <2>1, AudioIs
<1>8. PICK a \in AudioType :
        /\ a = Audio(c, f)
        /\ a.index = completed /\ a.first = c.first /\ a.last = c.last /\ a.final = f
  BY <1>7
<1>9. out' = Append(out, a)
  BY <1>4, <1>8
<1>10. Sound(units, cfg, a)
  BY <1>6, <1>8, SameRun
<1>11. a.last # Len(units) => ~AbsorbsTail(units, cfg, a.index = 0, a)
  <2>1. AbsorbsTail(units, cfg, completed = 0, a) <=> AbsorbsTail(units, cfg, completed = 0, c)
    BY <1>8, SameRun
  <2>2. (a.index = 0) = (completed = 0)
    BY <1>8
  <2> QED BY <1>6, <1>8, <2>1, <2>2
<1>12. Voiced(a)'
  <2>1. Sound(units', cfg', a)
    BY <1>2, <1>5, <1>10
  <2>2. a.index < completed' /\ a.last < next_unit'
    BY <1>1, <1>4, <1>6, <1>8
  <2>3. (a.final => done') /\ (a.final <=> a.last = Len(units'))
    BY <1>2, <1>4, <1>8
  <2> QED BY <1>5, <2>1, <2>2, <2>3 DEF Voiced
<1> DEFINE n == Len(Heard)
           h == Heard[n]
<1>13. n \in Nat /\ DOMAIN Heard = 1..n /\ Heard \in Seq(AudioType)
  BY <1>1, HeardType
<1>14. ASSUME Heard # <<>>
       PROVE  h.last < a.first /\ h.index < a.index /\ ~h.final
  <2>1. n \in DOMAIN Heard
    BY <1>13, <1>14
  <2>2. Voiced(h)
    BY <2>1 DEF IndInv, AllVoiced
  <2> QED BY <1>1, <1>6, <1>8, <2>2 DEF Voiced
<1>15. AllVoiced' /\ SpokenInOrder'
  <2>1. completed' \in Nat /\ completed <= completed' /\ next_unit' \in Nat /\ next_unit <= next_unit'
    BY <1>1, <1>4, <1>6
  <2> QED BY <1>1, <1>2, <1>4, <1>9, <1>12, <1>14, <2>1, HeardGrows
<1>16. /\ Heard' # <<>> /\ Len(Heard') = n + 1 /\ Heard'[n + 1] = a /\ Last(Heard') = a
       /\ DOMAIN Heard' = 1..(n + 1) /\ \A i \in 1..n : Heard'[i] = Heard[i]
       /\ out' \in Seq(AudioType) /\ Len(out') = Len(out) + 1 /\ out'[Len(out) + 1] = a
       /\ DOMAIN out' = 1..(Len(out) + 1) /\ Last(out') = a
       /\ \A i \in 1..Len(out) : out'[i] = out[i]
  BY <1>1, <1>4, <1>9, Joined
<1>17. Types'
  <2>1. Len(out') <= batch
    BY <1>1, <1>16, HeardType
  <2>2. /\ setup' \in Setups /\ pieces' \in 0..MaxPieces
        /\ {input_finished', started', prepared', done'} \subseteq BOOLEAN
        /\ batch' \in 0..MaxBatch /\ delivered' \in Seq(AudioType)
    BY <1>1, <1>2, <1>4 DEF Types
  <2>3. completed' \in Nat /\ total' \in Nat /\ next_unit' \in Nat
    BY <1>1, <1>4, <1>6
  <2> QED BY <1>4, <1>16, <2>1, <2>2, <2>3 DEF Types
<1>18. Planned'
  BY <1>1, <1>2, <1>5 DEF Planned
<1>19. Positioned'
  <2>1. cleared' \subseteq DOMAIN chunks'
    BY <1>2 DEF IndInv, Positioned
  <2>2. next_unit' \in 1..(Len(units') + 1) /\ completed' < next_unit'
    BY <1>1, <1>2, <1>4, <1>6
  <2>3. total' <= Len(units')
    <3>1. total <= Len(units) /\ completed + 1 <= Len(units)
      BY <1>1, <1>6 DEF IndInv, Positioned
    <3> QED BY <1>2, <1>4, <3>1
  <2>4. growth' \in cfg'.target_min..cfg'.soft_max
    <3>1. growth \in cfg.target_min..cfg.soft_max /\ WellFormed(cfg) /\ GrowStep \in Nat
      BY <1>1, Grounded, SessionAssumption DEF IndInv, Positioned
    <3>2. growth' \in Observe(cfg, growth, GrowStep) => growth' \in cfg.target_min..cfg.soft_max
      <4> HIDE DEF cfg
      <4> QED BY <3>1, ObserveBounds
    <3> QED BY <1>2, <1>5, <3>1, <3>2
  <2> QED BY <1>5, <2>1, <2>2, <2>3, <2>4 DEF Positioned
<1>20. BatchFits'
  <2> DEFINE m == Len(out)
  <2>1. m \in Nat /\ DOMAIN out = 1..m
    BY <1>1, HeardType
  <2>2. ASSUME NEW k \in 1..(m + 1)
        PROVE  /\ out'[k].last # Len(units) => ~AbsorbsTail(units, cfg, out'[k].index = 0, out'[k])
               /\ k # 1 => out'[k].first = out'[k - 1].last + 1
    <3>1. CASE k = m + 1
      <4>1. out'[k] = a
        BY <1>16, <3>1
      <4>2. ASSUME k # 1
            PROVE  a.first = out'[k - 1].last + 1
        <5>1. k - 1 = m /\ m \in 1..m /\ out # <<>> /\ out'[m] = out[m]
          BY <1>16, <2>1, <3>1, <4>2
        <5>2. Last(out).last + 1 = next_unit /\ Last(out) = out[m]
          BY <1>1, <5>1 DEF IndInv, BatchFits, Last
        <5> QED BY <1>6, <1>8, <5>1, <5>2
      <4> QED BY <1>11, <4>1, <4>2
    <3>2. CASE k # m + 1
      <4>1. k \in 1..m /\ (k # 1 => k - 1 \in 1..m)
        BY <2>1, <3>2
      <4>2. out'[k] = out[k] /\ (k # 1 => out'[k - 1] = out[k - 1])
        BY <1>16, <4>1
      <4>3. /\ out[k].last # Len(units) => ~AbsorbsTail(units, cfg, out[k].index = 0, out[k])
            /\ k # 1 => out[k].first = out[k - 1].last + 1
        BY <1>1, <2>1, <4>1 DEF IndInv, BatchFits
      <4> QED BY <4>2, <4>3
    <3> QED BY <3>1, <3>2
  <2>3. Last(out').last + 1 = next_unit'
    BY <1>4, <1>8, <1>16
  <2> QED BY <1>2, <1>5, <1>16, <2>2, <2>3 DEF BatchFits
<1>21. Faultless'
  <2> SUFFICES ASSUME errors = {}
               PROVE  /\ Len(Heard') = completed'
                      /\ \A i \in DOMAIN Heard' : Heard'[i].index = i - 1
                      /\ Consecutive(Heard', 1)
                      /\ next_unit' = Last(Heard').last + 1
                      /\ done' => total' = completed'
                      /\ done' => Last(Heard').final
    BY <1>4, <1>5, <1>16 DEF Faultless, Consecutive
  <2>1. /\ n = completed /\ \A i \in DOMAIN Heard : Heard[i].index = i - 1
        /\ Consecutive(Heard, 1)
        /\ next_unit = IF Heard = <<>> THEN 1 ELSE Last(Heard).last + 1
    BY <1>1 DEF IndInv, Faultless
  <2>2. Heard = <<>> => n = 0
    OBVIOUS
  <2>3. ASSUME NEW i \in 1..(n + 1)
        PROVE  /\ Heard'[i].index = i - 1
               /\ Heard'[i].first = IF i = 1 THEN 1 ELSE Heard'[i - 1].last + 1
    <3>1. CASE i = n + 1
      <4>1. Heard'[i] = a /\ a.index = i - 1
        <5> HIDE DEF n
        <5> QED BY <1>8, <1>13, <1>16, <2>1, <3>1
      <4>2. CASE i = 1
        <5>1. n = 0
          <6> HIDE DEF n
          <6> QED BY <1>13, <3>1, <4>2
        <5>2. Heard = <<>>
          BY <1>13, <5>1
        <5> QED BY <1>6, <1>8, <2>1, <4>1, <4>2, <5>2
      <4>3. CASE i # 1
        <5>1. i - 1 = n /\ n \in 1..n
          <6> HIDE DEF n
          <6> QED BY <1>13, <3>1, <4>3
        <5>2. Heard # <<>> /\ Last(Heard) = Heard[n] /\ Heard'[n] = Heard[n]
          BY <1>13, <1>16, <5>1 DEF Last
        <5> HIDE DEF n
        <5> QED BY <1>6, <1>8, <2>1, <4>1, <4>3, <5>1, <5>2
      <4> QED BY <4>1, <4>2, <4>3
    <3>2. CASE i # n + 1
      <4>1. i \in 1..n /\ (i # 1 => i - 1 \in 1..n)
        <5> HIDE DEF n
        <5> QED BY <1>13, <3>2
      <4>2. Heard'[i] = Heard[i] /\ (i # 1 => Heard'[i - 1] = Heard[i - 1])
        BY <1>16, <4>1
      <4>3. Heard[i].index = i - 1 /\ Heard[i].first = IF i = 1 THEN 1 ELSE Heard[i - 1].last + 1
        BY <1>13, <2>1, <4>1 DEF Consecutive
      <4> QED BY <4>2, <4>3
    <3> QED BY <3>1, <3>2
  <2>4. Consecutive(Heard', 1) /\ \A i \in DOMAIN Heard' : Heard'[i].index = i - 1
    BY <1>16, <2>3 DEF Consecutive
  <2>5. Len(Heard') = completed' /\ next_unit' = Last(Heard').last + 1
    BY <1>4, <1>8, <1>16, <2>1
  <2>6. done' => total' = completed' /\ Last(Heard').final
    BY <1>4, <1>8, <1>16
  <2> QED BY <2>4, <2>5, <2>6
<1>22. Stuck'
  BY <1>5 DEF Stuck
<1> QED BY <1>15, <1>17, <1>18, <1>19, <1>20, <1>21, <1>22 DEF IndInv

\* A call that fails loses what it had generated, and is remembered.
LEMMA FailStep ==
  ASSUME IndInv, UNCHANGED <<inputVars, planVars>>,
         batch' = 0, out' = <<>>, delivered' = delivered, errors' # {}, errors \subseteq errors',
         done' = done, completed' = completed, growth' = growth,
         total' \in Nat, next_unit' \in Nat, next_unit <= next_unit',
         LongForm => total' = total /\ next_unit' = next_unit,
         ~LongForm => next_unit' <= Len(units) + 1 /\ total' <= Len(units),
         cleared' \subseteq DOMAIN chunks, cleared \subseteq cleared',
         LongForm /\ "dropped" \notin errors' => completed + 1 \in cleared' /\ "inference" \in errors',
         prepared
  PROVE  IndInv'
<1>1. /\ setup' = setup /\ pieces' = pieces /\ input_finished' = input_finished /\ started' = started
      /\ prepared' = prepared /\ units' = units /\ chunks' = chunks
  BY DEF inputVars, planVars
<1>2. LongForm' = LongForm /\ cfg' = cfg
  BY <1>1 DEF LongForm, cfg
<1>3. Types /\ completed \in Nat /\ next_unit \in Nat /\ total \in Nat /\ Len(units) \in Nat
  BY Grounded DEF IndInv, Types
<1>4. /\ AllVoiced' /\ SpokenInOrder' /\ BatchFits'
      /\ DOMAIN Heard' \subseteq DOMAIN Heard /\ \A i \in DOMAIN Heard' : Heard'[i] = Heard[i]
  BY <1>1, <1>3, HeardShrinks
<1>5. Types'
  <2>1. batch' \in 0..MaxBatch
    BY SessionAssumption
  <2>2. out' \in Seq(AudioType) /\ Len(out') <= batch'
    OBVIOUS
  <2> QED BY <1>1, <1>3, <2>1, <2>2 DEF Types
<1>6. Planned'
  BY <1>1, <1>2 DEF IndInv, Planned
<1>7. Positioned'
  <2>1. CASE LongForm
    BY <1>1, <1>2, <2>1 DEF IndInv, Positioned
  <2>2. CASE ~LongForm
    <3>1. /\ next_unit \in 1..(Len(units) + 1) /\ completed < next_unit
          /\ growth \in cfg.target_min..cfg.soft_max
      BY <2>2 DEF IndInv, Positioned
    <3>2. next_unit' \in 1..(Len(units) + 1) /\ completed < next_unit'
      BY <1>3, <2>2, <3>1
    <3> QED BY <1>1, <1>2, <2>2, <3>1, <3>2 DEF Positioned
  <2> QED BY <2>1, <2>2
<1>8. Faultless'
  BY DEF Faultless
<1>9. Stuck'
  <2> SUFFICES ASSUME LongForm, "dropped" \notin errors'
               PROVE  /\ \A i \in DOMAIN Heard' : Heard'[i].index = i - 1
                      /\ "inference" \in errors' /\ completed' + 1 \in cleared'
    BY <1>2 DEF Stuck
  <2>1. \A i \in DOMAIN Heard : Heard[i].index = i - 1
    BY DEF IndInv, Stuck
  <2> QED BY <1>4, <2>1
<1> QED BY <1>4, <1>5, <1>6, <1>7, <1>8, <1>9 DEF IndInv

\* A chunk of the plan that failed was released, so the session is stuck.
LEMMA LongFailsStep ==
  ASSUME IndInv, GenerateLongFails
  PROVE  IndInv'
<1>1. /\ prepared /\ LongForm /\ completed + 1 \in DOMAIN chunks
      /\ total \in Nat /\ next_unit \in Nat
  BY Looping DEF GenerateLongFails
<1>2. /\ done' = done /\ next_unit' = next_unit /\ completed' = completed /\ total' = total
      /\ growth' = growth /\ batch' = 0 /\ out' = <<>> /\ delivered' = delivered
      /\ errors' = errors \cup {"inference"} /\ cleared' = cleared \cup {completed + 1}
      /\ UNCHANGED <<inputVars, planVars>>
  BY DEF GenerateLongFails, Fail, Release
<1>3. cleared \subseteq DOMAIN chunks
  BY DEF IndInv, Positioned
<1>4. cleared' \subseteq DOMAIN chunks /\ cleared \subseteq cleared' /\ completed + 1 \in cleared'
  BY <1>1, <1>2, <1>3
<1>5. errors' # {} /\ errors \subseteq errors' /\ "inference" \in errors'
  BY <1>2
<1>6. next_unit <= next_unit'
  BY <1>1, <1>2
<1> QED BY <1>1, <1>2, <1>4, <1>5, <1>6, FailStep

\* The position moves past a chunk that failed.
LEMMA AdaptativeFailsStep ==
  ASSUME IndInv, GenerateAdaptativeFails
  PROVE  IndInv'
<1>1. /\ prepared /\ ~LongForm /\ completed \in Nat /\ total \in Nat /\ next_unit \in Nat
      /\ InLoop /\ next_unit <= Len(units)
  BY Looping DEF GenerateAdaptativeFails
<1>2. PICK c \in NextChunks :
         /\ Advance(c)
         /\ total' \in {total} \cup IF IsLast(c) THEN {completed + 1} ELSE {}
  BY DEF GenerateAdaptativeFails
<1>3. /\ done' = done /\ cleared' = cleared /\ completed' = completed
      /\ growth' = growth /\ batch' = 0 /\ out' = <<>> /\ delivered' = delivered
      /\ errors' = errors \cup {"inference"}
      /\ UNCHANGED <<inputVars, planVars>>
  BY DEF GenerateAdaptativeFails, Fail
<1>4. next_unit' = c.last + 1 /\ (total' = total \/ total' = completed + 1)
  BY <1>2 DEF Advance
<1>5. /\ c.first = next_unit /\ c.first \in Nat /\ c.last \in Nat /\ c.first <= c.last
      /\ c.last <= Len(units) /\ completed + 1 <= c.first /\ Len(units) \in Nat
  BY <1>1, NextChunkSound
<1>6. /\ next_unit' \in Nat /\ next_unit <= next_unit' /\ next_unit' <= Len(units) + 1
  BY <1>1, <1>4, <1>5
<1>7. total' \in Nat /\ total' <= Len(units)
  <2>1. total <= Len(units) /\ completed + 1 <= Len(units)
    BY <1>1, <1>5 DEF IndInv, Positioned
  <2> QED BY <1>1, <1>4, <2>1
<1>8. cleared' \subseteq DOMAIN chunks /\ cleared \subseteq cleared'
  BY <1>3 DEF IndInv, Positioned
<1>9. errors' # {} /\ errors \subseteq errors'
  BY <1>3
<1> QED BY <1>1, <1>3, <1>6, <1>7, <1>8, <1>9, FailStep

\* A call that throws before it has counted a chunk changes nothing else.
LEMMA ThrowsEmptyStep ==
  ASSUME IndInv, Throws, out = <<>>
  PROVE  IndInv'
<1>1. /\ setup' = setup /\ pieces' = pieces /\ input_finished' = input_finished /\ started' = started
      /\ prepared' = prepared /\ units' = units /\ chunks' = chunks
      /\ done' = done /\ cleared' = cleared /\ next_unit' = next_unit /\ completed' = completed
      /\ total' = total /\ growth' = growth /\ out' = out /\ delivered' = delivered
      /\ errors' = errors \cup {"thrown"} /\ batch' = 0 /\ batch # 0
  <2>1. batch # 0
    BY DEF Throws, InLoop, IndInv, Types
  <2> QED BY <2>1 DEF Throws, Fail, inputVars, planVars, genVars
<1>2. LongForm' = LongForm /\ cfg' = cfg /\ Heard' = Heard
  BY <1>1 DEF LongForm, cfg, Heard
<1>3. Types'
  <2>1. Len(out) = 0 /\ MaxBatch \in Nat
    BY SessionAssumption
  <2>2. 0 \in 0..MaxBatch /\ Len(out) <= 0
    BY <2>1
  <2> QED BY <1>1, <2>2 DEF IndInv, Types
<1>4. Planned'
  BY <1>1, <1>2 DEF IndInv, Planned
<1>5. Positioned'
  BY <1>1, <1>2 DEF IndInv, Positioned
<1>6. AllVoiced'
  BY <1>1, <1>2 DEF IndInv, AllVoiced, Voiced
<1>7. SpokenInOrder'
  BY <1>1 DEF IndInv, SpokenInOrder
<1>8. BatchFits'
  BY <1>1, <1>2 DEF IndInv, BatchFits
<1>9. Faultless'
  BY <1>1 DEF Faultless
<1>10. Stuck'
  <2>1. "dropped" \in errors' <=> "dropped" \in errors
    BY <1>1
  <2>2. "inference" \in errors' <=> "inference" \in errors
    BY <1>1
  <2> QED BY <1>1, <1>2, <2>1, <2>2 DEF IndInv, Stuck
<1> QED BY <1>3, <1>4, <1>5, <1>6, <1>7, <1>8, <1>9, <1>10 DEF IndInv

\* A call that throws, or whose copy fails, loses the batch it has counted.
LEMMA ThrowsDroppedStep ==
  ASSUME IndInv, Throws, out # <<>>
  PROVE  IndInv'
<1>1. Types /\ Planned /\ Positioned
  BY DEF IndInv
<1>2. /\ done' = done /\ next_unit' = next_unit /\ completed' = completed /\ total' = total
      /\ growth' = growth /\ cleared' = cleared
      /\ batch' = 0 /\ out' = <<>> /\ delivered' = delivered
      /\ errors' = errors \cup {"dropped"} /\ UNCHANGED <<inputVars, planVars>>
  BY DEF Throws, Fail, genVars
<1>3. prepared /\ total \in Nat /\ next_unit \in Nat /\ Len(units) \in Nat
  <2>1. batch # 0
    BY <1>1 DEF Throws, InLoop, Types
  <2> QED BY <1>1, <2>1, Grounded DEF Planned, Types
<1>4. ~LongForm => next_unit <= Len(units) + 1 /\ total <= Len(units)
  BY <1>1, <1>3 DEF Positioned
<1>5. cleared' \subseteq DOMAIN chunks /\ cleared \subseteq cleared'
  BY <1>1, <1>2 DEF Positioned
<1>6. errors' # {} /\ errors \subseteq errors' /\ "dropped" \in errors'
  BY <1>2
<1>7. next_unit <= next_unit'
  BY <1>2, <1>3
<1> QED BY <1>2, <1>3, <1>4, <1>5, <1>6, <1>7, FailStep

\* No unit is left only if a chunk failed.
LEMMA ExhaustedStep ==
  ASSUME IndInv, Exhausted
  PROVE  IndInv'
<1>1. /\ Types /\ Planned /\ prepared /\ ~done /\ ~LongForm
      /\ completed \in Nat /\ total \in Nat /\ next_unit \in Nat /\ next_unit > Len(units)
  BY Looping DEF Exhausted
<1>2. /\ setup' = setup /\ pieces' = pieces /\ input_finished' = input_finished /\ started' = started
      /\ prepared' = prepared /\ units' = units /\ chunks' = chunks /\ cleared' = cleared
      /\ next_unit' = next_unit /\ completed' = completed /\ total' = total /\ growth' = growth
      /\ batch' = batch /\ out' = out /\ delivered' = delivered /\ errors' = errors /\ done' = TRUE
  BY DEF Exhausted, inputVars, planVars, callVars
<1>3. LongForm' = LongForm /\ cfg' = cfg /\ Heard' = Heard
  BY <1>2 DEF LongForm, cfg, Heard
<1>4. errors # {}
  <2> SUFFICES ASSUME errors = {} PROVE FALSE
    OBVIOUS
  <2>1. next_unit = IF Heard = <<>> THEN 1 ELSE Last(Heard).last + 1
    BY <1>1 DEF IndInv, Faultless
  <2>2. Len(units) \in Nat /\ Len(units) # 0 /\ Heard \in Seq(AudioType)
    BY <1>1, Grounded, HeardType
  <2>3. Heard # <<>> /\ next_unit = Last(Heard).last + 1
    BY <1>1, <2>1, <2>2
  <2>4. Len(Heard) \in DOMAIN Heard /\ Last(Heard) = Heard[Len(Heard)]
    BY <2>2, <2>3, LastOf
  <2> DEFINE h == Heard[Len(Heard)]
  <2>5. Voiced(h)
    BY <2>4 DEF IndInv, AllVoiced
  <2>6. h.last \in Nat /\ h.last <= Len(units)
    BY <2>2, <2>5 DEF Voiced, Sound, IsRun
  <2>7. h.last = Len(units)
    BY <1>1, <2>2, <2>3, <2>4, <2>6
  <2> QED BY <1>1, <2>5, <2>7 DEF Voiced
<1>5. Types'
  BY <1>2 DEF IndInv, Types
<1>6. Planned'
  BY <1>1, <1>2, <1>3 DEF Planned
<1>7. Positioned'
  BY <1>1, <1>2, <1>3 DEF IndInv, Positioned
<1>8. AllVoiced'
  BY <1>1, <1>2, <1>3 DEF IndInv, AllVoiced, Voiced
<1>9. SpokenInOrder'
  BY <1>2 DEF IndInv, SpokenInOrder
<1>10. BatchFits'
  BY <1>2, <1>3 DEF IndInv, BatchFits
<1>11. Faultless'
  BY <1>2, <1>4 DEF Faultless
<1>12. Stuck'
  BY <1>1, <1>3 DEF Stuck
<1> QED BY <1>5, <1>6, <1>7, <1>8, <1>9, <1>10, <1>11, <1>12 DEF IndInv

\* A batch that is returned stays heard.
LEMMA ReturnStep ==
  ASSUME IndInv, Return
  PROVE  IndInv'
<1>1. Types /\ Planned /\ Positioned
  BY DEF IndInv
<1>2. /\ setup' = setup /\ pieces' = pieces /\ input_finished' = input_finished /\ started' = started
      /\ prepared' = prepared /\ units' = units /\ chunks' = chunks /\ cleared' = cleared
      /\ done' = done /\ next_unit' = next_unit /\ completed' = completed /\ total' = total
      /\ growth' = growth /\ errors' = errors
      /\ delivered' = delivered \o out /\ batch' = 0 /\ out' = <<>> /\ batch # 0
  BY <1>1 DEF Return, LoopEnded, Types, inputVars, planVars, genVars
<1>3. Heard \in Seq(AudioType) /\ prepared
  BY <1>1, <1>2, HeardType DEF Planned
<1>4. delivered' = Heard
  BY <1>2 DEF Heard
<1>5. LongForm' = LongForm /\ cfg' = cfg /\ Heard' = Heard
  <2>1. Heard' = delivered' \o <<>>
    BY <1>2 DEF Heard
  <2>2. \A s \in Seq(AudioType) : s \o <<>> = s
    OBVIOUS
  <2>3. Heard' = Heard
    BY <1>3, <1>4, <2>1, <2>2
  <2> QED BY <1>2, <2>3 DEF LongForm, cfg
<1>6. Types'
  <2>1. batch' \in 0..MaxBatch /\ out' \in Seq(AudioType) /\ Len(out') <= batch'
    BY <1>2, SessionAssumption
  <2> QED BY <1>1, <1>2, <1>3, <1>4, <2>1 DEF Types
<1>7. Planned'
  BY <1>1, <1>2, <1>3, <1>5 DEF Planned
<1>8. Positioned'
  BY <1>1, <1>2, <1>5 DEF Positioned
<1>9. AllVoiced'
  BY <1>2, <1>5 DEF IndInv, AllVoiced, Voiced
<1>10. SpokenInOrder'
  <2>1. Ordered(Heard)
    BY SpokenIs DEF IndInv
  <2>2. SpokenInOrder' <=> Ordered(Heard')
    BY DEF SpokenInOrder, Ordered, Heard
  <2> QED BY <1>5, <2>1, <2>2
<1>11. BatchFits'
  BY <1>2 DEF BatchFits
<1>12. Faultless'
  BY <1>2, <1>5 DEF IndInv, Faultless
<1>13. Stuck'
  BY <1>2, <1>5 DEF IndInv, Stuck
<1> QED BY <1>6, <1>7, <1>8, <1>9, <1>10, <1>11, <1>12, <1>13 DEF IndInv

\* No step breaks the invariant.
LEMMA StepHolds ==
  IndInv /\ [Next]_vars => IndInv'
<1> SUFFICES ASSUME IndInv, [Next]_vars
             PROVE  IndInv'
  OBVIOUS
<1>0. /\ pieces \in 0..MaxPieces /\ {input_finished, started} \subseteq BOOLEAN /\ MaxPieces \in Nat
  BY SessionAssumption DEF IndInv, Types
<1>1. CASE PushText
  <2>1. pieces' \in 0..MaxPieces
    BY <1>0, <1>1 DEF PushText
  <2> QED BY <1>0, <1>1, <2>1, InputStep DEF PushText
<1>2. CASE FinishInput
  BY <1>0, <1>2, InputStep DEF FinishInput
<1>3. CASE Prepare
  BY <1>3, PrepareStep
<1>4. CASE PrepareFails
  <2>1. UNCHANGED <<setup, pieces, input_finished, planVars, genVars, callVars>> /\ started' = TRUE
    BY <1>4 DEF PrepareFails
  <2> QED BY <1>0, <2>1, InputStep
<1>5. CASE Call
  BY <1>5, CallStep DEF Call
<1>6. CASE Generate
  BY <1>6, LongStep, LongFailsStep, AdaptativeStep, AdaptativeFailsStep, ExhaustedStep DEF Generate
<1>7. CASE Return
  BY <1>7, ReturnStep
<1>8. CASE Throws
  BY <1>8, ThrowsEmptyStep, ThrowsDroppedStep
<1>9. CASE UNCHANGED vars
  <2>1. /\ UNCHANGED <<setup, planVars, genVars, callVars>>
        /\ pieces' = pieces /\ input_finished' = input_finished /\ started' = started
    BY <1>9 DEF vars, inputVars
  <2> QED BY <1>0, <2>1, InputStep
<1> QED BY <1>1, <1>2, <1>3, <1>4, <1>5, <1>6, <1>7, <1>8, <1>9 DEF Next

\* What holds in every state of a session.
THEOREM SessionInductive == Spec => []IndInv
<1> QED BY InitHolds, StepHolds, PTL DEF Spec

\* The invariant implies what the runs check.
LEMMA InvariantImplies ==
  IndInv => /\ SessionInv /\ PlanCoversText /\ WithinCapacity
            /\ NoMergeableTiny /\ SpokenInOrder /\ LongFormGapless
<1> SUFFICES ASSUME IndInv
             PROVE  /\ SessionInv /\ PlanCoversText /\ WithinCapacity
                    /\ NoMergeableTiny /\ SpokenInOrder /\ LongFormGapless
  OBVIOUS
<1>1. /\ Types /\ Planned /\ Positioned
      /\ AllVoiced /\ SpokenInOrder /\ BatchFits /\ Faultless /\ Stuck
  BY DEF IndInv
<1>2. SessionInv
  BY <1>1, ImpliesTypeOK, ImpliesAbsorbed, ImpliesComplete DEF SessionInv
<1>3. PlanCoversText /\ WithinCapacity /\ NoMergeableTiny /\ LongFormGapless
  BY <1>1, ImpliesPlanCovers, ImpliesCapacity, ImpliesNoTiny, ImpliesGapless
<1> QED BY <1>1, <1>2, <1>3

\* Types, no final chunk that could have been absorbed, and a session that is
\* done without a failure has delivered the whole text, once and numbered.
THEOREM SessionCorrect == Spec => []SessionInv
<1> QED BY SessionInductive, InvariantImplies, PTL

\* The long-form plan neither loses, repeats nor reorders a unit of the text,
\* and mixes no styles in a chunk.
THEOREM PlanCorrect == Spec => []PlanCoversText
<1> QED BY SessionInductive, InvariantImplies, PTL

\* One pass of rebalance_tiny_chunks is enough: it leaves no tiny chunk that
\* could still join a neighbour.
THEOREM NoTinyLeft == Spec => []NoMergeableTiny
<1> QED BY SessionInductive, InvariantImplies, PTL

\* No inference is asked for more than the model's capacity, unless by one unit.
THEOREM CapacityKept == Spec => []WithinCapacity
<1> QED BY SessionInductive, InvariantImplies, PTL

\* Whatever fails and however the caller retries, no unit is spoken twice or out
\* of order, and nothing follows a final chunk.
THEOREM OrderKept == Spec => []SpokenInOrder
<1> QED BY SessionInductive, InvariantImplies, PTL

\* In long-form mode what was delivered has no gap, however often an inference
\* fails or throws and the caller asks again, unless a call that had counted
\* chunks left without returning them.
THEOREM GaplessKept == Spec => []LongFormGapless
<1> QED BY SessionInductive, InvariantImplies, PTL
=============================================================================
