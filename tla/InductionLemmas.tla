---------------------------- MODULE InductionLemmas ----------------------------
(***************************************************************************)
(* Induction on the naturals and the existence of functions defined by     *)
(* recursion, stated of sets and functions: a fact to be proved by         *)
(* induction is the set of the naturals it holds of, and the body of a     *)
(* recursive definition is a function from what it is given to what it     *)
(* yields.                                                                 *)
(***************************************************************************)
EXTENDS Integers, FiniteSets, FiniteSetTheorems, WellFoundedInduction, TLAPS

\* Induction on the naturals, of the set of those that a fact holds of.
LEMMA SetInduction ==
  ASSUME NEW T, 0 \in T, \A n \in Nat : n \in T => n + 1 \in T
  PROVE  \A n \in Nat : n \in T
<1> SUFFICES ASSUME NEW m \in Nat, m \notin T PROVE FALSE
  OBVIOUS
<1> DEFINE R == OpToRel(<, Nat)
           U == Nat \ T
<1>1. U \subseteq Nat /\ U # {}
  OBVIOUS
<1>2. PICK x \in U : \A y \in U : ~ (<<y, x>> \in R)
  <2> HIDE DEF R, U
  <2>1. IsWellFoundedOn(R, Nat)
    BY NatLessThanWellFounded DEF R
  <2>. QED BY <1>1, <2>1, WFMin
<1>3. x # 0 /\ x - 1 \in Nat
  OBVIOUS
<1>4. x - 1 \notin T
  BY <1>3
<1>5. <<x - 1, x>> \in Nat \X Nat /\ x - 1 < x
  BY <1>3
<1>6. <<x - 1, x>> \in R
  BY <1>5 DEF OpToRel
<1>. QED BY <1>2, <1>3, <1>4, <1>6

\* Of an interval that need not start at 0.
LEMMA IntervalInduction ==
  ASSUME NEW T, NEW lo \in Int, NEW hi \in Int, lo \in T,
         \A i \in lo .. hi - 1 : i \in T => i + 1 \in T
  PROVE  \A i \in lo .. hi : i \in T
<1> DEFINE U == {n \in Nat : lo + n <= hi => lo + n \in T}
<1>1. 0 \in U
  OBVIOUS
<1>2. ASSUME NEW n \in Nat, n \in U PROVE n + 1 \in U
  <2>1. CASE lo + n + 1 <= hi
    <3>1. lo + n \in lo .. hi - 1 /\ lo + n \in T
      BY <1>2, <2>1
    <3>2. (lo + n) + 1 \in T
      BY <3>1
    <3>. QED BY <3>2
  <2>2. CASE ~(lo + n + 1 <= hi)
    BY <2>2
  <2>. QED BY <2>1, <2>2
<1>3. \A n \in Nat : n \in U
  <2> HIDE DEF U
  <2>. QED BY <1>1, <1>2, SetInduction
<1>4. ASSUME NEW i \in lo .. hi PROVE i \in T
  <2>1. i - lo \in Nat /\ lo + (i - lo) = i
    OBVIOUS
  <2>2. i - lo \in U
    BY <1>3, <2>1
  <2>. QED BY <2>1, <2>2
<1>. QED BY <1>4

\* A function on an interval that is given at its start and, after it, by what it
\* is one before.
StepsFrom(f, base, step, lo, hi) ==
  \A i \in lo .. hi : f[i] = IF i = lo THEN base ELSE step[i][f[i - 1]]

\* A function defined step by step over an interval exists.
LEMMA IntervalRecursion ==
  ASSUME NEW S, NEW base \in S, NEW lo \in Int, NEW hi \in Int,
         NEW step \in [Int -> [S -> S]]
  PROVE  \E f \in [lo .. hi -> S] : StepsFrom(f, base, step, lo, hi)
<1> DEFINE P(f, n) == \A i \in lo .. n : f[i] = IF i = lo THEN base ELSE step[i][f[i - 1]]
           T == {n \in Int : \E f \in [lo .. n -> S] : P(f, n)}
<1>1. CASE hi < lo
  <2>1. lo .. hi = {}
    BY <1>1
  <2>2. [i \in lo .. hi |-> base] \in [lo .. hi -> S]
    OBVIOUS
  <2>. QED BY <2>1, <2>2 DEF StepsFrom
<1>2. CASE lo <= hi
  <2>1. lo \in T
    <3>1. [i \in lo .. lo |-> base] \in [lo .. lo -> S] /\ P([i \in lo .. lo |-> base], lo)
      OBVIOUS
    <3>. QED BY <3>1
  <2>2. ASSUME NEW n \in lo .. hi - 1, n \in T PROVE n + 1 \in T
    <3>1. PICK f \in [lo .. n -> S] : P(f, n)
      BY <2>2
    <3> DEFINE g == [i \in lo .. n + 1 |-> IF i = n + 1 THEN step[n + 1][f[n]] ELSE f[i]]
    <3>2. n \in lo .. n /\ f[n] \in S /\ n + 1 \in Int
      OBVIOUS
    <3>3. step[n + 1][f[n]] \in S
      BY <3>2
    <3>4. g \in [lo .. n + 1 -> S]
      <4>1. \A i \in lo .. n + 1 : i # n + 1 => i \in lo .. n
        OBVIOUS
      <4>. QED BY <3>3, <4>1
    <3>5. ASSUME NEW i \in lo .. n + 1
          PROVE  g[i] = IF i = lo THEN base ELSE step[i][g[i - 1]]
      <4>1. CASE i = n + 1
        <5>1. i # lo /\ i - 1 = n /\ n \in lo .. n + 1 /\ n # n + 1
          BY <4>1
        <5>2. g[n] = f[n]
          BY <5>1
        <5>. QED BY <4>1, <5>1, <5>2
      <4>2. CASE i # n + 1
        <5>1. i \in lo .. n
          BY <4>2
        <5>2. g[i] = f[i]
          BY <4>2
        <5>3. i # lo => i - 1 \in lo .. n + 1 /\ i - 1 # n + 1
          BY <5>1
        <5>4. i # lo => g[i - 1] = f[i - 1]
          BY <5>3
        <5>. QED BY <3>1, <5>1, <5>2, <5>4
      <4>. QED BY <4>1, <4>2
    <3>6. P(g, n + 1)
      BY <3>5
    <3>7. \E h \in [lo .. n + 1 -> S] : P(h, n + 1)
      <4> HIDE DEF g, P
      <4>. QED BY <3>4, <3>6
    <3>. QED BY <3>2, <3>7
  <2>3. hi \in lo .. hi
    BY <1>2
  <2>4. \A i \in lo .. hi : i \in T
    <3> HIDE DEF T
    <3>. QED BY <2>1, <2>2, IntervalInduction
  <2>. QED BY <2>3, <2>4 DEF StepsFrom
<1>. QED BY <1>1, <1>2

\* A function that is what it is of the next state, until a state that is done:
\* it exists if a measure falls from each state to the next.
FallsBelow(W, done, next, measure, bound) ==
  \A w \in W : measure[w] <= bound /\ (w \notin done => measure[next[w]] < measure[w])

Unrolls(f, W, done, value, next) ==
  \A w \in W : f[w] = IF w \in done THEN value[w] ELSE f[next[w]]

\* So does one whose recursion has a measure that falls.
LEMMA MeasuredRecursion ==
  ASSUME NEW W, NEW S, NEW done, NEW value \in [W -> S], NEW next \in [W -> W],
         NEW measure \in [W -> Nat], NEW bound \in Nat,
         FallsBelow(W, done, next, measure, bound)
  PROVE  \E f \in [W -> S] : Unrolls(f, W, done, value, next)
<1> DEFINE Below(n) == {w \in W : measure[w] < n}
           P(f, n) == \A w \in Below(n) :
                        f[w] = IF w \in done THEN value[w] ELSE f[next[w]]
           T == {n \in Nat : \E f \in [W -> S] : P(f, n)}
<1>1. 0 \in T
  <2>1. \A w \in W : ~(measure[w] < 0)
    OBVIOUS
  <2>2. P(value, 0)
    BY <2>1
  <2>. QED BY <2>2
<1>2. ASSUME NEW n \in Nat, n \in T PROVE n + 1 \in T
  <2>1. PICK f \in [W -> S] : P(f, n)
    BY <1>2
  <2> DEFINE g == [w \in W |-> IF w \in Below(n) THEN f[w]
                               ELSE IF w \in done THEN value[w] ELSE f[next[w]]]
  <2>2. g \in [W -> S]
    OBVIOUS
  <2>3. ASSUME NEW w \in Below(n + 1)
        PROVE  g[w] = IF w \in done THEN value[w] ELSE g[next[w]]
    <3>1. w \in W /\ measure[w] \in Nat /\ measure[w] < n + 1
      OBVIOUS
    <3>2. CASE w \in done
      BY <2>1, <3>1, <3>2
    <3>3. CASE w \notin done
      <4>1. next[w] \in W /\ measure[next[w]] \in Nat /\ measure[next[w]] < measure[w]
        BY <3>1, <3>3 DEF FallsBelow
      <4>2. measure[next[w]] < n
        BY <3>1, <4>1
      <4>3. g[next[w]] = f[next[w]]
        BY <4>1, <4>2
      <4>4. g[w] = f[next[w]]
        BY <2>1, <3>1, <3>3
      <4>. QED BY <3>3, <4>3, <4>4
    <3>. QED BY <3>2, <3>3
  <2>4. P(g, n + 1)
    BY <2>3
  <2>5. \E h \in [W -> S] : P(h, n + 1)
    <3> HIDE DEF g, P
    <3>. QED BY <2>2, <2>4
  <2>. QED BY <2>5
<1>3. bound + 1 \in T
  <2> HIDE DEF T
  <2>. QED BY <1>1, <1>2, SetInduction
<1>4. PICK f \in [W -> S] : P(f, bound + 1)
  BY <1>3
<1>5. \A w \in W : w \in Below(bound + 1)
  BY DEF FallsBelow
<1>. QED BY <1>4, <1>5 DEF Unrolls
=============================================================================
