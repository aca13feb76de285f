--------------------------- MODULE SimulationProofs ---------------------------
(***************************************************************************)
(* What the scenario, contract and leak tests look for is never there, for *)
(* any tapes, amounts, catalog and numbers of commands: the aggregates     *)
(* keep their types and their phases, a run under faults is the reference  *)
(* run, the view of another's secrets does not depend on them, and states  *)
(* of one digest are the same.                                             *)
(***************************************************************************)
EXTENDS Simulation, InductionLemmas, SequenceTheorems

LOCAL INSTANCE SequencesExt

LOCAL INSTANCE MachineDefinition

-----------------------------------------------------------------------------
(* Draws.                                                                  *)

\* A set of naturals that is not empty has a least element.
LEMMA Least ==
  ASSUME NEW S \in SUBSET Nat, S # {}
  PROVE  \E i \in S : \A j \in S : i <= j
<1> DEFINE T == {n \in Nat : \A i \in S : ~(i <= n)}
<1>1. SUFFICES ASSUME \A i \in S : \E j \in S : ~(i <= j)
               PROVE  FALSE
  OBVIOUS
<1>2. 0 \in T
  <2>1. \A i \in S : i <= 0 => i = 0
    OBVIOUS
  <2>2. \A j \in S : 0 <= j
    OBVIOUS
  <2>. QED BY <1>1, <2>1, <2>2
<1>3. ASSUME NEW n \in Nat, n \in T PROVE n + 1 \in T
  <2>1. \A i \in S : i <= n + 1 => i = n + 1
    BY <1>3
  <2>2. \A j \in S : n + 1 <= j
    BY <1>3
  <2>. QED BY <1>1, <2>1, <2>2
<1>4. \A n \in Nat : n \in T
  <2> HIDE DEF T
  <2>. QED BY <1>2, <1>3, SetInduction
<1>5. PICK i \in S : i \in Nat
  OBVIOUS
<1>6. i \in T
  BY <1>4, <1>5
<1>. QED BY <1>5, <1>6

\* Going on from any number, every remainder comes up in turn.
LEMMA EveryRemainder ==
  ASSUME NEW p \in Nat, NEW n \in Nat \ {0}, NEW q \in 0 .. n - 1
  PROVE  \E i \in 0 .. n - 1 : (p + i) % n = q
<1> DEFINE k == p \div n
           r == p % n
<1>1. k \in Nat /\ r \in 0 .. n - 1 /\ p = n * k + r
  OBVIOUS
<1>2. \A c \in Nat : (n * c + q) % n = q
  OBVIOUS
<1> HIDE DEF k, r
<1>3. CASE r <= q
  <2>1. q - r \in 0 .. n - 1 /\ p + (q - r) = n * k + q
    BY <1>1, <1>3
  <2>. QED BY <1>1, <1>2, <2>1
<1>4. CASE q < r
  <2>1. n * (k + 1) = n * k + n
    BY <1>1
  <2>2. q - r + n \in 0 .. n - 1 /\ p + (q - r + n) = n * (k + 1) + q
    BY <1>1, <1>4, <2>1
  <2>3. k + 1 \in Nat
    BY <1>1
  <2>. QED BY <1>2, <2>2, <2>3
<1>. QED BY <1>1, <1>3, <1>4

\* A remainder is its own remainder.
LEMMA SmallRemainder ==
  ASSUME NEW n \in Nat \ {0}, NEW q \in 0 .. n - 1
  PROVE  q % n = q
<1>1. \A c \in Nat : (n * c + q) % n = q
  OBVIOUS
<1>2. n * 0 + q = q
  OBVIOUS
<1>. QED BY <1>1, <1>2

\* The mask of a range is at least 1.
LEMMA CoveringIsPositive ==
  ASSUME NEW span \in Nat
  PROVE  HiddenInfo!Covering(span) \in Nat \ {0}
<1> DEFINE S == Nat \ {0}
           step == [i \in Int |-> [x \in S |-> IF x >= span THEN x ELSE 2 * x]]
           D(c) == [bits \in 0 .. WordBits |->
                      IF bits = 0 THEN 1
                      ELSE IF c[bits - 1] >= span THEN c[bits - 1] ELSE 2 * c[bits - 1]]
           doubled == CHOOSE c : c = D(c)
<1>1. WordBits \in Nat /\ WordBits \in Int /\ 1 \in S
  BY WordBitsAssumption
<1>2. step \in [Int -> [S -> S]]
  OBVIOUS
<1>3. PICK f \in [0 .. WordBits -> S] : StepsFrom(f, 1, step, 0, WordBits)
  <2> HIDE DEF S, step
  <2>. QED BY <1>1, <1>2, IntervalRecursion
<1>4. \A i \in 0 .. WordBits : i # 0 => i - 1 \in 0 .. WordBits /\ i \in Int
  BY <1>1
<1>5. \A i \in 0 .. WordBits : f[i] = D(f)[i]
  BY <1>3, <1>4 DEF StepsFrom
<1>6. D(f) = D(D(f))
  <2>1. \A i \in 0 .. WordBits : i # 0 => D(f)[i - 1] = f[i - 1]
    BY <1>4, <1>5
  <2>. QED BY <2>1
<1>7. doubled = D(doubled)
  <2> HIDE DEF D
  <2>. QED BY <1>6
<1>8. HiddenInfo!Covering(span) = doubled[WordBits]
  BY DEF HiddenInfo!Covering
<1> HIDE DEF doubled
<1> DEFINE T == {i \in 0 .. WordBits : doubled[i] \in S}
<1>9. 0 \in T
  BY <1>1, <1>7
<1>10. ASSUME NEW i \in 0 .. WordBits - 1, i \in T PROVE i + 1 \in T
  <2>1. i + 1 \in 0 .. WordBits /\ i + 1 # 0 /\ (i + 1) - 1 = i
    BY <1>1
  <2>2. doubled[i + 1] = IF doubled[i] >= span THEN doubled[i] ELSE 2 * doubled[i]
    BY <1>7, <2>1
  <2>. QED BY <1>10, <2>1, <2>2
<1>11. \A i \in 0 .. WordBits : i \in T
  <2>1. 0 \in Int /\ WordBits \in Int
    BY <1>1
  <2> HIDE DEF T, S, step, D
  <2>. QED BY <2>1, <1>9, <1>10, IntervalInduction
<1>. QED BY <1>1, <1>8, <1>11

Tape == {t \in Seq(HiddenInfo!Word) : t # <<>>}

\* From wherever a stream stands, a draw that is not refused for ever is of its
\* range and moves on.
LEMMA DrawsInRange ==
  ASSUME NEW tape \in Tape, NEW span \in Nat, HiddenInfo!AcceptedBy(tape, span),
         NEW pos \in Nat
  PROVE  /\ HiddenInfo!DrawRange(tape, pos, 0, span).value \in 0 .. span - 1
         /\ HiddenInfo!DrawRange(tape, pos, 0, span).pos \in Nat
         /\ HiddenInfo!DrawRange(tape, pos, 0, span).pos >= pos
<1> PICK len : len = Len(tape)
  OBVIOUS
<1> PICK cover : cover = HiddenInfo!Covering(span)
  OBVIOUS
<1> DEFINE word(p) == tape[((p \div 2) % len) + 1]
           candidate(i) == HiddenInfo!Candidate(tape, pos, i, span)
           fits(i) == candidate(i) < span
           n == CHOOSE i \in 0 .. len - 1 :
                  fits(i) /\ \A j \in 0 .. i - 1 : candidate(j) >= span
<1>1. len \in Nat \ {0} /\ (\A i \in 1 .. len : tape[i] \in Int) /\ cover \in Nat \ {0}
  <2>1. HiddenInfo!Word \subseteq Int
    BY DEF HiddenInfo!Word
  <2>2. tape \in Seq(HiddenInfo!Word) /\ tape # <<>>
    BY DEF Tape
  <2>3. len \in Nat \ {0} /\ \A i \in 1 .. len : tape[i] \in HiddenInfo!Word
    BY <2>2
  <2>. QED BY <2>1, <2>3, CoveringIsPositive
<1>2. \A p \in Nat, i \in Nat : HiddenInfo!Candidate(tape, p, i, span) = word(p + 2 * i) % cover
  BY DEF HiddenInfo!Candidate, HiddenInfo!WordAt
<1>3. \A p \in Nat : (p \div 2) % len \in 0 .. len - 1
  BY <1>1
<1>4. \A p \in Nat : word(p) \in Int
  BY <1>1, <1>3
<1>5. \A p \in Nat : word(p) % cover \in Nat
  <2>1. \A x \in Int : x % cover \in Nat
    BY <1>1
  <2> HIDE DEF word
  <2>. QED BY <1>4, <2>1
<1>6. PICK m \in 0 .. len - 1 : word(2 * m) % cover < span
  BY <1>2 DEF HiddenInfo!AcceptedBy
<1>7. (2 * m) \div 2 = m /\ m % len = m
  <2>1. (2 * m) \div 2 = m
    BY <1>1
  <2>. QED BY <1>1, <2>1, SmallRemainder
<1>8. PICK i \in 0 .. len - 1 : ((pos \div 2) + i) % len = m
  <2>1. PICK half \in Nat : half = pos \div 2
    OBVIOUS
  <2>2. \E i \in 0 .. len - 1 : (half + i) % len = m
    BY <1>1, EveryRemainder
  <2>. QED BY <2>1, <2>2
<1>9. (pos + 2 * i) \div 2 = (pos \div 2) + i
  OBVIOUS
<1>10. word(pos + 2 * i) = word(2 * m)
  BY <1>7, <1>8, <1>9
<1>11. \A j \in Nat : candidate(j) \in Nat
  <2> HIDE DEF word
  <2>1. SUFFICES ASSUME NEW j \in Nat PROVE candidate(j) \in Nat
    OBVIOUS
  <2>2. PICK p \in Nat : p = pos + 2 * j
    OBVIOUS
  <2>3. candidate(j) = word(p) % cover
    BY <1>2, <2>2, Zenon
  <2>. QED BY <1>5, <2>3, Zenon
<1>12. fits(i) /\ i \in Nat
  <2> HIDE DEF word
  <2>. QED BY <1>2, <1>6, <1>10
<1> HIDE DEF word, candidate
<1>13. \E k \in 0 .. len - 1 : fits(k) /\ \A j \in 0 .. k - 1 : candidate(j) >= span
  <2> DEFINE F == {k \in 0 .. len - 1 : fits(k)}
  <2>1. F \subseteq Nat /\ F # {}
    BY <1>12
  <2>2. PICK k \in F : \A j \in F : k <= j
    <3> HIDE DEF F
    <3>. QED BY <2>1, Least
  <2>3. ASSUME NEW j \in 0 .. k - 1 PROVE candidate(j) >= span
    <3>1. j \in 0 .. len - 1 /\ j \in Nat /\ j \notin F
      BY <1>1, <2>2
    <3>2. ~fits(j)
      BY <3>1
    <3>3. candidate(j) \in Nat
      BY <1>11, <3>1
    <3>. QED BY <3>2, <3>3
  <2>. QED BY <2>2, <2>3
<1>14. n \in 0 .. len - 1 /\ fits(n)
  BY <1>13
<1>15. /\ HiddenInfo!DrawRange(tape, pos, 0, span).value = 0 + candidate(n)
       /\ HiddenInfo!DrawRange(tape, pos, 0, span).pos = pos + 2 * (n + 1)
  <2>1. span - 0 = span
    OBVIOUS
  <2>. QED BY <2>1 DEF HiddenInfo!DrawRange, candidate
<1> HIDE DEF n
<1>16. n \in Nat /\ candidate(n) \in Nat /\ candidate(n) < span
  BY <1>1, <1>11, <1>14
<1>. QED BY <1>15, <1>16

\* The aggregates draw by one definition.
LEMMA SameDraws ==
  ASSUME NEW tape, NEW pos, NEW first, NEW last
  PROVE  CatalogCtx!DrawRange(tape, pos, first, last) = HiddenInfo!DrawRange(tape, pos, first, last)
BY DEF CatalogCtx!DrawRange, CatalogCtx!Candidate, CatalogCtx!WordAt, CatalogCtx!Covering,
       HiddenInfo!DrawRange, HiddenInfo!Candidate, HiddenInfo!WordAt, HiddenInfo!Covering

-----------------------------------------------------------------------------
(* What evolves into a state, event by event and batch by batch.           *)

\* What `EvolveAll` is after each event.
EvolvedStep(w, s, events, f, n) ==
  \A i \in 0 .. n : f[i] = IF i = 0 THEN s ELSE Evolve(w, f[i - 1], events[i])

\* The recursion of EvolveAll has a value for every length of the batch.
LEMMA EvolveAllUnfolds ==
  ASSUME NEW w, NEW s, NEW events, NEW n \in Nat, n = Len(events)
  PROVE  \E f : EvolvedStep(w, s, events, f, n) /\ EvolveAll(w, s, events) = f[n]
<1> DEFINE D(f, k) == [i \in 0 .. k |-> IF i = 0 THEN s ELSE Evolve(w, f[i - 1], events[i])]
           T == {k \in Nat : \E f : f = D(f, k)}
<1>1. 0 \in T
  <2>1. [i \in 0 .. 0 |-> s] = D([i \in 0 .. 0 |-> s], 0)
    OBVIOUS
  <2>. QED BY <2>1
<1>2. ASSUME NEW k \in Nat, k \in T PROVE k + 1 \in T
  <2>1. PICK f : f = D(f, k)
    BY <1>2
  <2> DEFINE g == [i \in 0 .. k + 1 |-> IF i = k + 1 THEN Evolve(w, f[k], events[k + 1]) ELSE f[i]]
  <2>2. \A i \in 0 .. k + 1 : i # 0 => i - 1 \in 0 .. k + 1 /\ i - 1 # k + 1
    OBVIOUS
  <2>3. \A i \in 0 .. k + 1 : i # 0 => g[i - 1] = f[i - 1]
    BY <2>2
  <2>4. \A i \in 0 .. k + 1 : g[i] = D(g, k + 1)[i]
    <3>1. ASSUME NEW i \in 0 .. k + 1 PROVE g[i] = D(g, k + 1)[i]
      <4>1. CASE i = k + 1
        <5>1. i # 0 /\ i - 1 = k
          BY <4>1
        <5>. QED BY <2>3, <4>1, <5>1
      <4>2. CASE i # k + 1
        <5>1. i \in 0 .. k
          BY <4>2
        <5>2. f[i] = IF i = 0 THEN s ELSE Evolve(w, f[i - 1], events[i])
          BY <2>1, <5>1
        <5>. QED BY <2>3, <4>2, <5>2
      <4>. QED BY <4>1, <4>2
    <3>. QED BY <3>1
  <2>5. g = D(g, k + 1)
    <3>1. g = [i \in 0 .. k + 1 |-> g[i]] /\ D(g, k + 1) = [i \in 0 .. k + 1 |-> D(g, k + 1)[i]]
      OBVIOUS
    <3> HIDE DEF g, D
    <3>. QED BY <2>4, <3>1
  <2> HIDE DEF g, D
  <2>. QED BY <2>5
<1>3. n \in T
  <2> HIDE DEF T
  <2>. QED BY <1>1, <1>2, SetInduction
<1> DEFINE after == CHOOSE f : f = D(f, n)
<1>4. after = D(after, n)
  <2> HIDE DEF D
  <2>. QED BY <1>3
<1>5. EvolveAll(w, s, events) = after[n]
  BY DEF EvolveAll
<1>6. EvolvedStep(w, s, events, after, n)
  <2> HIDE DEF after
  <2>. QED BY <1>4 DEF EvolvedStep
<1> HIDE DEF after
<1>. QED BY <1>5, <1>6

\* How far a batch is evolved depends on no event after.
LEMMA SameEvolvedStep ==
  ASSUME NEW w, NEW s, NEW events, NEW others, NEW f, NEW g, NEW m \in Nat, NEW n \in Nat,
         EvolvedStep(w, s, events, f, n), EvolvedStep(w, s, others, g, m),
         NEW k \in Nat, k <= n, k <= m, \A i \in 1 .. k : events[i] = others[i]
  PROVE  f[k] = g[k]
<1> DEFINE T == {i \in Nat : i <= k => f[i] = g[i]}
<1>1. 0 \in T
  BY DEF EvolvedStep
<1>2. ASSUME NEW i \in Nat, i \in T PROVE i + 1 \in T
  <2>1. CASE i + 1 <= k
    <3>1. i + 1 \in 0 .. n /\ i + 1 \in 0 .. m /\ i + 1 # 0 /\ (i + 1) - 1 = i /\ i + 1 \in 1 .. k
      BY <2>1
    <3>2. f[i + 1] = Evolve(w, f[i], events[i + 1]) /\ g[i + 1] = Evolve(w, g[i], others[i + 1])
      BY <3>1 DEF EvolvedStep
    <3>3. f[i] = g[i]
      BY <1>2, <2>1
    <3>. QED BY <3>1, <3>2, <3>3
  <2>2. CASE ~(i + 1 <= k)
    BY <2>2
  <2>. QED BY <2>1, <2>2
<1>3. k \in T
  <2> HIDE DEF T
  <2>. QED BY <1>1, <1>2, SetInduction
<1>. QED BY <1>3

\* A batch of no event changes nothing.
LEMMA EvolveNone ==
  ASSUME NEW w, NEW s
  PROVE  EvolveAll(w, s, <<>>) = s
<1>1. Len(<<>>) = 0
  OBVIOUS
<1>. QED BY <1>1, EvolveAllUnfolds DEF EvolvedStep

\* One event more is one `evolve` more.
LEMMA EvolveMore ==
  ASSUME NEW w, NEW s, NEW S, NEW events \in Seq(S), NEW e \in S
  PROVE  EvolveAll(w, s, Append(events, e)) = Evolve(w, EvolveAll(w, s, events), e)
<1>1. PICK n \in Nat : n = Len(events)
  OBVIOUS
<1>2. PICK more : more = Append(events, e)
  OBVIOUS
<1>3. n + 1 = Len(more) /\ n + 1 \in Nat /\ more[n + 1] = e /\ \A i \in 1 .. n : events[i] = more[i]
  BY <1>1, <1>2
<1>4. PICK f : EvolvedStep(w, s, events, f, n) /\ EvolveAll(w, s, events) = f[n]
  BY <1>1, EvolveAllUnfolds
<1>5. PICK g : EvolvedStep(w, s, more, g, n + 1) /\ EvolveAll(w, s, more) = g[n + 1]
  BY <1>3, EvolveAllUnfolds
<1>6. g[n + 1] = Evolve(w, g[n], e)
  <2>1. n + 1 \in 0 .. n + 1 /\ n + 1 # 0 /\ (n + 1) - 1 = n
    OBVIOUS
  <2>. QED BY <1>3, <1>5, <2>1 DEF EvolvedStep
<1>7. f[n] = g[n]
  <2>1. n <= n /\ n <= n + 1
    OBVIOUS
  <2>. QED BY <1>3, <1>4, <1>5, <2>1, SameEvolvedStep
<1>. QED BY <1>2, <1>4, <1>5, <1>6, <1>7

\* A batch of one event.
LEMMA EvolveOne ==
  ASSUME NEW w, NEW s, NEW e
  PROVE  EvolveAll(w, s, <<e>>) = Evolve(w, s, e)
<1>1. PICK S, none, one : S = {e} /\ none = <<>> /\ one = <<e>>
  OBVIOUS
<1>2. none \in Seq(S) /\ e \in S /\ one = Append(none, e)
  BY <1>1
<1>3. EvolveAll(w, s, one) = Evolve(w, EvolveAll(w, s, none), e)
  BY <1>2, EvolveMore
<1>4. EvolveAll(w, s, none) = s
  BY <1>1, EvolveNone
<1>. QED BY <1>1, <1>3, <1>4

\* A batch of two events.
LEMMA EvolveTwo ==
  ASSUME NEW w, NEW s, NEW d, NEW e
  PROVE  EvolveAll(w, s, <<d, e>>) = Evolve(w, Evolve(w, s, d), e)
<1>1. PICK S, one, two : S = {d, e} /\ one = <<d>> /\ two = <<d, e>>
  OBVIOUS
<1>2. one \in Seq(S) /\ e \in S /\ two = Append(one, e)
  BY <1>1
<1>3. EvolveAll(w, s, two) = Evolve(w, EvolveAll(w, s, one), e)
  BY <1>2, EvolveMore
<1>4. EvolveAll(w, s, one) = Evolve(w, s, d)
  BY <1>1, EvolveOne
<1>. QED BY <1>1, <1>3, <1>4

\* What `Rebuilt` is after each batch.
RebuiltStep(w, batches, f, n) ==
  \A i \in 0 .. n :
    f[i] = IF i = 0 THEN InitialState[w.aggregate] ELSE EvolveAll(w, f[i - 1], batches[i])

\* The recursion of Rebuilt has a value for every length of the log.
LEMMA RebuiltUnfolds ==
  ASSUME NEW w, NEW batches, NEW n \in Nat, n = Len(batches)
  PROVE  \E f : RebuiltStep(w, batches, f, n) /\ Rebuilt(w, batches) = f[n]
<1> DEFINE D(f, k) == [i \in 0 .. k |-> IF i = 0 THEN InitialState[w.aggregate]
                                        ELSE EvolveAll(w, f[i - 1], batches[i])]
           T == {k \in Nat : \E f : f = D(f, k)}
<1>1. 0 \in T
  <2>1. [i \in 0 .. 0 |-> InitialState[w.aggregate]] = D([i \in 0 .. 0 |-> InitialState[w.aggregate]], 0)
    OBVIOUS
  <2>. QED BY <2>1
<1>2. ASSUME NEW k \in Nat, k \in T PROVE k + 1 \in T
  <2>1. PICK f : f = D(f, k)
    BY <1>2
  <2> DEFINE g == [i \in 0 .. k + 1 |->
                     IF i = k + 1 THEN EvolveAll(w, f[k], batches[k + 1]) ELSE f[i]]
  <2>2. \A i \in 0 .. k + 1 : i # 0 => i - 1 \in 0 .. k + 1 /\ i - 1 # k + 1
    OBVIOUS
  <2>3. \A i \in 0 .. k + 1 : i # 0 => g[i - 1] = f[i - 1]
    BY <2>2
  <2>4. ASSUME NEW i \in 0 .. k + 1 PROVE g[i] = D(g, k + 1)[i]
    <3>1. CASE i = k + 1
      <4>1. i # 0 /\ i - 1 = k
        BY <3>1
      <4>. QED BY <2>3, <3>1, <4>1
    <3>2. CASE i # k + 1
      <4>1. i \in 0 .. k
        BY <3>2
      <4>2. f[i] = IF i = 0 THEN InitialState[w.aggregate] ELSE EvolveAll(w, f[i - 1], batches[i])
        BY <2>1, <4>1
      <4>. QED BY <2>3, <3>2, <4>2
    <3>. QED BY <3>1, <3>2
  <2>5. g = D(g, k + 1)
    <3>1. g = [i \in 0 .. k + 1 |-> g[i]] /\ D(g, k + 1) = [i \in 0 .. k + 1 |-> D(g, k + 1)[i]]
      OBVIOUS
    <3> HIDE DEF g, D
    <3>. QED BY <2>4, <3>1
  <2> HIDE DEF g, D
  <2>. QED BY <2>5
<1>3. n \in T
  <2> HIDE DEF T
  <2>. QED BY <1>1, <1>2, SetInduction
<1> DEFINE after == CHOOSE f : f = D(f, n)
<1>4. after = D(after, n)
  <2> HIDE DEF D
  <2>. QED BY <1>3
<1>5. Rebuilt(w, batches) = after[n]
  BY DEF Rebuilt
<1>6. RebuiltStep(w, batches, after, n)
  <2> HIDE DEF after
  <2>. QED BY <1>4 DEF RebuiltStep
<1> HIDE DEF after
<1>. QED BY <1>5, <1>6

\* An empty log rebuilds the state the aggregate starts in.
LEMMA RebuiltNone ==
  ASSUME NEW w
  PROVE  Rebuilt(w, <<>>) = InitialState[w.aggregate]
<1>1. Len(<<>>) = 0
  OBVIOUS
<1>. QED BY <1>1, RebuiltUnfolds DEF RebuiltStep

\* One record more is its batch evolved into what was rebuilt.
LEMMA RebuiltMore ==
  ASSUME NEW w, NEW S, NEW batches \in Seq(S), NEW batch \in S
  PROVE  Rebuilt(w, Append(batches, batch)) = EvolveAll(w, Rebuilt(w, batches), batch)
<1>1. PICK n \in Nat : n = Len(batches)
  OBVIOUS
<1>2. PICK more : more = Append(batches, batch)
  OBVIOUS
<1>3. /\ n + 1 = Len(more) /\ n + 1 \in Nat /\ more[n + 1] = batch
      /\ \A i \in 1 .. n : batches[i] = more[i]
  BY <1>1, <1>2
<1>4. PICK f : RebuiltStep(w, batches, f, n) /\ Rebuilt(w, batches) = f[n]
  BY <1>1, RebuiltUnfolds
<1>5. PICK g : RebuiltStep(w, more, g, n + 1) /\ Rebuilt(w, more) = g[n + 1]
  BY <1>3, RebuiltUnfolds
<1>6. g[n + 1] = EvolveAll(w, g[n], batch)
  <2>1. n + 1 \in 0 .. n + 1 /\ n + 1 # 0 /\ (n + 1) - 1 = n
    OBVIOUS
  <2>. QED BY <1>3, <1>5, <2>1 DEF RebuiltStep
<1> DEFINE T == {i \in Nat : i <= n => f[i] = g[i]}
<1>7. 0 \in T
  BY <1>4, <1>5 DEF RebuiltStep
<1>8. ASSUME NEW i \in Nat, i \in T PROVE i + 1 \in T
  <2>1. CASE i + 1 <= n
    <3>1. i + 1 \in 0 .. n /\ i + 1 \in 0 .. n + 1 /\ i + 1 # 0 /\ (i + 1) - 1 = i /\ i + 1 \in 1 .. n
      BY <2>1
    <3>2. f[i + 1] = EvolveAll(w, f[i], batches[i + 1]) /\ g[i + 1] = EvolveAll(w, g[i], more[i + 1])
      BY <1>4, <1>5, <3>1 DEF RebuiltStep
    <3>3. f[i] = g[i]
      BY <1>8, <2>1
    <3>. QED BY <1>3, <3>1, <3>2, <3>3
  <2>2. CASE ~(i + 1 <= n)
    BY <2>2
  <2>. QED BY <2>1, <2>2
<1>9. n \in T
  <2> HIDE DEF T
  <2>. QED BY <1>7, <1>8, SetInduction
<1>. QED BY <1>2, <1>4, <1>5, <1>6, <1>9

-----------------------------------------------------------------------------
(* The weighted table of the chest.                                        *)

Item == {Catalog[i].item : i \in DOMAIN Catalog}

\* The places of a sequence and those before them.
LEMMA Indices ==
  ASSUME NEW n \in Nat
  PROVE  0 \in 0 .. n /\ \A i \in 1 .. n : i \in 0 .. n /\ i - 1 \in 0 .. n /\ i # 0
OBVIOUS

\* The cumulative weights grow by the weight of each item.
LEMMA CumulativeUnfolds ==
  ASSUME NEW len \in Nat, len = Len(Catalog)
  PROVE  /\ CatalogCtx!Cumulative(0) = 0
         /\ \A i \in 1 .. len :
              /\ CatalogCtx!Cumulative(i) = CatalogCtx!Cumulative(i - 1) + Catalog[i].weight
              /\ CatalogCtx!Cumulative(i) \in Nat
<1> DEFINE step == [i \in Int |-> [x \in Nat |->
                      IF i \in 1 .. len THEN x + Catalog[i].weight ELSE x]]
           D(c, n) == [k \in 0 .. n |-> IF k = 0 THEN 0 ELSE c[k - 1] + Catalog[k].weight]
<1>1. \A i \in 1 .. len : Catalog[i].weight \in Nat
  BY CatalogAssumption
<1>2. step \in [Int -> [Nat -> Nat]]
  BY <1>1
<1>3. PICK f \in [0 .. len -> Nat] : StepsFrom(f, 0, step, 0, len)
  <2>1. len \in Int /\ 0 \in Int /\ 0 \in Nat
    OBVIOUS
  <2> HIDE DEF step
  <2>. QED BY <1>2, <2>1, IntervalRecursion
<1>4. \A i \in 0 .. len : f[i] \in Nat /\ f[i] = IF i = 0 THEN 0 ELSE f[i - 1] + Catalog[i].weight
  <2>1. \A i \in 0 .. len : i # 0 => i \in 1 .. len /\ i - 1 \in 0 .. len /\ i \in Int
    OBVIOUS
  <2>2. \A i \in 0 .. len : f[i] = IF i = 0 THEN 0 ELSE step[i][f[i - 1]]
    BY <1>3 DEF StepsFrom
  <2>3. \A i \in 0 .. len : i # 0 => step[i][f[i - 1]] = f[i - 1] + Catalog[i].weight
    BY <2>1
  <2> HIDE DEF step
  <2>. QED BY <2>2, <2>3
<1> HIDE DEF step
<1>5. ASSUME NEW n \in 0 .. len PROVE CatalogCtx!Cumulative(n) = f[n]
  <2> DEFINE sum == CHOOSE c : c = D(c, n)
             g == [k \in 0 .. n |-> f[k]]
  <2>1. \A k \in 0 .. n : k \in 0 .. len /\ (k # 0 => k - 1 \in 0 .. n)
    OBVIOUS
  <2>2. g = D(g, n)
    <3>1. \A k \in 0 .. n : k # 0 => g[k - 1] = f[k - 1]
      BY <2>1
    <3>2. \A k \in 0 .. n : f[k] = D(g, n)[k]
      BY <1>4, <2>1, <3>1
    <3>. QED BY <3>2
  <2>3. sum = D(sum, n)
    <3> HIDE DEF D, g
    <3>. QED BY <2>2
  <2>4. CatalogCtx!Cumulative(n) = sum[n]
    BY DEF CatalogCtx!Cumulative
  <2> HIDE DEF sum
  <2> DEFINE T == {k \in Nat : k <= n => sum[k] = f[k]}
  <2>5. 0 \in T
    BY <1>4, <2>3
  <2>6. ASSUME NEW k \in Nat, k \in T PROVE k + 1 \in T
    <3>1. CASE k + 1 <= n
      <4>1. k + 1 \in 0 .. n /\ k + 1 \in 0 .. len /\ k + 1 # 0 /\ (k + 1) - 1 = k
        BY <3>1
      <4>2. sum[k + 1] = sum[k] + Catalog[k + 1].weight
        BY <2>3, <4>1
      <4>3. f[k + 1] = f[k] + Catalog[k + 1].weight
        BY <1>4, <4>1
      <4>. QED BY <2>6, <3>1, <4>2, <4>3
    <3>2. CASE ~(k + 1 <= n)
      BY <3>2
    <3>. QED BY <3>1, <3>2
  <2>7. n \in T
    <3> HIDE DEF T
    <3>. QED BY <2>5, <2>6, SetInduction
  <2>. QED BY <2>4, <2>7
<1>6. 0 \in 0 .. len /\ \A i \in 1 .. len : i \in 0 .. len /\ i - 1 \in 0 .. len /\ i # 0
  BY Indices, Zenon
<1>. QED BY <1>4, <1>5, <1>6

\* A pick below the total weight finds an item.
LEMMA PicksAnItem ==
  /\ CatalogCtx!TotalWeight \in Nat
  /\ \A pick \in 0 .. CatalogCtx!TotalWeight - 1 : CatalogCtx!ItemAt(pick) \in Item
<1>1. PICK len \in Nat : len = Len(Catalog) /\ DOMAIN Catalog = 1 .. len
  <2>1. PICK S : Catalog \in Seq(S)
    BY CatalogAssumption, Zenon
  <2>2. Len(Catalog) \in Nat /\ DOMAIN Catalog = 1 .. Len(Catalog)
    BY <2>1
  <2>. QED BY <2>2
<1> DEFINE Up(i) == CatalogCtx!Cumulative(i)
<1>2. Up(0) = 0 /\ \A i \in 1 .. len : Up(i) = Up(i - 1) + Catalog[i].weight /\ Up(i) \in Nat
  BY <1>1, CumulativeUnfolds
<1>3. CatalogCtx!TotalWeight = Up(len)
  BY <1>1 DEF CatalogCtx!TotalWeight
<1>4. CatalogCtx!TotalWeight \in Nat
  <2>1. len = 0 \/ len \in 1 .. len
    OBVIOUS
  <2> HIDE DEF Up
  <2>. QED BY <1>2, <1>3, <2>1
<1>5. ASSUME NEW pick \in 0 .. CatalogCtx!TotalWeight - 1
      PROVE  CatalogCtx!ItemAt(pick) \in Item
  <2>1. pick \in Nat /\ pick < Up(len)
    BY <1>3, <1>4
  <2>2. \E i \in 1 .. len : Up(i - 1) <= pick /\ pick < Up(i)
    <3> SUFFICES ASSUME \A i \in 1 .. len : Up(i - 1) <= pick => ~(pick < Up(i))
                 PROVE  FALSE
      OBVIOUS
    <3> HIDE DEF Up
    <3> DEFINE T == {k \in Nat : k <= len => Up(k) <= pick}
    <3>1. 0 \in T
      BY <1>2, <2>1
    <3>2. ASSUME NEW k \in Nat, k \in T PROVE k + 1 \in T
      <4>1. CASE k + 1 <= len
        <5>1. k + 1 \in 1 .. len /\ (k + 1) - 1 = k /\ k <= len
          BY <4>1
        <5>2. Up(k) <= pick
          BY <3>2, <5>1
        <5>3. ~(pick < Up(k + 1)) /\ Up(k + 1) \in Nat
          BY <1>2, <5>1, <5>2
        <5>. QED BY <2>1, <5>3
      <4>2. CASE ~(k + 1 <= len)
        BY <4>2
      <4>. QED BY <4>1, <4>2
    <3>3. len \in T
      <4> HIDE DEF T
      <4>. QED BY <3>1, <3>2, SetInduction
    <3>4. Up(len) \in Nat
      BY <1>3, <1>4
    <3>. QED BY <2>1, <3>3, <3>4
  <2>. QED BY <1>1, <2>2 DEF CatalogCtx!ItemAt, Item
<1>. QED BY <1>4, <1>5, ZenonT(30)

-----------------------------------------------------------------------------
(* The states and events of each aggregate.                                *)

Card == 0 .. Cards - 1

AccountState == [phase : {"Open", "Frozen", "Closed"}, balance_cents : Nat]

ChestState ==
  {s \in [phase : {"Sealed", "Open", "Spent"}, draws_left : Nat, loot : Seq(Item)] :
     /\ s.phase = "Sealed" => s.draws_left = 0 /\ s.loot = <<>>
     /\ s.phase # "Sealed" => s.draws_left + Len(s.loot) = Capacity}

\* A match, but for how many have joined it when.
MatchShape(s) ==
  /\ s.phase \in {"Setup", "Playing", "Resolved"}
  /\ s.board \in Seq(Card)
  /\ s.participants \in Seq(HiddenInfo!Participant)
  /\ s.turn \in Nat
  /\ s.hands \in [HiddenInfo!Participants(s) -> Seq(Card)]
  /\ s.fabrication \in [owner : Nat, value : Nat]
  /\ s = [phase |-> s.phase, board |-> s.board, participants |-> s.participants, turn |-> s.turn,
          hands |-> s.hands, fabrication |-> s.fabrication, decks |-> s.decks]

MatchOK(s) ==
  /\ MatchShape(s)
  /\ IF s.phase = "Setup" THEN Len(s.participants) <= 1 ELSE Len(s.participants) = 2

StateOK(w, s) ==
  CASE w.aggregate = "Account"    -> s \in AccountState
    [] w.aggregate = "Chest"      -> s \in ChestState
    [] w.aggregate = "MatchState" -> MatchOK(s)

ChestEvent == [name : {"Opened", "Closed"}] \union [name : {"Dropped"}, item : Item]

MatchEvent ==
  [name : {"Joined"}, who : HiddenInfo!Participant] \union
  [name : {"Started", "TurnEnded", "Resolved"}] \union
  [name : {"Drew", "Played"}, who : HiddenInfo!Participant, card : Card]

EventSet ==
  [Account |-> Ledger!Command, Chest |-> ChestEvent, MatchState |-> MatchEvent]

-----------------------------------------------------------------------------
(* The hops of the phase machines.                                         *)

\* A table built of triples has the target of each, if no two share their
\* source.
LEMMA TableIs ==
  ASSUME NEW triples, NEW t \in triples,
         \A u \in triples : u[1] = t[1] /\ u[2] = t[2] => u[3] = t[3]
  PROVE  /\ <<t[1], Ledger!Event(t[2])>> \in DOMAIN Ledger!Table(triples)
         /\ Ledger!Table(triples)[<<t[1], Ledger!Event(t[2])>>] = t[3]
<1> DEFINE at == <<t[1], Ledger!Event(t[2])>>
           u == CHOOSE x \in triples : x[1] = at[1] /\ Ledger!Event(x[2]) = at[2]
<1>1. at \in {<<x[1], Ledger!Event(x[2])>> : x \in triples}
  OBVIOUS
<1>2. \A x : Ledger!Event(x) = <<x, 0>>
  BY DEF Ledger!Event, Ledger!DefaultPayload
<1>3. \A x, y : Ledger!Event(x) = Ledger!Event(y) => x = y
  BY <1>2
<1>4. at[1] = t[1] /\ at[2] = Ledger!Event(t[2])
  OBVIOUS
<1>5. Ledger!Table(triples)[at] = u[3] /\ at \in DOMAIN Ledger!Table(triples)
  BY <1>1 DEF Ledger!Table
<1> HIDE DEF at
<1>6. u \in triples /\ u[1] = t[1] /\ Ledger!Event(u[2]) = Ledger!Event(t[2])
  BY <1>4
<1> HIDE DEF u
<1>. QED BY <1>3, <1>5, <1>6 DEF at

\* The aggregates build their tables by one definition.
LEMMA SameTables ==
  ASSUME NEW triples
  PROVE  /\ CatalogCtx!Table(triples) = Ledger!Table(triples)
         /\ HiddenInfo!Table(triples) = Ledger!Table(triples)
BY DEF Ledger!Table, Ledger!Event, Ledger!DefaultPayload,
       CatalogCtx!Table, CatalogCtx!Event, CatalogCtx!DefaultPayload,
       HiddenInfo!Table, HiddenInfo!Event, HiddenInfo!DefaultPayload

Hops ==
  [Account |-> {<<"Open", "Freeze", "Frozen">>, <<"Frozen", "Unfreeze", "Open">>,
                <<"Open", "Close", "Closed">>, <<"Frozen", "Close", "Closed">>},
   Chest |-> {<<"Sealed", "Unseal", "Open">>, <<"Open", "Exhaust", "Spent">>},
   MatchState |-> {<<"Setup", "Start", "Playing">>, <<"Playing", "Finish", "Resolved">>}]

\* Each of the hops listed is a transition of its phase machine.
LEMMA HopsAreLegal ==
  ASSUME NEW w, w.aggregate \in Name, NEW t \in Hops[w.aggregate]
  PROVE  LegalHop(w, t[1], t[3])
<1>1. PICK triples : triples = Hops[w.aggregate]
  OBVIOUS
<1>2. PhaseMachine[w.aggregate].transition = Ledger!Table(triples)
  <2>1. CASE w.aggregate = "Account"
    BY <1>1, <2>1 DEF PhaseMachine, Hops, Ledger!AccountPhase, Ledger!Enum
  <2>2. CASE w.aggregate = "Chest"
    <3>1. PhaseMachine[w.aggregate] = CatalogCtx!ChestPhase /\ triples = Hops.Chest
      BY <1>1, <2>2 DEF PhaseMachine
    <3>2. CatalogCtx!ChestPhase.transition = CatalogCtx!Table(Hops.Chest)
      BY DEF CatalogCtx!ChestPhase, CatalogCtx!Enum, Hops
    <3>. QED BY <3>1, <3>2, SameTables
  <2>3. CASE w.aggregate = "MatchState"
    <3>1. PhaseMachine[w.aggregate] = HiddenInfo!MatchPhase /\ triples = Hops.MatchState
      BY <1>1, <2>3 DEF PhaseMachine
    <3>2. HiddenInfo!MatchPhase.transition = HiddenInfo!Table(Hops.MatchState)
      BY DEF HiddenInfo!MatchPhase, HiddenInfo!Enum, Hops
    <3>. QED BY <3>1, <3>2, SameTables
  <2>. QED BY <2>1, <2>2, <2>3 DEF Name
<1>3. <<t[2], 0>> \in PhaseMachine[w.aggregate].events
  <2>1. CASE w.aggregate = "Account"
    BY <2>1 DEF PhaseMachine, Hops, Ledger!AccountPhase, Ledger!Enum, Ledger!Event, Ledger!DefaultPayload
  <2>2. CASE w.aggregate = "Chest"
    <3>1. PhaseMachine[w.aggregate] = CatalogCtx!ChestPhase /\ t \in Hops.Chest
      BY <2>2 DEF PhaseMachine
    <3>2. CatalogCtx!ChestPhase.events = {<<v, 0>> : v \in {"Unseal", "Exhaust"}}
      BY DEF CatalogCtx!ChestPhase, CatalogCtx!Enum, CatalogCtx!Event, CatalogCtx!DefaultPayload
    <3>. QED BY <3>1, <3>2 DEF Hops
  <2>3. CASE w.aggregate = "MatchState"
    <3>1. PhaseMachine[w.aggregate] = HiddenInfo!MatchPhase /\ t \in Hops.MatchState
      BY <2>3 DEF PhaseMachine
    <3>2. HiddenInfo!MatchPhase.events = {<<v, 0>> : v \in {"Start", "Finish"}}
      BY DEF HiddenInfo!MatchPhase, HiddenInfo!Enum, HiddenInfo!Event, HiddenInfo!DefaultPayload
    <3>. QED BY <3>1, <3>2 DEF Hops
  <2>. QED BY <2>1, <2>2, <2>3 DEF Name
<1>4. \A u \in triples : u[1] = t[1] /\ u[2] = t[2] => u[3] = t[3]
  <2>1. CASE w.aggregate = "Account"
    BY <1>1, <2>1 DEF Hops
  <2>2. CASE w.aggregate = "Chest"
    BY <1>1, <2>2 DEF Hops
  <2>3. CASE w.aggregate = "MatchState"
    BY <1>1, <2>3 DEF Hops
  <2>. QED BY <2>1, <2>2, <2>3 DEF Name
<1>5. /\ <<t[1], <<t[2], 0>>>> \in DOMAIN PhaseMachine[w.aggregate].transition
      /\ PhaseMachine[w.aggregate].transition[<<t[1], <<t[2], 0>>>>] = t[3]
  <2>1. Ledger!Event(t[2]) = <<t[2], 0>>
    BY DEF Ledger!Event, Ledger!DefaultPayload
  <2>. QED BY <1>1, <1>2, <1>4, <2>1, TableIs
<1>6. <<t[2], 0>> \in EventVariants(PhaseMachine[w.aggregate])
  BY <1>3 DEF EventVariants, DefaultPayload
<1>. QED BY <1>5, <1>6 DEF LegalHop, HasTransition

-----------------------------------------------------------------------------
(* What each aggregate decides is lawful and keeps its states.             *)

\* Deciding nothing is lawful.
LEMMA LawfulNone ==
  ASSUME NEW w, NEW s
  PROVE  Lawful(w, s, <<>>)
BY DEF Lawful

\* What is asked of one event.
Legal(w, s, event) ==
  LegalHop(w, s.phase, Evolve(w, s, event).phase) /\ InvariantHolds(w, s, event, Evolve(w, s, event))

\* A legal event is lawful.
LEMMA LawfulOne ==
  ASSUME NEW w, NEW s, NEW e, Legal(w, s, e)
  PROVE  Lawful(w, s, <<e>>)
<1>1. PICK one : one = <<e>>
  OBVIOUS
<1>2. DOMAIN one = {1} /\ one[1] = e
  BY <1>1
<1>3. SubSeq(one, 1, 1 - 1) = <<>>
  BY <1>1
<1>4. EvolveAll(w, s, SubSeq(one, 1, 1 - 1)) = s
  BY <1>3, EvolveNone
<1>. QED BY <1>1, <1>2, <1>4 DEF Lawful, Legal

\* So are two, the second legal after the first.
LEMMA LawfulTwo ==
  ASSUME NEW w, NEW s, NEW d, NEW e, Legal(w, s, d), Legal(w, Evolve(w, s, d), e)
  PROVE  Lawful(w, s, <<d, e>>)
<1>1. PICK two : two = <<d, e>>
  OBVIOUS
<1>2. DOMAIN two = {1, 2} /\ two[1] = d /\ two[2] = e
  BY <1>1
<1>3. SubSeq(two, 1, 1 - 1) = <<>> /\ SubSeq(two, 1, 2 - 1) = <<d>>
  <2>1. SubSeq(two, 1, 1 - 1) = <<>>
    BY <1>1
  <2>2. PICK head : head = SubSeq(two, 1, 2 - 1)
    OBVIOUS
  <2>3. PICK S : S = {d, e}
    OBVIOUS
  <2>4. d \in S /\ e \in S
    BY <2>3
  <2>5. two \in Seq(S) /\ Len(two) = 2
    BY <1>1, <2>4
  <2>6. head \in Seq(S) /\ Len(head) = 1 /\ head[1] = two[1]
    BY <2>2, <2>5
  <2>7. head = <<d>>
    BY <1>2, <2>6
  <2>. QED BY <2>1, <2>2, <2>7
<1>4. /\ EvolveAll(w, s, SubSeq(two, 1, 1 - 1)) = s
      /\ EvolveAll(w, s, SubSeq(two, 1, 2 - 1)) = Evolve(w, s, d)
  BY <1>3, EvolveNone, EvolveOne
<1>. QED BY <1>1, <1>2, <1>4 DEF Lawful, Legal

\* An accepted ledger command keeps the account within its type, and not
\* overdrawn.
LEMMA AccountEvents ==
  ASSUME NEW s \in AccountState, NEW cmd \in Ledger!Command, Ledger!Accepts(s, cmd)
  PROVE  /\ Ledger!Evolve(s, cmd) \in AccountState
         /\ Ledger!NeverOverdraws(s, cmd)
         /\ \/ s.phase = Ledger!Evolve(s, cmd).phase
            \/ \E t \in Hops.Account : s.phase = t[1] /\ Ledger!Evolve(s, cmd).phase = t[3]
<1>1. s.balance_cents \in Nat /\ s.phase \in {"Open", "Frozen", "Closed"}
      /\ s = [phase |-> s.phase, balance_cents |-> s.balance_cents]
  BY DEF AccountState
<1>2. /\ cmd.name \in {"Deposit", "Withdraw"} => cmd.cents \in Nat
      /\ cmd.name \in {"Deposit", "Withdraw", "Freeze", "Unfreeze", "Close"}
  BY CentsAssumption DEF Ledger!Command
<1>3. Ledger!NeverOverdraws(s, cmd)
  BY <1>1, <1>2 DEF Ledger!Accepts, Ledger!NeverOverdraws
<1>4. CASE cmd.name = "Deposit"
  <2>1. Ledger!Evolve(s, cmd) = [phase |-> s.phase, balance_cents |-> s.balance_cents + cmd.cents]
    BY <1>1, <1>4 DEF Ledger!Evolve
  <2>. QED BY <1>1, <1>2, <1>3, <1>4, <2>1 DEF AccountState
<1>5. CASE cmd.name = "Withdraw"
  <2>1. Ledger!Evolve(s, cmd) = [phase |-> s.phase, balance_cents |-> s.balance_cents - cmd.cents]
    BY <1>1, <1>5 DEF Ledger!Evolve
  <2>2. cmd.cents <= s.balance_cents
    BY <1>5 DEF Ledger!Accepts
  <2>. QED BY <1>1, <1>2, <1>3, <1>5, <2>1, <2>2 DEF AccountState
<1>6. CASE cmd.name = "Freeze"
  <2>1. Ledger!Evolve(s, cmd) = [phase |-> "Frozen", balance_cents |-> s.balance_cents]
    BY <1>1, <1>6 DEF Ledger!Evolve
  <2>2. s.phase = "Open" /\ <<"Open", "Freeze", "Frozen">> \in Hops.Account
    BY <1>6 DEF Ledger!Accepts, Hops
  <2>. QED BY <1>1, <1>3, <2>1, <2>2 DEF AccountState
<1>7. CASE cmd.name = "Unfreeze"
  <2>1. Ledger!Evolve(s, cmd) = [phase |-> "Open", balance_cents |-> s.balance_cents]
    BY <1>1, <1>7 DEF Ledger!Evolve
  <2>2. s.phase = "Frozen" /\ <<"Frozen", "Unfreeze", "Open">> \in Hops.Account
    BY <1>7 DEF Ledger!Accepts, Hops
  <2>. QED BY <1>1, <1>3, <2>1, <2>2 DEF AccountState
<1>8. CASE cmd.name = "Close"
  <2>1. Ledger!Evolve(s, cmd) = [phase |-> "Closed", balance_cents |-> s.balance_cents]
    BY <1>1, <1>8 DEF Ledger!Evolve
  <2>2. /\ s.phase = "Open" \/ s.phase = "Frozen"
        /\ <<"Open", "Close", "Closed">> \in Hops.Account
        /\ <<"Frozen", "Close", "Closed">> \in Hops.Account
    BY <1>1, <1>8 DEF Ledger!Accepts, Hops
  <2>. QED BY <1>1, <1>3, <2>1, <2>2 DEF AccountState
<1>. QED BY <1>2, <1>4, <1>5, <1>6, <1>7, <1>8

\* An accepted catalog-ctx command is one event, and its drop moves loot and
\* draws together.
LEMMA ChestEvents ==
  ASSUME NEW s \in ChestState, NEW cmd \in CatalogCtx!Command, NEW drawn, drawn.item \in Item,
         CatalogCtx!Accepts(s, cmd, drawn)
  PROVE  \E e \in ChestEvent :
           /\ CatalogCtx!Decide(cmd, drawn) = <<e>>
           /\ CatalogCtx!Evolve(s, e) \in ChestState
           /\ CatalogCtx!DropsInLockstep(s, e, CatalogCtx!Evolve(s, e))
           /\ \/ s.phase = CatalogCtx!Evolve(s, e).phase
              \/ \E t \in Hops.Chest : s.phase = t[1] /\ CatalogCtx!Evolve(s, e).phase = t[3]
<1>1. /\ s.phase \in {"Sealed", "Open", "Spent"} /\ s.draws_left \in Nat /\ s.loot \in Seq(Item)
      /\ s = [phase |-> s.phase, draws_left |-> s.draws_left, loot |-> s.loot]
      /\ s.phase = "Sealed" => s.draws_left = 0 /\ s.loot = <<>>
      /\ s.phase # "Sealed" => s.draws_left + Len(s.loot) = Capacity
  BY DEF ChestState
<1>2. cmd.name \in {"Open", "Draw", "Gamble", "Close"}
  BY DEF CatalogCtx!Command
<1>3. CASE cmd.name = "Open"
  <2> DEFINE e == [name |-> "Opened"]
  <2>1. s.phase = "Sealed" /\ s.loot = <<>>
    BY <1>1, <1>3 DEF CatalogCtx!Accepts
  <2>2. CatalogCtx!Evolve(s, e) = [phase |-> "Open", draws_left |-> Capacity, loot |-> s.loot]
    BY <1>1 DEF CatalogCtx!Evolve
  <2>3. CatalogCtx!Decide(cmd, drawn) = <<e>> /\ e \in ChestEvent
    BY <1>3 DEF CatalogCtx!Decide, ChestEvent
  <2>4. Len(s.loot) = 0
    BY <2>1
  <2>5. CatalogCtx!Evolve(s, e) \in ChestState
    BY <1>1, <2>2, <2>4, CapacityAssumption DEF ChestState
  <2>6. <<"Sealed", "Unseal", "Open">> \in Hops.Chest
    BY DEF Hops
  <2>7. CatalogCtx!DropsInLockstep(s, e, CatalogCtx!Evolve(s, e))
    BY DEF CatalogCtx!DropsInLockstep
  <2>8. \E t \in Hops.Chest : s.phase = t[1] /\ CatalogCtx!Evolve(s, e).phase = t[3]
    BY <2>1, <2>2, <2>6
  <2> HIDE DEF e
  <2>. QED BY <2>3, <2>5, <2>7, <2>8
<1>4. CASE cmd.name = "Close"
  <2> DEFINE e == [name |-> "Closed"]
  <2>1. s.phase = "Open"
    BY <1>4 DEF CatalogCtx!Accepts
  <2>2. CatalogCtx!Evolve(s, e) = [phase |-> "Spent", draws_left |-> s.draws_left, loot |-> s.loot]
    BY <1>1 DEF CatalogCtx!Evolve
  <2>3. CatalogCtx!Decide(cmd, drawn) = <<e>> /\ e \in ChestEvent
    BY <1>4 DEF CatalogCtx!Decide, ChestEvent
  <2>4. CatalogCtx!Evolve(s, e) \in ChestState
    BY <1>1, <2>1, <2>2 DEF ChestState
  <2>5. <<"Open", "Exhaust", "Spent">> \in Hops.Chest
    BY DEF Hops
  <2>6. CatalogCtx!DropsInLockstep(s, e, CatalogCtx!Evolve(s, e))
    BY DEF CatalogCtx!DropsInLockstep
  <2>7. \E t \in Hops.Chest : s.phase = t[1] /\ CatalogCtx!Evolve(s, e).phase = t[3]
    BY <2>1, <2>2, <2>5
  <2> HIDE DEF e
  <2>. QED BY <2>3, <2>4, <2>6, <2>7
<1>5. CASE cmd.name \in {"Draw", "Gamble"}
  <2> DEFINE e == [name |-> "Dropped", item |-> drawn.item]
  <2>1. s.phase = "Open" /\ s.draws_left > 0
    BY <1>5 DEF CatalogCtx!Accepts
  <2>2. CatalogCtx!Evolve(s, e) = [phase |-> s.phase, draws_left |-> s.draws_left - 1,
                                  loot |-> Append(s.loot, drawn.item)]
    <3>1. e.name = "Dropped" /\ e.item = drawn.item
      OBVIOUS
    <3> HIDE DEF e
    <3>2. CatalogCtx!Evolve(s, e) = [s EXCEPT !.loot = Append(@, e.item),
                                             !.draws_left = IF @ = 0 THEN 0 ELSE @ - 1]
      BY <3>1 DEF CatalogCtx!Evolve
    <3>3. PICK p, n, l : p = s.phase /\ n = s.draws_left /\ l = s.loot
      OBVIOUS
    <3>4. s = [phase |-> p, draws_left |-> n, loot |-> l] /\ n # 0
      BY <1>1, <2>1, <3>3
    <3>5. CatalogCtx!Evolve(s, e) = [phase |-> p, draws_left |-> n - 1, loot |-> Append(l, e.item)]
      BY <3>2, <3>4
    <3>. QED BY <3>1, <3>3, <3>5
  <2>3. CatalogCtx!Decide(cmd, drawn) = <<e>> /\ e \in ChestEvent
    BY <1>5 DEF CatalogCtx!Decide, ChestEvent
  <2>4. Append(s.loot, drawn.item) \in Seq(Item) /\ Len(Append(s.loot, drawn.item)) = Len(s.loot) + 1
        /\ Len(s.loot) \in Nat
    BY <1>1
  <2>5. CatalogCtx!Evolve(s, e) \in ChestState
    <3>1. PICK l : l = Append(s.loot, drawn.item)
      OBVIOUS
    <3>2. l \in Seq(Item) /\ Len(l) = Len(s.loot) + 1 /\ s.draws_left - 1 \in Nat
          /\ (s.draws_left - 1) + Len(l) = Capacity
      BY <1>1, <2>1, <2>4, <3>1
    <3>3. PICK n, t : n = s.draws_left - 1 /\ t = CatalogCtx!Evolve(s, e)
      OBVIOUS
    <3>4. t = [phase |-> "Open", draws_left |-> n, loot |-> l] /\ n \in Nat /\ n + Len(l) = Capacity
      BY <2>1, <2>2, <3>1, <3>2, <3>3
    <3>5. t \in ChestState
      BY <3>2, <3>4 DEF ChestState
    <3>. QED BY <3>3, <3>5
  <2>6. CatalogCtx!DropsInLockstep(s, e, CatalogCtx!Evolve(s, e))
    BY <1>1, <2>1, <2>2, <2>4 DEF CatalogCtx!DropsInLockstep
  <2>7. s.phase = CatalogCtx!Evolve(s, e).phase
    BY <2>2
  <2> HIDE DEF e
  <2>. QED BY <2>3, <2>5, <2>6, <2>7
<1>. QED BY <1>2, <1>3, <1>4, <1>5

\* A hand without one of its cards is a hand, and no longer.
LEMMA WithoutKeepsType ==
  ASSUME NEW S, NEW hand \in Seq(S), NEW card
  PROVE  /\ HiddenInfo!Without(hand, card) \in Seq(S)
         /\ Len(HiddenInfo!Without(hand, card)) <= Len(hand)
<1> DEFINE held == {i \in DOMAIN hand : hand[i] = card}
           at == CHOOSE i \in held : \A j \in held : i <= j
<1>1. CASE held = {}
  BY <1>1 DEF HiddenInfo!Without
<1>2. CASE held # {}
  <2>1. held \in SUBSET Nat /\ held \subseteq 1 .. Len(hand)
    OBVIOUS
  <2>2. \E i \in held : \A j \in held : i <= j
    <3> HIDE DEF held
    <3>. QED BY <1>2, <2>1, Least
  <2>3. at \in 1 .. Len(hand)
    <3> HIDE DEF held
    <3>. QED BY <2>1, <2>2
  <2>4. HiddenInfo!Without(hand, card) = SubSeq(hand, 1, at - 1) \o SubSeq(hand, at + 1, Len(hand))
    BY <1>2 DEF HiddenInfo!Without
  <2> HIDE DEF at
  <2>5. PICK x, y : x = SubSeq(hand, 1, at - 1) /\ y = SubSeq(hand, at + 1, Len(hand))
    OBVIOUS
  <2>6. /\ x \in Seq(S) /\ y \in Seq(S)
        /\ Len(x) = at - 1 /\ Len(y) = Len(hand) - at /\ Len(hand) \in Nat
    BY <2>3, <2>5
  <2>7. x \o y \in Seq(S) /\ Len(x \o y) = Len(x) + Len(y)
    BY <2>6
  <2>8. Len(x) + Len(y) <= Len(hand)
    BY <2>3, <2>6
  <2>. QED BY <2>4, <2>5, <2>7, <2>8
<1>. QED BY <1>1, <1>2

MatchIs(s, ph, b, ps, n, h, f, d) ==
  s = [phase |-> ph, board |-> b, participants |-> ps, turn |-> n, hands |-> h,
       fabrication |-> f, decks |-> d]

\* What joining does to what is kept by participant.
Joins(s, who, t) ==
  /\ HiddenInfo!Participants(t) = HiddenInfo!Participants(s) \union {who}
  /\ t.fabrication = s.fabrication
  /\ t.hands = [p \in DOMAIN s.hands \union {who} |-> IF p = who THEN <<>> ELSE s.hands[p]]
  /\ t.decks = [p \in DOMAIN s.decks \union {who} |-> <<0, 1, 2, 3, 4>>]

\* Joining adds a participant and leaves the rest of the match alone.
LEMMA JoinedKeepsShape ==
  ASSUME NEW s, MatchShape(s), NEW who \in HiddenInfo!Participant,
         NEW t, t = HiddenInfo!Evolve(s, [name |-> "Joined", who |-> who])
  PROVE  /\ MatchShape(t)
         /\ t.phase = s.phase /\ t.board = s.board /\ t.turn = s.turn
         /\ t.participants = Append(s.participants, who)
         /\ Joins(s, who, t)
<1>1. PICK e : e = [name |-> "Joined", who |-> who]
  OBVIOUS
<1>2. e.name = "Joined" /\ e.who = who
  BY <1>1
<1>3. t = [s EXCEPT !.participants = Append(s.participants, e.who),
                   !.hands = [p \in DOMAIN s.hands \union {e.who} |->
                                IF p = e.who THEN <<>> ELSE s.hands[p]],
                   !.decks = [p \in DOMAIN s.decks \union {e.who} |-> <<0, 1, 2, 3, 4>>]]
  BY <1>1, <1>2 DEF HiddenInfo!Evolve
<1>4. PICK ph, b, ps, n, h, f, d : MatchIs(s, ph, b, ps, n, h, f, d)
  BY DEF MatchShape, MatchIs
<1>5. PICK hands, decks, joined :
        /\ hands = [p \in DOMAIN h \union {who} |-> IF p = who THEN <<>> ELSE h[p]]
        /\ decks = [p \in DOMAIN d \union {who} |-> <<0, 1, 2, 3, 4>>]
        /\ joined = Append(ps, who)
  OBVIOUS
<1>6. MatchIs(t, ph, b, joined, n, hands, f, decks)
  <2>1. s.hands = h /\ s.decks = d /\ s.participants = ps
    BY <1>4 DEF MatchIs
  <2>2. t = [s EXCEPT !.participants = joined, !.hands = hands, !.decks = decks]
    BY <1>2, <1>3, <1>5, <2>1, Zenon
  <2>. QED BY <1>4, <2>2 DEF MatchIs
<1>7. s.phase = ph /\ s.board = b /\ s.participants = ps /\ s.turn = n /\ s.hands = h
  BY <1>4 DEF MatchIs
<1>8. t.phase = ph /\ t.board = b /\ t.participants = joined /\ t.turn = n /\ t.hands = hands
      /\ t.fabrication = f /\ t.decks = decks
  BY <1>6 DEF MatchIs
<1>9. ps \in Seq(HiddenInfo!Participant) /\ joined \in Seq(HiddenInfo!Participant)
  BY <1>5, <1>7 DEF MatchShape
<1>10. HiddenInfo!Participants(t) = HiddenInfo!Participants(s) \union {who}
  <2>1. /\ DOMAIN joined = 1 .. Len(ps) + 1 /\ DOMAIN ps = 1 .. Len(ps) /\ Len(ps) \in Nat
        /\ joined[Len(ps) + 1] = who /\ \A i \in 1 .. Len(ps) : joined[i] = ps[i]
    BY <1>5, <1>9
  <2>2. {joined[i] : i \in 1 .. Len(ps) + 1} = {ps[i] : i \in 1 .. Len(ps)} \union {who}
    BY <2>1
  <2>. QED BY <1>7, <1>8, <2>1, <2>2 DEF HiddenInfo!Participants
<1>11. hands \in [HiddenInfo!Participants(t) -> Seq(Card)]
  <2>1. h \in [HiddenInfo!Participants(s) -> Seq(Card)]
    BY <1>7 DEF MatchShape
  <2>2. <<>> \in Seq(Card)
    OBVIOUS
  <2>3. \A p \in HiddenInfo!Participants(t) : hands[p] \in Seq(Card)
    BY <1>5, <1>10, <2>1, <2>2
  <2>. QED BY <1>5, <1>10, <2>1, <2>3
<1>12. /\ ph \in {"Setup", "Playing", "Resolved"} /\ b \in Seq(Card) /\ n \in Nat
       /\ f \in [owner : Nat, value : Nat]
  <2>1. s.fabrication = f
    BY <1>4 DEF MatchIs
  <2>. QED BY <1>7, <2>1 DEF MatchShape
<1>13. MatchShape(t)
  BY <1>6, <1>8, <1>9, <1>11, <1>12 DEF MatchShape, MatchIs
<1>14. s.decks = d /\ s.fabrication = f
  BY <1>4 DEF MatchIs
<1>15. Joins(s, who, t)
  BY <1>5, <1>7, <1>8, <1>10, <1>14 DEF Joins
<1>. QED BY <1>5, <1>7, <1>8, <1>13, <1>15

\* A step that leaves the participants alone.
LEMMA MatchKeepsShape ==
  ASSUME NEW s, MatchShape(s), NEW t,
         MatchIs(t, t.phase, t.board, s.participants, t.turn, t.hands, t.fabrication, t.decks),
         t.phase \in {"Setup", "Playing", "Resolved"}, t.board \in Seq(Card), t.turn \in Nat,
         t.hands \in [HiddenInfo!Participants(s) -> Seq(Card)],
         t.fabrication \in [owner : Nat, value : Nat]
  PROVE  MatchShape(t) /\ t.participants = s.participants
<1>1. t.participants = s.participants
  BY DEF MatchIs
<1>2. HiddenInfo!Participants(t) = HiddenInfo!Participants(s)
  BY <1>1 DEF HiddenInfo!Participants
<1>. QED BY <1>1, <1>2 DEF MatchShape, MatchIs

\* After the setup there is a participant whose turn it is.
LEMMA WhoeverHasTheTurn ==
  ASSUME NEW s, MatchOK(s), s.phase # "Setup"
  PROVE  /\ HiddenInfo!Active(s) \in HiddenInfo!Participants(s)
         /\ HiddenInfo!Active(s) \in HiddenInfo!Participant
<1>1. /\ s.participants \in Seq(HiddenInfo!Participant) /\ Len(s.participants) = 2
      /\ s.turn \in Nat
  BY DEF MatchOK, MatchShape
<1>2. (s.turn % Len(s.participants)) + 1 \in DOMAIN s.participants
  BY <1>1
<1>. QED BY <1>1, <1>2 DEF HiddenInfo!Active, HiddenInfo!Participants

\* Two events, put together.
LEMMA Pair ==
  ASSUME NEW d, NEW e
  PROVE  <<d>> \o <<e>> = <<d, e>>
<1>1. PICK S : S = {d, e}
  OBVIOUS
<1>2. PICK x, y, xy : x = <<d>> /\ y = <<e>> /\ xy = <<d, e>>
  OBVIOUS
<1>3. d \in S /\ e \in S
  BY <1>1
<1>4. /\ x \in Seq(S) /\ y \in Seq(S) /\ xy \in Seq(S)
      /\ Len(x) = 1 /\ Len(y) = 1 /\ Len(xy) = 2
      /\ x[1] = d /\ y[1] = e /\ xy[1] = d /\ xy[2] = e
  BY <1>2, <1>3
<1>5. x \o y \in Seq(S) /\ Len(x \o y) = 2 /\ (x \o y)[1] = d /\ (x \o y)[2] = e
  BY <1>4, ConcatProperties, SMTT(30)
<1>6. x \o y = xy
  BY <1>4, <1>5
<1>. QED BY <1>2, <1>6

\* A join is one event, or two where it starts the match.
LEMMA MatchJoins ==
  ASSUME NEW s, MatchOK(s), NEW cmd \in HiddenInfo!Command, NEW drawn,
         HiddenInfo!Accepts(s, cmd), cmd.name = "Join"
  PROVE  \E d \in MatchEvent :
           LET t == HiddenInfo!Evolve(s, d)
           IN /\ t.phase = s.phase /\ HiddenInfo!BoardOnlyGrows(s, t)
              /\ \/ HiddenInfo!Decide(s, cmd, drawn) = <<d>> /\ MatchOK(t)
                 \/ \E e \in MatchEvent :
                      LET u == HiddenInfo!Evolve(t, e)
                      IN /\ HiddenInfo!Decide(s, cmd, drawn) = <<d, e>> /\ MatchOK(u)
                         /\ \E h \in Hops.MatchState : t.phase = h[1] /\ u.phase = h[3]
                         /\ HiddenInfo!BoardOnlyGrows(t, u)
<1>1. cmd.who \in HiddenInfo!Participant /\ s.phase = "Setup"
  <2>1. cmd.who \in HiddenInfo!Participant
    BY DEF HiddenInfo!Command
  <2>2. s.phase = "Setup"
    BY DEF HiddenInfo!Accepts
  <2>. QED BY <2>1, <2>2
<1>2. PICK d, t : d = [name |-> "Joined", who |-> cmd.who] /\ t = HiddenInfo!Evolve(s, d)
  OBVIOUS
<1>3. PICK n \in Nat : MatchShape(s) /\ n = Len(s.participants) /\ n <= 1
  BY <1>1 DEF MatchOK, MatchShape
<1>4. /\ MatchShape(t) /\ t.phase = s.phase /\ t.board = s.board
      /\ t.participants = Append(s.participants, cmd.who)
  BY <1>1, <1>2, <1>3, JoinedKeepsShape
<1>5. Len(t.participants) = n + 1
  <2>1. s.participants \in Seq(HiddenInfo!Participant)
    BY <1>3 DEF MatchShape
  <2>. QED BY <1>1, <1>3, <1>4, <2>1
<1>6. Len(s.board) \in Nat /\ HiddenInfo!BoardOnlyGrows(s, t)
  <2>1. s.board \in Seq(Card)
    BY <1>3 DEF MatchShape
  <2>. QED BY <1>4, <2>1 DEF HiddenInfo!BoardOnlyGrows
<1>7. d \in MatchEvent
  BY <1>1, <1>2 DEF MatchEvent
<1>8. HiddenInfo!Decide(s, cmd, drawn) =
        <<d>> \o IF Len(s.participants) + 1 >= 2 THEN <<[name |-> "Started"]>> ELSE <<>>
  BY <1>2 DEF HiddenInfo!Decide
<1>9. CASE n = 0
  <2>1. HiddenInfo!Decide(s, cmd, drawn) = <<d>>
    <3>1. ~(Len(s.participants) + 1 >= 2)
      BY <1>3, <1>9
    <3>2. <<d>> \o <<>> = <<d>>
      OBVIOUS
    <3>. QED BY <1>8, <3>1, <3>2
  <2>2. MatchOK(t)
    BY <1>1, <1>4, <1>5, <1>9 DEF MatchOK
  <2>. QED BY <1>2, <1>4, <1>6, <1>7, <2>1, <2>2
<1>10. CASE n = 1
  <2>1. PICK e, u : e = [name |-> "Started"] /\ u = HiddenInfo!Evolve(t, e)
    OBVIOUS
  <2>2. HiddenInfo!Decide(s, cmd, drawn) = <<d, e>>
    <3>1. Len(s.participants) + 1 >= 2
      BY <1>3, <1>10
    <3>2. <<d>> \o <<e>> = <<d, e>>
      BY Pair
    <3>. QED BY <1>8, <2>1, <3>1, <3>2
  <2>3. u = [t EXCEPT !.phase = "Playing"]
    BY <2>1 DEF HiddenInfo!Evolve
  <2>4. PICK b, ps, turn, h, f, k :
          /\ t = [phase |-> t.phase, board |-> b, participants |-> ps, turn |-> turn, hands |-> h,
                  fabrication |-> f, decks |-> k]
          /\ b = t.board /\ ps = t.participants /\ turn = t.turn /\ h = t.hands
          /\ f = t.fabrication
    BY <1>4 DEF MatchShape
  <2>5. u = [phase |-> "Playing", board |-> b, participants |-> ps, turn |-> turn, hands |-> h,
             fabrication |-> f, decks |-> k]
    BY <2>3, <2>4
  <2>6. /\ b \in Seq(Card) /\ turn \in Nat /\ ps = t.participants
        /\ h \in [HiddenInfo!Participants(t) -> Seq(Card)]
        /\ f \in [owner : Nat, value : Nat]
    BY <1>4, <2>4 DEF MatchShape
  <2>7. /\ u.phase = "Playing" /\ u.board = b /\ u.participants = ps /\ u.turn = turn /\ u.hands = h
        /\ u.fabrication = f /\ u.decks = k
    BY <2>5
  <2>8. MatchIs(u, u.phase, u.board, t.participants, u.turn, u.hands, u.fabrication, u.decks)
    BY <2>5, <2>6, <2>7 DEF MatchIs
  <2>9. MatchShape(u) /\ u.participants = t.participants
    BY <1>4, <2>6, <2>7, <2>8, MatchKeepsShape
  <2>10. MatchOK(u)
    BY <1>5, <1>10, <2>7, <2>9 DEF MatchOK
  <2>11. <<"Setup", "Start", "Playing">> \in Hops.MatchState
    BY DEF Hops
  <2>12. \E x \in Hops.MatchState : t.phase = x[1] /\ u.phase = x[3]
    BY <1>1, <1>4, <2>7, <2>11
  <2>13. HiddenInfo!BoardOnlyGrows(t, u)
    BY <1>4, <1>6, <2>4, <2>7 DEF HiddenInfo!BoardOnlyGrows
  <2>14. e \in MatchEvent
    BY <2>1 DEF MatchEvent
  <2>. QED BY <1>2, <1>4, <1>6, <1>7, <2>1, <2>2, <2>10, <2>12, <2>13, <2>14
<1>11. n = 0 \/ n = 1
  <2>1. n <= 1
    BY <1>3
  <2>. QED BY <2>1
<1>. QED BY <1>9, <1>10, <1>11

\* A card more, at most, on the board and in each hand.
GrowsByOne(s, t) ==
  /\ t.participants = s.participants /\ t.fabrication = s.fabrication /\ t.decks = s.decks
  /\ t.turn = s.turn \/ t.turn <= 1
  /\ Len(t.board) <= Len(s.board) + 1
  /\ DOMAIN t.hands = DOMAIN s.hands
  /\ \A p \in DOMAIN s.hands : Len(t.hands[p]) <= Len(s.hands[p]) + 1

\* Any other accepted hidden-info command is one event, which keeps the match
\* in shape.
LEMMA MatchEvents ==
  ASSUME NEW s, MatchOK(s), NEW cmd \in HiddenInfo!Command, NEW drawn, drawn.value \in Card,
         HiddenInfo!Accepts(s, cmd), cmd.name # "Join"
  PROVE  \E e \in MatchEvent :
           LET t == HiddenInfo!Evolve(s, e)
           IN /\ HiddenInfo!Decide(s, cmd, drawn) = <<e>> /\ MatchOK(t)
              /\ \/ s.phase = t.phase
                 \/ \E h \in Hops.MatchState : s.phase = h[1] /\ t.phase = h[3]
              /\ HiddenInfo!BoardOnlyGrows(s, t) /\ GrowsByOne(s, t)
<1>1. cmd.name \in {"Draw", "PlayCard", "EndTurn", "Timeout"}
  BY DEF HiddenInfo!Command
<1>2. s.phase = "Playing" /\ (cmd.name # "Timeout" => cmd.who = HiddenInfo!Active(s))
  BY <1>1 DEF HiddenInfo!Accepts, HiddenInfo!HasTurn
<1>3. PICK who : who = HiddenInfo!Active(s)
  OBVIOUS
<1>4. who \in HiddenInfo!Participants(s) /\ who \in HiddenInfo!Participant
  BY <1>2, <1>3, WhoeverHasTheTurn
<1>5. MatchShape(s) /\ Len(s.participants) = 2
  BY <1>2 DEF MatchOK
<1>6. PICK b, ps, n, h, f, k :
        /\ s = [phase |-> "Playing", board |-> b, participants |-> ps, turn |-> n, hands |-> h,
                fabrication |-> f, decks |-> k]
        /\ b = s.board /\ ps = s.participants /\ n = s.turn /\ h = s.hands
        /\ f = s.fabrication /\ k = s.decks
  BY <1>2, <1>5 DEF MatchShape
<1>7. /\ b \in Seq(Card) /\ Len(b) \in Nat /\ n \in Nat
      /\ h \in [HiddenInfo!Participants(s) -> Seq(Card)]
      /\ f \in [owner : Nat, value : Nat]
  BY <1>5, <1>6 DEF MatchShape
\* What is left to show of each event.
<1> DEFINE Keeps(t, ph, b1, n1, h1) ==
             t = [phase |-> ph, board |-> b1, participants |-> ps, turn |-> n1, hands |-> h1,
                  fabrication |-> f, decks |-> k]
           NoHandGrows(h1) == \A p \in HiddenInfo!Participants(s) : Len(h1[p]) <= Len(h[p]) + 1
<1>8. ASSUME NEW t, NEW ph \in {"Playing", "Resolved"}, NEW b1 \in Seq(Card), NEW n1 \in Nat,
             NEW h1 \in [HiddenInfo!Participants(s) -> Seq(Card)],
             Keeps(t, ph, b1, n1, h1), Len(b1) >= Len(b), Len(b1) <= Len(b) + 1,
             n1 = n \/ n1 <= 1, NoHandGrows(h1)
      PROVE  /\ MatchOK(t)
             /\ s.phase = t.phase \/ \E x \in Hops.MatchState : s.phase = x[1] /\ t.phase = x[3]
             /\ HiddenInfo!BoardOnlyGrows(s, t) /\ GrowsByOne(s, t)
  <2>1. /\ t.phase = ph /\ t.board = b1 /\ t.participants = ps /\ t.turn = n1 /\ t.hands = h1
        /\ t.fabrication = f /\ t.decks = k
    BY <1>8
  <2>2. MatchIs(t, t.phase, t.board, s.participants, t.turn, t.hands, t.fabrication, t.decks)
    BY <1>6, <1>8, <2>1 DEF MatchIs
  <2>3. MatchShape(t) /\ t.participants = s.participants
    BY <1>5, <1>7, <1>8, <2>1, <2>2, MatchKeepsShape
  <2>4. MatchOK(t)
    BY <1>5, <1>8, <2>1, <2>3 DEF MatchOK
  <2>5. <<"Playing", "Finish", "Resolved">> \in Hops.MatchState
    BY DEF Hops
  <2>6. s.phase = t.phase \/ \E x \in Hops.MatchState : s.phase = x[1] /\ t.phase = x[3]
    BY <1>2, <1>8, <2>1, <2>5
  <2>7. HiddenInfo!BoardOnlyGrows(s, t)
    BY <1>6, <1>8, <2>1 DEF HiddenInfo!BoardOnlyGrows
  <2>8. GrowsByOne(s, t)
    <3>1. DOMAIN h = HiddenInfo!Participants(s) /\ DOMAIN h1 = HiddenInfo!Participants(s)
      BY <1>7
    <3>. QED BY <1>6, <1>8, <2>1, <3>1 DEF GrowsByOne
  <2>. QED BY <2>4, <2>6, <2>7, <2>8
<1> HIDE DEF Keeps
<1>81. NoHandGrows(h)
  <2>1. ASSUME NEW p \in HiddenInfo!Participants(s) PROVE Len(h[p]) <= Len(h[p]) + 1
    <3>1. Len(h[p]) \in Nat
      BY <1>7
    <3>. QED BY <3>1
  <2>. QED BY <2>1
<1>82. ASSUME NEW who1 \in HiddenInfo!Participants(s), NEW hand \in Seq(Card),
             Len(hand) <= Len(h[who1]) + 1
      PROVE  NoHandGrows([h EXCEPT ![who1] = hand])
  BY <1>7, <1>81, <1>82
<1> HIDE DEF NoHandGrows
<1>83. "Playing" \in {"Playing", "Resolved"} /\ Len(b) >= Len(b) /\ Len(b) <= Len(b) + 1
  BY <1>7
<1>9. CASE cmd.name = "Draw"
  <2>1. PICK e, t : e = [name |-> "Drew", who |-> who, card |-> drawn.value]
                    /\ t = HiddenInfo!Evolve(s, e)
    OBVIOUS
  <2>2. e.name = "Drew" /\ e.who = who /\ e.card = drawn.value /\ e \in MatchEvent
    BY <1>4, <2>1 DEF MatchEvent
  <2>3. HiddenInfo!Decide(s, cmd, drawn) = <<e>>
    BY <1>2, <1>3, <1>9, <2>1 DEF HiddenInfo!Decide
  <2>4. t = [s EXCEPT !.hands[who] = Append(@, drawn.value)]
    BY <2>1, <2>2 DEF HiddenInfo!Evolve
  <2>5. PICK h1 : h1 = [h EXCEPT ![who] = Append(h[who], drawn.value)]
    OBVIOUS
  <2>6. Keeps(t, "Playing", b, n, h1)
    BY <1>6, <2>4, <2>5 DEF Keeps
  <2>7. h1 \in [HiddenInfo!Participants(s) -> Seq(Card)]
    BY <1>4, <1>7, <2>5
  <2>8. NoHandGrows(h1)
    <3>1. PICK hand : hand = Append(h[who], drawn.value)
      OBVIOUS
    <3>2. h[who] \in Seq(Card)
      BY <1>4, <1>7
    <3>3. hand \in Seq(Card) /\ Len(hand) <= Len(h[who]) + 1
      BY <3>1, <3>2
    <3>4. h1 = [h EXCEPT ![who] = hand]
      BY <2>5, <3>1
    <3>. QED BY <1>4, <1>82, <3>3, <3>4
  <2>9. /\ MatchOK(t)
        /\ s.phase = t.phase \/ \E x \in Hops.MatchState : s.phase = x[1] /\ t.phase = x[3]
        /\ HiddenInfo!BoardOnlyGrows(s, t) /\ GrowsByOne(s, t)
    BY <1>7, <1>8, <1>83, <2>6, <2>7, <2>8
  <2>. QED BY <2>1, <2>2, <2>3, <2>9
<1>10. CASE cmd.name = "PlayCard"
  <2>1. PICK card : card = Head(h[who])
    OBVIOUS
  <2>2. PICK e, t : e = [name |-> "Played", who |-> who, card |-> card]
                    /\ t = HiddenInfo!Evolve(s, e)
    OBVIOUS
  <2>3. h[who] # <<>> /\ h[who] \in Seq(Card)
    BY <1>2, <1>3, <1>4, <1>6, <1>7, <1>10 DEF HiddenInfo!Accepts
  <2>4. card \in Card
    BY <2>1, <2>3
  <2>5. e.name = "Played" /\ e.who = who /\ e.card = card /\ e \in MatchEvent
    BY <1>4, <2>2, <2>4 DEF MatchEvent
  <2>6. HiddenInfo!Decide(s, cmd, drawn) = <<e>>
    BY <1>2, <1>3, <1>6, <1>10, <2>1, <2>2 DEF HiddenInfo!Decide
  <2>7. t = [s EXCEPT !.hands[who] = HiddenInfo!Without(@, card), !.board = Append(@, card)]
    BY <2>2, <2>5 DEF HiddenInfo!Evolve
  <2>8. PICK h1, b1 : /\ h1 = [h EXCEPT ![who] = HiddenInfo!Without(h[who], card)]
                      /\ b1 = Append(b, card)
    OBVIOUS
  <2>9. Keeps(t, "Playing", b1, n, h1)
    BY <1>6, <2>7, <2>8 DEF Keeps
  <2>10. h1 \in [HiddenInfo!Participants(s) -> Seq(Card)]
    <3>1. HiddenInfo!Without(h[who], card) \in Seq(Card)
      BY <2>3, WithoutKeepsType
    <3>. QED BY <1>4, <1>7, <2>8, <3>1
  <2>11. b1 \in Seq(Card) /\ Len(b1) >= Len(b) /\ Len(b1) <= Len(b) + 1
    BY <1>7, <2>4, <2>8
  <2>12. NoHandGrows(h1)
    <3>1. PICK hand : hand = HiddenInfo!Without(h[who], card)
      OBVIOUS
    <3>2. hand \in Seq(Card) /\ Len(hand) <= Len(h[who])
      BY <2>3, <3>1, WithoutKeepsType
    <3>3. Len(hand) <= Len(h[who]) + 1
      BY <2>3, <3>2
    <3>. QED BY <1>4, <1>82, <2>8, <3>1, <3>2, <3>3
  <2>. QED BY <1>7, <1>8, <2>2, <2>5, <2>6, <2>9, <2>10, <2>11, <2>12
<1>11. CASE cmd.name = "EndTurn"
  <2>1. PICK e, t : e = [name |-> "TurnEnded"] /\ t = HiddenInfo!Evolve(s, e)
    OBVIOUS
  <2>2. e.name = "TurnEnded" /\ e \in MatchEvent /\ HiddenInfo!Decide(s, cmd, drawn) = <<e>>
    BY <1>11, <2>1 DEF MatchEvent, HiddenInfo!Decide
  <2>3. t = [s EXCEPT !.turn = (s.turn + 1) % Len(s.participants)]
    BY <2>1, <2>2 DEF HiddenInfo!Evolve
  <2>4. PICK n1 \in Nat : n1 = (s.turn + 1) % Len(s.participants) /\ n1 <= 1
    <3>1. (n + 1) % 2 \in Nat /\ (n + 1) % 2 <= 1
      BY <1>7
    <3>. QED BY <1>5, <1>6, <3>1
  <2>5. Keeps(t, "Playing", b, n1, h)
    BY <1>6, <2>3, <2>4 DEF Keeps
  <2>6. /\ MatchOK(t)
        /\ s.phase = t.phase \/ \E x \in Hops.MatchState : s.phase = x[1] /\ t.phase = x[3]
        /\ HiddenInfo!BoardOnlyGrows(s, t) /\ GrowsByOne(s, t)
    BY <1>7, <1>8, <1>81, <1>83, <2>4, <2>5
  <2>. QED BY <2>1, <2>2, <2>6
<1>12. CASE cmd.name = "Timeout"
  <2>1. PICK e, t : e = [name |-> "Resolved"] /\ t = HiddenInfo!Evolve(s, e)
    OBVIOUS
  <2>2. e.name = "Resolved" /\ e \in MatchEvent /\ HiddenInfo!Decide(s, cmd, drawn) = <<e>>
    BY <1>12, <2>1 DEF MatchEvent, HiddenInfo!Decide
  <2>3. t = [s EXCEPT !.phase = "Resolved"]
    BY <2>1, <2>2 DEF HiddenInfo!Evolve
  <2>4. Keeps(t, "Resolved", b, n, h)
    BY <1>6, <2>3 DEF Keeps
  <2>5. /\ MatchOK(t)
        /\ s.phase = t.phase \/ \E x \in Hops.MatchState : s.phase = x[1] /\ t.phase = x[3]
        /\ HiddenInfo!BoardOnlyGrows(s, t) /\ GrowsByOne(s, t)
    BY <1>7, <1>8, <1>81, <1>83, <2>4
  <2>. QED BY <2>1, <2>2, <2>5
<1>. QED BY <1>1, <1>9, <1>10, <1>11, <1>12

\* The aggregate and the tape of a world, of which every draw finds a word it
\* accepts.
LEMMA WorldFacts ==
  ASSUME NEW w \in Worlds
  PROVE  /\ w.aggregate \in {"Account", "Chest", "MatchState"} /\ w.tape \in Tape
         /\ HiddenInfo!AcceptedBy(w.tape, CatalogCtx!TotalWeight)
         /\ HiddenInfo!AcceptedBy(w.tape, Cards)
BY WorldsAssumption DEF Name, Tape

\* Every aggregate starts in a state of its type.
LEMMA StartsOK ==
  ASSUME NEW w \in Worlds
  PROVE  StateOK(w, InitialState[w.aggregate])
<1>1. CASE w.aggregate = "Account"
  BY <1>1 DEF StateOK, InitialState, Ledger!Open, AccountState
<1>2. CASE w.aggregate = "Chest"
  <2>1. <<>> \in Seq(Item)
    OBVIOUS
  <2>. QED BY <1>2, <2>1 DEF StateOK, InitialState, CatalogCtx!Sealed, ChestState
<1>3. CASE w.aggregate = "MatchState"
  <2>1. PICK s : s = HiddenInfo!NewMatch
    OBVIOUS
  <2>2. /\ s.phase = "Setup" /\ s.board = <<>> /\ s.participants = <<>> /\ s.turn = 0
        /\ s.hands = [p \in {} |-> <<>>] /\ s.fabrication \in [owner : Nat, value : Nat]
        /\ s = [phase |-> s.phase, board |-> s.board, participants |-> s.participants,
                turn |-> s.turn, hands |-> s.hands, fabrication |-> s.fabrication,
                decks |-> s.decks]
    BY <2>1 DEF HiddenInfo!NewMatch
  <2>3. HiddenInfo!Participants(s) = {}
    BY <2>2 DEF HiddenInfo!Participants
  <2>4. <<>> \in Seq(Card) /\ <<>> \in Seq(HiddenInfo!Participant) /\ Len(<<>>) <= 1
    OBVIOUS
  <2>5. s.hands \in [HiddenInfo!Participants(s) -> Seq(Card)]
    BY <2>2, <2>3
  <2>6. MatchOK(s)
    BY <2>2, <2>4, <2>5 DEF MatchOK, MatchShape
  <2>7. InitialState[w.aggregate] = s
    BY <1>3, <2>1 DEF InitialState
  <2>. QED BY <1>3, <2>6, <2>7 DEF StateOK
<1>. QED BY <1>1, <1>2, <1>3, WorldFacts

\* What is tried is a command.
LEMMA StrategiesOK ==
  ASSUME NEW w \in Worlds, NEW s, StateOK(w, s), NEW cmd \in CommandStrategy(w, s)
  PROVE  cmd \in Command[w.aggregate]
<1>1. CASE w.aggregate # "MatchState"
  BY <1>1 DEF CommandStrategy
<1>2. CASE w.aggregate = "MatchState"
  <2>1. cmd \in HiddenInfo!Strategy(s) /\ MatchOK(s)
    BY <1>2 DEF CommandStrategy, StateOK
  <2>2. Command[w.aggregate] = HiddenInfo!Command
    BY <1>2 DEF Command
  <2>3. CASE s.phase = "Setup"
    <3>1. PICK n \in Nat : n = Len(s.participants) /\ n <= 1
      BY <2>1, <2>3 DEF MatchOK, MatchShape
    <3>2. n \in HiddenInfo!Participant
      <4>1. n <= 1
        BY <3>1
      <4>. QED BY <4>1 DEF HiddenInfo!Participant
    <3>3. cmd = [name |-> "Join", who |-> n]
      BY <2>1, <2>3, <3>1 DEF HiddenInfo!Strategy
    <3>. QED BY <2>2, <3>2, <3>3 DEF HiddenInfo!Command
  <2>4. CASE s.phase # "Setup"
    <3>1. HiddenInfo!Active(s) \in HiddenInfo!Participant
      BY <2>1, <2>4, WhoeverHasTheTurn
    <3>2. cmd \in [name : {"Draw", "PlayCard", "EndTurn"}, who : {HiddenInfo!Active(s)}]
                  \union [name : {"Timeout"}]
      BY <2>1, <2>4 DEF HiddenInfo!Strategy
    <3>. QED BY <2>2, <3>1, <3>2 DEF HiddenInfo!Command
  <2>. QED BY <2>3, <2>4
<1>. QED BY <1>1, <1>2

\* A decision, of whichever aggregate.
DecisionOK(w, s, pos, d) ==
  /\ d = [accepted |-> d.accepted, events |-> d.events, pos |-> d.pos]
  /\ d.accepted \in BOOLEAN
  /\ d.pos \in Nat /\ d.pos >= pos
  /\ d.events \in Seq(EventSet[w.aggregate])
  /\ ~d.accepted => d.events = <<>>
  /\ StateOK(w, EvolveAll(w, s, d.events))
  /\ Lawful(w, s, d.events)

\* A refusal is as good a decision as its position.
LEMMA RejectionOK ==
  ASSUME NEW w, NEW s, StateOK(w, s), NEW pos \in Nat, NEW after \in Nat, after >= pos
  PROVE  DecisionOK(w, s, pos, Rejected(after))
<1>1. PICK d : d = Rejected(after)
  OBVIOUS
<1>2. /\ d = [accepted |-> d.accepted, events |-> d.events, pos |-> d.pos]
      /\ d.accepted = FALSE /\ d.events = <<>> /\ d.pos = after
  BY <1>1 DEF Rejected
<1>3. EvolveAll(w, s, d.events) = s /\ Lawful(w, s, d.events)
  BY <1>2, EvolveNone, LawfulNone
<1>4. d.events \in Seq(EventSet[w.aggregate])
  BY <1>2
<1>. QED BY <1>1, <1>2, <1>3, <1>4 DEF DecisionOK

\* A decision of one legal event.
LEMMA AcceptedOne ==
  ASSUME NEW w, NEW s, NEW pos \in Nat, NEW after \in Nat, after >= pos,
         NEW e \in EventSet[w.aggregate], Legal(w, s, e), StateOK(w, Evolve(w, s, e))
  PROVE  DecisionOK(w, s, pos, Accepted(<<e>>, after))
<1>1. PICK d : d = Accepted(<<e>>, after)
  OBVIOUS
<1>2. /\ d = [accepted |-> d.accepted, events |-> d.events, pos |-> d.pos]
      /\ d.accepted = TRUE /\ d.events = <<e>> /\ d.pos = after
  BY <1>1 DEF Accepted
<1>3. EvolveAll(w, s, d.events) = Evolve(w, s, e) /\ Lawful(w, s, d.events)
  BY <1>2, EvolveOne, LawfulOne
<1>4. d.events \in Seq(EventSet[w.aggregate])
  <2>1. \A E : e \in E => <<e>> \in Seq(E)
    OBVIOUS
  <2>. QED BY <1>2, <2>1
<1>. QED BY <1>1, <1>2, <1>3, <1>4 DEF DecisionOK

\* A decision of two legal events.
LEMMA AcceptedTwo ==
  ASSUME NEW w, NEW s, NEW pos \in Nat, NEW after \in Nat, after >= pos,
         NEW c \in EventSet[w.aggregate], NEW e \in EventSet[w.aggregate],
         Legal(w, s, c), Legal(w, Evolve(w, s, c), e), StateOK(w, Evolve(w, Evolve(w, s, c), e))
  PROVE  DecisionOK(w, s, pos, Accepted(<<c, e>>, after))
<1>1. PICK d : d = Accepted(<<c, e>>, after)
  OBVIOUS
<1>2. /\ d = [accepted |-> d.accepted, events |-> d.events, pos |-> d.pos]
      /\ d.accepted = TRUE /\ d.events = <<c, e>> /\ d.pos = after
  BY <1>1 DEF Accepted
<1>3. EvolveAll(w, s, d.events) = Evolve(w, Evolve(w, s, c), e) /\ Lawful(w, s, d.events)
  BY <1>2, EvolveTwo, LawfulTwo
<1>4. d.events \in Seq(EventSet[w.aggregate])
  <2>1. \A E : c \in E /\ e \in E => <<c, e>> \in Seq(E)
    OBVIOUS
  <2>. QED BY <1>2, <2>1
<1>. QED BY <1>1, <1>2, <1>3, <1>4 DEF DecisionOK

\* Whatever ledger decides is lawful and leaves a state of its type.
LEMMA AccountDecisions ==
  ASSUME NEW w \in Worlds, w.aggregate = "Account", NEW s, StateOK(w, s),
         NEW cmd \in Command[w.aggregate], NEW pos \in Nat
  PROVE  DecisionOK(w, s, pos, Decide(w, s, cmd, pos))
<1>1. s \in AccountState /\ cmd \in Ledger!Command /\ EventSet[w.aggregate] = Ledger!Command
  BY DEF StateOK, Command, EventSet
<1>2. CASE Ledger!Accepts(s, cmd)
  <2>1. Decide(w, s, cmd, pos) = Accepted(<<cmd>>, pos)
    BY <1>2 DEF Decide, Ledger!Decide
  <2>2. PICK t : t = Evolve(w, s, cmd) /\ t = Ledger!Evolve(s, cmd)
    BY DEF Evolve
  <2>3. /\ t \in AccountState /\ Ledger!NeverOverdraws(s, cmd)
        /\ s.phase = t.phase \/ \E h \in Hops.Account : s.phase = h[1] /\ t.phase = h[3]
    BY <1>1, <1>2, <2>2, AccountEvents
  <2>4. LegalHop(w, s.phase, t.phase)
    <3>1. w.aggregate \in Name /\ Hops[w.aggregate] = Hops.Account
      BY DEF Name
    <3>2. CASE s.phase = t.phase
      BY <3>2 DEF LegalHop
    <3>3. ASSUME NEW h \in Hops.Account, s.phase = h[1], t.phase = h[3]
          PROVE  LegalHop(w, s.phase, t.phase)
      BY <3>1, <3>3, HopsAreLegal
    <3>. QED BY <2>3, <3>2, <3>3
  <2>5. Legal(w, s, cmd) /\ StateOK(w, Evolve(w, s, cmd))
    BY <2>2, <2>3, <2>4 DEF Legal, InvariantHolds, StateOK
  <2>6. pos >= pos
    OBVIOUS
  <2>. QED BY <1>1, <2>1, <2>5, <2>6, AcceptedOne
<1>3. CASE ~Ledger!Accepts(s, cmd)
  <2>1. Decide(w, s, cmd, pos) = Rejected(pos)
    BY <1>3 DEF Decide
  <2>2. pos >= pos
    OBVIOUS
  <2>. QED BY <2>1, <2>2, RejectionOK
<1>. QED BY <1>2, <1>3

\* Whatever catalog-ctx decides, on whatever draw, is lawful and leaves a state
\* of its type.
LEMMA ChestDecisions ==
  ASSUME NEW w \in Worlds, w.aggregate = "Chest", NEW s, StateOK(w, s),
         NEW cmd \in Command[w.aggregate], NEW pos \in Nat
  PROVE  DecisionOK(w, s, pos, Decide(w, s, cmd, pos))
<1>1. s \in ChestState /\ cmd \in CatalogCtx!Command /\ EventSet[w.aggregate] = ChestEvent
  BY DEF StateOK, Command, EventSet
<1>2. PICK drawn, after : /\ drawn = CatalogCtx!DrawItem(w.tape, pos)
                          /\ after = CatalogCtx!PosAfter(s, cmd, pos, drawn)
  OBVIOUS
<1>3. drawn.item \in Item /\ drawn.pos \in Nat /\ drawn.pos >= pos
  <2>1. PICK r : r = HiddenInfo!DrawRange(w.tape, pos, 0, CatalogCtx!TotalWeight)
    OBVIOUS
  <2>2. drawn.item = CatalogCtx!ItemAt(r.value) /\ drawn.pos = r.pos
    BY <1>2, <2>1, SameDraws DEF CatalogCtx!DrawItem
  <2>3. r.value \in 0 .. CatalogCtx!TotalWeight - 1 /\ r.pos \in Nat /\ r.pos >= pos
    BY <2>1, PicksAnItem, WorldFacts, DrawsInRange
  <2>. QED BY <2>2, <2>3, PicksAnItem
<1>4. after \in Nat /\ after >= pos
  BY <1>2, <1>3 DEF CatalogCtx!PosAfter
<1>5. CASE CatalogCtx!Accepts(s, cmd, drawn)
  <2>1. Decide(w, s, cmd, pos) = Accepted(CatalogCtx!Decide(cmd, drawn), after)
    BY <1>2, <1>5 DEF Decide
  <2>2. PICK e \in ChestEvent :
          /\ CatalogCtx!Decide(cmd, drawn) = <<e>>
          /\ CatalogCtx!Evolve(s, e) \in ChestState
          /\ CatalogCtx!DropsInLockstep(s, e, CatalogCtx!Evolve(s, e))
          /\ \/ s.phase = CatalogCtx!Evolve(s, e).phase
             \/ \E t \in Hops.Chest : s.phase = t[1] /\ CatalogCtx!Evolve(s, e).phase = t[3]
    BY <1>1, <1>3, <1>5, ChestEvents
  <2>3. PICK t : t = Evolve(w, s, e) /\ t = CatalogCtx!Evolve(s, e)
    BY DEF Evolve
  <2>4. LegalHop(w, s.phase, t.phase)
    <3>1. w.aggregate \in Name /\ Hops[w.aggregate] = Hops.Chest
      BY DEF Name
    <3>2. CASE s.phase = t.phase
      BY <3>2 DEF LegalHop
    <3>3. ASSUME NEW h \in Hops.Chest, s.phase = h[1], t.phase = h[3]
          PROVE  LegalHop(w, s.phase, t.phase)
      BY <3>1, <3>3, HopsAreLegal
    <3>. QED BY <2>2, <2>3, <3>2, <3>3
  <2>5. Legal(w, s, e) /\ StateOK(w, Evolve(w, s, e))
    BY <2>2, <2>3, <2>4 DEF Legal, InvariantHolds, StateOK
  <2>. QED BY <1>1, <1>4, <2>1, <2>2, <2>5, AcceptedOne
<1>6. CASE ~CatalogCtx!Accepts(s, cmd, drawn)
  <2>1. Decide(w, s, cmd, pos) = Rejected(after)
    BY <1>2, <1>6 DEF Decide
  <2>. QED BY <1>4, <2>1, RejectionOK
<1>. QED BY <1>5, <1>6

\* Whatever hidden-info decides, on whatever draw, is lawful and leaves a state
\* of its type.
LEMMA MatchDecisions ==
  ASSUME NEW w \in Worlds, w.aggregate = "MatchState", NEW s, StateOK(w, s),
         NEW cmd \in Command[w.aggregate], NEW pos \in Nat
  PROVE  DecisionOK(w, s, pos, Decide(w, s, cmd, pos))
<1>1. MatchOK(s) /\ cmd \in HiddenInfo!Command /\ EventSet[w.aggregate] = MatchEvent
  BY DEF StateOK, Command, EventSet
<1>2. PICK drawn, after : /\ drawn = HiddenInfo!DrawRange(w.tape, pos, 0, Cards)
                          /\ after = HiddenInfo!PosAfter(s, cmd, pos, drawn)
  OBVIOUS
<1>3. drawn.value \in Card /\ drawn.pos \in Nat /\ drawn.pos >= pos
  <2>1. Cards \in Nat
    BY CardsAssumption
  <2>. QED BY <1>2, <2>1, WorldFacts, DrawsInRange DEF Card
<1>4. after \in Nat /\ after >= pos
  BY <1>2, <1>3 DEF HiddenInfo!PosAfter
<1>5. \A x, e : Evolve(w, x, e) = HiddenInfo!Evolve(x, e)
  BY DEF Evolve
<1>6. ASSUME NEW x, NEW e, NEW t, t = HiddenInfo!Evolve(x, e), HiddenInfo!BoardOnlyGrows(x, t),
             x.phase = t.phase \/ \E h \in Hops.MatchState : x.phase = h[1] /\ t.phase = h[3]
      PROVE  Legal(w, x, e)
  <2>1. LegalHop(w, x.phase, t.phase)
    <3>1. w.aggregate \in Name /\ Hops[w.aggregate] = Hops.MatchState
      BY DEF Name
    <3>2. CASE x.phase = t.phase
      BY <3>2 DEF LegalHop
    <3>3. ASSUME NEW h \in Hops.MatchState, x.phase = h[1], t.phase = h[3]
          PROVE  LegalHop(w, x.phase, t.phase)
      BY <3>1, <3>3, HopsAreLegal
    <3>. QED BY <1>6, <3>2, <3>3
  <2>. QED BY <1>5, <1>6, <2>1 DEF Legal, InvariantHolds
<1>7. CASE HiddenInfo!Accepts(s, cmd)
  <2>1. Decide(w, s, cmd, pos) = Accepted(HiddenInfo!Decide(s, cmd, drawn), after)
    BY <1>2, <1>7 DEF Decide
  <2>2. CASE cmd.name = "Join"
    <3>1. PICK d \in MatchEvent :
            LET t == HiddenInfo!Evolve(s, d)
            IN /\ t.phase = s.phase /\ HiddenInfo!BoardOnlyGrows(s, t)
               /\ \/ HiddenInfo!Decide(s, cmd, drawn) = <<d>> /\ MatchOK(t)
                  \/ \E e \in MatchEvent :
                       LET u == HiddenInfo!Evolve(t, e)
                       IN /\ HiddenInfo!Decide(s, cmd, drawn) = <<d, e>> /\ MatchOK(u)
                          /\ \E h \in Hops.MatchState : t.phase = h[1] /\ u.phase = h[3]
                          /\ HiddenInfo!BoardOnlyGrows(t, u)
      BY <1>1, <1>7, <2>2, MatchJoins
    <3>2. PICK t : t = HiddenInfo!Evolve(s, d)
      OBVIOUS
    <3>3. Legal(w, s, d)
      BY <1>6, <3>1, <3>2
    <3>4. CASE HiddenInfo!Decide(s, cmd, drawn) = <<d>> /\ MatchOK(t)
      <4>1. StateOK(w, Evolve(w, s, d))
        BY <1>5, <3>2, <3>4 DEF StateOK
      <4>. QED BY <1>1, <1>4, <2>1, <3>3, <3>4, <4>1, AcceptedOne
    <3>5. ASSUME NEW e \in MatchEvent, HiddenInfo!Decide(s, cmd, drawn) = <<d, e>>,
                 MatchOK(HiddenInfo!Evolve(t, e)),
                 \E h \in Hops.MatchState :
                   t.phase = h[1] /\ HiddenInfo!Evolve(t, e).phase = h[3],
                 HiddenInfo!BoardOnlyGrows(t, HiddenInfo!Evolve(t, e))
          PROVE  DecisionOK(w, s, pos, Decide(w, s, cmd, pos))
      <4>1. Legal(w, t, e)
        BY <1>6, <3>5
      <4>2. Evolve(w, s, d) = t /\ StateOK(w, Evolve(w, t, e))
        BY <1>5, <3>2, <3>5 DEF StateOK
      <4>. QED BY <1>1, <1>4, <2>1, <3>3, <3>5, <4>1, <4>2, AcceptedTwo
    <3>. QED BY <3>1, <3>2, <3>4, <3>5
  <2>3. CASE cmd.name # "Join"
    <3>1. PICK e \in MatchEvent :
            LET t == HiddenInfo!Evolve(s, e)
            IN /\ HiddenInfo!Decide(s, cmd, drawn) = <<e>> /\ MatchOK(t)
               /\ \/ s.phase = t.phase
                  \/ \E h \in Hops.MatchState : s.phase = h[1] /\ t.phase = h[3]
               /\ HiddenInfo!BoardOnlyGrows(s, t)
      BY <1>1, <1>3, <1>7, <2>3, MatchEvents
    <3>2. Legal(w, s, e)
      BY <1>6, <3>1
    <3>3. StateOK(w, Evolve(w, s, e))
      BY <1>5, <3>1 DEF StateOK
    <3>. QED BY <1>1, <1>4, <2>1, <3>1, <3>2, <3>3, AcceptedOne
  <2>. QED BY <2>2, <2>3
<1>8. CASE ~HiddenInfo!Accepts(s, cmd)
  <2>1. Decide(w, s, cmd, pos) = Rejected(after)
    BY <1>2, <1>8 DEF Decide
  <2>. QED BY <1>4, <2>1, RejectionOK
<1>. QED BY <1>7, <1>8

\* So it is for every aggregate.
LEMMA DecisionsOK ==
  ASSUME NEW w \in Worlds, NEW s, StateOK(w, s), NEW cmd \in Command[w.aggregate],
         NEW pos \in Nat
  PROVE  DecisionOK(w, s, pos, DecideOnly(w, s, cmd, pos))
<1>1. CASE StructurallyRejected(w, s, cmd)
  <2>1. DecideOnly(w, s, cmd, pos) = Rejected(pos) /\ pos >= pos
    BY <1>1 DEF DecideOnly
  <2>. QED BY <2>1, RejectionOK
<1>2. CASE ~StructurallyRejected(w, s, cmd)
  <2>1. DecideOnly(w, s, cmd, pos) = Decide(w, s, cmd, pos)
    BY <1>2 DEF DecideOnly
  <2>. QED BY <2>1, AccountDecisions, ChestDecisions, MatchDecisions, WorldFacts
<1>. QED BY <1>1, <1>2

-----------------------------------------------------------------------------
(* The inductive invariant.                                                *)

IsSeq(x) == x \in Seq({x[i] : i \in DOMAIN x})

BatchRecord(w) == [events : Seq(EventSet[w.aggregate]), entropy_pos : Nat]

Batches(records) == [i \in 1 .. Len(records) |-> records[i].events]

\* The log of a run: from the genesis on, with positions that never go back.
JournalIs(journal, records) ==
  journal = [records |-> records, snapshots |-> {M!Genesis}, truncated |-> 0]

LogOK(w, records) ==
  /\ records \in Seq(BatchRecord(w))
  /\ \A i \in 2 .. Len(records) : records[i].entropy_pos >= records[i - 1].entropy_pos

\* A run is what its log says: its state is what replay makes of the log, and
\* each of its steps what replay makes of the log up to there.
RunOK(w, run) ==
  LET records == run.journal.records
  IN /\ run = [journal |-> run.journal, state |-> run.state, steps |-> run.steps]
     /\ JournalIs(run.journal, records)
     /\ LogOK(w, records)
     /\ StateOK(w, run.state)
     /\ run.state = Rebuilt(w, Batches(records))
     /\ IsSeq(run.steps) /\ Len(run.steps) = Len(records)
     /\ \A i \in 1 .. Len(records) :
          /\ run.steps[i].seq = i
          /\ run.steps[i].digest = Digest128(w, Rebuilt(w, Batches(SubSeq(records, 1, i))))

TrailOK ==
  /\ world \in Worlds
  /\ commands \in Seq(Command[world.aggregate])
  /\ IsSeq(trail) /\ Len(trail) = Len(commands) + 1
  /\ trail[1] = NewRun(world)
  /\ \A i \in 1 .. Len(commands) : trail[i + 1] = Step(world, trail[i], commands[i])
  /\ \A i \in 1 .. Len(trail) : RunOK(world, trail[i])

\* The twin's log has what the reference run's has.
TwinOK ==
  twin = [log |-> [records |-> Reference.journal.records, snapshots |-> <<>>],
          state |-> Reference.state]

\* Nothing is left armed, and the run under faults is where the reference run
\* was after as many commands.
FaultedOK ==
  /\ mode \in {"recording", "faulted", "leak"}
  /\ faulted = [run |-> faulted.run, step |-> faulted.step]
  /\ faulted.step \in 0 .. Len(commands)
  /\ faulted.run = trail[faulted.step + 1]
  /\ mode # "faulted" => faulted.step = 0
  /\ armed = FALSE
  /\ \A s \in branch : s = faulted.run.state

\* Two matches that differ in nothing but what the perturbed hold.
Alike(s, t, perturbed) ==
  /\ t.phase = s.phase /\ t.board = s.board /\ t.participants = s.participants
  /\ t.turn = s.turn /\ t.decks = s.decks
  /\ \A p \in DOMAIN s.hands :
       /\ Len(t.hands[p]) = Len(s.hands[p])
       /\ p \notin perturbed => t.hands[p] = s.hands[p]
  /\ t.fabrication.owner = s.fabrication.owner
  /\ s.fabrication.owner \notin perturbed => t.fabrication.value = s.fabrication.value

LeakOK ==
  /\ leak = [steps |-> leak.steps, at |-> leak.at, perturbed |-> leak.perturbed,
             base |-> leak.base, sibling |-> leak.sibling]
  /\ leak.steps \in 0 .. MaxLeakSteps /\ leak.at \in Nat
  /\ StateOK(world, leak.base) /\ StateOK(world, leak.sibling)
  /\ mode = "leak" => /\ world.aggregate = "MatchState"
                      /\ Alike(leak.base, leak.sibling, leak.perturbed)

IInv == TrailOK /\ TwinOK /\ FaultedOK /\ LeakOK

\* A sequence with one element more.
LEMMA Grown ==
  ASSUME NEW x, IsSeq(x), NEW e
  PROVE  /\ IsSeq(Append(x, e)) /\ Len(Append(x, e)) = Len(x) + 1
         /\ Len(x) \in Nat
         /\ Append(x, e)[Len(x) + 1] = e /\ \A i \in 1 .. Len(x) : Append(x, e)[i] = x[i]
         /\ Last(Append(x, e)) = e
<1>1. PICK S : S = {x[i] : i \in DOMAIN x} \union {e}
  OBVIOUS
<1>2. x \in Seq(S) /\ e \in S
  <2>1. PICK T : T = {x[i] : i \in DOMAIN x} /\ x \in Seq(T)
    BY DEF IsSeq
  <2>2. T \subseteq S
    BY <1>1, <2>1
  <2>. QED BY <1>1, <2>1, <2>2
<1>3. PICK n \in Nat : n = Len(x)
  BY <1>2
<1> PICK y : y = Append(x, e)
  OBVIOUS
<1>4. y \in Seq(S) /\ Len(y) = n + 1 /\ y[n + 1] = e /\ \A i \in 1 .. n : y[i] = x[i]
  BY <1>2, <1>3
<1>5. IsSeq(y)
  <2>1. DOMAIN y = 1 .. n + 1
    BY <1>4
  <2>2. PICK T : T = {y[i] : i \in 1 .. n + 1}
    OBVIOUS
  <2>3. y \in Seq(T)
    BY <1>4, <2>2
  <2>. QED BY <2>1, <2>2, <2>3 DEF IsSeq
<1>6. Last(y) = e
  BY <1>4 DEF Last
<1>. QED BY <1>3, <1>4, <1>5, <1>6

\* The batches of a log, record by record.
LEMMA BatchesOK ==
  ASSUME NEW w, NEW records \in Seq(BatchRecord(w)), NEW n \in Nat, n = Len(records)
  PROVE  /\ Batches(records) \in Seq(Seq(EventSet[w.aggregate])) /\ Len(Batches(records)) = n
         /\ \A i \in 1 .. n : Batches(records)[i] = records[i].events
<1>1. \A i \in 1 .. n : records[i].events \in Seq(EventSet[w.aggregate])
  <2>1. \A i \in 1 .. n : records[i] \in BatchRecord(w)
    OBVIOUS
  <2>2. \A record \in BatchRecord(w) : record.events \in Seq(EventSet[w.aggregate])
    BY DEF BatchRecord
  <2>. QED BY <2>1, <2>2
<1>. QED BY <1>1 DEF Batches

\* The batches of a log with one record more.
LEMMA BatchesAppend ==
  ASSUME NEW w, NEW records \in Seq(BatchRecord(w)), NEW record \in BatchRecord(w)
  PROVE  Batches(Append(records, record)) = Append(Batches(records), record.events)
<1>0. PICK n \in Nat : n = Len(records)
  OBVIOUS
<1>1. PICK more : n = Len(records) /\ more = Append(records, record)
  BY <1>0
<1>2. PICK bs, b : bs = Batches(records) /\ b = Batches(more)
  OBVIOUS
<1>3. /\ more \in Seq(BatchRecord(w)) /\ n + 1 = Len(more) /\ n + 1 \in Nat
      /\ more[n + 1] = record /\ \A i \in 1 .. n : more[i] = records[i]
  BY <1>1
<1>4. record.events \in Seq(EventSet[w.aggregate])
  BY DEF BatchRecord
<1>5. /\ bs \in Seq(Seq(EventSet[w.aggregate])) /\ Len(bs) = n
      /\ \A i \in 1 .. n : bs[i] = records[i].events
  BY <1>1, <1>2, BatchesOK
<1>6. /\ b \in Seq(Seq(EventSet[w.aggregate])) /\ Len(b) = n + 1
      /\ \A i \in 1 .. n + 1 : b[i] = more[i].events
  BY <1>2, <1>3, BatchesOK
<1>7. PICK ev, c : ev = record.events /\ c = Append(bs, ev)
  OBVIOUS
<1>8. PICK E : E = Seq(EventSet[w.aggregate])
  OBVIOUS
<1>9. c \in Seq(E) /\ Len(c) = n + 1 /\ c[n + 1] = ev /\ \A i \in 1 .. n : c[i] = bs[i]
  <2>1. bs \in Seq(E) /\ ev \in E /\ Len(bs) = n
    BY <1>4, <1>5, <1>7, <1>8, Zenon
  <2>. QED BY <1>7, <2>1
<1>10. \A i \in 1 .. n + 1 : b[i] = c[i]
  <2>1. \A i \in 1 .. n : b[i] = more[i].events
    BY <1>6
  <2>2. \A i \in 1 .. n : b[i] = bs[i]
    BY <1>3, <1>5, <2>1
  <2>3. b[n + 1] = more[n + 1].events /\ \A i \in 1 .. n + 1 : i = n + 1 \/ i \in 1 .. n
    BY <1>6
  <2>. QED BY <1>3, <1>7, <1>9, <2>2, <2>3
<1>11. b = c
  BY <1>6, <1>8, <1>9, <1>10
<1>. QED BY <1>1, <1>2, <1>7, <1>11

\* What a journal without snapshots and truncations answers, read by read.
LEMMA JournalReads ==
  ASSUME NEW w, NEW records \in Seq(BatchRecord(w)), NEW n \in Nat, n = Len(records),
         NEW journal, JournalIs(journal, records)
  PROVE  /\ M!HeadSeq(journal) = n
         /\ M!Bases(journal) = {M!Genesis}
         /\ M!LatestSnapshot(journal) = M!Genesis
         /\ M!EventsSince(journal, 0) = records
         /\ M!EventsKnown(journal, 0)
         /\ \A at \in 1 .. n :
              M!PosKnown(journal, at) /\ M!EntropyPos(journal, at) = records[at].entropy_pos
         /\ M!PosKnown(journal, 0) /\ M!EntropyPos(journal, 0) = 0
         /\ \A at \in Nat : at > n => ~M!PosKnown(journal, at)
         /\ HeadPos(journal) = IF n = 0 THEN 0 ELSE records[n].entropy_pos
         /\ M!Resumable(journal)
         /\ M!ResumedState(journal) = Batches(records)
         /\ n > 0 => M!ResumedPos(journal) = HeadPos(journal)
         /\ ResumedState(w, journal) = Rebuilt(w, Batches(records))
<1>1. /\ journal.records = records /\ journal.truncated = 0
      /\ journal.snapshots = {M!Genesis}
  BY DEF JournalIs
<1>2. /\ M!Genesis.at = 0 /\ M!Genesis.state = <<>> /\ M!Genesis.entropy_pos = 0
  BY DEF M!Genesis
<1>3. PICK g : g = M!Genesis
  OBVIOUS
<1>4. M!HeadSeq(journal) = n
  BY <1>1 DEF M!HeadSeq
<1>5. M!Bases(journal) = {g}
  BY <1>1, <1>2, <1>3, <1>4 DEF M!Bases
<1>6. M!LatestSnapshot(journal) = g
  <2>1. M!LatestSnapshot(journal) = CHOOSE snap \in {g} : \A other \in {g} : other.at <= snap.at
    BY <1>5 DEF M!LatestSnapshot
  <2>2. g.at <= g.at
    BY <1>2, <1>3
  <2>. QED BY <2>1, <2>2
<1>7. M!EventsSince(journal, 0) = records
  <2>1. M!EventsSince(journal, 0) = SubSeq(records, 0 - 0 + 1, Len(records))
    BY <1>1 DEF M!EventsSince
  <2>2. SubSeq(records, 1, n) = records
    OBVIOUS
  <2>. QED BY <2>1, <2>2
<1>8. M!EventsKnown(journal, 0)
  BY <1>1 DEF M!EventsKnown
<1>9. \A at : M!SnapshotsAt(journal, at) = IF at = 0 THEN {g} ELSE {}
  BY <1>1, <1>2, <1>3 DEF M!SnapshotsAt
<1>10. \A at \in 1 .. n :
         M!PosKnown(journal, at) /\ M!EntropyPos(journal, at) = records[at].entropy_pos
  <2>1. ASSUME NEW at \in 1 .. n
        PROVE  M!PosKnown(journal, at) /\ M!EntropyPos(journal, at) = records[at].entropy_pos
    <3>1. at # 0 /\ M!SnapshotsAt(journal, at) = {}
      BY <1>9
    <3>2. M!RecordAt(journal, at) = records[at]
      BY <1>1 DEF M!RecordAt
    <3>. QED BY <1>1, <1>4, <3>1, <3>2 DEF M!PosKnown, M!EntropyPos, M!Retained
  <2>. QED BY <2>1
<1>11. M!PosKnown(journal, 0) /\ M!EntropyPos(journal, 0) = 0
  <2>1. M!SnapshotsAt(journal, 0) = {g}
    BY <1>9
  <2>2. (CHOOSE snap \in {g} : TRUE) = g
    OBVIOUS
  <2>. QED BY <1>2, <1>3, <2>1, <2>2 DEF M!PosKnown, M!EntropyPos
<1>12. ASSUME NEW at \in Nat, at > n PROVE ~M!PosKnown(journal, at)
  BY <1>1, <1>4, <1>9, <1>12 DEF M!PosKnown, M!Retained
<1>13. HeadPos(journal) = IF n = 0 THEN 0 ELSE records[n].entropy_pos
  BY <1>4, <1>10 DEF HeadPos
<1>14. M!Resumable(journal)
  <2>1. M!EventsKnown(journal, M!LatestSnapshot(journal).at)
    BY <1>2, <1>3, <1>6, <1>8
  <2>. QED BY <1>4, <1>5, <1>10, <2>1 DEF M!Resumable
<1>15. M!ResumedState(journal) = Batches(records)
  <2>1. M!ResumedState(journal) = <<>> \o Batches(records)
    BY <1>2, <1>3, <1>6, <1>7 DEF M!ResumedState, M!Replay, Batches
  <2>2. Batches(records) \in Seq(Seq(EventSet[w.aggregate]))
    BY BatchesOK
  <2>. QED BY <2>1, <2>2
<1>16. n > 0 => M!ResumedPos(journal) = HeadPos(journal)
  BY <1>4 DEF M!ResumedPos, HeadPos
<1>17. ResumedState(w, journal) = Rebuilt(w, Batches(records))
  BY <1>15 DEF ResumedState
<1>. QED BY <1>3, <1>4, <1>5, <1>6, <1>7, <1>8, <1>10, <1>11, <1>12, <1>13, <1>14, <1>15, <1>16, <1>17

\* A fork of it is such a journal, of the prefix.
LEMMA ForksOK ==
  ASSUME NEW w, NEW records \in Seq(BatchRecord(w)), NEW n \in Nat, n = Len(records),
         NEW journal, JournalIs(journal, records), NEW at \in 0 .. n
  PROVE  /\ M!ForkOk(journal, at)
         /\ JournalIs(M!Fork(journal, at), SubSeq(records, 1, at))
         /\ SubSeq(records, 1, at) \in Seq(BatchRecord(w)) /\ Len(SubSeq(records, 1, at)) = at
         /\ at = n => SubSeq(records, 1, at) = records
<1>1. /\ journal.records = records /\ journal.truncated = 0
      /\ journal.snapshots = {M!Genesis}
  BY DEF JournalIs
<1>2. M!HeadSeq(journal) = n
  BY <1>1 DEF M!HeadSeq
<1>3. M!ForkBases(journal, at) = {M!Genesis}
  <2>1. M!Genesis.at = 0
    BY DEF M!Genesis
  <2>2. PICK g : g = M!Genesis
    OBVIOUS
  <2>3. {snap \in {g} : snap.at <= at} = {g}
    BY <2>1, <2>2
  <2>. QED BY <1>1, <2>2, <2>3 DEF M!ForkBases
<1>4. M!ForkOk(journal, at)
  BY <1>1, <1>2, <1>3 DEF M!ForkOk, M!ForkPoint
<1>5. JournalIs(M!Fork(journal, at), SubSeq(records, 1, at))
  <2>1. at - 0 = at
    OBVIOUS
  <2>. QED BY <1>1, <1>3, <2>1 DEF M!Fork, JournalIs
<1>. QED BY <1>4, <1>5

\* An append to it leaves such a journal, with one record more.
LEMMA AppendsOK ==
  ASSUME NEW w, NEW records \in Seq(BatchRecord(w)), NEW journal, JournalIs(journal, records),
         NEW events, NEW pos
  PROVE  JournalIs(M!AppendRecord(journal, events, pos),
                   Append(records, [events |-> events, entropy_pos |-> pos]))
<1>1. PICK record : record = [events |-> events, entropy_pos |-> pos]
  OBVIOUS
<1>2. M!AppendRecord(journal, events, pos) = [journal EXCEPT !.records = Append(@, record)]
  BY <1>1 DEF M!AppendRecord
<1>3. PICK snaps : snaps = {M!Genesis}
  OBVIOUS
<1>4. journal = [records |-> records, snapshots |-> snaps, truncated |-> 0]
  BY <1>3 DEF JournalIs
<1>5. PICK more : more = Append(records, record)
  OBVIOUS
<1>6. M!AppendRecord(journal, events, pos) = [records |-> more, snapshots |-> snaps, truncated |-> 0]
  BY <1>2, <1>4, <1>5
<1>. QED BY <1>1, <1>3, <1>5, <1>6 DEF JournalIs

\* A run that starts is in order.
LEMMA NewRunOK ==
  ASSUME NEW w \in Worlds
  PROVE  RunOK(w, NewRun(w))
<1>1. PICK s, j, e : s = InitialState[w.aggregate] /\ j = M!NewStream /\ e = <<>>
  OBVIOUS
<1>2. PICK run : run = NewRun(w)
  OBVIOUS
<1>3. run.journal = j /\ run.state = s /\ run.steps = e
      /\ run = [journal |-> run.journal, state |-> run.state, steps |-> run.steps]
  BY <1>1, <1>2 DEF NewRun
<1>4. JournalIs(j, e) /\ j.records = e
  BY <1>1 DEF M!NewStream, JournalIs
<1>5. Len(e) = 0 /\ e \in Seq(BatchRecord(w)) /\ e \in Seq({})
  BY <1>1
<1>6. Batches(e) = <<>>
  BY <1>5 DEF Batches
<1>7. Rebuilt(w, Batches(e)) = s
  BY <1>1, <1>6, RebuiltNone
<1>8. IsSeq(e)
  <2>1. e \in Seq({e[i] : i \in DOMAIN e})
    BY <1>1
  <2>. QED BY <2>1 DEF IsSeq
<1>9. StateOK(w, s)
  BY <1>1, StartsOK
<1>10. LogOK(w, e)
  BY <1>5 DEF LogOK
<1>11. RunOK(w, run)
  BY <1>3, <1>4, <1>5, <1>7, <1>8, <1>9, <1>10 DEF RunOK
<1>. QED BY <1>2, <1>11

\* Where the head of a log stands, a command is taken from.
LEMMA HeadsOK ==
  ASSUME NEW w, NEW run, RunOK(w, run)
  PROVE  /\ HeadPos(run.journal) \in Nat
         /\ ResumedState(w, run.journal) = run.state
         /\ M!Resumable(run.journal)
         /\ Len(run.journal.records) \in Nat
         /\ M!HeadSeq(run.journal) = Len(run.journal.records)
<1>1. PICK records : records = run.journal.records
  OBVIOUS
<1>2. /\ JournalIs(run.journal, records) /\ LogOK(w, records)
      /\ run.state = Rebuilt(w, Batches(records))
  BY <1>1 DEF RunOK
<1>3. PICK n \in Nat : n = Len(records)
  BY <1>2 DEF LogOK
<1>4. records \in Seq(BatchRecord(w))
  BY <1>2 DEF LogOK
<1>5. /\ HeadPos(run.journal) = IF n = 0 THEN 0 ELSE records[n].entropy_pos
      /\ ResumedState(w, run.journal) = Rebuilt(w, Batches(records))
      /\ M!Resumable(run.journal)
      /\ M!HeadSeq(run.journal) = n
  BY <1>2, <1>3, <1>4, JournalReads
<1>6. n # 0 => records[n].entropy_pos \in Nat
  <2>1. n # 0 => records[n] \in BatchRecord(w)
    BY <1>3, <1>4
  <2>. QED BY <2>1 DEF BatchRecord
<1>. QED BY <1>1, <1>2, <1>3, <1>5, <1>6

\* One attempt, and one whose append fails.
Tried(w, run, cmd, pos) == Execute(w, run, cmd, pos, FALSE)

TriedInVain(w, run, cmd, pos) == Execute(w, run, cmd, pos, TRUE)

\* A recorded step is a command tried from the head.
LEMMA StepIs ==
  ASSUME NEW w, NEW run, NEW cmd
  PROVE  Step(w, run, cmd) = Tried(w, run, cmd, HeadPos(run.journal)).run
BY Zenon DEF Step, Tried

\* A refused command leaves the run and the position alone, armed or not.
LEMMA Rejects ==
  ASSUME NEW w, NEW run, NEW cmd, NEW pos, ~DecideOnly(w, run.state, cmd, pos).accepted
  PROVE  /\ Tried(w, run, cmd, pos) = [outcome |-> "Rejected", run |-> run, pos |-> pos]
         /\ TriedInVain(w, run, cmd, pos) = [outcome |-> "Rejected", run |-> run, pos |-> pos]
BY DEF Execute, Concluded, Tried, TriedInVain

\* An accepted command whose append fails does so, too.
LEMMA Fails ==
  ASSUME NEW w, NEW run, NEW cmd, NEW pos, DecideOnly(w, run.state, cmd, pos).accepted
  PROVE  TriedInVain(w, run, cmd, pos) = [outcome |-> "Journal", run |-> run, pos |-> pos]
BY DEF Execute, Concluded, TriedInVain

\* What an accepted command whose append succeeds leaves.
LEMMA Appends ==
  ASSUME NEW w, NEW run, NEW cmd, NEW pos, NEW d, d = DecideOnly(w, run.state, cmd, pos),
         d.accepted,
         NEW journal, journal = M!AppendRecord(run.journal, d.events, d.pos),
         NEW state, state = EvolveAll(w, run.state, d.events),
         NEW last, last = [seq |-> M!HeadSeq(journal), digest |-> Digest128(w, state)]
  PROVE  /\ Tried(w, run, cmd, pos).run
              = [journal |-> journal, state |-> state, steps |-> Append(run.steps, last)]
         /\ Tried(w, run, cmd, pos).outcome = "Ok"
<1>1. PICK after : after = [journal |-> journal, state |-> state, steps |-> Append(run.steps, last)]
  OBVIOUS
<1>2. Tried(w, run, cmd, pos) = [outcome |-> "Ok", pos |-> d.pos, run |-> after]
  BY <1>1 DEF Execute, Concluded, Tried
<1>. QED BY <1>1, <1>2

\* A step keeps a run in order.
LEMMA StepOK ==
  ASSUME NEW w \in Worlds, NEW run, RunOK(w, run), NEW cmd \in Command[w.aggregate]
  PROVE  RunOK(w, Step(w, run, cmd))
<1>1. PICK d, pos : pos = HeadPos(run.journal) /\ d = DecideOnly(w, run.state, cmd, pos)
  OBVIOUS
<1>2. pos \in Nat
  BY <1>1, HeadsOK
<1>3. StateOK(w, run.state)
  BY DEF RunOK
<1>4. DecisionOK(w, run.state, pos, d)
  BY <1>1, <1>2, <1>3, DecisionsOK
<1>5. PICK next : next = Step(w, run, cmd) /\ next = Tried(w, run, cmd, pos).run
  BY <1>1, StepIs
<1>6. CASE ~d.accepted
  <2>1. ~DecideOnly(w, run.state, cmd, pos).accepted
    BY <1>1, <1>6
  <2>2. next = run
    BY <1>5, <2>1, Rejects
  <2>. QED BY <1>5, <2>2
<1>7. CASE d.accepted
  <2>1. PICK journal, state, last : /\ journal = M!AppendRecord(run.journal, d.events, d.pos)
                                    /\ state = EvolveAll(w, run.state, d.events)
                                    /\ last = [seq |-> M!HeadSeq(journal),
                                               digest |-> Digest128(w, state)]
    OBVIOUS
  <2>2. PICK steps : steps = Append(run.steps, last)
    OBVIOUS
  <2>3. next = [journal |-> journal, state |-> state, steps |-> steps]
    BY <1>1, <1>5, <1>7, <2>1, <2>2, Appends, SMTT(30)
  <2>4. next.journal = journal /\ next.state = state /\ next.steps = steps
        /\ next = [journal |-> next.journal, state |-> next.state, steps |-> next.steps]
    BY <2>3
  <2>5. PICK old, record : /\ old = run.journal.records
                           /\ record = [events |-> d.events, entropy_pos |-> d.pos]
    OBVIOUS
  <2>6. PICK records : records = Append(old, record)
    OBVIOUS
  <2>7. /\ JournalIs(run.journal, old) /\ LogOK(w, old)
        /\ run.state = Rebuilt(w, Batches(old)) /\ IsSeq(run.steps) /\ Len(run.steps) = Len(old)
        /\ \A i \in 1 .. Len(old) :
             /\ run.steps[i].seq = i
             /\ run.steps[i].digest = Digest128(w, Rebuilt(w, Batches(SubSeq(old, 1, i))))
    BY <2>5 DEF RunOK
  <2>8. old \in Seq(BatchRecord(w))
    BY <2>7 DEF LogOK
  <2>9. record \in BatchRecord(w) /\ record.events = d.events /\ record.entropy_pos = d.pos
    BY <1>4, <2>5 DEF DecisionOK, BatchRecord
  <2>10. PICK n \in Nat : n = Len(old)
    BY <2>8
  <2>11. /\ records \in Seq(BatchRecord(w)) /\ Len(records) = n + 1 /\ records[n + 1] = record
         /\ \A i \in 1 .. n : records[i] = old[i]
    BY <2>6, <2>8, <2>9, <2>10
  <2>12. JournalIs(journal, records) /\ journal.records = records
    <3>1. JournalIs(journal, records)
      BY <2>1, <2>5, <2>6, <2>7, <2>8, AppendsOK
    <3>. QED BY <3>1 DEF JournalIs
  <2>13. LogOK(w, records)
    <3>1. ASSUME NEW i \in 2 .. n + 1
          PROVE  records[i].entropy_pos >= records[i - 1].entropy_pos
      <4>1. CASE i = n + 1
        <5>1. n # 0 /\ n \in 1 .. n /\ i - 1 = n
          BY <4>1
        <5>2. pos = old[n].entropy_pos
          BY <1>1, <2>7, <2>8, <2>10, <5>1, JournalReads
        <5>3. d.pos >= pos
          BY <1>4 DEF DecisionOK
        <5>. QED BY <2>9, <2>11, <4>1, <5>1, <5>2, <5>3
      <4>2. CASE i # n + 1
        <5>1. i \in 2 .. n /\ i \in 1 .. n /\ i - 1 \in 1 .. n
          BY <4>2
        <5>2. old[i].entropy_pos >= old[i - 1].entropy_pos
          BY <2>7, <2>10, <5>1 DEF LogOK
        <5>. QED BY <2>11, <5>1, <5>2
      <4>. QED BY <4>1, <4>2
    <3>. QED BY <2>11, <3>1 DEF LogOK
  <2>14. state = Rebuilt(w, Batches(records))
    <3>1. Batches(records) = Append(Batches(old), d.events)
      BY <2>6, <2>8, <2>9, BatchesAppend
    <3>2. Batches(old) \in Seq(Seq(EventSet[w.aggregate]))
      BY <2>8, <2>10, BatchesOK
    <3>3. d.events \in Seq(EventSet[w.aggregate])
      BY <1>4 DEF DecisionOK
    <3>4. Rebuilt(w, Batches(records)) = EvolveAll(w, Rebuilt(w, Batches(old)), d.events)
      BY <3>1, <3>2, <3>3, RebuiltMore
    <3>. QED BY <2>1, <2>7, <3>4
  <2>15. StateOK(w, state)
    BY <1>4, <2>1 DEF DecisionOK
  <2>16. /\ IsSeq(steps) /\ Len(steps) = n + 1 /\ steps[n + 1] = last
         /\ \A i \in 1 .. n : steps[i] = run.steps[i]
    BY <2>2, <2>7, <2>10, Grown
  <2>17. ASSUME NEW i \in 1 .. n + 1
         PROVE  /\ steps[i].seq = i
                /\ steps[i].digest = Digest128(w, Rebuilt(w, Batches(SubSeq(records, 1, i))))
    <3>1. CASE i = n + 1
      <4>1. M!HeadSeq(journal) = n + 1
        <5>1. n + 1 \in Nat
          OBVIOUS
        <5>. QED BY <2>11, <2>12, <5>1, JournalReads
      <4>2. SubSeq(records, 1, n + 1) = records
        BY <2>11
      <4>3. last.seq = n + 1 /\ last.digest = Digest128(w, state)
        BY <2>1, <4>1
      <4>. QED BY <2>14, <2>16, <3>1, <4>2, <4>3
    <3>2. CASE i # n + 1
      <4>1. i \in 1 .. n
        BY <3>2
      <4>2. SubSeq(records, 1, i) = SubSeq(old, 1, i)
        BY <2>8, <2>10, <2>11, <4>1
      <4>. QED BY <2>7, <2>10, <2>16, <4>1, <4>2
    <3>. QED BY <3>1, <3>2
  <2>18. RunOK(w, next)
    BY <2>4, <2>11, <2>12, <2>13, <2>14, <2>15, <2>16, <2>17 DEF RunOK
  <2>. QED BY <1>5, <2>18
<1>. QED BY <1>6, <1>7

-----------------------------------------------------------------------------
(* Leaks: what two matches that are alike make of the same command.        *)

\* A drawn word is a number.
LEMMA WordsAreDrawn ==
  ASSUME NEW tape \in Tape, NEW pos \in Nat
  PROVE  HiddenInfo!DrawU64(tape, pos).value \in Nat
<1>1. PICK len \in Nat \ {0} : len = Len(tape)
  BY DEF Tape
<1>2. (pos \div 2) % len \in 0 .. len - 1
  <2>1. pos \div 2 \in Nat
    OBVIOUS
  <2>. QED BY <1>1, <2>1
<1>3. HiddenInfo!WordAt(tape, pos) \in HiddenInfo!Word
  <2>1. tape \in Seq(HiddenInfo!Word)
    BY DEF Tape
  <2>2. \A i \in 1 .. len : tape[i] \in HiddenInfo!Word
    BY <1>1, <2>1
  <2>3. ((pos \div 2) % len) + 1 \in 1 .. len
    BY <1>2
  <2>. QED BY <1>1, <2>2, <2>3 DEF HiddenInfo!WordAt
<1>4. HiddenInfo!Word \subseteq Nat
  BY DEF HiddenInfo!Word
<1>. QED BY <1>3, <1>4 DEF HiddenInfo!DrawU64

\* A hand drawn anew holds cards.
LEMMA DrawnHand ==
  ASSUME NEW w \in Worlds, NEW size \in Nat
  PROVE  \E f : /\ f = [i \in 0 .. size |->
                          IF i = 0 THEN [value |-> 0, pos |-> 0]
                          ELSE HiddenInfo!DrawRange(w.tape, f[i - 1].pos, 0, Cards)]
                /\ \A i \in 0 .. size : f[i].pos \in Nat /\ (i # 0 => f[i].value \in Card)
<1> DEFINE S == [value : Nat, pos : Nat]
           draw(x) == HiddenInfo!DrawRange(w.tape, x.pos, 0, Cards)
           start == [value |-> 0, pos |-> 0]
           step == [i \in Int |-> [x \in S |-> draw(x)]]
           D(f) == [i \in 0 .. size |-> IF i = 0 THEN start ELSE draw(f[i - 1])]
<1>1. \A x \in S : draw(x) \in S /\ draw(x).value \in Card
  <2>1. ASSUME NEW x \in S PROVE draw(x) \in S /\ draw(x).value \in Card
    <3>1. PICK p \in Nat : p = x.pos
      OBVIOUS
    <3>2. PICK d : d = draw(x)
      OBVIOUS
    <3>3. Cards \in Nat /\ w.tape \in Tape /\ HiddenInfo!AcceptedBy(w.tape, Cards)
      BY CardsAssumption, WorldFacts
    <3>4. d.value \in Card /\ d.pos \in Nat
      BY <3>1, <3>2, <3>3, DrawsInRange DEF Card
    <3>5. \E v, q : d = [value |-> v, pos |-> q]
      BY <3>2 DEF HiddenInfo!DrawRange
    <3>6. d = [value |-> d.value, pos |-> d.pos]
      BY <3>5
    <3>7. d.value \in Nat
      BY <3>3, <3>4 DEF Card
    <3> HIDE DEF draw
    <3>8. d \in S
      BY <3>4, <3>6, <3>7
    <3>. QED BY <3>2, <3>4, <3>8
  <2>. QED BY <2>1
<1>2. start \in S
  OBVIOUS
<1> HIDE DEF draw, start, S
<1>3. step \in [Int -> [S -> S]]
  BY <1>1
<1>4. PICK f \in [0 .. size -> S] : StepsFrom(f, start, step, 0, size)
  <2>1. size \in Int /\ 0 \in Int
    OBVIOUS
  <2> HIDE DEF step
  <2>. QED BY <1>2, <1>3, <2>1, IntervalRecursion
<1>5. \A i \in 0 .. size : i # 0 => i - 1 \in 0 .. size /\ i \in Int
  OBVIOUS
<1>6. \A i \in 0 .. size : f[i] = IF i = 0 THEN start ELSE draw(f[i - 1])
  BY <1>4, <1>5 DEF StepsFrom
<1>7. f = D(f)
  BY <1>6
<1>8. ASSUME NEW i \in 0 .. size PROVE f[i].pos \in Nat /\ (i # 0 => f[i].value \in Card)
  <2>1. f[i] \in S
    OBVIOUS
  <2>2. i # 0 => f[i].value \in Card
    BY <1>1, <1>5, <1>6
  <2>. QED BY <2>1, <2>2 DEF S
<1>. QED BY <1>7, <1>8 DEF start, draw

\* The sibling is a match, and differs in nothing but what the perturbed holds.
LEMMA ResampleOK ==
  ASSUME NEW w \in Worlds, NEW s, MatchOK(s), NEW p \in HiddenInfo!Participants(s),
         NEW t, t = HiddenInfo!ResampleHidden(s, p, w.tape, 0)
  PROVE  /\ MatchOK(t) /\ Alike(s, t, {p})
         /\ t.fabrication.value = s.fabrication.value \/ t.fabrication.value \in 0 .. Tokens - 1
<1>1. PICK ph, b, ps, n, h, f, d : MatchIs(s, ph, b, ps, n, h, f, d)
  BY DEF MatchOK, MatchShape, MatchIs
<1>2. /\ s.phase = ph /\ s.board = b /\ s.participants = ps /\ s.turn = n /\ s.hands = h
      /\ s.fabrication = f /\ s.decks = d
  BY <1>1 DEF MatchIs
<1>3. /\ h \in [HiddenInfo!Participants(s) -> Seq(Card)] /\ f \in [owner : Nat, value : Nat]
      /\ ph \in {"Setup", "Playing", "Resolved"} /\ b \in Seq(Card) /\ n \in Nat
  BY <1>2 DEF MatchOK, MatchShape
<1>4. p \in DOMAIN h /\ h[p] \in Seq(Card)
  BY <1>3
<1> DEFINE size == IF p \in DOMAIN s.hands THEN Len(s.hands[p]) ELSE 0
<1>5. size \in Nat /\ size = Len(h[p])
  <2>1. s.hands = h /\ p \in DOMAIN s.hands
    BY <1>2, <1>4
  <2>2. size = Len(s.hands[p])
    BY <2>1, SMTT(30)
  <2>. QED BY <1>4, <2>1, <2>2
<1> DEFINE G(g) == [i \in 0 .. size |->
                      IF i = 0 THEN [value |-> 0, pos |-> 0]
                      ELSE HiddenInfo!DrawRange(w.tape, g[i - 1].pos, 0, Cards)]
           drawn == CHOOSE g : g = G(g)
           typed(g) == \A i \in 0 .. size : g[i].pos \in Nat /\ (i # 0 => g[i].value \in Card)
           redrawn == [q \in DOMAIN s.hands |->
                         IF q = p THEN [i \in 1 .. size |-> drawn[i].value] ELSE s.hands[q]]
           token == HiddenInfo!DrawU64(w.tape, drawn[size].pos).value % Tokens
           resampled == IF s.fabrication.owner = p
                        THEN [s.fabrication EXCEPT !.value = token] ELSE s.fabrication
<1>6. t = [s EXCEPT !.hands = redrawn, !.fabrication = resampled]
  BY DEF HiddenInfo!ResampleHidden
<1> HIDE DEF size
<1>7. drawn = G(drawn)
  <2>1. \E g : g = G(g)
    BY <1>5, DrawnHand
  <2> HIDE DEF G
  <2>. QED BY <2>1
<1> HIDE DEF drawn
<1>8. typed(drawn)
  <2> DEFINE T == {k \in 0 .. size : drawn[k].pos \in Nat /\ (k # 0 => drawn[k].value \in Card)}
  <2>1. 0 \in T
    BY <1>5, <1>7
  <2>2. ASSUME NEW k \in 0 .. size - 1, k \in T PROVE k + 1 \in T
    <3>1. k + 1 \in 0 .. size /\ k + 1 # 0 /\ (k + 1) - 1 = k
      BY <1>5
    <3>2. drawn[k + 1] = HiddenInfo!DrawRange(w.tape, drawn[k].pos, 0, Cards)
      BY <1>7, <3>1
    <3>3. drawn[k].pos \in Nat
      BY <2>2
    <3>4. Cards \in Nat /\ w.tape \in Tape /\ HiddenInfo!AcceptedBy(w.tape, Cards)
      BY CardsAssumption, WorldFacts
    <3>5. drawn[k + 1].value \in Card /\ drawn[k + 1].pos \in Nat
      BY <3>2, <3>3, <3>4, DrawsInRange DEF Card
    <3>. QED BY <3>1, <3>5
  <2>3. \A k \in 0 .. size : k \in T
    <3> HIDE DEF T
    <3>1. size \in Int /\ 0 \in Int /\ 0 <= size
      BY <1>5
    <3>. QED BY <2>1, <2>2, <3>1, IntervalInduction
  <2>. QED BY <2>3
<1>9. token \in 0 .. Tokens - 1
  <2>1. drawn[size].pos \in Nat
    BY <1>5, <1>8
  <2>2. PICK u \in Nat : u = HiddenInfo!DrawU64(w.tape, drawn[size].pos).value
    BY <2>1, WorldFacts, WordsAreDrawn
  <2>3. u % Tokens \in 0 .. Tokens - 1
    BY TokensAssumption
  <2>. QED BY <2>2, <2>3
<1> HIDE DEF token
<1>10. PICK hand : hand = [i \in 1 .. size |-> drawn[i].value]
  OBVIOUS
<1>11. PICK h1, f1 : /\ h1 = [q \in DOMAIN h |-> IF q = p THEN hand ELSE h[q]]
                     /\ f1 = IF f.owner = p THEN [f EXCEPT !.value = token] ELSE f
  OBVIOUS
<1>12. t = [s EXCEPT !.hands = h1, !.fabrication = f1]
  <2>1. redrawn = h1 /\ resampled = f1
    BY <1>2, <1>10, <1>11
  <2> HIDE DEF redrawn, resampled
  <2>. QED BY <1>6, <2>1
<1>13. hand \in Seq(Card) /\ Len(hand) = size
  <2>1. \A i \in 1 .. size : drawn[i].value \in Card
    BY <1>5, <1>8
  <2>. QED BY <1>5, <1>10, <2>1
<1>14. h1 \in [HiddenInfo!Participants(s) -> Seq(Card)]
  BY <1>3, <1>11, <1>13
<1>15. /\ f1 \in [owner : Nat, value : Nat] /\ f1.owner = f.owner /\ (f.owner # p => f1 = f)
       /\ f1.value = f.value \/ f1.value \in 0 .. Tokens - 1
  <2>1. PICK T : T = 0 .. Tokens - 1 /\ T \subseteq Nat
    BY TokensAssumption
  <2>2. token \in T
    BY <1>9, <2>1
  <2>3. CASE f.owner = p
    <3>1. f1 = [f EXCEPT !.value = token]
      BY <1>11, <2>3
    <3>2. f1.value = token /\ f1.owner = f.owner
      BY <1>3, <3>1
    <3>3. f1 \in [owner : Nat, value : Nat]
      BY <1>3, <2>1, <2>2, <3>1
    <3>. QED BY <2>1, <2>2, <2>3, <3>2, <3>3
  <2>4. CASE f.owner # p
    BY <1>3, <1>11, <2>4
  <2>. QED BY <2>3, <2>4
<1>16. t = [phase |-> ph, board |-> b, participants |-> ps, turn |-> n, hands |-> h1,
            fabrication |-> f1, decks |-> d]
  BY <1>1, <1>12 DEF MatchIs
<1>17. /\ t.phase = ph /\ t.board = b /\ t.participants = ps /\ t.turn = n /\ t.hands = h1
       /\ t.fabrication = f1 /\ t.decks = d
  BY <1>16
<1>18. MatchShape(t)
  <2>1. MatchIs(t, t.phase, t.board, s.participants, t.turn, t.hands, t.fabrication, t.decks)
    BY <1>2, <1>16, <1>17 DEF MatchIs
  <2>. QED BY <1>3, <1>14, <1>15, <1>17, <2>1, MatchKeepsShape DEF MatchOK
<1>19. MatchOK(t)
  BY <1>2, <1>17, <1>18 DEF MatchOK
<1>20. Alike(s, t, {p})
  <2>1. ASSUME NEW q \in DOMAIN s.hands
        PROVE  Len(t.hands[q]) = Len(s.hands[q]) /\ (q \notin {p} => t.hands[q] = s.hands[q])
    <3>1. h1[q] = IF q = p THEN hand ELSE h[q]
      BY <1>2, <1>11
    <3>. QED BY <1>2, <1>5, <1>13, <1>17, <3>1
  <2>. QED BY <1>2, <1>15, <1>17, <2>1 DEF Alike
<1>. QED BY <1>2, <1>15, <1>17, <1>19, <1>20

\* An event that reveals nothing keeps two matches alike.
LEMMA EvolvedAlike ==
  ASSUME NEW s, MatchShape(s), NEW t, MatchShape(t), NEW P, Alike(s, t, P),
         NEW e \in MatchEvent, e.name # "Played"
  PROVE  Alike(HiddenInfo!Evolve(s, e), HiddenInfo!Evolve(t, e), P)
<1>1. PICK ph, b, ps, n, h, f, d : MatchIs(s, ph, b, ps, n, h, f, d)
  BY DEF MatchShape, MatchIs
<1>2. /\ s.phase = ph /\ s.board = b /\ s.participants = ps /\ s.turn = n /\ s.hands = h
      /\ s.fabrication = f /\ s.decks = d
  BY <1>1 DEF MatchIs
<1>3. PICK h2, f2 : MatchIs(t, ph, b, ps, n, h2, f2, d) /\ t.hands = h2 /\ t.fabrication = f2
  <2>1. t = [phase |-> t.phase, board |-> t.board, participants |-> t.participants, turn |-> t.turn,
             hands |-> t.hands, fabrication |-> t.fabrication, decks |-> t.decks]
    BY DEF MatchShape
  <2>2. t.phase = ph /\ t.board = b /\ t.participants = ps /\ t.turn = n /\ t.decks = d
    BY <1>2 DEF Alike
  <2>. QED BY <2>1, <2>2 DEF MatchIs
<1>4. PICK D : h \in [D -> Seq(Card)] /\ h2 \in [D -> Seq(Card)]
  <2>1. HiddenInfo!Participants(t) = HiddenInfo!Participants(s)
    BY DEF Alike, HiddenInfo!Participants
  <2>. QED BY <1>2, <1>3, <2>1 DEF MatchShape
<1>5. DOMAIN h = D /\ DOMAIN h2 = D
  BY <1>4
\* What is left to show of each event.
<1> DEFINE Still(g, g2) == \A p \in DOMAIN g : /\ Len(g2[p]) = Len(g[p])
                                               /\ p \notin P => g2[p] = g[p]
<1>6. Still(h, h2) /\ f2.owner = f.owner /\ (f.owner \notin P => f2.value = f.value)
  BY <1>2, <1>3 DEF Alike
<1>7. ASSUME NEW ph1, NEW b1, NEW ps1, NEW n1, NEW d1, NEW g, NEW g2, Still(g, g2),
             NEW s1, MatchIs(s1, ph1, b1, ps1, n1, g, f, d1),
             NEW t1, MatchIs(t1, ph1, b1, ps1, n1, g2, f2, d1)
      PROVE  Alike(s1, t1, P)
  <2>1. /\ s1.phase = ph1 /\ s1.board = b1 /\ s1.participants = ps1 /\ s1.turn = n1
        /\ s1.hands = g /\ s1.fabrication = f /\ s1.decks = d1
    BY <1>7 DEF MatchIs
  <2>2. /\ t1.phase = ph1 /\ t1.board = b1 /\ t1.participants = ps1 /\ t1.turn = n1
        /\ t1.hands = g2 /\ t1.fabrication = f2 /\ t1.decks = d1
    BY <1>7 DEF MatchIs
  <2>. QED BY <1>6, <1>7, <2>1, <2>2 DEF Alike
<1> HIDE DEF Still
<1>8. PICK s1, t1 : s1 = HiddenInfo!Evolve(s, e) /\ t1 = HiddenInfo!Evolve(t, e)
  OBVIOUS
<1>9. CASE e.name = "Joined"
  <2>1. PICK who : who = e.who
    OBVIOUS
  <2>2. PICK g, g2 : /\ g = [p \in D \union {who} |-> IF p = who THEN <<>> ELSE h[p]]
                     /\ g2 = [p \in D \union {who} |-> IF p = who THEN <<>> ELSE h2[p]]
    OBVIOUS
  <2>3. PICK joined, decks : /\ joined = Append(ps, who)
                             /\ decks = [p \in DOMAIN d \union {who} |-> <<0, 1, 2, 3, 4>>]
    OBVIOUS
  <2>4. s1 = [s EXCEPT !.participants = joined, !.hands = g, !.decks = decks]
    BY <1>2, <1>5, <1>8, <1>9, <2>1, <2>2, <2>3 DEF HiddenInfo!Evolve
  <2>5. t1 = [t EXCEPT !.participants = joined, !.hands = g2, !.decks = decks]
    <3>1. t.hands = h2 /\ t.participants = ps /\ t.decks = d
      BY <1>3 DEF MatchIs
    <3>. QED BY <1>5, <1>8, <1>9, <2>1, <2>2, <2>3, <3>1 DEF HiddenInfo!Evolve
  <2>6. MatchIs(s1, ph, b, joined, n, g, f, decks) /\ MatchIs(t1, ph, b, joined, n, g2, f2, decks)
    BY <1>1, <1>3, <2>4, <2>5 DEF MatchIs
  <2>7. Still(g, g2)
    BY <1>5, <1>6, <2>2 DEF Still
  <2>. QED BY <1>7, <1>8, <2>6, <2>7
<1>10. CASE e.name = "Started"
  <2>1. s1 = [s EXCEPT !.phase = "Playing"] /\ t1 = [t EXCEPT !.phase = "Playing"]
    BY <1>8, <1>10 DEF HiddenInfo!Evolve
  <2>2. MatchIs(s1, "Playing", b, ps, n, h, f, d) /\ MatchIs(t1, "Playing", b, ps, n, h2, f2, d)
    BY <1>1, <1>3, <2>1 DEF MatchIs
  <2>. QED BY <1>6, <1>7, <1>8, <2>2
<1>11. CASE e.name = "Resolved"
  <2>1. s1 = [s EXCEPT !.phase = "Resolved"] /\ t1 = [t EXCEPT !.phase = "Resolved"]
    BY <1>8, <1>11 DEF HiddenInfo!Evolve
  <2>2. MatchIs(s1, "Resolved", b, ps, n, h, f, d) /\ MatchIs(t1, "Resolved", b, ps, n, h2, f2, d)
    BY <1>1, <1>3, <2>1 DEF MatchIs
  <2>. QED BY <1>6, <1>7, <1>8, <2>2
<1>12. CASE e.name = "TurnEnded"
  <2>1. PICK n1 : n1 = (n + 1) % Len(ps)
    OBVIOUS
  <2>2. t.turn = n /\ t.participants = ps
    BY <1>3 DEF MatchIs
  <2>3. s1 = [s EXCEPT !.turn = n1] /\ t1 = [t EXCEPT !.turn = n1]
    BY <1>2, <1>8, <1>12, <2>1, <2>2 DEF HiddenInfo!Evolve
  <2>4. MatchIs(s1, ph, b, ps, n1, h, f, d) /\ MatchIs(t1, ph, b, ps, n1, h2, f2, d)
    BY <1>1, <1>3, <2>3 DEF MatchIs
  <2>. QED BY <1>6, <1>7, <1>8, <2>4
<1>13. CASE e.name = "Drew"
  <2>0. PICK card \in Card : card = e.card
    BY <1>13 DEF MatchEvent
  <2>1. PICK who : who = e.who /\ card = e.card
    BY <2>0
  <2>2. PICK g, g2 : /\ g = [h EXCEPT ![who] = Append(h[who], card)]
                     /\ g2 = [h2 EXCEPT ![who] = Append(h2[who], card)]
    OBVIOUS
  <2>3. s1 = [s EXCEPT !.hands = g] /\ t1 = [t EXCEPT !.hands = g2]
    BY <1>2, <1>3, <1>8, <1>13, <2>1, <2>2 DEF HiddenInfo!Evolve
  <2>4. MatchIs(s1, ph, b, ps, n, g, f, d) /\ MatchIs(t1, ph, b, ps, n, g2, f2, d)
    BY <1>1, <1>3, <2>3 DEF MatchIs
  <2>5. Still(g, g2)
    <3>1. ASSUME NEW p \in D PROVE Len(g2[p]) = Len(g[p]) /\ (p \notin P => g2[p] = g[p])
      <4>1. Len(h2[p]) = Len(h[p]) /\ (p \notin P => h2[p] = h[p])
        BY <1>5, <1>6 DEF Still
      <4>2. CASE p = who
        <5>1. g[p] = Append(h[p], card) /\ g2[p] = Append(h2[p], card)
          BY <1>4, <2>2, <4>2
        <5>2. h[p] \in Seq(Card) /\ h2[p] \in Seq(Card)
          BY <1>4
        <5>. QED BY <2>1, <4>1, <5>1, <5>2
      <4>3. CASE p # who
        BY <1>4, <2>2, <4>1, <4>3
      <4>. QED BY <4>2, <4>3
    <3>2. DOMAIN g = D
      BY <1>5, <2>2
    <3>. QED BY <3>1, <3>2 DEF Still
  <2>. QED BY <1>7, <1>8, <2>4, <2>5
<1>14. e.name \in {"Joined", "Started", "TurnEnded", "Resolved", "Drew", "Played"}
  BY DEF MatchEvent
<1>. QED BY <1>9, <1>10, <1>11, <1>12, <1>13, <1>14

\* A command that plays no card keeps two matches alike.
LEMMA HandledAlike ==
  ASSUME NEW w \in Worlds, w.aggregate = "MatchState", NEW s, MatchOK(s), NEW t, MatchOK(t),
         NEW P, Alike(s, t, P), NEW cmd \in HiddenInfo!Command, cmd.name # "PlayCard",
         NEW pos \in Nat
  PROVE  Alike(Handle(w, s, cmd, pos).state, Handle(w, t, cmd, pos).state, P)
<1>1. t.phase = s.phase /\ t.participants = s.participants /\ t.turn = s.turn
  BY DEF Alike
<1>2. /\ HiddenInfo!Participants(t) = HiddenInfo!Participants(s)
      /\ HiddenInfo!Active(t) = HiddenInfo!Active(s)
  BY <1>1 DEF HiddenInfo!Participants, HiddenInfo!Active
<1>3. \A who : HiddenInfo!HasTurn(t, who) <=> HiddenInfo!HasTurn(s, who)
  BY <1>1, <1>2 DEF HiddenInfo!HasTurn
<1>4. cmd.name \in {"Join", "Draw", "EndTurn", "Timeout"}
  BY DEF HiddenInfo!Command
<1>5. HiddenInfo!Accepts(t, cmd) <=> HiddenInfo!Accepts(s, cmd)
  BY <1>1, <1>2, <1>3, <1>4 DEF HiddenInfo!Accepts
<1>6. PICK drawn : drawn = HiddenInfo!DrawRange(w.tape, pos, 0, Cards)
  OBVIOUS
<1>7. HiddenInfo!Decide(t, cmd, drawn) = HiddenInfo!Decide(s, cmd, drawn)
  BY <1>1, <1>4 DEF HiddenInfo!Decide
<1>8. PICK d : d = DecideOnly(w, s, cmd, pos)
  OBVIOUS
<1>9. DecideOnly(w, t, cmd, pos).events = d.events
  <2>1. StructurallyRejected(w, t, cmd) <=> StructurallyRejected(w, s, cmd)
    BY <1>1 DEF StructurallyRejected, IsTerminal
  <2>2. Decide(w, t, cmd, pos).events = Decide(w, s, cmd, pos).events
    BY <1>5, <1>6, <1>7 DEF Decide, Accepted, Rejected
  <2>. QED BY <1>8, <2>1, <2>2 DEF DecideOnly, Rejected
<1>10. /\ Handle(w, s, cmd, pos).state = EvolveAll(w, s, d.events)
       /\ Handle(w, t, cmd, pos).state = EvolveAll(w, t, d.events)
  BY <1>8, <1>9 DEF Handle
<1>11. \A x, e : Evolve(w, x, e) = HiddenInfo!Evolve(x, e)
  BY DEF Evolve
<1>12. CASE d.events = <<>>
  BY <1>10, <1>12, EvolveNone
<1>13. ASSUME NEW e \in MatchEvent, e.name # "Played", d.events = <<e>>
       PROVE  Alike(Handle(w, s, cmd, pos).state, Handle(w, t, cmd, pos).state, P)
  <2>1. Alike(HiddenInfo!Evolve(s, e), HiddenInfo!Evolve(t, e), P)
    BY <1>13, EvolvedAlike DEF MatchOK
  <2>. QED BY <1>10, <1>11, <1>13, <2>1, EvolveOne
<1>14. ASSUME NEW who \in HiddenInfo!Participant,
              d.events = <<[name |-> "Joined", who |-> who], [name |-> "Started"]>>
       PROVE  Alike(Handle(w, s, cmd, pos).state, Handle(w, t, cmd, pos).state, P)
  <2>1. PICK c, e : c = [name |-> "Joined", who |-> who] /\ e = [name |-> "Started"]
    OBVIOUS
  <2>2. PICK s1, t1 : s1 = HiddenInfo!Evolve(s, c) /\ t1 = HiddenInfo!Evolve(t, c)
    OBVIOUS
  <2>3. c \in MatchEvent /\ c.name # "Played" /\ e \in MatchEvent /\ e.name # "Played"
    BY <2>1 DEF MatchEvent
  <2>4. MatchShape(s1) /\ MatchShape(t1)
    BY <2>1, <2>2, JoinedKeepsShape DEF MatchOK
  <2>5. Alike(s1, t1, P)
    BY <2>2, <2>3, EvolvedAlike DEF MatchOK
  <2>6. Alike(HiddenInfo!Evolve(s1, e), HiddenInfo!Evolve(t1, e), P)
    BY <2>3, <2>4, <2>5, EvolvedAlike
  <2>7. /\ EvolveAll(w, s, d.events) = HiddenInfo!Evolve(s1, e)
        /\ EvolveAll(w, t, d.events) = HiddenInfo!Evolve(t1, e)
    BY <1>11, <1>14, <2>1, <2>2, EvolveTwo
  <2>. QED BY <1>10, <2>6, <2>7
<1>15. \/ d.events = <<>>
       \/ \E e \in MatchEvent : e.name # "Played" /\ d.events = <<e>>
       \/ \E who \in HiddenInfo!Participant :
            d.events = <<[name |-> "Joined", who |-> who], [name |-> "Started"]>>
  <2>1. d.events = <<>> \/ (HiddenInfo!Accepts(s, cmd) /\ d.events = HiddenInfo!Decide(s, cmd, drawn))
    BY <1>6, <1>8 DEF DecideOnly, Decide, Accepted, Rejected
  <2>2. drawn.value \in Card
    <3>1. Cards \in Nat
      BY CardsAssumption
    <3>. QED BY <1>6, <3>1, WorldFacts, DrawsInRange DEF Card
  <2>3. PICK es : es = HiddenInfo!Decide(s, cmd, drawn)
    OBVIOUS
  <2>4. cmd.name # "Timeout" => cmd.who \in HiddenInfo!Participant
    BY <1>4 DEF HiddenInfo!Command
  <2>5. CASE cmd.name = "Join"
    <3>1. PICK c, e : c = [name |-> "Joined", who |-> cmd.who] /\ e = [name |-> "Started"]
      OBVIOUS
    <3>2. es = <<c>> \o IF Len(s.participants) + 1 >= 2 THEN <<e>> ELSE <<>>
      BY <2>3, <2>5, <3>1 DEF HiddenInfo!Decide
    <3>3. <<c>> \o <<e>> = <<c, e>> /\ <<c>> \o <<>> = <<c>>
      BY Pair
    <3>4. es = <<c, e>> \/ es = <<c>>
      BY <3>2, <3>3
    <3>5. c \in MatchEvent /\ c.name # "Played"
      BY <2>4, <2>5, <3>1 DEF MatchEvent
    <3>. QED BY <2>1, <2>3, <2>4, <2>5, <3>1, <3>4, <3>5
  <2>6. CASE cmd.name = "Draw"
    <3>1. PICK e : e = [name |-> "Drew", who |-> cmd.who, card |-> drawn.value]
      OBVIOUS
    <3>2. es = <<e>>
      BY <2>3, <2>6, <3>1 DEF HiddenInfo!Decide
    <3>3. e \in MatchEvent /\ e.name # "Played"
      BY <2>2, <2>4, <2>6, <3>1 DEF MatchEvent
    <3>. QED BY <2>1, <2>3, <3>2, <3>3
  <2>7. CASE cmd.name \in {"EndTurn", "Timeout"}
    <3>1. PICK e : e = IF cmd.name = "EndTurn" THEN [name |-> "TurnEnded"] ELSE [name |-> "Resolved"]
      OBVIOUS
    <3>2. es = <<e>>
      BY <2>3, <2>7, <3>1 DEF HiddenInfo!Decide
    <3>3. e \in MatchEvent /\ e.name # "Played"
      BY <3>1 DEF MatchEvent
    <3>. QED BY <2>1, <2>3, <3>2, <3>3
  <2>. QED BY <1>4, <2>5, <2>6, <2>7
<1>. QED BY <1>12, <1>13, <1>14, <1>15

-----------------------------------------------------------------------------
(* The contract.                                                           *)

\* An append that fails leaves no trace.
LEMMA NothingIsAppendedInVain ==
  ASSUME NEW w, NEW run, NEW cmd, NEW pos
  PROVE  /\ TriedInVain(w, run, cmd, pos).run = run
         /\ TriedInVain(w, run, cmd, pos).pos = pos
<1>1. CASE DecideOnly(w, run.state, cmd, pos).accepted
  BY <1>1, Fails
<1>2. CASE ~DecideOnly(w, run.state, cmd, pos).accepted
  BY <1>2, Rejects
<1>. QED BY <1>1, <1>2

\* The suite finds failed appends atomic.
LEMMA FailedAppendsAreAtomic ==
  ASSUME NEW w
  PROVE  FailedAppendAtomicity(w)
<1>1. PICK run : run = NewRun(w)
  OBVIOUS
<1>2. M!HeadSeq(run.journal) = 0
  <2>1. run.journal.records = <<>> /\ run.journal.truncated = 0
    BY <1>1 DEF NewRun, M!NewStream
  <2>. QED BY <2>1 DEF M!HeadSeq
<1>3. SUFFICES ASSUME NEW cmd, NEW failed, failed = TriedInVain(w, run, cmd, 0)
               PROVE  /\ M!HeadSeq(failed.run.journal) = 0
                      /\ Digest128(w, failed.run.state) = Digest128(w, run.state)
                      /\ failed.pos = 0
  BY <1>1, Zenon DEF FailedAppendAtomicity, TriedInVain
<1>. QED BY <1>2, <1>3, NothingIsAppendedInVain

\* Resuming a run in order gives its state.
LEMMA ResumesAlike ==
  ASSUME NEW w, NEW run, RunOK(w, run)
  PROVE  ResumeIdentity(w, run)
BY HeadsOK DEF ResumeIdentity

\* A journal with these records replays to what is rebuilt from them.
LEMMA RoundTrips ==
  ASSUME NEW w, NEW records \in Seq(BatchRecord(w)), NEW journal, JournalIs(journal, records),
         NEW digest, digest = Digest128(w, Rebuilt(w, Batches(records)))
  PROVE  RoundTrip(w, journal, digest)
<1>1. PICK n \in Nat : n = Len(records)
  OBVIOUS
<1>2. M!EventsSince(journal, 0) = records /\ M!EventsKnown(journal, 0)
  BY <1>1, JournalReads
<1>3. M!Replay(<<>>, records) = Batches(records)
  <2>1. M!Replay(<<>>, records) = <<>> \o Batches(records)
    BY DEF M!Replay, Batches
  <2>2. Batches(records) \in Seq(Seq(EventSet[w.aggregate]))
    BY <1>1, BatchesOK
  <2>. QED BY <2>1, <2>2
<1>. QED BY <1>2, <1>3 DEF RoundTrip

\* A run in order passes the suite.
LEMMA RunsPass ==
  ASSUME NEW w, NEW run, RunOK(w, run)
  PROVE  Passes(w, run)
<1>1. PICK records, journal : journal = run.journal /\ records = journal.records
  OBVIOUS
<1>2. /\ JournalIs(journal, records) /\ LogOK(w, records)
      /\ run.state = Rebuilt(w, Batches(records)) /\ IsSeq(run.steps)
      /\ Len(run.steps) = Len(records)
      /\ \A i \in 1 .. Len(records) :
           /\ run.steps[i].seq = i
           /\ run.steps[i].digest = Digest128(w, Rebuilt(w, Batches(SubSeq(records, 1, i))))
  BY <1>1 DEF RunOK
<1>3. records \in Seq(BatchRecord(w))
  BY <1>2 DEF LogOK
<1>4. PICK n \in Nat : n = Len(records)
  BY <1>3
<1>5. /\ M!HeadSeq(journal) = n
      /\ \A at \in 1 .. n :
           M!PosKnown(journal, at) /\ M!EntropyPos(journal, at) = records[at].entropy_pos
      /\ \A at \in Nat : at > n => ~M!PosKnown(journal, at)
      /\ M!Resumable(journal)
      /\ n > 0 => M!ResumedPos(journal) = HeadPos(journal)
  BY <1>2, <1>3, <1>4, JournalReads
<1>6. OutOfRange(journal)
  <2>1. \A beyond \in {1, 2, 2 ^ 16} : n + beyond \in Nat /\ n + beyond > n
    OBVIOUS
  <2>. QED BY <1>5, <2>1 DEF OutOfRange
<1>7. PositionsMonotonic(journal, 1, n)
  <2>1. ASSUME NEW seq \in 1 .. n, seq > 1
        PROVE  M!EntropyPos(journal, seq) >= M!EntropyPos(journal, seq - 1)
    <3>1. seq \in 2 .. n /\ seq - 1 \in 1 .. n
      BY <2>1
    <3>2. records[seq].entropy_pos >= records[seq - 1].entropy_pos
      BY <1>2, <1>4, <3>1 DEF LogOK
    <3>. QED BY <1>5, <3>1, <3>2
  <2>. QED BY <1>5, <2>1 DEF PositionsMonotonic
<1>8. ASSUME NEW at \in 0 .. n
      PROVE  /\ M!ForkOk(journal, at)
             /\ JournalIs(M!Fork(journal, at), SubSeq(records, 1, at))
             /\ SubSeq(records, 1, at) \in Seq(BatchRecord(w))
             /\ Len(SubSeq(records, 1, at)) = at
  BY <1>2, <1>3, <1>4, ForksOK
<1>9. ASSUME n > 0 PROVE ForkPositionEquality(journal)
  <2>1. PICK at : at = Midpoint(journal)
    OBVIOUS
  <2>2. at \in 1 .. n /\ at \in 0 .. n
    <3>1. at = (n + 1) \div 2
      BY <1>5, <2>1 DEF Midpoint
    <3>. QED BY <1>9, <3>1
  <2>3. PICK forked, kept : forked = M!Fork(journal, at) /\ kept = SubSeq(records, 1, at)
    OBVIOUS
  <2>4. /\ M!ForkOk(journal, at) /\ JournalIs(forked, kept) /\ kept \in Seq(BatchRecord(w))
        /\ Len(kept) = at /\ at \in Nat /\ kept[at] = records[at]
    <3>1. kept[at] = records[at]
      BY <1>3, <1>4, <2>2, <2>3
    <3>. QED BY <1>8, <2>2, <2>3, <3>1
  <2>5. M!HeadSeq(forked) = at /\ M!EntropyPos(forked, at) = kept[at].entropy_pos
    BY <2>2, <2>4, JournalReads
  <2>. QED BY <1>5, <2>1, <2>2, <2>3, <2>4, <2>5 DEF ForkPositionEquality
<1>10. RoundTripAtEachStep(w, run)
  <2>1. ASSUME NEW i \in DOMAIN run.steps
        PROVE  /\ M!ForkOk(journal, run.steps[i].seq)
               /\ RoundTrip(w, M!Fork(journal, run.steps[i].seq), run.steps[i].digest)
    <3>1. i \in 1 .. n /\ i \in 0 .. n
      BY <1>2, <1>4 DEF IsSeq
    <3>2. run.steps[i].seq = i
          /\ run.steps[i].digest = Digest128(w, Rebuilt(w, Batches(SubSeq(records, 1, i))))
      BY <1>2, <1>4, <3>1
    <3>3. PICK kept, forked : kept = SubSeq(records, 1, i) /\ forked = M!Fork(journal, i)
      OBVIOUS
    <3>4. M!ForkOk(journal, i) /\ JournalIs(forked, kept) /\ kept \in Seq(BatchRecord(w))
      BY <1>8, <3>1, <3>3
    <3>5. RoundTrip(w, forked, run.steps[i].digest)
      BY <3>2, <3>3, <3>4, RoundTrips
    <3>. QED BY <3>2, <3>3, <3>4, <3>5
  <2>. QED BY <1>1, <2>1 DEF RoundTripAtEachStep
<1>11. ASSUME n > 0 PROVE RoundTrip(w, journal, Last(run.steps).digest)
  <2>1. Last(run.steps) = run.steps[n]
    BY <1>2, <1>4 DEF Last
  <2>2. n \in 1 .. n
    BY <1>11
  <2>3. SubSeq(records, 1, n) = records
    BY <1>3, <1>4
  <2>4. Last(run.steps).digest = Digest128(w, Rebuilt(w, Batches(records)))
    BY <1>2, <1>4, <2>1, <2>2, <2>3
  <2>. QED BY <1>2, <1>3, <2>4, RoundTrips
<1>. QED BY <1>1, <1>5, <1>6, <1>7, <1>9, <1>10, <1>11, FailedAppendsAreAtomic, ResumesAlike
        DEF Passes

\* Truncating it at the midpoint, behind a snapshot at its head, changes no
\* resume.
LEMMA TruncationsResume ==
  ASSUME NEW w, NEW run, RunOK(w, run), M!HeadSeq(run.journal) > 0
  PROVE  TruncationPreservesResume(w, run.journal)
<1>1. PICK records, journal : journal = run.journal /\ records = journal.records
  OBVIOUS
<1>2. JournalIs(journal, records) /\ LogOK(w, records)
  BY <1>1 DEF RunOK
<1>3. records \in Seq(BatchRecord(w))
  BY <1>2 DEF LogOK
<1>4. PICK n \in Nat : n = Len(records)
  BY <1>3
<1>5. M!HeadSeq(journal) = n /\ n > 0
  BY <1>1, <1>2, <1>3, <1>4, JournalReads
<1>6. PICK bs, pos, g : /\ bs = Batches(records) /\ pos = records[n].entropy_pos
                        /\ g = M!Genesis
  OBVIOUS
<1>7. PICK snap : snap = [at |-> n, entropy_pos |-> pos, state |-> bs]
  OBVIOUS
<1>8. /\ M!ResumedState(journal) = bs /\ M!ResumedPos(journal) = pos
      /\ ResumedState(w, journal) = Rebuilt(w, bs)
      /\ \A at \in 1 .. n : M!EntropyPos(journal, at) = records[at].entropy_pos
  BY <1>2, <1>3, <1>4, <1>5, <1>6, JournalReads
<1>9. g.at = 0 /\ snap.at = n /\ snap.entropy_pos = pos /\ snap.state = bs
  BY <1>6, <1>7 DEF M!Genesis
<1>10. PICK at : at = Midpoint(journal)
  OBVIOUS
<1>11. at \in 1 .. n
  <2>1. at = (n + 1) \div 2
    BY <1>5, <1>10 DEF Midpoint
  <2>. QED BY <1>5, <2>1
<1>12. PICK covered, kept : /\ covered = M!PushSnapshot(journal, snap)
                            /\ kept = M!TruncateBefore(covered, at)
  OBVIOUS
<1>13. covered = [records |-> records, snapshots |-> {g, snap}, truncated |-> 0]
  <2>1. PICK S : S = {g}
    OBVIOUS
  <2>2. journal = [records |-> records, snapshots |-> S, truncated |-> 0]
    BY <1>2, <1>6, <2>1 DEF JournalIs
  <2>3. PICK C : C = S \union {snap} /\ C = {g, snap}
    BY <2>1
  <2>4. covered = [journal EXCEPT !.snapshots = C]
    BY <1>12, <2>2, <2>3 DEF M!PushSnapshot
  <2>5. covered = [records |-> records, snapshots |-> C, truncated |-> 0]
    BY <2>2, <2>4
  <2>. QED BY <2>3, <2>5
<1>14. covered.records = records /\ covered.snapshots = {g, snap} /\ covered.truncated = 0
  BY <1>13
<1>15. PICK tail, K : tail = SubSeq(records, at, n) /\ K = {x \in {g, snap} : x.at >= at - 1}
  OBVIOUS
<1>16. kept.records = tail /\ kept.snapshots = K /\ kept.truncated = at - 1
  <2>1. at - 0 = at
    BY <1>11
  <2>. QED BY <1>4, <1>12, <1>14, <1>15, <2>1 DEF M!TruncateBefore
<1>17. snap \in K /\ \A x \in K : x = g \/ x = snap
  BY <1>9, <1>11, <1>15
<1>18. tail \in Seq(BatchRecord(w)) /\ Len(tail) = n - at + 1
       /\ \A seq \in at .. n : tail[seq - (at - 1)] = records[seq]
  BY <1>3, <1>4, <1>11, <1>15
<1>19. M!HeadSeq(covered) = n /\ M!HeadSeq(kept) = n
  BY <1>4, <1>11, <1>14, <1>16, <1>18 DEF M!HeadSeq
<1>20. ASSUME NEW st, M!HeadSeq(st) = n, snap \in st.snapshots,
              \A x \in st.snapshots : x = g \/ x = snap
       PROVE  /\ M!Bases(st) # {} /\ M!LatestSnapshot(st) = snap
              /\ M!SnapshotsAt(st, n) = {snap}
              /\ \A seq \in 1 .. n - 1 : M!SnapshotsAt(st, seq) = {}
  <2>1. PICK B : B = M!Bases(st)
    OBVIOUS
  <2>2. snap \in B /\ \A x \in B : x = g \/ x = snap
    BY <1>9, <1>20, <2>1 DEF M!Bases
  <2>3. \A other \in B : other.at <= snap.at
    BY <1>9, <2>2
  <2>4. \A x \in B : (\A other \in B : other.at <= x.at) => x = snap
    BY <1>5, <1>9, <2>2
  <2>5. M!LatestSnapshot(st) = CHOOSE x \in B : \A other \in B : other.at <= x.at
    BY <2>1 DEF M!LatestSnapshot
  <2>6. M!LatestSnapshot(st) = snap
    BY <2>2, <2>3, <2>4, <2>5
  <2>7. M!SnapshotsAt(st, n) = {snap}
    BY <1>5, <1>9, <1>20 DEF M!SnapshotsAt
  <2>8. \A seq \in 1 .. n - 1 : M!SnapshotsAt(st, seq) = {}
    BY <1>9, <1>20 DEF M!SnapshotsAt
  <2>. QED BY <2>1, <2>2, <2>6, <2>7, <2>8
<1>21. M!Bases(covered) # {} /\ M!LatestSnapshot(covered) = snap
  BY <1>14, <1>19, <1>20
<1>22. /\ M!Bases(kept) # {} /\ M!LatestSnapshot(kept) = snap
       /\ M!SnapshotsAt(kept, n) = {snap}
       /\ \A seq \in 1 .. n - 1 : M!SnapshotsAt(kept, seq) = {}
  BY <1>16, <1>17, <1>19, <1>20
<1>23. M!TruncateOk(covered, at)
  BY <1>9, <1>11, <1>14, <1>19, <1>21 DEF M!TruncateOk
<1>24. M!RetainedFrom(kept) = at
  BY <1>11, <1>16 DEF M!RetainedFrom
<1>25. ASSUME NEW seq \in at .. n
       PROVE  M!PosKnown(kept, seq) /\ M!EntropyPos(kept, seq) = records[seq].entropy_pos
  <2>1. M!PosKnown(kept, seq)
    BY <1>11, <1>16, <1>19 DEF M!PosKnown, M!Retained
  <2>2. CASE seq = n
    <3>1. (CHOOSE x \in {snap} : TRUE) = snap
      OBVIOUS
    <3>. QED BY <1>6, <1>9, <1>22, <2>1, <2>2, <3>1 DEF M!EntropyPos
  <2>3. CASE seq # n
    <3>1. seq \in 1 .. n - 1 /\ seq # 0
      BY <1>11, <2>3
    <3>2. M!RecordAt(kept, seq) = records[seq]
      BY <1>16, <1>18 DEF M!RecordAt
    <3>. QED BY <1>22, <2>1, <3>1, <3>2 DEF M!EntropyPos
  <2>. QED BY <2>2, <2>3
<1>26. PositionsMonotonic(kept, at, n)
  <2>1. ASSUME NEW seq \in at .. n, seq > at
        PROVE  M!EntropyPos(kept, seq) >= M!EntropyPos(kept, seq - 1)
    <3>1. seq - 1 \in at .. n /\ seq \in 2 .. n
      BY <1>11, <2>1
    <3>2. records[seq].entropy_pos >= records[seq - 1].entropy_pos
      BY <1>2, <1>4, <3>1 DEF LogOK
    <3>. QED BY <1>25, <3>1, <3>2
  <2>. QED BY <1>25, <2>1 DEF PositionsMonotonic
<1>27. \A gone \in 1 .. at - 1 : ~M!PosKnown(kept, gone)
  <2>1. \A gone \in 1 .. at - 1 : gone \in 1 .. n - 1 /\ gone # 0 /\ ~(at - 1 < gone)
    BY <1>11
  <2>. QED BY <1>16, <1>22, <2>1 DEF M!PosKnown, M!Retained
<1>28. M!Resumable(kept)
  <2>1. M!EventsKnown(kept, n)
    BY <1>11, <1>16 DEF M!EventsKnown
  <2>2. n \in at .. n
    BY <1>11
  <2>. QED BY <1>9, <1>19, <1>22, <1>25, <2>1, <2>2 DEF M!Resumable
<1>29. M!ResumedState(kept) = bs
  <2>1. M!EventsSince(kept, n) = <<>>
    <3>1. M!EventsSince(kept, n) = SubSeq(tail, n - (at - 1) + 1, Len(tail))
      BY <1>16 DEF M!EventsSince
    <3>2. n - (at - 1) + 1 > Len(tail) /\ n - (at - 1) + 1 \in Int
      BY <1>11, <1>18
    <3>. QED BY <1>18, <3>1, <3>2
  <2>2. PICK none, batches : none = <<>> /\ batches = [i \in 1 .. Len(none) |-> none[i].events]
    OBVIOUS
  <2>3. M!Replay(bs, <<>>) = bs \o <<>>
    <3>1. Len(none) = 0
      BY <2>2
    <3>2. batches = <<>>
      BY <2>2, <3>1
    <3>3. M!Replay(bs, none) = bs \o batches
      BY <2>2 DEF M!Replay
    <3>. QED BY <2>2, <3>2, <3>3
  <2>4. bs \in Seq(Seq(EventSet[w.aggregate]))
    BY <1>3, <1>4, <1>6, BatchesOK
  <2>5. bs \o <<>> = bs
    BY <2>4
  <2>. QED BY <1>9, <1>22, <2>1, <2>3, <2>5 DEF M!ResumedState
<1>30. ResumedState(w, kept) = ResumedState(w, journal)
  BY <1>8, <1>29 DEF ResumedState
<1>31. M!ResumedPos(kept) = pos
  <2>1. n \in at .. n
    BY <1>11
  <2>. QED BY <1>5, <1>6, <1>19, <1>25, <2>1 DEF M!ResumedPos
<1>32. TruncationPreservesResume(w, journal)
  BY <1>5, <1>7, <1>8, <1>10, <1>12, <1>23, <1>24, <1>26, <1>27, <1>28, <1>30, <1>31
     DEF TruncationPreservesResume
<1>. QED BY <1>1, <1>32

\* The twin, which has the same records, gives the same answers.
LEMMA TwinsAnswerAlike ==
  ASSUME TwinOK, RunOK(world, Reference)
  PROVE  TwinAnswersAlike
<1>1. PICK records, journal, log : /\ journal = Reference.journal /\ records = journal.records
                                   /\ log = [records |-> records, snapshots |-> <<>>]
  OBVIOUS
<1>2. JournalIs(journal, records) /\ LogOK(world, records)
  BY <1>1 DEF RunOK
<1>3. records \in Seq(BatchRecord(world))
  BY <1>2 DEF LogOK
<1>4. PICK n \in Nat : n = Len(records)
  BY <1>3
<1>5. twin.log = log /\ twin.state = Reference.state
  BY <1>1 DEF TwinOK
<1>6. log.records = records /\ log.snapshots = <<>>
  BY <1>1
<1>7. journal.records = records /\ journal.truncated = 0
  BY <1>2 DEF JournalIs
<1>8. /\ M!HeadSeq(journal) = n
      /\ M!LatestSnapshot(journal) = M!Genesis
      /\ M!PosKnown(journal, 0) /\ M!EntropyPos(journal, 0) = 0
      /\ \A at \in 1 .. n :
           M!PosKnown(journal, at) /\ M!EntropyPos(journal, at) = records[at].entropy_pos
      /\ \A at \in Nat : at > n => ~M!PosKnown(journal, at)
  BY <1>2, <1>3, <1>4, JournalReads
<1>9. L!LogHead(log) = n
  BY <1>4, <1>6 DEF L!LogHead
<1>10. L!LogLatestSnapshot(log, <<>>) = M!LatestSnapshot(journal)
  BY <1>6, <1>8 DEF L!LogLatestSnapshot, L!GenesisSnapshot, M!Genesis
<1>11. \A at \in 0 .. n + 1 : M!ForkOk(journal, at) <=> at <= n
  BY <1>2, <1>3, <1>4, <1>7, <1>8, ForksOK DEF M!ForkOk, M!ForkPoint
<1>12. ASSUME NEW at \in 0 .. n + 1
       PROVE  /\ L!LogPosKnown(log, at) = M!PosKnown(journal, at)
              /\ M!PosKnown(journal, at) =>
                   L!LogEntropyPos(log, at) = M!EntropyPos(journal, at)
              /\ L!LogEventsSince(log, at) = M!EventsSince(journal, at)
              /\ L!LogForkOk(log, at) = M!ForkOk(journal, at)
              /\ M!ForkOk(journal, at) =>
                   L!LogFork(log, at).records = M!Fork(journal, at).records
  <2>1. M!PosKnown(journal, at) <=> at <= n
    BY <1>8
  <2>2. L!LogPosKnown(log, at) <=> at <= n
    BY <1>9 DEF L!LogPosKnown, L!RecordKnown
  <2>3. L!LogPosKnown(log, at) = M!PosKnown(journal, at)
    BY <2>1, <2>2 DEF L!LogPosKnown, M!PosKnown
  <2>4. M!PosKnown(journal, at) => L!LogEntropyPos(log, at) = M!EntropyPos(journal, at)
    <3>1. CASE at = 0
      <4>1. {i \in DOMAIN log.snapshots : log.snapshots[i].at = 0} = {}
        BY <1>6
      <4>. QED BY <1>8, <3>1, <4>1 DEF L!LogEntropyPos
    <3>2. CASE at \in 1 .. n
      <4>1. at > 0
        BY <3>2
      <4>. QED BY <1>6, <1>8, <3>2, <4>1 DEF L!LogEntropyPos
    <3>3. CASE at = n + 1
      BY <1>8, <3>3
    <3>. QED BY <3>1, <3>2, <3>3
  <2>5. L!LogEventsSince(log, at) = M!EventsSince(journal, at)
    <3>1. at - 0 + 1 = at + 1
      OBVIOUS
    <3>. QED BY <1>6, <1>7, <3>1 DEF L!LogEventsSince, M!EventsSince
  <2>6. L!LogForkOk(log, at) <=> at <= n
    BY <1>9 DEF L!LogForkOk
  <2>7. L!LogForkOk(log, at) = M!ForkOk(journal, at)
    BY <1>11, <2>6 DEF L!LogForkOk, M!ForkOk
  <2>8. L!LogFork(log, at).records = M!Fork(journal, at).records
    <3>1. at - 0 = at
      OBVIOUS
    <3>. QED BY <1>6, <1>7, <3>1 DEF L!LogFork, M!Fork
  <2>. QED BY <2>3, <2>4, <2>5, <2>7, <2>8
<1>. QED BY <1>1, <1>5, <1>8, <1>9, <1>10, <1>12 DEF TwinAnswersAlike

-----------------------------------------------------------------------------
(* What an encoding tells apart.                                           *)

\* A number is its lowest byte and what is left of it.
LEMMA LowestByte ==
  \A n \in Nat : /\ n \div 256 \in Nat /\ n % 256 \in Nat /\ n % 256 < 256
                /\ n = 256 * (n \div 256) + (n % 256)
OBVIOUS

Bytewise(f, x, w) ==
  f \in [0 .. w -> Nat] /\ f[0] = x /\ \A i \in 1 .. w : f[i] = f[i - 1] \div 256

\* A number loses its lowest byte with each that is written.
LEMMA RemainsUnfolds ==
  ASSUME NEW x \in Nat, NEW w \in Nat
  PROVE  Bytewise(Bytes!Remains(x, w), x, w)
<1> DEFINE step == [i \in Int |-> [y \in Nat |-> y \div 256]]
           D(c) == [i \in 0 .. w |-> IF i = 0 THEN x ELSE c[i - 1] \div 256]
           rest == CHOOSE c : c = D(c)
<1>1. step \in [Int -> [Nat -> Nat]]
  BY LowestByte
<1>2. PICK f \in [0 .. w -> Nat] : StepsFrom(f, x, step, 0, w)
  <2>1. x \in Nat /\ 0 \in Int /\ w \in Int
    OBVIOUS
  <2> HIDE DEF step
  <2>. QED BY <1>1, <2>1, IntervalRecursion
<1>3. \A i \in 0 .. w : i # 0 => i - 1 \in 0 .. w /\ i \in Int
  OBVIOUS
<1>4. \A i \in 0 .. w : f[i] = D(f)[i]
  BY <1>2, <1>3 DEF StepsFrom
<1>5. f = D(f)
  BY <1>4
<1>6. rest = D(rest)
  <2> HIDE DEF D
  <2>. QED BY <1>5
<1>7. Bytes!Remains(x, w) = rest
  BY DEF Bytes!Remains
<1> HIDE DEF rest
<1>8. rest[0] = x /\ \A i \in 1 .. w : rest[i] = rest[i - 1] \div 256
  <2>1. 0 \in 0 .. w /\ \A i \in 1 .. w : i \in 0 .. w /\ i # 0
    OBVIOUS
  <2>. QED BY <1>6, <2>1
<1> DEFINE T == {i \in 0 .. w : rest[i] \in Nat}
<1>9. \A i \in 0 .. w : i \in T
  <2>1. 0 \in T
    BY <1>8
  <2>2. ASSUME NEW i \in 0 .. w - 1, i \in T PROVE i + 1 \in T
    <3>1. i + 1 \in 1 .. w /\ (i + 1) - 1 = i
      OBVIOUS
    <3>2. rest[i + 1] = rest[i] \div 256 /\ rest[i] \in Nat
      BY <1>8, <2>2, <3>1
    <3>. QED BY <3>1, <3>2, LowestByte
  <2>3. 0 \in Int /\ w \in Int
    OBVIOUS
  <2> HIDE DEF T
  <2>. QED BY <2>1, <2>2, <2>3, IntervalInduction
<1>10. rest \in [0 .. w -> Nat]
  BY <1>6, <1>9
<1>. QED BY <1>7, <1>8, <1>10 DEF Bytewise

\* A smaller number fits where a larger one does.
LEMMA SmallerFits ==
  ASSUME NEW y, NEW w \in Nat, Bytes!FitsIn(y, w), NEW x \in 0 .. y
  PROVE  Bytes!FitsIn(x, w)
<1>1. x \in Nat /\ y \in Nat /\ x <= y
  BY DEF Bytes!FitsIn
<1>2. PICK f, g : f = Bytes!Remains(x, w) /\ g = Bytes!Remains(y, w)
  OBVIOUS
<1>3. Bytewise(f, x, w) /\ Bytewise(g, y, w)
  BY <1>1, <1>2, RemainsUnfolds
<1> DEFINE T == {i \in 0 .. w : f[i] <= g[i]}
<1>4. \A i \in 0 .. w : i \in T
  <2>1. 0 \in T
    BY <1>1, <1>3 DEF Bytewise
  <2>2. ASSUME NEW i \in 0 .. w - 1, i \in T PROVE i + 1 \in T
    <3>1. i + 1 \in 1 .. w /\ (i + 1) - 1 = i /\ i \in 0 .. w
      OBVIOUS
    <3>2. f[i + 1] = f[i] \div 256 /\ g[i + 1] = g[i] \div 256 /\ f[i] <= g[i]
      BY <1>3, <2>2, <3>1 DEF Bytewise
    <3>3. f[i] \in Nat /\ g[i] \in Nat
      BY <1>3, <3>1 DEF Bytewise
    <3>4. f[i] \div 256 <= g[i] \div 256
      BY <3>2, <3>3, LowestByte
    <3>. QED BY <3>1, <3>2, <3>4
  <2>3. 0 \in Int /\ w \in Int
    OBVIOUS
  <2> HIDE DEF T
  <2>. QED BY <2>1, <2>2, <2>3, IntervalInduction
<1>5. f[w] <= g[w] /\ f[w] \in Nat
  BY <1>3, <1>4 DEF Bytewise
<1>6. g[w] = 0
  BY <1>2 DEF Bytes!FitsIn
<1>. QED BY <1>1, <1>2, <1>5, <1>6 DEF Bytes!FitsIn

\* A number fits in more bytes if it does in fewer.
LEMMA WiderFits ==
  ASSUME NEW x, NEW v \in Nat, Bytes!FitsIn(x, v), NEW w \in Nat, v <= w
  PROVE  Bytes!FitsIn(x, w)
<1>1. x \in Nat
  BY DEF Bytes!FitsIn
<1>2. PICK f, g : f = Bytes!Remains(x, v) /\ g = Bytes!Remains(x, w)
  OBVIOUS
<1>3. Bytewise(f, x, v) /\ Bytewise(g, x, w)
  BY <1>1, <1>2, RemainsUnfolds
<1> DEFINE T == {i \in 0 .. v : f[i] = g[i]}
           U == {i \in v .. w : g[i] = 0}
<1>4. \A i \in 0 .. v : i \in T
  <2>1. 0 \in T
    BY <1>3 DEF Bytewise
  <2>2. ASSUME NEW i \in 0 .. v - 1, i \in T PROVE i + 1 \in T
    <3>1. i + 1 \in 1 .. v /\ i + 1 \in 1 .. w /\ (i + 1) - 1 = i /\ i + 1 \in 0 .. v
      OBVIOUS
    <3>. QED BY <1>3, <2>2, <3>1 DEF Bytewise
  <2>3. 0 \in Int /\ v \in Int
    OBVIOUS
  <2> HIDE DEF T
  <2>. QED BY <2>1, <2>2, <2>3, IntervalInduction
<1>5. f[v] = 0 /\ v \in 0 .. v
  BY <1>2 DEF Bytes!FitsIn
<1>6. \A i \in v .. w : i \in U
  <2>1. v \in U
    BY <1>4, <1>5
  <2>2. ASSUME NEW i \in v .. w - 1, i \in U PROVE i + 1 \in U
    <3>1. i + 1 \in 1 .. w /\ (i + 1) - 1 = i /\ i + 1 \in v .. w
      OBVIOUS
    <3>2. g[i + 1] = g[i] \div 256 /\ g[i] = 0
      BY <1>3, <2>2, <3>1 DEF Bytewise
    <3>3. 0 \div 256 = 0
      OBVIOUS
    <3>. QED BY <3>1, <3>2, <3>3
  <2>3. v \in Int /\ w \in Int
    OBVIOUS
  <2> HIDE DEF U
  <2>. QED BY <2>1, <2>2, <2>3, IntervalInduction
<1>7. g[w] = 0
  BY <1>6
<1>. QED BY <1>1, <1>2, <1>7 DEF Bytes!FitsIn

\* A byte fits anywhere.
LEMMA BytesFit ==
  ASSUME NEW x \in Nat, x < 256, NEW w \in Nat \ {0}
  PROVE  Bytes!FitsIn(x, w)
<1>1. Bytes!Remains(x, 1)[0] = x /\ Bytes!Remains(x, 1)[1] = Bytes!Remains(x, 1)[0] \div 256
  <2>1. x \in Nat /\ 1 \in Nat /\ 1 \in 1 .. 1 /\ 1 - 1 = 0
    OBVIOUS
  <2>. QED BY <2>1, RemainsUnfolds DEF Bytewise
<1>2. x \div 256 = 0
  BY LowestByte
<1>3. Bytes!FitsIn(x, 1)
  BY <1>1, <1>2 DEF Bytes!FitsIn
<1>. QED BY <1>3, WiderFits

Byte == {b \in Nat : b < 256}

Text == Seq(Byte)

\* An integer takes as many bytes as its type has.
LEMMA UintsHaveTheirWidth ==
  ASSUME NEW x \in Nat, NEW w \in Nat
  PROVE  Bytes!EncodeUint(x, w) \in [1 .. w -> Byte]
<1>1. \A i \in 1 .. w : Bytes!Remains(x, w)[i - 1] \in Nat
  <2>1. \A i \in 1 .. w : i - 1 \in 0 .. w
    OBVIOUS
  <2>. QED BY <2>1, RemainsUnfolds DEF Bytewise
<1>2. \A i \in 1 .. w : Bytes!Remains(x, w)[i - 1] % 256 \in Byte
  BY <1>1, LowestByte DEF Byte
<1>. QED BY <1>2 DEF Bytes!EncodeUint

\* Two integers of which no part is cut off differ in some byte.
LEMMA UintsDiffer ==
  ASSUME NEW x, NEW y, NEW w \in Nat, Bytes!FitsIn(x, w), Bytes!FitsIn(y, w),
         Bytes!EncodeUint(x, w) = Bytes!EncodeUint(y, w)
  PROVE  x = y
<1>1. x \in Nat /\ y \in Nat
  BY DEF Bytes!FitsIn
<1>2. PICK f, g : f = Bytes!Remains(x, w) /\ g = Bytes!Remains(y, w)
  OBVIOUS
<1>3. Bytewise(f, x, w) /\ Bytewise(g, y, w)
  BY <1>1, <1>2, RemainsUnfolds
<1>4. \A i \in 1 .. w : f[i - 1] % 256 = g[i - 1] % 256
  <2>1. [i \in 1 .. w |-> f[i - 1] % 256] = [i \in 1 .. w |-> g[i - 1] % 256]
    BY <1>2 DEF Bytes!EncodeUint
  <2>2. PICK a, b : /\ a = [i \in 1 .. w |-> f[i - 1] % 256]
                    /\ b = [i \in 1 .. w |-> g[i - 1] % 256]
    OBVIOUS
  <2>3. \A i \in 1 .. w : a[i] = b[i]
    BY <2>1, <2>2
  <2>. QED BY <2>2, <2>3
<1> DEFINE T == {j \in 0 .. w : f[w - j] = g[w - j]}
<1>5. \A j \in 0 .. w : j \in T
  <2>1. 0 \in T
    BY <1>2 DEF Bytes!FitsIn
  <2>2. ASSUME NEW j \in 0 .. w - 1, j \in T PROVE j + 1 \in T
    <3>1. PICK i \in 1 .. w, k \in 0 .. w : i = w - j /\ k = i - 1 /\ k = w - (j + 1)
      OBVIOUS
    <3>2. PICK a, b : a = f[k] /\ b = g[k]
      OBVIOUS
    <3>3. a \in Nat /\ b \in Nat
      BY <1>3, <3>2 DEF Bytewise
    <3>4. f[i] = a \div 256 /\ g[i] = b \div 256 /\ a % 256 = b % 256
      <4>1. f[i - 1] = a /\ g[i - 1] = b
        BY <3>1, <3>2
      <4>2. f[i] = f[i - 1] \div 256 /\ g[i] = g[i - 1] \div 256
        BY <1>3 DEF Bytewise
      <4>3. f[i - 1] % 256 = g[i - 1] % 256
        BY <1>4
      <4>. QED BY <4>1, <4>2, <4>3
    <3>5. f[i] = g[i]
      BY <2>2, <3>1
    <3>6. a = b
      BY <3>3, <3>4, <3>5, LowestByte
    <3>. QED BY <3>1, <3>2, <3>6
  <2>3. 0 \in Int /\ w \in Int
    OBVIOUS
  <2> HIDE DEF T
  <2>. QED BY <2>1, <2>2, <2>3, IntervalInduction
<1>6. w \in T /\ w - w = 0
  BY <1>5
<1>. QED BY <1>3, <1>6 DEF Bytewise

\* One text after the other.
Then(x, y) == x \o y

\* Encodings of which none goes on where another ends: two texts that begin
\* with one each begin with the same and have the same rest.
Code(E) ==
  /\ E \subseteq Text
  /\ \A x, y \in E : \A t, u \in Text : Then(x, t) = Then(y, u) => x = y /\ t = u

\* Texts are put together in any grouping.
LEMMA TextsJoin ==
  ASSUME NEW x \in Text, NEW y \in Text, NEW z \in Text
  PROVE  Then(x, y) \in Text /\ Then(Then(x, y), z) = Then(x, Then(y, z))
<1>1. x \o y \in Seq(Byte)
  BY ConcatProperties DEF Text
<1>2. (x \o y) \o z = x \o (y \o z)
  BY ConcatAssociative DEF Text
<1>. QED BY <1>1, <1>2 DEF Then, Text

\* Nothing after a text leaves it as it is.
LEMMA NothingJoins ==
  ASSUME NEW none, none = <<>>
  PROVE  none \in Text /\ \A x \in Text : Then(x, none) = x /\ Then(none, x) = x
<1>1. ASSUME NEW x \in Text PROVE x \o <<>> = x /\ <<>> \o x = x
  BY ConcatEmptySeq DEF Text
<1>2. <<>> \in Seq(Byte)
  OBVIOUS
<1>. QED BY <1>1, <1>2 DEF Then, Text

\* Encodings of one length are a code.
LEMMA FixedCode ==
  ASSUME NEW w \in Nat
  PROVE  Code([1 .. w -> Byte])
<1>1. ASSUME NEW x \in [1 .. w -> Byte], NEW y \in [1 .. w -> Byte],
             NEW t \in Seq(Byte), NEW u \in Seq(Byte), Then(x, t) = Then(y, u)
      PROVE  x = y /\ t = u
  <2>1. x \in Seq(Byte) /\ y \in Seq(Byte) /\ Len(x) = w /\ Len(y) = w
    OBVIOUS
  <2>2. PICK n \in Nat, m \in Nat : n = Len(t) /\ m = Len(u)
    OBVIOUS
  <2>3. PICK z : z = x \o t /\ z = y \o u
    BY <1>1 DEF Then
  <2>4. /\ Len(z) = w + n /\ Len(z) = w + m
        /\ \A i \in 1 .. w + n : z[i] = IF i <= w THEN x[i] ELSE t[i - w]
        /\ \A i \in 1 .. w + m : z[i] = IF i <= w THEN y[i] ELSE u[i - w]
    <3>1. /\ Len(x \o t) = Len(x) + Len(t)
          /\ \A i \in 1 .. Len(x) + Len(t) :
               (x \o t)[i] = IF i <= Len(x) THEN x[i] ELSE t[i - Len(x)]
      BY <2>1, ConcatProperties
    <3>2. /\ Len(y \o u) = Len(y) + Len(u)
          /\ \A i \in 1 .. Len(y) + Len(u) :
               (y \o u)[i] = IF i <= Len(y) THEN y[i] ELSE u[i - Len(y)]
      BY <2>1, ConcatProperties
    <3>. QED BY <2>1, <2>2, <2>3, <3>1, <3>2
  <2>5. n = m
    BY <2>4
  <2>6. \A i \in 1 .. w : x[i] = y[i]
    <3>1. \A i \in 1 .. w : i \in 1 .. w + n /\ i <= w
      OBVIOUS
    <3>. QED BY <2>4, <2>5, <3>1
  <2>7. ASSUME NEW i \in 1 .. n PROVE t[i] = u[i]
    <3>1. PICK k \in 1 .. w + n : k = i + w /\ ~(k <= w) /\ k - w = i
      OBVIOUS
    <3>2. z[k] = t[k - w] /\ z[k] = u[k - w]
      BY <2>4, <2>5, <3>1
    <3>. QED BY <3>1, <3>2
  <2>8. x = y
    BY <2>6
  <2>9. t = u
    BY <2>2, <2>5, <2>7, SeqEqual
  <2>. QED BY <2>8, <2>9
<1>2. [1 .. w -> Byte] \subseteq Seq(Byte)
  OBVIOUS
<1>. QED BY <1>1, <1>2 DEF Code, Text

\* What begins with an encoding each has the same.
LEMMA CodesSplit ==
  ASSUME NEW E, Code(E), NEW x \in E, NEW y \in E, NEW p \in Text, NEW q \in Text,
         Then(x, p) = Then(y, q)
  PROVE  x = y /\ p = q
BY DEF Code

\* One after the other they are encodings again.
LEMMA PairsCode ==
  ASSUME NEW E, Code(E), NEW F, Code(F)
  PROVE  Code({Then(x, y) : x \in E, y \in F})
<1> DEFINE G == {Then(x, y) : x \in E, y \in F}
<1>1. E \subseteq Text /\ F \subseteq Text
  BY DEF Code
<1>2. G \subseteq Text
  <2>1. \A x \in E, y \in F : Then(x, y) \in Text
    BY <1>1, TextsJoin
  <2>. QED BY <2>1
<1>3. ASSUME NEW a \in G, NEW b \in G, NEW t \in Text, NEW u \in Text, Then(a, t) = Then(b, u)
      PROVE  a = b /\ t = u
  <2>1. PICK x \in E, y \in F, v \in E, w \in F : a = Then(x, y) /\ b = Then(v, w)
    OBVIOUS
  <2>2. /\ x \in Text /\ y \in Text /\ v \in Text /\ w \in Text
        /\ Then(y, t) \in Text /\ Then(w, u) \in Text
    BY <1>1, TextsJoin
  <2>3. Then(x, Then(y, t)) = Then(v, Then(w, u))
    BY <1>3, <2>1, <2>2, TextsJoin
  <2>4. x = v /\ Then(y, t) = Then(w, u)
    BY <2>2, <2>3, CodesSplit
  <2>5. y = w /\ t = u
    BY <2>4, CodesSplit
  <2>. QED BY <2>1, <2>4, <2>5
<1>4. Code(G)
  <2> HIDE DEF G
  <2>. QED BY <1>2, <1>3 DEF Code
<1>. QED BY <1>4

-----------------------------------------------------------------------------
(* Sequences of encodings.                                                 *)

WrittenStep(f, items, n) ==
  /\ f \in [0 .. n -> Text]
  /\ \A i \in 0 .. n : f[i] = IF i = 0 THEN <<>> ELSE Then(f[i - 1], items[i])

\* The items of a sequence, written one by one.
LEMMA WrittenUnfolds ==
  ASSUME NEW items \in Seq(Text), NEW n \in Nat, n = Len(items)
  PROVE  \E f : WrittenStep(f, items, n) /\ Bytes!Written(items) = f[n]
<1> DEFINE step == [i \in Int |-> [x \in Text |-> IF i \in 1 .. n THEN Then(x, items[i]) ELSE x]]
           D(c) == [i \in 0 .. n |-> IF i = 0 THEN <<>> ELSE c[i - 1] \o items[i]]
           upTo == CHOOSE c : c = D(c)
<1>1. \A i \in 1 .. n : items[i] \in Text
  OBVIOUS
<1>2. step \in [Int -> [Text -> Text]]
  <2>1. \A x \in Text, i \in 1 .. n : Then(x, items[i]) \in Text
    BY <1>1, TextsJoin
  <2>. QED BY <2>1
<1>3. PICK none : none = <<>> /\ none \in Text
  BY NothingJoins
<1>4. PICK f \in [0 .. n -> Text] : StepsFrom(f, none, step, 0, n)
  <2>1. none \in Text /\ 0 \in Int /\ n \in Int
    BY <1>3
  <2> HIDE DEF step
  <2>. QED BY <1>2, <2>1, IntervalRecursion
<1>5. ASSUME NEW i \in 0 .. n
      PROVE  f[i] = IF i = 0 THEN <<>> ELSE Then(f[i - 1], items[i])
  <2>1. f[i] = IF i = 0 THEN <<>> ELSE step[i][f[i - 1]]
    BY <1>3, <1>4 DEF StepsFrom
  <2>2. CASE i # 0
    <3>1. i - 1 \in 0 .. n /\ i \in Int /\ i \in 1 .. n
      BY <2>2
    <3>2. f[i - 1] \in Text
      BY <3>1
    <3>. QED BY <2>1, <2>2, <3>1, <3>2
  <2>3. CASE i = 0
    BY <2>1, <2>3
  <2>. QED BY <2>2, <2>3
<1>6. f = D(f)
  <2>1. \A i \in 0 .. n : f[i] = IF i = 0 THEN <<>> ELSE f[i - 1] \o items[i]
    BY <1>5 DEF Then
  <2>2. PICK g : g = D(f)
    OBVIOUS
  <2>3. g = f
    <3>1. \A i \in 0 .. n : g[i] = IF i = 0 THEN <<>> ELSE f[i - 1] \o items[i]
      BY <2>2
    <3>2. \A i \in 0 .. n : g[i] = f[i]
      BY <2>1, <3>1
    <3>3. DOMAIN g = 0 .. n /\ g = [i \in 0 .. n |-> g[i]]
      BY <2>2
    <3>. QED BY <3>2, <3>3
  <2>. QED BY <2>2, <2>3
<1>7. upTo = D(upTo)
  <2> HIDE DEF D
  <2>. QED BY <1>6
<1>8. Bytes!Written(items) = upTo[n]
  BY DEF Bytes!Written
<1> HIDE DEF upTo
<1>9. \A i \in 0 .. n : upTo[i] = IF i = 0 THEN <<>> ELSE Then(upTo[i - 1], items[i])
  BY <1>7 DEF Then
<1> DEFINE T == {i \in 0 .. n : upTo[i] \in Text}
<1>10. \A i \in 0 .. n : i \in T
  <2>1. 0 \in T
    BY <1>3, <1>9
  <2>2. ASSUME NEW i \in 0 .. n - 1, i \in T PROVE i + 1 \in T
    <3>1. i + 1 \in 0 .. n /\ i + 1 \in 1 .. n /\ i + 1 # 0 /\ (i + 1) - 1 = i
      OBVIOUS
    <3>2. upTo[i + 1] = Then(upTo[i], items[i + 1])
      BY <1>9, <3>1
    <3>3. upTo[i] \in Text /\ items[i + 1] \in Text
      BY <1>1, <2>2, <3>1
    <3>4. Then(upTo[i], items[i + 1]) \in Text
      BY <3>3, TextsJoin
    <3>. QED BY <3>1, <3>2, <3>4
  <2>3. 0 \in Int /\ n \in Int
    OBVIOUS
  <2> HIDE DEF T
  <2>. QED BY <2>1, <2>2, <2>3, IntervalInduction
<1>11. upTo \in [0 .. n -> Text]
  BY <1>7, <1>10
<1>. QED BY <1>8, <1>9, <1>11 DEF WrittenStep

\* Items of a code are told apart after they are written.
LEMMA ItemsTellApart ==
  ASSUME NEW E, Code(E), NEW n \in Nat,
         NEW items \in [1 .. n -> E], NEW others \in [1 .. n -> E],
         NEW f, WrittenStep(f, items, n), NEW g, WrittenStep(g, others, n),
         NEW t \in Text, NEW u \in Text, Then(f[n], t) = Then(g[n], u)
  PROVE  items = others /\ t = u
<1> DEFINE same(i) == \A j \in 1 .. i : items[j] = others[j]
           T == {i \in 0 .. n : \A x, y \in Text :
                   Then(f[i], x) = Then(g[i], y) => same(i) /\ x = y}
<1>1. /\ \A i \in 1 .. n : /\ items[i] \in E /\ others[i] \in E /\ items[i] \in Text
                           /\ others[i] \in Text
      /\ \A i \in 0 .. n : f[i] \in Text /\ g[i] \in Text
  BY DEF Code, WrittenStep
<1>2. 0 \in T
  <2>1. 0 \in 0 .. n /\ f[0] = <<>> /\ g[0] = <<>> /\ \A j \in 1 .. 0 : FALSE
    BY DEF WrittenStep
  <2>2. \A x, y \in Text : Then(f[0], x) = Then(g[0], y) => x = y
    BY <2>1, NothingJoins
  <2>. QED BY <2>1, <2>2
<1>3. ASSUME NEW i \in 0 .. n - 1, i \in T PROVE i + 1 \in T
  <2>1. i + 1 \in 0 .. n /\ i + 1 \in 1 .. n /\ i + 1 # 0 /\ (i + 1) - 1 = i /\ i \in 0 .. n
    OBVIOUS
  <2>2. f[i + 1] = Then(f[i], items[i + 1]) /\ g[i + 1] = Then(g[i], others[i + 1])
    BY <2>1 DEF WrittenStep
  <2>3. ASSUME NEW x \in Text, NEW y \in Text, Then(f[i + 1], x) = Then(g[i + 1], y)
        PROVE  same(i + 1) /\ x = y
    <3>1. PICK a, b, p, q : a = items[i + 1] /\ b = others[i + 1] /\ p = f[i] /\ q = g[i]
      OBVIOUS
    <3>2. a \in E /\ b \in E /\ a \in Text /\ b \in Text /\ p \in Text /\ q \in Text
      BY <1>1, <2>1, <3>1
    <3>3. Then(p, Then(a, x)) = Then(q, Then(b, y)) /\ Then(a, x) \in Text /\ Then(b, y) \in Text
      <4>1. Then(Then(p, a), x) = Then(Then(q, b), y)
        BY <2>2, <2>3, <3>1
      <4>. QED BY <3>2, <4>1, TextsJoin
    <3>4. same(i) /\ Then(a, x) = Then(b, y)
      BY <1>3, <3>1, <3>3
    <3>5. a = b /\ x = y
      BY <3>2, <3>4, CodesSplit
    <3>6. \A j \in 1 .. i + 1 : j = i + 1 \/ j \in 1 .. i
      OBVIOUS
    <3>. QED BY <3>1, <3>4, <3>5, <3>6
  <2>. QED BY <2>1, <2>3
<1>4. n \in T
  <2>1. 0 \in Int /\ n \in Int /\ n \in 0 .. n
    OBVIOUS
  <2> HIDE DEF T
  <2>2. \A i \in 0 .. n : i \in T
    BY <1>2, <1>3, <2>1, IntervalInduction
  <2>. QED BY <2>1, <2>2
<1>5. same(n) /\ t = u
  BY <1>4
<1>. QED BY <1>5

\* So are two sequences of one length.
LEMMA WrittenTellsApart ==
  ASSUME NEW E, Code(E), NEW items \in Seq(E), NEW others \in Seq(E), Len(items) = Len(others)
  PROVE  /\ Bytes!Written(items) \in Text /\ Bytes!Written(others) \in Text
         /\ \A t, u \in Text :
              Then(Bytes!Written(items), t) = Then(Bytes!Written(others), u) =>
                items = others /\ t = u
<1>1. PICK n \in Nat : n = Len(items) /\ n = Len(others)
  OBVIOUS
<1>2. items \in Seq(Text) /\ others \in Seq(Text)
  BY DEF Code
<1>3. PICK f : WrittenStep(f, items, n) /\ Bytes!Written(items) = f[n]
  BY <1>1, <1>2, WrittenUnfolds
<1>4. PICK g : WrittenStep(g, others, n) /\ Bytes!Written(others) = g[n]
  BY <1>1, <1>2, WrittenUnfolds
<1>5. f[n] \in Text /\ g[n] \in Text
  BY <1>3, <1>4 DEF WrittenStep
<1>6. items \in [1 .. n -> E] /\ others \in [1 .. n -> E]
  BY <1>1
<1>7. ASSUME NEW t \in Text, NEW u \in Text, Then(f[n], t) = Then(g[n], u)
      PROVE  items = others /\ t = u
  BY <1>3, <1>4, <1>6, <1>7, ItemsTellApart
<1>. QED BY <1>3, <1>4, <1>5, <1>7

Fitting(E) == {items \in Seq(E) : Bytes!FitsIn(Len(items), 8)}

\* A length and as many items of a code.
LEMMA VecsDiffer ==
  ASSUME NEW E, Code(E), NEW items \in Fitting(E), NEW others \in Fitting(E)
  PROVE  /\ Bytes!EncodeVec(items) \in Text
         /\ \A t, u \in Text :
              Then(Bytes!EncodeVec(items), t) = Then(Bytes!EncodeVec(others), u) =>
                items = others /\ t = u
<1>1. PICK n, m : n = Len(items) /\ m = Len(others)
  OBVIOUS
<1>2. PICK F, G : F = Bytes!Written(items) /\ G = Bytes!Written(others)
  OBVIOUS
<1>3. PICK x, y : x = Bytes!EncodeUint(n, 8) /\ y = Bytes!EncodeUint(m, 8)
  OBVIOUS
<1>4. Bytes!EncodeVec(items) = Then(x, F) /\ Bytes!EncodeVec(others) = Then(y, G)
  BY <1>1, <1>2, <1>3 DEF Bytes!EncodeVec, Bytes!EncodeLen, Then
<1>5. items \in Seq(E) /\ others \in Seq(E) /\ Bytes!FitsIn(n, 8) /\ Bytes!FitsIn(m, 8)
  BY <1>1 DEF Fitting
<1>6. n \in Nat /\ m \in Nat
  BY <1>1, <1>5
<1>7. PICK Prefix : Prefix = [1 .. 8 -> Byte]
  OBVIOUS
<1>8. Code(Prefix) /\ x \in Prefix /\ y \in Prefix /\ x \in Text /\ y \in Text
  <2>1. x \in Prefix /\ y \in Prefix
    BY <1>3, <1>6, <1>7, UintsHaveTheirWidth
  <2>2. Code(Prefix)
    BY <1>7, FixedCode
  <2>. QED BY <2>1, <2>2 DEF Code
<1>9. F \in Text /\ G \in Text
  BY <1>2, <1>5, WrittenTellsApart
<1>10. Then(x, F) \in Text
  BY <1>8, <1>9, TextsJoin
<1>11. ASSUME NEW t \in Text, NEW u \in Text, Then(Then(x, F), t) = Then(Then(y, G), u)
       PROVE  items = others /\ t = u
  <2>1. Then(F, t) \in Text /\ Then(G, u) \in Text /\ Then(x, Then(F, t)) = Then(y, Then(G, u))
    BY <1>8, <1>9, <1>11, TextsJoin
  <2>2. x = y /\ Then(F, t) = Then(G, u)
    BY <1>8, <2>1, CodesSplit
  <2>3. n = m
    BY <1>3, <1>5, <2>2, UintsDiffer
  <2>4. \A v, w \in Text : Then(F, v) = Then(G, w) => items = others /\ v = w
    <3>1. Len(items) = Len(others)
      BY <1>1, <2>3
    <3>2. \A v, w \in Text :
            Then(Bytes!Written(items), v) = Then(Bytes!Written(others), w) =>
              items = others /\ v = w
      BY <1>5, <3>1, WrittenTellsApart
    <3>. QED BY <1>2, <3>2
  <2>. QED BY <2>2, <2>4
<1>. QED BY <1>4, <1>10, <1>11

Vecs(E) == {Bytes!EncodeVec(items) : items \in Fitting(E)}

\* Sequences of items of a code are a code.
LEMMA VecCode ==
  ASSUME NEW E, Code(E)
  PROVE  Code(Vecs(E))
<1>1. Vecs(E) \subseteq Text
  BY VecsDiffer DEF Vecs
<1>2. ASSUME NEW x \in Vecs(E), NEW y \in Vecs(E), NEW t \in Text, NEW u \in Text,
             Then(x, t) = Then(y, u)
      PROVE  x = y /\ t = u
  <2>1. PICK items \in Fitting(E), others \in Fitting(E) :
          x = Bytes!EncodeVec(items) /\ y = Bytes!EncodeVec(others)
    BY DEF Vecs
  <2>. QED BY <1>2, <2>1, VecsDiffer
<1>. QED BY <1>1, <1>2 DEF Code

\* A sequence is what its encoding says.
LEMMA VecsTellApart ==
  ASSUME NEW E, Code(E), NEW items \in Fitting(E), NEW others \in Fitting(E),
         Bytes!EncodeVec(items) = Bytes!EncodeVec(others)
  PROVE  items = others
<1>1. PICK none : none = <<>>
  OBVIOUS
<1>2. none \in Text
  BY <1>1, NothingJoins
<1>. QED BY <1>2, VecsDiffer

-----------------------------------------------------------------------------
(* Numbers, and what is kept for each principal.                           *)

Numbers(cs, w) == Bytes!EncodeVec([i \in DOMAIN cs |-> Bytes!EncodeUint(cs[i], w)])

NumbersFit(cs, w) ==
  cs \in Seq(Nat) /\ Bytes!FitsIn(Len(cs), 8) /\ \A i \in DOMAIN cs : Bytes!FitsIn(cs[i], w)

\* A sequence of numbers is what its encoding says.
LEMMA NumbersTellApart ==
  ASSUME NEW w \in Nat, NEW cs, NumbersFit(cs, w)
  PROVE  /\ Numbers(cs, w) \in Vecs([1 .. w -> Byte])
         /\ \A ds : NumbersFit(ds, w) /\ Numbers(cs, w) = Numbers(ds, w) => cs = ds
<1> DEFINE coded(ns) == [i \in DOMAIN ns |-> Bytes!EncodeUint(ns[i], w)]
<1>1. PICK E : E = [1 .. w -> Byte]
  OBVIOUS
<1>2. Code(E)
  BY <1>1, FixedCode
<1>3. ASSUME NEW ns, NumbersFit(ns, w)
      PROVE  coded(ns) \in Fitting(E) /\ Len(coded(ns)) = Len(ns)
  <2>1. PICK n \in Nat : n = Len(ns) /\ DOMAIN ns = 1 .. n
    BY <1>3 DEF NumbersFit
  <2>2. \A i \in 1 .. n : ns[i] \in Nat
    BY <1>3, <2>1 DEF NumbersFit
  <2>3. \A i \in 1 .. n : Bytes!EncodeUint(ns[i], w) \in E
    BY <1>1, <2>2, UintsHaveTheirWidth
  <2>4. PICK c : c = coded(ns)
    OBVIOUS
  <2>5. c \in [1 .. n -> E]
    BY <2>1, <2>3, <2>4
  <2>6. c \in Seq(E) /\ Len(c) = n
    BY <2>5
  <2>7. Bytes!FitsIn(Len(c), 8)
    BY <1>3, <2>1, <2>6 DEF NumbersFit
  <2>. QED BY <2>1, <2>4, <2>6, <2>7 DEF Fitting
<1>4. Numbers(cs, w) \in Vecs(E)
  BY <1>3 DEF Numbers, Vecs
<1>5. ASSUME NEW ds, NumbersFit(ds, w), Numbers(cs, w) = Numbers(ds, w) PROVE cs = ds
  <2>1. PICK c, d : c = coded(cs) /\ d = coded(ds)
    OBVIOUS
  <2>2. Bytes!EncodeVec(c) = Bytes!EncodeVec(d)
    BY <1>5, <2>1 DEF Numbers
  <2>3. c \in Fitting(E) /\ d \in Fitting(E) /\ Len(c) = Len(cs) /\ Len(d) = Len(ds)
    BY <1>3, <1>5, <2>1
  <2>4. c = d
    BY <1>2, <2>2, <2>3, VecsTellApart
  <2>5. PICK n \in Nat : /\ n = Len(cs) /\ DOMAIN cs = 1 .. n
                         /\ n = Len(ds) /\ DOMAIN ds = 1 .. n
    BY <1>5, <2>3, <2>4 DEF NumbersFit
  <2>6. ASSUME NEW i \in 1 .. n PROVE cs[i] = ds[i]
    <3>1. c[i] = Bytes!EncodeUint(cs[i], w) /\ d[i] = Bytes!EncodeUint(ds[i], w)
      BY <2>1, <2>5
    <3>2. Bytes!FitsIn(cs[i], w) /\ Bytes!FitsIn(ds[i], w)
      BY <1>5, <2>5 DEF NumbersFit
    <3>. QED BY <2>4, <3>1, <3>2, UintsDiffer
  <2>7. cs \in Seq(Nat) /\ ds \in Seq(Nat)
    BY <1>5 DEF NumbersFit
  <2>. QED BY <2>5, <2>6, <2>7, SeqEqual
<1>. QED BY <1>1, <1>4, <1>5

Principals(values, n) ==
  Bytes!EncodeVec([i \in 1 .. n |-> Then(Bytes!EncodeUint(i - 1, 4), Numbers(values[i - 1], 1))])

PrincipalCode == {Then(x, y) : x \in [1 .. 4 -> Byte], y \in Vecs([1 .. 1 -> Byte])}

\* So is a sequence of numbers for each principal.
LEMMA PrincipalsTellApart ==
  ASSUME NEW n \in Nat, n < 256, NEW values, \A i \in 1 .. n : NumbersFit(values[i - 1], 1)
  PROVE  /\ Code(PrincipalCode)
         /\ Principals(values, n) \in Vecs(PrincipalCode)
         /\ \A others : /\ \A i \in 1 .. n : NumbersFit(others[i - 1], 1)
                        /\ Principals(values, n) = Principals(others, n)
                        => \A i \in 1 .. n : values[i - 1] = others[i - 1]
<1> DEFINE key(i) == Bytes!EncodeUint(i - 1, 4)
           coded(vs) == [i \in 1 .. n |-> Then(key(i), Numbers(vs[i - 1], 1))]
<1>1. PICK K, V : K = [1 .. 4 -> Byte] /\ V = Vecs([1 .. 1 -> Byte])
  OBVIOUS
<1>2. Code(K) /\ Code(V)
  <2>1. Code([1 .. 1 -> Byte]) /\ Code([1 .. 4 -> Byte])
    BY FixedCode
  <2>. QED BY <1>1, <2>1, VecCode
<1>3. PICK E : E = PrincipalCode
  OBVIOUS
<1>4. Code(E) /\ \A x \in K, y \in V : Then(x, y) \in E
  <2>1. PrincipalCode = {Then(x, y) : x \in K, y \in V}
    BY <1>1 DEF PrincipalCode
  <2>2. Code({Then(x, y) : x \in K, y \in V})
    BY <1>2, PairsCode
  <2>. QED BY <1>3, <2>1, <2>2
<1>5. \A i \in 1 .. n : key(i) \in K
  <2>1. \A i \in 1 .. n : i - 1 \in Nat
    OBVIOUS
  <2>. QED BY <1>1, <2>1, UintsHaveTheirWidth
<1> HIDE DEF key
<1>6. ASSUME NEW vs, \A i \in 1 .. n : NumbersFit(vs[i - 1], 1)
      PROVE  /\ coded(vs) \in Fitting(E)
             /\ \A i \in 1 .. n : Numbers(vs[i - 1], 1) \in V
  <2>1. \A i \in 1 .. n : Numbers(vs[i - 1], 1) \in V
    BY <1>1, <1>6, NumbersTellApart
  <2>2. PICK c : c = coded(vs)
    OBVIOUS
  <2>3. c \in [1 .. n -> E]
    BY <1>4, <1>5, <2>1, <2>2
  <2>4. c \in Seq(E) /\ Len(c) = n
    BY <2>3
  <2>5. Bytes!FitsIn(n, 8)
    BY BytesFit
  <2>. QED BY <2>1, <2>2, <2>4, <2>5 DEF Fitting
<1>7. Principals(values, n) \in Vecs(E)
  BY <1>6 DEF Principals, Vecs, key
<1>8. ASSUME NEW others, \A i \in 1 .. n : NumbersFit(others[i - 1], 1),
             Principals(values, n) = Principals(others, n), NEW i \in 1 .. n
      PROVE  values[i - 1] = others[i - 1]
  <2>1. PICK c, d : c = coded(values) /\ d = coded(others)
    OBVIOUS
  <2>2. Bytes!EncodeVec(c) = Bytes!EncodeVec(d)
    BY <1>8, <2>1 DEF Principals, key
  <2>3. c \in Fitting(E) /\ d \in Fitting(E)
    BY <1>6, <1>8, <2>1
  <2>4. c = d
    BY <1>4, <2>2, <2>3, VecsTellApart
  <2>5. PICK x, y : x = Numbers(values[i - 1], 1) /\ y = Numbers(others[i - 1], 1)
    OBVIOUS
  <2>6. Then(key(i), x) = Then(key(i), y)
    BY <2>1, <2>4, <2>5
  <2>7. x \in V /\ y \in V /\ V \subseteq Text
    BY <1>2, <1>6, <1>8, <2>5 DEF Code
  <2>8. x = y
    BY <1>2, <1>5, <2>6, <2>7, CodesSplit
  <2>9. NumbersFit(values[i - 1], 1) /\ NumbersFit(others[i - 1], 1)
    BY <1>8
  <2>. QED BY <2>5, <2>8, <2>9, NumbersTellApart
<1>. QED BY <1>3, <1>4, <1>7, <1>8

Told(x, y) ==
  /\ x \in Text /\ y \in Text
  /\ \A t, u \in Text : Then(x, t) = Then(y, u) => x = y /\ t = u

\* Each field is told apart from where it begins.
LEMMA FieldsAreTold ==
  ASSUME NEW x, NEW y, Told(x, y), NEW E, Code(E), NEW p \in E, NEW q \in E
  PROVE  Told(Then(x, p), Then(y, q)) /\ (Then(x, p) = Then(y, q) => x = y /\ p = q)
<1>1. x \in Text /\ y \in Text /\ p \in Text /\ q \in Text
  BY DEF Told, Code
<1>2. Then(x, p) \in Text /\ Then(y, q) \in Text
  BY <1>1, TextsJoin
<1>3. Then(x, p) = Then(y, q) => x = y /\ p = q
  BY <1>1 DEF Told
<1>4. ASSUME NEW t \in Text, NEW u \in Text, Then(Then(x, p), t) = Then(Then(y, q), u)
      PROVE  Then(x, p) = Then(y, q) /\ t = u
  <2>1. Then(p, t) \in Text /\ Then(q, u) \in Text /\ Then(x, Then(p, t)) = Then(y, Then(q, u))
    BY <1>1, <1>4, TextsJoin
  <2>2. x = y /\ Then(p, t) = Then(q, u)
    BY <2>1 DEF Told
  <2>3. p = q /\ t = u
    BY <1>1, <2>2, CodesSplit
  <2>. QED BY <2>2, <2>3
<1>. QED BY <1>2, <1>3, <1>4 DEF Told

\* The first field is.
LEMMA FirstIsTold ==
  ASSUME NEW E, Code(E), NEW x \in E, NEW y \in E
  PROVE  Told(x, y)
BY DEF Told, Code

-----------------------------------------------------------------------------
(* The states of the aggregates.                                           *)

\* The aggregates encode by one definition.
LEMMA SameEncodings ==
  /\ \A x, w : /\ Ledger!EncodeUint(x, w) = Bytes!EncodeUint(x, w)
               /\ CatalogCtx!EncodeUint(x, w) = Bytes!EncodeUint(x, w)
               /\ HiddenInfo!EncodeUint(x, w) = Bytes!EncodeUint(x, w)
  /\ \A items : /\ CatalogCtx!EncodeVec(items) = Bytes!EncodeVec(items)
                /\ HiddenInfo!EncodeVec(items) = Bytes!EncodeVec(items)
  /\ \A entries : HiddenInfo!EncodeMap(entries) = Bytes!EncodeMap(entries)
  /\ \A variants, v :
       /\ Ledger!EncodeUnitVariant(variants, v) = Bytes!EncodeUnitVariant(variants, v)
       /\ CatalogCtx!EncodeUnitVariant(variants, v) = Bytes!EncodeUnitVariant(variants, v)
       /\ HiddenInfo!EncodeUnitVariant(variants, v) = Bytes!EncodeUnitVariant(variants, v)
<1>1. \A x, w : /\ Ledger!EncodeUint(x, w) = Bytes!EncodeUint(x, w)
                /\ CatalogCtx!EncodeUint(x, w) = Bytes!EncodeUint(x, w)
                /\ HiddenInfo!EncodeUint(x, w) = Bytes!EncodeUint(x, w)
  BY Zenon DEF Ledger!EncodeUint, CatalogCtx!EncodeUint, HiddenInfo!EncodeUint, Bytes!EncodeUint,
         Ledger!Remains, CatalogCtx!Remains, HiddenInfo!Remains, Bytes!Remains
<1>2. \A items : /\ CatalogCtx!Written(items) = Bytes!Written(items)
                 /\ HiddenInfo!Written(items) = Bytes!Written(items)
  BY Zenon DEF CatalogCtx!Written, HiddenInfo!Written, Bytes!Written
<1>3. \A n : /\ CatalogCtx!EncodeLen(n) = Bytes!EncodeLen(n)
             /\ HiddenInfo!EncodeLen(n) = Bytes!EncodeLen(n)
             /\ Ledger!EncodeDiscriminant(n) = Bytes!EncodeDiscriminant(n)
             /\ CatalogCtx!EncodeDiscriminant(n) = Bytes!EncodeDiscriminant(n)
             /\ HiddenInfo!EncodeDiscriminant(n) = Bytes!EncodeDiscriminant(n)
  BY <1>1 DEF CatalogCtx!EncodeLen, HiddenInfo!EncodeLen, Bytes!EncodeLen,
              Ledger!EncodeDiscriminant, CatalogCtx!EncodeDiscriminant,
              HiddenInfo!EncodeDiscriminant, Bytes!EncodeDiscriminant
<1>4. \A items : /\ CatalogCtx!EncodeVec(items) = Bytes!EncodeVec(items)
                 /\ HiddenInfo!EncodeVec(items) = Bytes!EncodeVec(items)
  BY <1>2, <1>3, Zenon DEF CatalogCtx!EncodeVec, HiddenInfo!EncodeVec, Bytes!EncodeVec
<1>5. \A entries : HiddenInfo!EncodeMap(entries) = Bytes!EncodeMap(entries)
  BY <1>2, <1>3, Zenon DEF HiddenInfo!EncodeMap, Bytes!EncodeMap
<1>6. \A variants, v :
       /\ Ledger!EncodeUnitVariant(variants, v) = Bytes!EncodeUnitVariant(variants, v)
       /\ CatalogCtx!EncodeUnitVariant(variants, v) = Bytes!EncodeUnitVariant(variants, v)
       /\ HiddenInfo!EncodeUnitVariant(variants, v) = Bytes!EncodeUnitVariant(variants, v)
  BY <1>3, Zenon DEF Ledger!EncodeUnitVariant, CatalogCtx!EncodeUnitVariant,
       HiddenInfo!EncodeUnitVariant, Bytes!EncodeUnitVariant
<1>. QED BY <1>1, <1>4, <1>5, <1>6

\* A phase is told apart by its discriminant.
LEMMA VariantsTellApart ==
  ASSUME NEW variants, NEW a, NEW b, NEW c, variants = <<a, b, c>>,
         NEW x \in {a, b, c}, NEW y \in {a, b, c}
  PROVE  /\ Bytes!EncodeUnitVariant(variants, x) \in [1 .. 4 -> Byte]
         /\ Bytes!EncodeUnitVariant(variants, x) = Bytes!EncodeUnitVariant(variants, y) => x = y
<1> DEFINE at(v) == CHOOSE i \in DOMAIN variants : variants[i] = v
<1>1. DOMAIN variants = 1 .. 3 /\ variants[1] = a /\ variants[2] = b /\ variants[3] = c
  OBVIOUS
<1>2. ASSUME NEW v \in {a, b, c} PROVE at(v) \in 1 .. 3 /\ variants[at(v)] = v
  <2>1. \E i \in DOMAIN variants : variants[i] = v
    BY <1>1
  <2>. QED BY <1>1, <2>1
<1>3. PICK i \in 1 .. 3, j \in 1 .. 3 : /\ i = at(x) /\ variants[i] = x
                                       /\ j = at(y) /\ variants[j] = y
  BY <1>2
<1>4. /\ Bytes!EncodeUnitVariant(variants, x) = Bytes!EncodeUint(i - 1, 4)
      /\ Bytes!EncodeUnitVariant(variants, y) = Bytes!EncodeUint(j - 1, 4)
  BY <1>3 DEF Bytes!EncodeUnitVariant, Bytes!EncodeDiscriminant
<1> HIDE DEF at
<1>5. PICK k \in Nat, l \in Nat : k = i - 1 /\ l = j - 1 /\ k < 256 /\ l < 256
  OBVIOUS
<1>6. Bytes!EncodeUint(k, 4) \in [1 .. 4 -> Byte]
  BY UintsHaveTheirWidth
<1>7. Bytes!FitsIn(k, 4) /\ Bytes!FitsIn(l, 4)
  BY <1>5, BytesFit
<1>8. Bytes!EncodeUint(k, 4) = Bytes!EncodeUint(l, 4) => k = l
  BY <1>7, UintsDiffer
<1>9. k = l => x = y
  BY <1>3, <1>5
<1>. QED BY <1>4, <1>5, <1>6, <1>8, <1>9

\* Two accounts with one encoding are the same.
LEMMA AccountsTellApart ==
  ASSUME NEW s \in AccountState, NEW t \in AccountState,
         Bytes!FitsIn(s.balance_cents, 8), Bytes!FitsIn(t.balance_cents, 8),
         Ledger!Encode(s) = Ledger!Encode(t)
  PROVE  s = t
<1>1. PICK x, y, p, q, vs :
        /\ vs = <<"Open", "Frozen", "Closed">>
        /\ x = Bytes!EncodeUnitVariant(vs, s.phase) /\ y = Bytes!EncodeUnitVariant(vs, t.phase)
        /\ p = Bytes!EncodeUint(s.balance_cents, 8) /\ q = Bytes!EncodeUint(t.balance_cents, 8)
  OBVIOUS
<1>2. Ledger!Encode(s) = Then(x, p) /\ Ledger!Encode(t) = Then(y, q)
  BY <1>1, SameEncodings DEF Ledger!Encode, Then
<1>3. /\ s.phase \in {"Open", "Frozen", "Closed"} /\ t.phase \in {"Open", "Frozen", "Closed"}
      /\ s.balance_cents \in Nat /\ t.balance_cents \in Nat
      /\ s = [phase |-> s.phase, balance_cents |-> s.balance_cents]
      /\ t = [phase |-> t.phase, balance_cents |-> t.balance_cents]
  BY DEF AccountState
<1>4. PICK K, N : K = [1 .. 4 -> Byte] /\ N = [1 .. 8 -> Byte]
  OBVIOUS
<1>5. Code(K) /\ Code(N)
  BY <1>4, FixedCode
<1>6. x \in K /\ y \in K /\ (x = y => s.phase = t.phase)
  BY <1>1, <1>3, <1>4, VariantsTellApart
<1>7. p \in N /\ q \in N
  BY <1>1, <1>3, <1>4, UintsHaveTheirWidth
<1>8. x = y /\ p = q
  <2>1. Then(x, p) = Then(y, q)
    BY <1>2
  <2>2. Told(x, y)
    BY <1>5, <1>6, FirstIsTold
  <2>. QED BY <1>5, <1>7, <2>1, <2>2, FieldsAreTold
<1>9. s.balance_cents = t.balance_cents
  BY <1>1, <1>8, UintsDiffer
<1>. QED BY <1>3, <1>6, <1>8, <1>9

\* So are two chests.
LEMMA ChestsTellApart ==
  ASSUME NEW s \in ChestState, NEW t \in ChestState, CatalogCtx!Encode(s) = CatalogCtx!Encode(t)
  PROVE  s = t
<1>1. PICK x, y, p, q, k, l, vs :
        /\ vs = <<"Sealed", "Open", "Spent">>
        /\ x = Bytes!EncodeUnitVariant(vs, s.phase) /\ y = Bytes!EncodeUnitVariant(vs, t.phase)
        /\ p = Bytes!EncodeUint(s.draws_left, 4) /\ q = Bytes!EncodeUint(t.draws_left, 4)
        /\ k = Numbers(s.loot, 2) /\ l = Numbers(t.loot, 2)
  OBVIOUS
<1>2. /\ CatalogCtx!Encode(s) = Then(Then(x, p), k)
      /\ CatalogCtx!Encode(t) = Then(Then(y, q), l)
  BY <1>1, SameEncodings DEF CatalogCtx!Encode, Then, Numbers
<1>3. ASSUME NEW c \in ChestState
      PROVE  /\ c.phase \in {"Sealed", "Open", "Spent"} /\ Bytes!FitsIn(c.draws_left, 4)
             /\ c.draws_left \in Nat /\ NumbersFit(c.loot, 2)
             /\ c = [phase |-> c.phase, draws_left |-> c.draws_left, loot |-> c.loot]
  <2>1. /\ c \in [phase : {"Sealed", "Open", "Spent"}, draws_left : Nat, loot : Seq(Item)]
        /\ c.phase = "Sealed" => c.draws_left = 0 /\ c.loot = <<>>
        /\ c.phase # "Sealed" => c.draws_left + Len(c.loot) = Capacity
    BY DEF ChestState
  <2>2. PICK d \in Nat, ls \in Seq(Item), n \in Nat :
          d = c.draws_left /\ ls = c.loot /\ n = Len(ls)
    BY <2>1
  <2>3. Capacity \in Nat /\ Bytes!FitsIn(Capacity, 4)
    BY CapacityAssumption, WidthsAssumption
  <2>4. d \in 0 .. Capacity /\ n \in 0 .. Capacity
    <3>1. CASE c.phase = "Sealed"
      <4>1. d = 0 /\ n = 0
        BY <2>1, <2>2, <3>1
      <4>. QED BY <2>3, <4>1
    <3>2. CASE c.phase # "Sealed"
      <4>1. d + n = Capacity
        BY <2>1, <2>2, <3>2
      <4>. QED BY <2>2, <2>3, <4>1
    <3>. QED BY <3>1, <3>2
  <2>5. Bytes!FitsIn(d, 4) /\ Bytes!FitsIn(n, 8)
    <3>1. Bytes!FitsIn(d, 4) /\ Bytes!FitsIn(n, 4)
      BY <2>3, <2>4, SmallerFits
    <3>. QED BY <2>2, <3>1, WiderFits
  <2>6. \A v \in Item : Bytes!FitsIn(v, 2) /\ v \in Nat
    BY WidthsAssumption DEF Item, Bytes!FitsIn
  <2>7. ls \in Seq(Nat) /\ \A i \in DOMAIN ls : Bytes!FitsIn(ls[i], 2)
    BY <2>2, <2>6
  <2>. QED BY <2>1, <2>2, <2>5, <2>7 DEF NumbersFit
<1>4. PICK K, V : K = [1 .. 4 -> Byte] /\ V = Vecs([1 .. 2 -> Byte])
  OBVIOUS
<1>5. Code(K) /\ Code(V)
  <2>1. Code([1 .. 2 -> Byte]) /\ Code([1 .. 4 -> Byte])
    BY FixedCode
  <2>. QED BY <1>4, <2>1, VecCode
<1>6. x \in K /\ y \in K /\ (x = y => s.phase = t.phase)
  BY <1>1, <1>3, <1>4, VariantsTellApart
<1>7. p \in K /\ q \in K
  BY <1>1, <1>3, <1>4, UintsHaveTheirWidth
<1>8. k \in V /\ l \in V
  BY <1>1, <1>3, <1>4, NumbersTellApart
<1>9. x = y /\ p = q /\ k = l
  <2>1. Then(Then(x, p), k) = Then(Then(y, q), l)
    BY <1>2
  <2>2. Told(x, y)
    BY <1>5, <1>6, FirstIsTold
  <2>3. Told(Then(x, p), Then(y, q)) /\ (Then(x, p) = Then(y, q) => x = y /\ p = q)
    BY <1>5, <1>7, <2>2, FieldsAreTold
  <2>4. Then(x, p) = Then(y, q) /\ k = l
    BY <1>5, <1>8, <2>1, <2>3, FieldsAreTold
  <2>. QED BY <2>3, <2>4
<1>10. s.draws_left = t.draws_left
  BY <1>1, <1>3, <1>9, UintsDiffer
<1>11. s.loot = t.loot
  <2>1. NumbersFit(s.loot, 2) /\ NumbersFit(t.loot, 2)
    BY <1>3
  <2>. QED BY <1>1, <1>9, <2>1, NumbersTellApart
<1>. QED BY <1>3, <1>6, <1>9, <1>10, <1>11

MatchFits(s, k) ==
  /\ Len(s.board) <= k
  /\ \A p \in DOMAIN s.hands : Len(s.hands[p]) <= k
  /\ s.turn <= 1
  /\ \A i \in DOMAIN s.participants : s.participants[i] = i - 1
  /\ s.fabrication.owner = 0 /\ s.fabrication.value \in 0 .. Tokens - 1
  /\ s.decks = [p \in HiddenInfo!Participants(s) |-> <<0, 1, 2, 3, 4>>]

\* A sequence of cards fits, if it is no longer than what a length can say.
LEMMA CardsFit ==
  ASSUME NEW k, Bytes!FitsIn(k, 8), NEW cs \in Seq(Card), Len(cs) <= k
  PROVE  NumbersFit(cs, 1)
<1>1. PICK n \in Nat : n = Len(cs) /\ DOMAIN cs = 1 .. n /\ n <= k
  OBVIOUS
<1>2. k \in Nat
  BY DEF Bytes!FitsIn
<1>3. Bytes!FitsIn(n, 8)
  <2>1. n \in 0 .. k
    BY <1>1, <1>2
  <2>. QED BY <2>1, SmallerFits
<1>4. \A c \in Card : c \in Nat /\ Bytes!FitsIn(c, 1)
  <2>1. Cards - 1 \in Nat /\ Bytes!FitsIn(Cards - 1, 1) /\ Card = 0 .. Cards - 1
    BY CardsAssumption, WidthsAssumption DEF Card
  <2>. QED BY <2>1, SmallerFits
<1>5. cs \in Seq(Nat) /\ \A i \in 1 .. n : Bytes!FitsIn(cs[i], 1)
  BY <1>1, <1>4
<1>. QED BY <1>1, <1>3, <1>5 DEF NumbersFit

\* Every field of a match fits.
LEMMA MatchFieldsFit ==
  ASSUME NEW k, Bytes!FitsIn(k, 8), NEW s, MatchOK(s), MatchFits(s, k),
         NEW n, n = Len(s.participants)
  PROVE  /\ n \in Nat /\ n <= 2 /\ DOMAIN s.participants = 1 .. n
         /\ NumbersFit(s.board, 1) /\ NumbersFit(s.participants, 4)
         /\ s.turn \in Nat /\ Bytes!FitsIn(s.turn, 4)
         /\ \A i \in 1 .. n : NumbersFit(s.hands[i - 1], 1) /\ NumbersFit(s.decks[i - 1], 1)
         /\ s.fabrication.owner \in Nat /\ Bytes!FitsIn(s.fabrication.owner, 4)
         /\ s.fabrication.value \in Nat /\ Bytes!FitsIn(s.fabrication.value, 4)
<1>1. /\ s.board \in Seq(Card) /\ s.participants \in Seq(HiddenInfo!Participant) /\ s.turn \in Nat
      /\ s.hands \in [HiddenInfo!Participants(s) -> Seq(Card)]
  BY DEF MatchOK, MatchShape
<1>2. n \in Nat /\ n <= 2 /\ DOMAIN s.participants = 1 .. n
  <2>1. IF s.phase = "Setup" THEN n <= 1 ELSE n = 2
    BY DEF MatchOK
  <2>2. n \in Nat /\ DOMAIN s.participants = 1 .. n
    BY <1>1
  <2>3. n <= 2
    <3>1. n <= 1 \/ n = 2
      BY <2>1
    <3>2. \A m \in Nat : m <= 1 \/ m = 2 => m <= 2
      OBVIOUS
    <3>. QED BY <2>2, <3>1, <3>2, Zenon
  <2>. QED BY <2>2, <2>3
<1>3. NumbersFit(s.board, 1)
  BY <1>1, CardsFit DEF MatchFits
<1>4. \A i \in 1 .. n : s.participants[i] = i - 1 /\ i - 1 \in HiddenInfo!Participants(s)
  BY <1>2 DEF MatchFits, HiddenInfo!Participants
<1>5. NumbersFit(s.participants, 4)
  <2>1. \A i \in 1 .. n : i - 1 \in Nat /\ i - 1 < 256
    BY <1>2
  <2>2. \A i \in 1 .. n : Bytes!FitsIn(s.participants[i], 4)
    BY <1>4, <2>1, BytesFit
  <2>3. Bytes!FitsIn(n, 8)
    <3>1. n < 256
      BY <1>2
    <3>. QED BY <1>2, <3>1, BytesFit
  <2>4. HiddenInfo!Participant \subseteq Nat
    BY DEF HiddenInfo!Participant
  <2>5. s.participants \in Seq(Nat)
    <3>1. PICK P : P = HiddenInfo!Participant
      OBVIOUS
    <3>2. s.participants \in Seq(P) /\ P \subseteq Nat
      BY <1>1, <2>4, <3>1
    <3>. QED BY <3>2, SeqMonotonic
  <2>. QED BY <1>2, <2>2, <2>3, <2>5 DEF NumbersFit
<1>6. Bytes!FitsIn(s.turn, 4)
  <2>1. s.turn < 256
    BY <1>1 DEF MatchFits
  <2>. QED BY <1>1, <2>1, BytesFit
<1>7. ASSUME NEW i \in 1 .. n
      PROVE  NumbersFit(s.hands[i - 1], 1) /\ NumbersFit(s.decks[i - 1], 1)
  <2>1. PICK p \in HiddenInfo!Participants(s) : p = i - 1
    BY <1>4
  <2>2. s.hands[p] \in Seq(Card) /\ Len(s.hands[p]) <= k
    BY <1>1 DEF MatchFits
  <2>3. PICK deck : deck = <<0, 1, 2, 3, 4>>
    OBVIOUS
  <2>4. s.decks[p] = deck
    BY <2>3 DEF MatchFits
  <2>5. NumbersFit(deck, 1)
    <3>1. deck \in Seq(Nat) /\ Len(deck) = 5 /\ \A j \in 1 .. 5 : deck[j] \in Nat /\ deck[j] < 256
      BY <2>3
    <3>2. DOMAIN deck = 1 .. 5
      BY <3>1
    <3>3. Bytes!FitsIn(5, 8)
      BY BytesFit
    <3>. QED BY <3>1, <3>2, <3>3, BytesFit DEF NumbersFit
  <2>. QED BY <2>1, <2>2, <2>4, <2>5, CardsFit
<1>8. /\ s.fabrication.owner \in Nat /\ Bytes!FitsIn(s.fabrication.owner, 4)
      /\ s.fabrication.value \in Nat /\ Bytes!FitsIn(s.fabrication.value, 4)
  <2>1. s.fabrication.owner = 0 /\ s.fabrication.value \in 0 .. Tokens - 1
    BY DEF MatchFits
  <2>2. Bytes!FitsIn(0, 4)
    BY BytesFit
  <2>3. Bytes!FitsIn(Tokens - 1, 4) /\ Tokens \in Nat
    BY TokensAssumption, WidthsAssumption
  <2>. QED BY <2>1, <2>2, <2>3, SmallerFits
<1>. QED BY <1>1, <1>2, <1>3, <1>5, <1>6, <1>7, <1>8

\* A map is encoded like a sequence of its entries.
LEMMA MapsAreVecs ==
  ASSUME NEW n \in Nat, NEW values, NEW entries,
         entries = [i \in 1 .. n |-> <<Bytes!EncodeUint(i - 1, 4), Numbers(values[i - 1], 1)>>]
  PROVE  Bytes!EncodeMap(entries) = Principals(values, n)
<1> DEFINE item(i) == Then(Bytes!EncodeUint(i - 1, 4), Numbers(values[i - 1], 1))
<1>1. PICK items : items = [i \in 1 .. n |-> item(i)]
  OBVIOUS
<1>2. Len(items) = n /\ Len(entries) = n
  BY <1>1
<1>3. [i \in DOMAIN entries |-> entries[i][1] \o entries[i][2]] = items
  <2>1. DOMAIN entries = 1 .. n
    OBVIOUS
  <2>2. \A i \in 1 .. n : entries[i][1] \o entries[i][2] = item(i)
    BY DEF Then
  <2>. QED BY <1>1, <2>1, <2>2
<1>4. Bytes!EncodeMap(entries) = Bytes!EncodeVec(items)
  BY <1>2, <1>3, Zenon DEF Bytes!EncodeMap, Bytes!EncodeVec
<1>. QED BY <1>1, <1>4 DEF Principals

\* The fields of an encoded match.
MatchText(s, n) ==
  [phase    |-> Bytes!EncodeUnitVariant(<<"Setup", "Playing", "Resolved">>, s.phase),
   board    |-> Numbers(s.board, 1),
   joined   |-> Numbers(s.participants, 4),
   turn     |-> Bytes!EncodeUint(s.turn, 4),
   hands    |-> Principals(s.hands, n),
   owner    |-> Bytes!EncodeUint(s.fabrication.owner, 4),
   value    |-> Bytes!EncodeUint(s.fabrication.value, 4),
   decks    |-> Principals(s.decks, n)]

BeforeDecks(x) ==
  Then(Then(Then(Then(Then(Then(x.phase, x.board), x.joined), x.turn), x.hands), x.owner), x.value)

Eight(a, b, c, d, e, f, g, h) == a \o b \o c \o d \o e \o f \o g \o h

\* A match is encoded field by field.
LEMMA MatchIsItsText ==
  ASSUME NEW s, NEW n \in Nat, DOMAIN s.participants = 1 .. n, NEW x, x = MatchText(s, n)
  PROVE  HiddenInfo!Encode(s) = Then(BeforeDecks(x), x.decks)
<1> DEFINE uint(a, w) == HiddenInfo!EncodeUint(a, w)
           numbers(cs, w) == HiddenInfo!EncodeVec([i \in DOMAIN cs |-> uint(cs[i], w)])
           map(values) ==
             HiddenInfo!EncodeMap([i \in DOMAIN s.participants |->
                                     <<uint(i - 1, 4), numbers(values[i - 1], 1)>>])
           variant == HiddenInfo!EncodeUnitVariant(<<"Setup", "Playing", "Resolved">>, s.phase)
           entries(values) ==
             [i \in DOMAIN s.participants |->
                <<Bytes!EncodeUint(i - 1, 4), Numbers(values[i - 1], 1)>>]
<1>1. HiddenInfo!Encode(s) =
        Eight(variant, numbers(s.board, 1), numbers(s.participants, 4), uint(s.turn, 4),
              map(s.hands), uint(s.fabrication.owner, 4), uint(s.fabrication.value, 4),
              map(s.decks))
  BY DEF HiddenInfo!Encode, Eight
<1>2. \A a, w : uint(a, w) = Bytes!EncodeUint(a, w)
  BY SameEncodings
<1>3. \A cs, w : numbers(cs, w) = Numbers(cs, w)
  BY SameEncodings DEF Numbers
<1>4. variant = Bytes!EncodeUnitVariant(<<"Setup", "Playing", "Resolved">>, s.phase)
  BY SameEncodings
<1> HIDE DEF uint, numbers, variant
<1>5. ASSUME NEW values PROVE map(values) = Principals(values, n)
  <2>1. PICK es : es = [i \in DOMAIN s.participants |-> <<uint(i - 1, 4), numbers(values[i - 1], 1)>>]
    OBVIOUS
  <2>2. es = entries(values)
    BY <1>2, <1>3, <2>1
  <2>3. Bytes!EncodeMap(entries(values)) = Principals(values, n)
    BY MapsAreVecs
  <2> HIDE DEF entries
  <2>4. HiddenInfo!EncodeMap(es) = Principals(values, n)
    BY <2>2, <2>3, SameEncodings
  <2>. QED BY <2>1, <2>4
<1> HIDE DEF map
<1>6. HiddenInfo!Encode(s) =
        Eight(x.phase, x.board, x.joined, x.turn, x.hands, x.owner, x.value, x.decks)
  <2>1. /\ variant = x.phase /\ numbers(s.board, 1) = x.board
        /\ numbers(s.participants, 4) = x.joined /\ uint(s.turn, 4) = x.turn
        /\ map(s.hands) = x.hands /\ uint(s.fabrication.owner, 4) = x.owner
        /\ uint(s.fabrication.value, 4) = x.value /\ map(s.decks) = x.decks
    BY <1>2, <1>3, <1>4, <1>5 DEF MatchText
  <2>. QED BY <1>1, <2>1
<1>. QED BY <1>6 DEF Eight, Then, BeforeDecks

\* Two matches with one encoding are the same.
LEMMA MatchesTellApart ==
  ASSUME NEW k, Bytes!FitsIn(k, 8), NEW s, MatchOK(s), MatchFits(s, k),
         NEW t, MatchOK(t), MatchFits(t, k), HiddenInfo!Encode(s) = HiddenInfo!Encode(t)
  PROVE  s = t
<1>1. PICK n, m : n = Len(s.participants) /\ m = Len(t.participants)
  OBVIOUS
<1>2. PICK x, y : x = MatchText(s, n) /\ y = MatchText(t, m)
  OBVIOUS
<1>3. PICK K, V, W, P : /\ K = [1 .. 4 -> Byte] /\ V = Vecs([1 .. 1 -> Byte])
                        /\ W = Vecs([1 .. 4 -> Byte]) /\ P = Vecs(PrincipalCode)
  OBVIOUS
<1>4. Code(K) /\ Code(V) /\ Code(W) /\ Code(P)
  <2>1. Code([1 .. 1 -> Byte]) /\ Code([1 .. 4 -> Byte])
    BY FixedCode
  <2>2. Code(V)
    BY <1>3, <2>1, VecCode
  <2>3. PrincipalCode = {Then(a, b) : a \in K, b \in V}
    BY <1>3 DEF PrincipalCode
  <2>4. Code({Then(a, b) : a \in K, b \in V})
    <3>1. Code(K)
      BY <1>3, <2>1
    <3>. QED BY <2>2, <3>1, PairsCode
  <2>5. Code(PrincipalCode)
    BY <2>3, <2>4
  <2>. QED BY <1>3, <2>1, <2>2, <2>5, VecCode
<1>5. ASSUME NEW c, MatchOK(c), MatchFits(c, k), NEW l, l = Len(c.participants),
             NEW z, z = MatchText(c, l)
      PROVE  /\ HiddenInfo!Encode(c) = Then(BeforeDecks(z), z.decks)
             /\ z.phase \in K /\ z.board \in V /\ z.joined \in W /\ z.turn \in K
             /\ z.hands \in P /\ z.owner \in K /\ z.value \in K /\ z.decks \in P
  <2>1. /\ l \in Nat /\ l <= 2 /\ DOMAIN c.participants = 1 .. l
        /\ NumbersFit(c.board, 1) /\ NumbersFit(c.participants, 4) /\ c.turn \in Nat
        /\ \A i \in 1 .. l : NumbersFit(c.hands[i - 1], 1) /\ NumbersFit(c.decks[i - 1], 1)
        /\ c.fabrication.owner \in Nat /\ c.fabrication.value \in Nat
    BY <1>5, MatchFieldsFit
  <2>2. HiddenInfo!Encode(c) = Then(BeforeDecks(z), z.decks)
    BY <1>5, <2>1, MatchIsItsText
  <2>3. z.phase \in K
    <3>1. c.phase \in {"Setup", "Playing", "Resolved"}
      BY <1>5 DEF MatchOK, MatchShape
    <3>2. z.phase = Bytes!EncodeUnitVariant(<<"Setup", "Playing", "Resolved">>, c.phase)
      BY <1>5 DEF MatchText
    <3>. QED BY <1>3, <3>1, <3>2, VariantsTellApart
  <2>4. z.board \in V /\ z.joined \in W
    <3>1. z.board = Numbers(c.board, 1) /\ z.joined = Numbers(c.participants, 4)
      BY <1>5 DEF MatchText
    <3>2. Numbers(c.board, 1) \in Vecs([1 .. 1 -> Byte])
      BY <2>1, NumbersTellApart
    <3>3. Numbers(c.participants, 4) \in Vecs([1 .. 4 -> Byte])
      BY <2>1, NumbersTellApart
    <3>. QED BY <1>3, <3>1, <3>2, <3>3
  <2>5. z.turn \in K /\ z.owner \in K /\ z.value \in K
    <3>1. /\ z.turn = Bytes!EncodeUint(c.turn, 4)
          /\ z.owner = Bytes!EncodeUint(c.fabrication.owner, 4)
          /\ z.value = Bytes!EncodeUint(c.fabrication.value, 4)
      BY <1>5 DEF MatchText
    <3>2. \A a \in Nat : Bytes!EncodeUint(a, 4) \in K
      BY <1>3, UintsHaveTheirWidth
    <3>. QED BY <2>1, <3>1, <3>2
  <2>6. z.hands \in P /\ z.decks \in P
    <3>1. z.hands = Principals(c.hands, l) /\ z.decks = Principals(c.decks, l)
      BY <1>5 DEF MatchText
    <3>2. l < 256
      BY <2>1
    <3>3. Principals(c.hands, l) \in Vecs(PrincipalCode)
      BY <2>1, <3>2, PrincipalsTellApart
    <3>4. Principals(c.decks, l) \in Vecs(PrincipalCode)
      BY <2>1, <3>2, PrincipalsTellApart
    <3>. QED BY <1>3, <3>1, <3>3, <3>4
  <2>. QED BY <2>2, <2>3, <2>4, <2>5, <2>6
<1>6. /\ Then(BeforeDecks(x), x.decks) = Then(BeforeDecks(y), y.decks)
      /\ x.phase \in K /\ x.board \in V /\ x.joined \in W /\ x.turn \in K
      /\ x.hands \in P /\ x.owner \in K /\ x.value \in K /\ x.decks \in P
      /\ y.phase \in K /\ y.board \in V /\ y.joined \in W /\ y.turn \in K
      /\ y.hands \in P /\ y.owner \in K /\ y.value \in K /\ y.decks \in P
  BY <1>1, <1>2, <1>5
<1>7. /\ x.phase = y.phase /\ x.board = y.board /\ x.joined = y.joined /\ x.turn = y.turn
      /\ x.hands = y.hands /\ x.owner = y.owner /\ x.value = y.value
  <2>1. PICK a2, b2 : a2 = Then(x.phase, x.board) /\ b2 = Then(y.phase, y.board)
    OBVIOUS
  <2>2. PICK a3, b3 : a3 = Then(a2, x.joined) /\ b3 = Then(b2, y.joined)
    OBVIOUS
  <2>3. PICK a4, b4 : a4 = Then(a3, x.turn) /\ b4 = Then(b3, y.turn)
    OBVIOUS
  <2>4. PICK a5, b5 : a5 = Then(a4, x.hands) /\ b5 = Then(b4, y.hands)
    OBVIOUS
  <2>5. PICK a6, b6 : a6 = Then(a5, x.owner) /\ b6 = Then(b5, y.owner)
    OBVIOUS
  <2>6. PICK a7, b7 : a7 = Then(a6, x.value) /\ b7 = Then(b6, y.value)
    OBVIOUS
  <2>7. BeforeDecks(x) = a7 /\ BeforeDecks(y) = b7
    BY <2>1, <2>2, <2>3, <2>4, <2>5, <2>6 DEF BeforeDecks
  <2>8. Code(K)
    BY <1>4
  <2>9. Code(V)
    BY <1>4
  <2>10. Code(W)
    BY <1>4
  <2>11. Code(P)
    BY <1>4
  <2>12. x.phase \in K /\ y.phase \in K
    BY <1>6
  <2>13. x.board \in V /\ y.board \in V
    BY <1>6
  <2>14. x.joined \in W /\ y.joined \in W
    BY <1>6
  <2>15. x.turn \in K /\ y.turn \in K
    BY <1>6
  <2>16. x.hands \in P /\ y.hands \in P
    BY <1>6
  <2>17. x.owner \in K /\ y.owner \in K
    BY <1>6
  <2>18. x.value \in K /\ y.value \in K
    BY <1>6
  <2>19. x.decks \in P /\ y.decks \in P
    BY <1>6
  <2>20. Told(x.phase, y.phase)
    BY <2>8, <2>12, FirstIsTold
  <2>21. Told(a2, b2) /\ (a2 = b2 => x.phase = y.phase /\ x.board = y.board)
    BY <2>1, <2>9, <2>13, <2>20, FieldsAreTold
  <2>22. Told(a3, b3) /\ (a3 = b3 => a2 = b2 /\ x.joined = y.joined)
    BY <2>2, <2>10, <2>14, <2>21, FieldsAreTold
  <2>23. Told(a4, b4) /\ (a4 = b4 => a3 = b3 /\ x.turn = y.turn)
    BY <2>3, <2>8, <2>15, <2>22, FieldsAreTold
  <2>24. Told(a5, b5) /\ (a5 = b5 => a4 = b4 /\ x.hands = y.hands)
    BY <2>4, <2>11, <2>16, <2>23, FieldsAreTold
  <2>25. Told(a6, b6) /\ (a6 = b6 => a5 = b5 /\ x.owner = y.owner)
    BY <2>5, <2>8, <2>17, <2>24, FieldsAreTold
  <2>26. Told(a7, b7) /\ (a7 = b7 => a6 = b6 /\ x.value = y.value)
    BY <2>6, <2>8, <2>18, <2>25, FieldsAreTold
  <2>27. Then(a7, x.decks) = Then(b7, y.decks)
    BY <1>6, <2>7
  <2>28. a7 = b7
    BY <2>11, <2>19, <2>26, <2>27, FieldsAreTold
  <2>. QED BY <2>21, <2>22, <2>23, <2>24, <2>25, <2>26, <2>28
<1>8. /\ x.phase = Bytes!EncodeUnitVariant(<<"Setup", "Playing", "Resolved">>, s.phase)
      /\ y.phase = Bytes!EncodeUnitVariant(<<"Setup", "Playing", "Resolved">>, t.phase)
      /\ x.board = Numbers(s.board, 1) /\ y.board = Numbers(t.board, 1)
      /\ x.joined = Numbers(s.participants, 4) /\ y.joined = Numbers(t.participants, 4)
      /\ x.turn = Bytes!EncodeUint(s.turn, 4) /\ y.turn = Bytes!EncodeUint(t.turn, 4)
      /\ x.hands = Principals(s.hands, n) /\ y.hands = Principals(t.hands, m)
      /\ x.value = Bytes!EncodeUint(s.fabrication.value, 4)
      /\ y.value = Bytes!EncodeUint(t.fabrication.value, 4)
  BY <1>2 DEF MatchText
<1>9. s.phase = t.phase
  <2>1. \A c : MatchOK(c) => c.phase \in {"Setup", "Playing", "Resolved"}
    BY DEF MatchOK, MatchShape
  <2>2. s.phase \in {"Setup", "Playing", "Resolved"} /\ t.phase \in {"Setup", "Playing", "Resolved"}
    BY <2>1
  <2>3. Bytes!EncodeUnitVariant(<<"Setup", "Playing", "Resolved">>, s.phase)
          = Bytes!EncodeUnitVariant(<<"Setup", "Playing", "Resolved">>, t.phase)
    BY <1>7, <1>8
  <2>. QED BY <2>2, <2>3, VariantsTellApart
<1>10. /\ NumbersFit(s.board, 1) /\ NumbersFit(t.board, 1)
       /\ NumbersFit(s.participants, 4) /\ NumbersFit(t.participants, 4)
       /\ Bytes!FitsIn(s.turn, 4) /\ Bytes!FitsIn(t.turn, 4)
       /\ Bytes!FitsIn(s.fabrication.value, 4) /\ Bytes!FitsIn(t.fabrication.value, 4)
       /\ n \in Nat /\ n <= 2 /\ DOMAIN s.participants = 1 .. n
       /\ \A i \in 1 .. n : NumbersFit(s.hands[i - 1], 1)
       /\ \A i \in 1 .. m : NumbersFit(t.hands[i - 1], 1)
  BY <1>1, MatchFieldsFit
<1>11. s.board = t.board /\ s.participants = t.participants
  <2>1. Numbers(s.board, 1) = Numbers(t.board, 1)
    BY <1>7, <1>8
  <2>2. Numbers(s.participants, 4) = Numbers(t.participants, 4)
    BY <1>7, <1>8
  <2>3. s.board = t.board
    BY <1>10, <2>1, NumbersTellApart
  <2>4. s.participants = t.participants
    BY <1>10, <2>2, NumbersTellApart
  <2>. QED BY <2>3, <2>4
<1>12. s.turn = t.turn /\ s.fabrication.value = t.fabrication.value
  <2>1. Bytes!EncodeUint(s.turn, 4) = Bytes!EncodeUint(t.turn, 4)
    BY <1>7, <1>8
  <2>2. Bytes!EncodeUint(s.fabrication.value, 4) = Bytes!EncodeUint(t.fabrication.value, 4)
    BY <1>7, <1>8
  <2>. QED BY <1>10, <2>1, <2>2, UintsDiffer
<1>13. \A i \in 1 .. n : s.hands[i - 1] = t.hands[i - 1]
  <2>1. n = m /\ n < 256
    BY <1>1, <1>10, <1>11
  <2>2. Principals(s.hands, n) = Principals(t.hands, n)
    BY <1>7, <1>8, <2>1
  <2>3. PICK h, g : h = s.hands /\ g = t.hands
    OBVIOUS
  <2>4. \A i \in 1 .. n : NumbersFit(h[i - 1], 1)
    BY <1>10, <2>3
  <2>5. \A i \in 1 .. n : NumbersFit(g[i - 1], 1)
    BY <1>10, <2>1, <2>3
  <2>6. Principals(h, n) = Principals(g, n)
    BY <2>2, <2>3
  <2>7. \A i \in 1 .. n : h[i - 1] = g[i - 1]
    <3>1. n \in Nat /\ n < 256
      BY <1>10, <2>1
    <3>. QED BY <2>4, <2>5, <2>6, <3>1, PrincipalsTellApart, ZenonT(30)
  <2>. QED BY <2>3, <2>7
<1>14. PICK D : D = HiddenInfo!Participants(s) /\ D = HiddenInfo!Participants(t)
  BY <1>11 DEF HiddenInfo!Participants
<1>15. s.hands = t.hands
  <2>1. s.hands \in [D -> Seq(Card)] /\ t.hands \in [D -> Seq(Card)]
    BY <1>14 DEF MatchOK, MatchShape
  <2>2. ASSUME NEW p \in D PROVE s.hands[p] = t.hands[p]
    <3>1. PICK i \in 1 .. n : p = s.participants[i]
      BY <1>10, <1>14 DEF HiddenInfo!Participants
    <3>2. p = i - 1
      BY <1>10, <3>1 DEF MatchFits
    <3>. QED BY <1>13, <3>2
  <2>. QED BY <2>1, <2>2
<1>16. s.decks = t.decks
  BY <1>14 DEF MatchFits
<1>17. s.fabrication = t.fabrication
  <2>1. /\ s.fabrication \in [owner : Nat, value : Nat]
        /\ t.fabrication \in [owner : Nat, value : Nat]
    BY DEF MatchOK, MatchShape
  <2>2. s.fabrication.owner = 0 /\ t.fabrication.owner = 0
    BY DEF MatchFits
  <2>. QED BY <1>12, <2>1, <2>2
<1>18. /\ s = [phase |-> s.phase, board |-> s.board, participants |-> s.participants,
               turn |-> s.turn, hands |-> s.hands, fabrication |-> s.fabrication,
               decks |-> s.decks]
       /\ t = [phase |-> t.phase, board |-> t.board, participants |-> t.participants,
               turn |-> t.turn, hands |-> t.hands, fabrication |-> t.fabrication,
               decks |-> t.decks]
  BY DEF MatchOK, MatchShape
<1>. QED BY <1>9, <1>11, <1>12, <1>15, <1>16, <1>17, <1>18

-----------------------------------------------------------------------------
(* How far the states of a run get.                                        *)

\* The balance of an account after k commands.
AccountFits(s, k) == \E c \in Cents \union {0} : s.balance_cents <= c * k

\* Each step has a card more at most, and a deposit.
StateFits(w, s, k) ==
  CASE w.aggregate = "Account"    -> AccountFits(s, k)
    [] w.aggregate = "Chest"      -> TRUE
    [] w.aggregate = "MatchState" -> MatchFits(s, k)

\* Products grow with either factor.
LEMMA ProductsGrow ==
  ASSUME NEW c \in Nat, NEW k \in Nat, NEW d \in Nat
  PROVE  c * k \in Nat /\ c * k <= (c + d) * k /\ c * k <= c * (k + d)
         /\ c * (k + 1) = c * k + c
<1>1. (c + d) * k = c * k + d * k
  OBVIOUS
<1>2. c * (k + d) = c * k + c * d
  OBVIOUS
<1>3. c * k \in Nat /\ d * k \in Nat /\ c * d \in Nat
  OBVIOUS
<1>4. \A x, y \in Nat : x <= x + y
  OBVIOUS
<1>. QED BY <1>1, <1>2, <1>3, <1>4

\* What fits after k commands fits after more.
LEMMA FitsLater ==
  ASSUME NEW w \in Worlds, NEW s, StateOK(w, s), NEW k \in Nat, NEW d \in Nat, StateFits(w, s, k)
  PROVE  StateFits(w, s, k + d)
<1>1. CASE w.aggregate = "Account"
  <2>1. PICK c \in Cents \union {0} : s.balance_cents <= c * k
    BY <1>1 DEF StateFits, AccountFits
  <2>2. s.balance_cents \in Nat
    BY <1>1 DEF StateOK, AccountState
  <2>3. c \in Nat
    BY CentsAssumption
  <2>4. c * k <= c * (k + d) /\ c * k \in Nat /\ c * (k + d) \in Nat
    BY <2>3, ProductsGrow
  <2>5. s.balance_cents <= c * (k + d)
    BY <2>1, <2>2, <2>4
  <2>. QED BY <1>1, <2>5 DEF StateFits, AccountFits
<1>2. CASE w.aggregate = "Chest"
  BY <1>2 DEF StateFits
<1>3. CASE w.aggregate = "MatchState"
  <2>1. MatchFits(s, k)
    BY <1>3 DEF StateFits
  <2>2. s.board \in Seq(Card) /\ s.hands \in [HiddenInfo!Participants(s) -> Seq(Card)]
    BY <1>3 DEF StateOK, MatchOK, MatchShape
  <2>3. \A n \in Nat : n <= k => n <= k + d
    OBVIOUS
  <2>4. Len(s.board) <= k + d
    BY <2>1, <2>2, <2>3 DEF MatchFits
  <2>5. \A p \in DOMAIN s.hands : Len(s.hands[p]) <= k + d
    BY <2>1, <2>2, <2>3 DEF MatchFits
  <2>6. MatchFits(s, k + d)
    BY <2>1, <2>4, <2>5 DEF MatchFits
  <2>. QED BY <1>3, <2>6 DEF StateFits
<1>. QED BY <1>1, <1>2, <1>3, WorldFacts

\* What an aggregate starts from fits from the start.
LEMMA StartsFit ==
  ASSUME NEW w \in Worlds
  PROVE  StateFits(w, InitialState[w.aggregate], 0)
<1>1. CASE w.aggregate = "Account"
  <2>1. InitialState[w.aggregate].balance_cents = 0
    BY <1>1 DEF InitialState, Ledger!Open
  <2>2. 0 <= 0 * 0 /\ 0 \in Cents \union {0}
    OBVIOUS
  <2>. QED BY <1>1, <2>1, <2>2 DEF StateFits, AccountFits
<1>2. CASE w.aggregate = "Chest"
  BY <1>2 DEF StateFits
<1>3. CASE w.aggregate = "MatchState"
  <2>1. PICK s : s = HiddenInfo!NewMatch
    OBVIOUS
  <2>2. InitialState[w.aggregate] = s
    BY <1>3, <2>1 DEF InitialState
  <2>3. /\ s.board = <<>> /\ s.participants = <<>> /\ s.turn = 0 /\ DOMAIN s.hands = {}
        /\ s.fabrication.owner = 0 /\ s.fabrication.value = 0
        /\ s.decks = [p \in {} |-> <<>>]
    BY <2>1 DEF HiddenInfo!NewMatch
  <2>4. HiddenInfo!Participants(s) = {} /\ DOMAIN s.participants = {}
    BY <2>3 DEF HiddenInfo!Participants
  <2>5. s.decks = [p \in HiddenInfo!Participants(s) |-> <<0, 1, 2, 3, 4>>]
    <3>1. [p \in {} |-> <<>>] = [p \in {} |-> <<0, 1, 2, 3, 4>>]
      OBVIOUS
    <3>. QED BY <2>3, <2>4, <3>1
  <2>6. Len(s.board) = 0 /\ 0 \in 0 .. Tokens - 1
    BY <2>3, TokensAssumption
  <2>7. MatchFits(s, 0)
    BY <2>3, <2>4, <2>5, <2>6 DEF MatchFits
  <2>. QED BY <1>3, <2>2, <2>7 DEF StateFits
<1>. QED BY <1>1, <1>2, <1>3, WorldFacts

\* An accepted command of ledger adds no more than the largest deposit.
LEMMA AccountKeepsFit ==
  ASSUME NEW s \in AccountState, NEW cmd \in Ledger!Command, Ledger!Accepts(s, cmd),
         NEW k \in Nat, AccountFits(s, k)
  PROVE  AccountFits(Ledger!Evolve(s, cmd), k + 1)
<1>1. PICK c \in Nat : c \in Cents \union {0} /\ s.balance_cents <= c * k
  BY CentsAssumption DEF AccountFits
<1>2. PICK b \in Nat : b = s.balance_cents /\ b <= c * k
  BY <1>1 DEF AccountState
<1>3. PICK t : t = Ledger!Evolve(s, cmd)
  OBVIOUS
<1>4. /\ cmd.name \in {"Deposit", "Withdraw"} => cmd.cents \in Nat /\ cmd.cents \in Cents
      /\ cmd.name \in {"Deposit", "Withdraw", "Freeze", "Unfreeze", "Close"}
  BY CentsAssumption DEF Ledger!Command
<1>5. CASE cmd.name = "Deposit"
  <2>1. PICK e \in Nat : e = cmd.cents /\ e \in Cents
    BY <1>4, <1>5
  <2>2. t.balance_cents = b + e
    BY <1>2, <1>3, <1>5, <2>1 DEF Ledger!Evolve, AccountState
  <2>3. PICK m \in Nat : m \in Cents \union {0} /\ c <= m /\ e <= m
    <3>1. CASE c <= e
      BY <2>1, <3>1
    <3>2. CASE e <= c
      BY <1>1, <3>2
    <3>. QED BY <3>1, <3>2
  <2>4. c * k <= m * k /\ c * k \in Nat /\ m * k \in Nat /\ m * (k + 1) = m * k + m
    <3>1. PICK d \in Nat : m = c + d
      <4>1. m - c \in Nat /\ m = c + (m - c)
        BY <2>3
      <4>. QED BY <4>1
    <3>. QED BY <3>1, ProductsGrow
  <2>5. b + e <= m * (k + 1)
    BY <1>2, <2>3, <2>4
  <2>. QED BY <1>3, <2>2, <2>3, <2>5 DEF AccountFits
<1>6. CASE cmd.name # "Deposit"
  <2>1. t.balance_cents \in Nat /\ t.balance_cents <= b
    <3>1. CASE cmd.name = "Withdraw"
      <4>1. t.balance_cents = b - cmd.cents
        BY <1>2, <1>3, <3>1 DEF Ledger!Evolve, AccountState
      <4>2. cmd.cents <= b
        BY <1>2, <3>1 DEF Ledger!Accepts
      <4>. QED BY <1>4, <3>1, <4>1, <4>2
    <3>2. CASE cmd.name # "Withdraw"
      <4>1. t.balance_cents = b
        BY <1>2, <1>3, <1>4, <1>6, <3>2 DEF Ledger!Evolve, AccountState
      <4>. QED BY <4>1
    <3>. QED BY <3>1, <3>2
  <2>2. c * k <= c * (k + 1) /\ c * k \in Nat /\ c * (k + 1) \in Nat
    BY <1>1, ProductsGrow
  <2>3. t.balance_cents <= c * (k + 1)
    BY <1>2, <2>1, <2>2
  <2>. QED BY <1>1, <1>3, <2>3 DEF AccountFits
<1>. QED BY <1>5, <1>6

\* A match fits after a card more on the board and in each hand.
LEMMA GrownMatchFits ==
  ASSUME NEW s, MatchOK(s), NEW k \in Nat, MatchFits(s, k), NEW t, MatchOK(t), GrowsByOne(s, t)
  PROVE  MatchFits(t, k + 1)
<1>1. /\ s.board \in Seq(Card) /\ s.hands \in [HiddenInfo!Participants(s) -> Seq(Card)]
      /\ t.board \in Seq(Card) /\ t.hands \in [HiddenInfo!Participants(t) -> Seq(Card)]
  BY DEF MatchOK, MatchShape
<1>2. HiddenInfo!Participants(t) = HiddenInfo!Participants(s)
  BY DEF GrowsByOne, HiddenInfo!Participants
<1>3. \A n, m \in Nat : n <= k /\ m <= n + 1 => m <= k + 1
  OBVIOUS
<1>4. Len(t.board) <= k + 1
  BY <1>1, <1>3 DEF MatchFits, GrowsByOne
<1>5. \A p \in DOMAIN t.hands : Len(t.hands[p]) <= k + 1
  BY <1>1, <1>2, <1>3 DEF MatchFits, GrowsByOne
<1>6. t.turn <= 1
  BY DEF MatchFits, GrowsByOne
<1>7. /\ t.participants = s.participants /\ t.fabrication = s.fabrication /\ t.decks = s.decks
  BY DEF GrowsByOne
<1>. QED BY <1>2, <1>4, <1>5, <1>6, <1>7 DEF MatchFits

\* The next to join is numbered by how many have.
LEMMA JoinedMatchFits ==
  ASSUME NEW s, MatchShape(s), NEW k \in Nat, MatchFits(s, k),
         NEW who \in HiddenInfo!Participant, who = Len(s.participants),
         NEW t, t = HiddenInfo!Evolve(s, [name |-> "Joined", who |-> who])
  PROVE  MatchFits(t, k)
<1>1. /\ t.board = s.board /\ t.turn = s.turn /\ t.participants = Append(s.participants, who)
      /\ Joins(s, who, t)
  BY JoinedKeepsShape
<1>2. PICK n \in Nat : n = Len(s.participants) /\ DOMAIN s.participants = 1 .. n
  BY DEF MatchShape
<1>3. /\ DOMAIN t.participants = 1 .. n + 1 /\ t.participants[n + 1] = n
      /\ \A i \in 1 .. n : t.participants[i] = s.participants[i]
  <2>1. PICK P, ps : /\ P = HiddenInfo!Participant /\ ps = s.participants
                     /\ ps \in Seq(P) /\ who \in P
    BY DEF MatchShape
  <2>2. /\ Len(Append(ps, who)) = n + 1 /\ Append(ps, who)[n + 1] = who
        /\ DOMAIN Append(ps, who) = 1 .. n + 1
        /\ \A i \in 1 .. n : Append(ps, who)[i] = ps[i]
    BY <1>2, <2>1
  <2>. QED BY <1>1, <1>2, <2>1, <2>2
<1>4. \A i \in DOMAIN t.participants : t.participants[i] = i - 1
  <2>1. ASSUME NEW i \in 1 .. n + 1 PROVE t.participants[i] = i - 1
    <3>1. CASE i = n + 1
      BY <1>3, <3>1
    <3>2. CASE i # n + 1
      <4>1. i \in 1 .. n
        BY <3>2
      <4>. QED BY <1>2, <1>3, <4>1 DEF MatchFits
    <3>. QED BY <3>1, <3>2
  <2>. QED BY <1>3, <2>1
<1>5. \A p \in DOMAIN t.hands : Len(t.hands[p]) <= k
  <2>1. t.hands = [p \in DOMAIN s.hands \union {who} |-> IF p = who THEN <<>> ELSE s.hands[p]]
    BY <1>1 DEF Joins
  <2>2. ASSUME NEW p \in DOMAIN s.hands \union {who} PROVE Len(t.hands[p]) <= k
    <3>1. CASE p = who
      <4>1. t.hands[p] = <<>>
        BY <2>1, <3>1
      <4>2. Len(t.hands[p]) = 0
        BY <4>1
      <4>. QED BY <4>2
    <3>2. CASE p # who
      BY <2>1, <3>2 DEF MatchFits
    <3>. QED BY <3>1, <3>2
  <2>. QED BY <2>1, <2>2
<1>6. t.decks = [p \in HiddenInfo!Participants(t) |-> <<0, 1, 2, 3, 4>>]
  <2>1. DOMAIN s.decks = HiddenInfo!Participants(s)
    BY DEF MatchFits
  <2>. QED BY <1>1, <2>1 DEF Joins
<1>7. t.fabrication = s.fabrication
  BY <1>1 DEF Joins
<1>. QED BY <1>1, <1>4, <1>5, <1>6, <1>7 DEF MatchFits

\* A command the strategy offers keeps a match within one card more.
LEMMA MatchKeepsFit ==
  ASSUME NEW w \in Worlds, w.aggregate = "MatchState", NEW s, MatchOK(s), NEW k \in Nat,
         MatchFits(s, k), NEW cmd \in HiddenInfo!Strategy(s), cmd \in HiddenInfo!Command,
         HiddenInfo!Accepts(s, cmd), NEW drawn, drawn.value \in Card
  PROVE  MatchFits(EvolveAll(w, s, HiddenInfo!Decide(s, cmd, drawn)), k + 1)
<1>1. \A x, e : Evolve(w, x, e) = HiddenInfo!Evolve(x, e)
  BY DEF Evolve
<1>2. CASE cmd.name # "Join"
  <2>1. PICK e \in MatchEvent :
          LET t == HiddenInfo!Evolve(s, e)
          IN /\ HiddenInfo!Decide(s, cmd, drawn) = <<e>> /\ MatchOK(t)
             /\ \/ s.phase = t.phase
                \/ \E h \in Hops.MatchState : s.phase = h[1] /\ t.phase = h[3]
             /\ HiddenInfo!BoardOnlyGrows(s, t) /\ GrowsByOne(s, t)
    BY <1>2, MatchEvents
  <2>2. PICK t : t = HiddenInfo!Evolve(s, e) /\ MatchOK(t) /\ GrowsByOne(s, t)
    BY <2>1
  <2>3. MatchFits(t, k + 1)
    BY <2>2, GrownMatchFits
  <2>4. EvolveAll(w, s, <<e>>) = t
    BY <1>1, <2>2, EvolveOne
  <2>. QED BY <2>1, <2>3, <2>4
<1>3. CASE cmd.name = "Join"
  <2>1. s.phase = "Setup"
    BY <1>3 DEF HiddenInfo!Accepts
  <2>2. cmd.who = Len(s.participants) /\ cmd.who \in HiddenInfo!Participant
    BY <1>3, <2>1 DEF HiddenInfo!Strategy, HiddenInfo!Command
  <2>3. PICK d, e, t, u : /\ d = [name |-> "Joined", who |-> cmd.who] /\ e = [name |-> "Started"]
                          /\ t = HiddenInfo!Evolve(s, d) /\ u = HiddenInfo!Evolve(t, e)
    OBVIOUS
  <2>4. MatchShape(s) /\ MatchShape(t) /\ t.phase = s.phase
    BY <2>2, <2>3, JoinedKeepsShape DEF MatchOK
  <2>5. MatchFits(t, k)
    BY <2>2, <2>3, <2>4, JoinedMatchFits
  <2>6. u = [t EXCEPT !.phase = "Playing"]
    BY <2>3 DEF HiddenInfo!Evolve
  <2>7. PICK b, ps, turn, h, f, k1 :
          t = [phase |-> t.phase, board |-> b, participants |-> ps, turn |-> turn, hands |-> h,
               fabrication |-> f, decks |-> k1]
    BY <2>4 DEF MatchShape
  <2>8. /\ u.board = t.board /\ u.participants = t.participants /\ u.turn = t.turn
        /\ u.hands = t.hands /\ u.fabrication = t.fabrication /\ u.decks = t.decks
    BY <2>6, <2>7
  <2>9. MatchFits(u, k)
    BY <2>5, <2>8 DEF MatchFits, HiddenInfo!Participants
  <2>10. HiddenInfo!Decide(s, cmd, drawn) =
           <<d>> \o IF Len(s.participants) + 1 >= 2 THEN <<e>> ELSE <<>>
    BY <1>3, <2>3 DEF HiddenInfo!Decide
  <2>11. <<d>> \o <<e>> = <<d, e>> /\ <<d>> \o <<>> = <<d>>
    BY Pair
  <2>12. HiddenInfo!Decide(s, cmd, drawn) = <<d, e>> \/ HiddenInfo!Decide(s, cmd, drawn) = <<d>>
    BY <2>10, <2>11
  <2>13. EvolveAll(w, s, <<d>>) = t /\ EvolveAll(w, s, <<d, e>>) = u
    BY <1>1, <2>3, EvolveOne, EvolveTwo
  <2>14. PICK x : x = EvolveAll(w, s, HiddenInfo!Decide(s, cmd, drawn)) /\ (x = t \/ x = u)
    BY <2>12, <2>13
  <2>15. MatchFits(x, k)
    BY <2>5, <2>9, <2>14
  <2>16. x.board = t.board /\ x.hands = t.hands
    BY <2>8, <2>14
  <2>17. Len(x.board) \in Nat /\ \A p \in DOMAIN x.hands : Len(x.hands[p]) \in Nat
    BY <2>4, <2>16 DEF MatchShape
  <2>18. \A n \in Nat : n <= k => n <= k + 1
    OBVIOUS
  <2>19. MatchFits(x, k + 1)
    BY <2>15, <2>17, <2>18 DEF MatchFits
  <2>. QED BY <2>14, <2>19
<1>. QED BY <1>2, <1>3

\* So every aggregate keeps within one step more.
LEMMA StepsKeepFit ==
  ASSUME NEW w \in Worlds, NEW s, StateOK(w, s), NEW k \in Nat, StateFits(w, s, k),
         NEW cmd \in CommandStrategy(w, s), NEW pos \in Nat,
         NEW d, d = DecideOnly(w, s, cmd, pos)
  PROVE  StateFits(w, EvolveAll(w, s, d.events), k + 1)
<1>1. cmd \in Command[w.aggregate]
  BY StrategiesOK
<1>2. StateFits(w, s, k + 1)
  BY FitsLater
<1>3. CASE d.events = <<>>
  BY <1>2, <1>3, EvolveNone
<1>4. CASE d.events # <<>>
  <2>1. d = Decide(w, s, cmd, pos)
    BY <1>4 DEF DecideOnly, Rejected
  <2>2. CASE w.aggregate = "Account"
    <3>1. s \in AccountState /\ cmd \in Ledger!Command
      BY <1>1, <2>2 DEF StateOK, Command
    <3>2. Ledger!Accepts(s, cmd) /\ d.events = <<cmd>>
      BY <1>4, <2>1, <2>2 DEF Decide, Rejected, Accepted, Ledger!Decide
    <3>3. EvolveAll(w, s, d.events) = Ledger!Evolve(s, cmd)
      BY <2>2, <3>2, EvolveOne DEF Evolve
    <3>. QED BY <2>2, <3>1, <3>2, <3>3, AccountKeepsFit DEF StateFits
  <2>3. CASE w.aggregate = "Chest"
    BY <2>3 DEF StateFits
  <2>4. CASE w.aggregate = "MatchState"
    <3>1. MatchOK(s) /\ cmd \in HiddenInfo!Command /\ cmd \in HiddenInfo!Strategy(s)
          /\ MatchFits(s, k)
      BY <1>1, <2>4 DEF StateOK, Command, CommandStrategy, StateFits
    <3>2. PICK drawn : drawn = HiddenInfo!DrawRange(w.tape, pos, 0, Cards)
      OBVIOUS
    <3>3. drawn.value \in Card
      <4>1. Cards \in Nat
        BY CardsAssumption
      <4>. QED BY <3>2, <4>1, WorldFacts, DrawsInRange DEF Card
    <3>4. HiddenInfo!Accepts(s, cmd) /\ d.events = HiddenInfo!Decide(s, cmd, drawn)
      BY <1>4, <2>1, <2>4, <3>2 DEF Decide, Rejected, Accepted
    <3>5. MatchFits(EvolveAll(w, s, d.events), k + 1)
      BY <2>4, <3>1, <3>3, <3>4, MatchKeepsFit
    <3>. QED BY <2>4, <3>5 DEF StateFits
  <2>. QED BY <2>2, <2>3, <2>4, WorldFacts
<1>. QED BY <1>3, <1>4

-----------------------------------------------------------------------------
(* The steps of a simulation.                                              *)

\* A state of its type is sound, and in a phase of its machine.
LEMMA StatesAreSound ==
  ASSUME world \in Worlds, NEW s, StateOK(world, s)
  PROVE  Sound(s) /\ s.phase \in PhaseMachine[world.aggregate].states
<1>1. CASE world.aggregate = "Account"
  <2>1. s.balance_cents \in Nat /\ s.phase \in {"Open", "Frozen", "Closed"}
    BY <1>1 DEF StateOK, AccountState
  <2>2. PhaseMachine[world.aggregate].states = {"Open", "Frozen", "Closed"}
    BY <1>1 DEF PhaseMachine, Ledger!AccountPhase, Ledger!Enum
  <2>. QED BY <1>1, <2>1, <2>2 DEF Sound
<1>2. CASE world.aggregate = "Chest"
  <2>1. /\ s.draws_left \in Nat /\ s.loot \in Seq(Item)
        /\ s.phase \in {"Sealed", "Open", "Spent"}
        /\ s.phase = "Sealed" => s.draws_left = 0 /\ s.loot = <<>>
        /\ s.phase # "Sealed" => s.draws_left + Len(s.loot) = Capacity
    BY <1>2 DEF StateOK, ChestState
  <2>2. PhaseMachine[world.aggregate] = CatalogCtx!ChestPhase
    BY <1>2 DEF PhaseMachine
  <2>3. CatalogCtx!ChestPhase.states = {"Sealed", "Open", "Spent"}
    BY DEF CatalogCtx!ChestPhase, CatalogCtx!Enum
  <2>4. s.draws_left + Len(s.loot) \in {0, Capacity}
    <3>1. CASE s.phase = "Sealed"
      <4>1. Len(s.loot) = 0
        BY <2>1, <3>1
      <4>. QED BY <2>1, <3>1, <4>1
    <3>2. CASE s.phase # "Sealed"
      BY <2>1, <3>2
    <3>. QED BY <3>1, <3>2
  <2>. QED BY <1>2, <2>1, <2>2, <2>3, <2>4 DEF Sound
<1>3. CASE world.aggregate = "MatchState"
  <2>1. /\ s.hands \in [HiddenInfo!Participants(s) -> Seq(Card)]
        /\ s.phase \in {"Setup", "Playing", "Resolved"}
    BY <1>3 DEF StateOK, MatchOK, MatchShape
  <2>2. PhaseMachine[world.aggregate] = HiddenInfo!MatchPhase
    BY <1>3 DEF PhaseMachine
  <2>3. HiddenInfo!MatchPhase.states = {"Setup", "Playing", "Resolved"}
    BY DEF HiddenInfo!MatchPhase, HiddenInfo!Enum
  <2>4. ASSUME NEW p \in DOMAIN s.hands, NEW i \in DOMAIN s.hands[p]
        PROVE  s.hands[p][i] \in 0 .. Cards - 1
    <3>1. s.hands[p] \in Seq(Card)
      BY <2>1
    <3>2. s.hands[p][i] \in Card
      BY <3>1
    <3>. QED BY <3>2 DEF Card
  <2>. QED BY <1>3, <2>1, <2>2, <2>3, <2>4 DEF Sound
<1>. QED BY <1>1, <1>2, <1>3, WorldFacts

\* The reference run is the end of the trail.
LEMMA ReferenceOK ==
  ASSUME TrailOK
  PROVE  /\ RunOK(world, Reference)
         /\ Reference = trail[Len(commands) + 1] /\ Len(commands) \in Nat
<1>1. Len(commands) \in Nat /\ Len(trail) = Len(commands) + 1
  BY DEF TrailOK
<1>2. Reference = trail[Len(commands) + 1]
  BY <1>1 DEF Reference, Last
<1>3. Len(commands) + 1 \in 1 .. Len(trail)
  BY <1>1
<1>. QED BY <1>1, <1>2, <1>3 DEF TrailOK

\* The twin takes the step of the reference run.
LEMMA TwinSteps ==
  ASSUME world \in Worlds, TwinOK, RunOK(world, Reference),
         NEW cmd \in Command[world.aggregate],
         NEW next, next = Step(world, Reference, cmd)
  PROVE  TwinStep(cmd) = [log |-> [records |-> next.journal.records, snapshots |-> <<>>],
                          state |-> next.state]
<1>1. PICK run, records, log : /\ run = Reference /\ records = run.journal.records
                               /\ log = [records |-> records, snapshots |-> <<>>]
  OBVIOUS
<1>2. twin.log = log /\ twin.state = run.state /\ twin = [log |-> log, state |-> run.state]
  BY <1>1 DEF TwinOK
<1>3. JournalIs(run.journal, records) /\ records \in Seq(BatchRecord(world))
  BY <1>1 DEF RunOK, LogOK
<1>4. PICK n \in Nat : n = Len(records)
  BY <1>3
<1>5. PICK pos : pos = HeadPos(run.journal)
  OBVIOUS
<1>6. L!LogEntropyPos(log, L!LogHead(log)) = pos
  <2>1. L!LogHead(log) = n
    BY <1>1, <1>4 DEF L!LogHead
  <2>2. CASE n = 0
    <3>1. {i \in DOMAIN log.snapshots : log.snapshots[i].at = 0} = {}
      BY <1>1
    <3>2. pos = 0
      BY <1>3, <1>4, <1>5, <2>2, JournalReads
    <3>. QED BY <2>1, <2>2, <3>1, <3>2 DEF L!LogEntropyPos
  <2>3. CASE n # 0
    <3>1. n > 0
      BY <2>3
    <3>2. log.records = records
      BY <1>1
    <3>. QED BY <1>3, <1>4, <1>5, <2>1, <2>3, <3>1, <3>2, JournalReads DEF L!LogEntropyPos
  <2>. QED BY <2>2, <2>3
<1>7. PICK d : d = DecideOnly(world, run.state, cmd, pos)
  OBVIOUS
<1>8. TwinStep(cmd) = IF ~d.accepted THEN twin
                      ELSE [log   |-> L!LogAppend(log, d.events, d.pos),
                            state |-> EvolveAll(world, run.state, d.events)]
  BY <1>2, <1>6, <1>7 DEF TwinStep
<1>9. next = Tried(world, run, cmd, pos).run
  BY <1>1, <1>5, StepIs
<1>10. CASE ~d.accepted
  <2>1. Tried(world, run, cmd, pos) = [outcome |-> "Rejected", run |-> run, pos |-> pos]
    BY <1>7, <1>10, Rejects
  <2>2. next = run
    BY <1>9, <2>1
  <2>. QED BY <1>1, <1>2, <1>8, <1>10, <2>2
<1>11. CASE d.accepted
  <2>1. PICK journal, state, last : /\ journal = M!AppendRecord(run.journal, d.events, d.pos)
                                    /\ state = EvolveAll(world, run.state, d.events)
                                    /\ last = [seq |-> M!HeadSeq(journal),
                                               digest |-> Digest128(world, state)]
    OBVIOUS
  <2>2. PICK steps : steps = Append(run.steps, last)
    OBVIOUS
  <2>3. next = [journal |-> journal, state |-> state, steps |-> steps]
    BY <1>7, <1>9, <1>11, <2>1, <2>2, Appends
  <2>4. PICK record : record = [events |-> d.events, entropy_pos |-> d.pos]
    OBVIOUS
  <2>5. PICK more : more = Append(records, record)
    OBVIOUS
  <2>6. journal.records = more
    <3>1. JournalIs(journal, more)
      BY <1>3, <2>1, <2>4, <2>5, AppendsOK
    <3>. QED BY <3>1 DEF JournalIs
  <2>7. L!LogAppend(log, d.events, d.pos) = [records |-> more, snapshots |-> <<>>]
    <3>1. L!LogAppend(log, d.events, d.pos) = [log EXCEPT !.records = Append(@, record)]
      BY <2>4 DEF L!LogAppend
    <3>2. PICK none : none = <<>>
      OBVIOUS
    <3>3. log = [records |-> records, snapshots |-> none]
      BY <1>1, <3>2
    <3>4. L!LogAppend(log, d.events, d.pos) = [records |-> more, snapshots |-> none]
      BY <2>5, <3>1, <3>3
    <3>. QED BY <3>2, <3>4
  <2>8. next.journal.records = more /\ next.state = state
    BY <2>3, <2>6
  <2>. QED BY <1>8, <1>11, <2>1, <2>7, <2>8
<1>. QED BY <1>10, <1>11

\* A recorded command adds a step to the trail, and to the twin.
LEMMA RecordKeeps ==
  ASSUME IInv, NEW cmd \in CommandStrategy(world, Reference.state), Record(cmd)
  PROVE  IInv'
<1> USE DEF IInv
<1>1. PICK n \in Nat : n = Len(commands) /\ Reference = trail[n + 1] /\ RunOK(world, Reference)
  BY ReferenceOK
<1>2. world \in Worlds /\ cmd \in Command[world.aggregate]
  <2>1. world \in Worlds /\ StateOK(world, Reference.state)
    BY <1>1 DEF TrailOK, RunOK
  <2>. QED BY <2>1, StrategiesOK
<1>3. PICK next : next = Step(world, Reference, cmd)
  OBVIOUS
<1>4. RunOK(world, next)
  BY <1>1, <1>2, <1>3, StepOK
<1>5. /\ commands' = Append(commands, cmd) /\ trail' = Append(trail, next)
      /\ twin' = TwinStep(cmd) /\ mode = "recording"
      /\ UNCHANGED <<world, mode, faulted, armed, branch, leak>>
  BY <1>3 DEF Record
<1>6. /\ commands' \in Seq(Command[world.aggregate]) /\ Len(commands') = n + 1
      /\ commands'[n + 1] = cmd /\ \A i \in 1 .. n : commands'[i] = commands[i]
  <2>1. commands \in Seq(Command[world.aggregate])
    BY DEF TrailOK
  <2>. QED BY <1>1, <1>2, <1>5, <2>1
<1>7. /\ IsSeq(trail') /\ Len(trail') = n + 2 /\ trail'[n + 2] = next
      /\ (\A i \in 1 .. n + 1 : trail'[i] = trail[i]) /\ Reference' = next
  <2>1. IsSeq(trail) /\ Len(trail) = n + 1
    BY <1>1 DEF TrailOK
  <2>2. (n + 1) + 1 = n + 2
    OBVIOUS
  <2>3. Last(trail') = next
    BY <1>5, <2>1, Grown
  <2>. QED BY <1>5, <2>1, <2>2, <2>3, Grown DEF Reference
<1>8. TrailOK'
  <2>1. trail'[1] = NewRun(world)
    <3>1. 1 \in 1 .. n + 1
      OBVIOUS
    <3>. QED BY <1>7, <3>1 DEF TrailOK
  <2>2. ASSUME NEW i \in 1 .. n + 1
        PROVE  trail'[i + 1] = Step(world, trail'[i], commands'[i])
    <3>1. CASE i = n + 1
      <4>1. trail'[i] = Reference /\ i + 1 = n + 2
        BY <1>1, <1>7, <3>1
      <4>. QED BY <1>3, <1>6, <1>7, <3>1, <4>1
    <3>2. CASE i # n + 1
      <4>1. i \in 1 .. n /\ i + 1 \in 1 .. n + 1
        BY <3>2
      <4>2. trail[i + 1] = Step(world, trail[i], commands[i])
        BY <1>1, <4>1 DEF TrailOK
      <4>. QED BY <1>6, <1>7, <4>1, <4>2
    <3>. QED BY <3>1, <3>2
  <2>3. ASSUME NEW i \in 1 .. n + 2 PROVE RunOK(world, trail'[i])
    <3>1. CASE i = n + 2
      BY <1>4, <1>7, <3>1
    <3>2. CASE i # n + 2
      <4>1. i \in 1 .. n + 1 /\ Len(trail) = n + 1
        BY <1>1, <3>2 DEF TrailOK
      <4>. QED BY <1>7, <4>1 DEF TrailOK
    <3>. QED BY <3>1, <3>2
  <2>4. n + 2 = (n + 1) + 1
    OBVIOUS
  <2>. QED BY <1>2, <1>5, <1>6, <1>7, <2>1, <2>2, <2>3, <2>4 DEF TrailOK
<1>9. TwinOK'
  BY <1>1, <1>2, <1>3, <1>5, <1>7, TwinSteps DEF TwinOK
<1>10. FaultedOK'
  <2>1. faulted.step = 0 /\ 0 \in 0 .. n + 1 /\ 0 + 1 = 1 /\ 1 \in 1 .. n + 1
    BY <1>5 DEF FaultedOK
  <2>. QED BY <1>5, <1>6, <1>7, <2>1 DEF FaultedOK
<1>11. LeakOK'
  BY <1>5 DEF LeakOK
<1>. QED BY <1>8, <1>9, <1>10, <1>11

\* A step under faults begins where the reference run was, and leads where that
\* run went.
LEMMA StepsBegin ==
  ASSUME IInv, StepBegins
  PROVE  \E run, cmd, next :
           /\ run = faulted.run /\ RunOK(world, run) /\ RunOK(world, next)
           /\ world \in Worlds /\ armed = FALSE /\ faulted.step \in 0 .. Len(commands) - 1
           /\ cmd = commands[faulted.step + 1]
           /\ next = trail[faulted.step + 2] /\ next = Step(world, run, cmd)
           /\ next = Tried(world, run, cmd, HeadPos(run.journal)).run
<1> USE DEF IInv
<1>1. PICK n \in Nat : n = Len(commands) /\ Len(trail) = n + 1
  BY DEF TrailOK
<1>2. PICK k \in 0 .. n - 1 : k = faulted.step
  BY <1>1 DEF FaultedOK, StepBegins
<1>3. k + 1 \in 1 .. n /\ k + 1 \in 1 .. n + 1 /\ (k + 1) + 1 = k + 2 /\ k + 2 \in 1 .. n + 1
  BY <1>2
<1>4. PICK run, cmd, next : run = trail[k + 1] /\ cmd = commands[k + 1] /\ next = trail[k + 2]
  OBVIOUS
<1>5. next = Step(world, run, cmd)
  <2>1. trail[(k + 1) + 1] = Step(world, trail[k + 1], commands[k + 1])
    BY <1>1, <1>3 DEF TrailOK
  <2>. QED BY <1>3, <1>4, <2>1
<1>6. RunOK(world, run) /\ RunOK(world, next)
  BY <1>1, <1>3, <1>4 DEF TrailOK
<1>7. run = faulted.run /\ armed = FALSE /\ world \in Worlds
  BY <1>2, <1>4 DEF FaultedOK, TrailOK
<1>. QED BY <1>1, <1>2, <1>4, <1>5, <1>6, <1>7, StepIs

LEMMA AdvanceKeeps ==
  ASSUME IInv, StepBegins, NEW next, next = trail[faulted.step + 2], Advance(next),
         armed' = FALSE, \A s \in branch' : s = next.state
  PROVE  IInv'
<1> USE DEF IInv
<1>1. PICK n \in Nat : n = Len(commands)
  BY DEF TrailOK
<1>2. PICK k \in 0 .. n - 1 : k = faulted.step
  BY <1>1 DEF FaultedOK, StepBegins
<1>3. /\ faulted' = [run |-> next, step |-> k + 1]
      /\ UNCHANGED <<world, mode, commands, trail, twin, leak>>
  BY <1>2 DEF Advance
<1>4. k + 1 \in 0 .. n /\ (k + 1) + 1 = k + 2
  BY <1>2
<1>5. TrailOK'
  BY <1>3 DEF TrailOK
<1>6. TwinOK'
  BY <1>3 DEF TwinOK, Reference
<1>7. FaultedOK'
  <2>1. mode = "faulted"
    BY DEF StepBegins
  <2>2. faulted'.run = next /\ faulted'.step = k + 1
    BY <1>3
  <2>3. next = trail[(k + 1) + 1]
    BY <1>2, <1>4
  <2>. QED BY <1>1, <1>3, <1>4, <2>1, <2>2, <2>3 DEF FaultedOK
<1>8. LeakOK'
  BY <1>3 DEF LeakOK
<1>. QED BY <1>5, <1>6, <1>7, <1>8

\* Nothing is armed when a step begins.
LEMMA AttemptsAre ==
  ASSUME armed = FALSE, NEW run, NEW cmd, cmd = commands[faulted.step + 1]
  PROVE  /\ Attempt(run, armed) = Tried(world, run, cmd, HeadPos(run.journal))
         /\ Attempt(run, FALSE) = Tried(world, run, cmd, HeadPos(run.journal))
         /\ Attempt(run, TRUE) = TriedInVain(world, run, cmd, HeadPos(run.journal))
         /\ \A tried : ~StillArmed(tried, armed)
BY Zenon DEF Attempt, Tried, TriedInVain, StillArmed

\* The steps of the run under faults: each ends where the reference run was.
LEMMA PlainStepKeeps ==
  ASSUME IInv, PlainStep
  PROVE  IInv'
<1>1. StepBegins /\ branch' = {}
  BY DEF PlainStep
<1>2. PICK run, cmd, next :
        /\ run = faulted.run /\ RunOK(world, run) /\ RunOK(world, next)
        /\ world \in Worlds /\ armed = FALSE /\ faulted.step \in 0 .. Len(commands) - 1
        /\ cmd = commands[faulted.step + 1]
        /\ next = trail[faulted.step + 2] /\ next = Step(world, run, cmd)
        /\ next = Tried(world, run, cmd, HeadPos(run.journal)).run
  BY <1>1, StepsBegin
<1>3. PICK tried : tried = Tried(world, run, cmd, HeadPos(run.journal))
  OBVIOUS
<1>4. /\ Attempt(run, armed) = tried /\ \A x : ~StillArmed(x, armed)
  BY <1>2, <1>3, AttemptsAre, Zenon
<1>5. Advance(tried.run) /\ armed' = StillArmed(tried, armed)
  BY <1>2, <1>4, Zenon DEF PlainStep
<1>6. armed' = FALSE
  BY <1>4, <1>5, Zenon DEF StillArmed
<1>7. tried.run = next
  BY <1>2, <1>3
<1>. QED BY <1>1, <1>2, <1>5, <1>6, <1>7, AdvanceKeeps

LEMMA FailAppendStepKeeps ==
  ASSUME IInv, FailAppendStep
  PROVE  IInv'
<1>1. StepBegins /\ branch' = {} /\ armed' = FALSE
  BY DEF FailAppendStep
<1>2. PICK run, cmd, next :
        /\ run = faulted.run /\ RunOK(world, run) /\ RunOK(world, next)
        /\ world \in Worlds /\ armed = FALSE /\ faulted.step \in 0 .. Len(commands) - 1
        /\ cmd = commands[faulted.step + 1]
        /\ next = trail[faulted.step + 2] /\ next = Step(world, run, cmd)
        /\ next = Tried(world, run, cmd, HeadPos(run.journal)).run
  BY <1>1, StepsBegin
<1>3. PICK pos, failed : pos = HeadPos(run.journal) /\ failed = TriedInVain(world, run, cmd, pos)
  OBVIOUS
<1>4. PICK again : again = Tried(world, run, cmd, pos)
  OBVIOUS
<1>5. Attempt(run, TRUE) = failed
  BY <1>2, <1>3, AttemptsAre, Zenon
<1>6. Advance(Retried(failed))
  BY <1>2, <1>5, Zenon DEF FailAppendStep
<1>7. Retried(failed) = next
  <2>1. CASE DecideOnly(world, run.state, cmd, pos).accepted
    <3>1. failed = [outcome |-> "Journal", run |-> run, pos |-> pos]
      BY <1>3, <2>1, Fails
    <3>2. failed.outcome = "Journal" /\ failed.run = run
      BY <3>1
    <3>3. Attempt(run, FALSE) = again
      BY <1>2, <1>3, <1>4, AttemptsAre, Zenon
    <3>4. Retried(failed) = again.run
      BY <3>2, <3>3, Zenon DEF Retried
    <3>. QED BY <1>2, <1>3, <1>4, <3>4
  <2>2. CASE ~DecideOnly(world, run.state, cmd, pos).accepted
    <3>1. failed = again /\ failed = [outcome |-> "Rejected", run |-> run, pos |-> pos]
      BY <1>3, <1>4, <2>2, Rejects
    <3>2. failed.outcome # "Journal" /\ failed.run = run
      BY <3>1
    <3>3. Retried(failed) = failed.run
      BY <3>2, Zenon DEF Retried
    <3>. QED BY <1>2, <1>3, <1>4, <3>1, <3>3
  <2>. QED BY <2>1, <2>2
<1>. QED BY <1>1, <1>2, <1>6, <1>7, AdvanceKeeps

LEMMA CrashResumeStepKeeps ==
  ASSUME IInv, CrashResumeStep
  PROVE  IInv'
<1>1. StepBegins /\ branch' = {}
  BY DEF CrashResumeStep
<1>2. PICK run, cmd, next :
        /\ run = faulted.run /\ RunOK(world, run) /\ RunOK(world, next)
        /\ world \in Worlds /\ armed = FALSE /\ faulted.step \in 0 .. Len(commands) - 1
        /\ cmd = commands[faulted.step + 1]
        /\ next = trail[faulted.step + 2] /\ next = Step(world, run, cmd)
        /\ next = Tried(world, run, cmd, HeadPos(run.journal)).run
  BY <1>1, StepsBegin
<1>3. PICK tried : tried = Tried(world, run, cmd, HeadPos(run.journal))
  OBVIOUS
<1>4. /\ Attempt(run, armed) = tried /\ \A x : ~StillArmed(x, armed)
  BY <1>2, <1>3, AttemptsAre, Zenon
<1>5. PICK resumed : resumed = [tried.run EXCEPT !.state = ResumedState(world, tried.run.journal)]
  OBVIOUS
<1>6. Advance(resumed) /\ armed' = StillArmed(tried, armed)
  BY <1>2, <1>4, <1>5, Zenon DEF CrashResumeStep
<1>7. armed' = FALSE
  BY <1>4, <1>6, Zenon DEF StillArmed
<1>8. resumed = next
  <2>1. tried.run = next /\ ResumedState(world, next.journal) = next.state
    BY <1>2, <1>3, HeadsOK, SMTT(30)
  <2>2. next = [journal |-> next.journal, state |-> next.state, steps |-> next.steps]
    BY <1>2 DEF RunOK
  <2>. QED BY <1>5, <2>1, <2>2
<1>. QED BY <1>1, <1>2, <1>6, <1>7, <1>8, AdvanceKeeps

\* A fork at the head of a run in order resumes to its state.
LEMMA ForksResume ==
  ASSUME NEW w, NEW run, RunOK(w, run), NEW head, head = M!HeadSeq(run.journal)
  PROVE  ResumedState(w, M!Fork(run.journal, head)) = run.state
<1>1. PICK records, branched : /\ records = run.journal.records
                               /\ branched = M!Fork(run.journal, head)
  OBVIOUS
<1>2. /\ JournalIs(run.journal, records) /\ records \in Seq(BatchRecord(w))
      /\ run.state = Rebuilt(w, Batches(records))
  BY <1>1 DEF RunOK, LogOK
<1>3. PICK n \in Nat : n = Len(records)
  BY <1>2
<1>4. head = n /\ n \in 0 .. n
  BY <1>2, <1>3, JournalReads
<1>5. JournalIs(branched, records)
  <2>1. JournalIs(M!Fork(run.journal, n), SubSeq(records, 1, n)) /\ SubSeq(records, 1, n) = records
    BY <1>2, <1>3, <1>4, ForksOK
  <2>. QED BY <1>1, <1>4, <2>1
<1>. QED BY <1>1, <1>2, <1>3, <1>5, JournalReads

LEMMA ForkContinueStepKeeps ==
  ASSUME IInv, ForkContinueStep
  PROVE  IInv'
<1>1. StepBegins
  BY DEF ForkContinueStep
<1>2. PICK run, cmd, next :
        /\ run = faulted.run /\ RunOK(world, run) /\ RunOK(world, next)
        /\ world \in Worlds /\ armed = FALSE /\ faulted.step \in 0 .. Len(commands) - 1
        /\ cmd = commands[faulted.step + 1]
        /\ next = trail[faulted.step + 2] /\ next = Step(world, run, cmd)
        /\ next = Tried(world, run, cmd, HeadPos(run.journal)).run
  BY <1>1, StepsBegin
<1>3. PICK tried : tried = Tried(world, run, cmd, HeadPos(run.journal))
  OBVIOUS
<1>4. /\ Attempt(run, armed) = tried /\ \A x : ~StillArmed(x, armed)
  BY <1>2, <1>3, AttemptsAre, Zenon
<1>5. PICK head : head = M!HeadSeq(tried.run.journal)
  OBVIOUS
<1>6. /\ Advance(tried.run) /\ armed' = StillArmed(tried, armed)
      /\ branch' = IF head = 0 THEN {}
                   ELSE {ResumedState(world, M!Fork(tried.run.journal, head))}
  BY <1>2, <1>4, <1>5, Zenon DEF ForkContinueStep
<1>7. armed' = FALSE
  BY <1>4, <1>6, Zenon DEF StillArmed
<1>8. tried.run = next
  BY <1>2, <1>3
<1>9. \A s \in branch' : s = next.state
  BY <1>2, <1>5, <1>6, <1>8, ForksResume
<1>. QED BY <1>1, <1>2, <1>6, <1>7, <1>8, <1>9, AdvanceKeeps

\* The leak test begins with a sibling that is alike, and goes on with two that
\* are.
LEMMA BeginLeakKeeps ==
  ASSUME IInv, NEW p \in HiddenInfo!Participant, NEW w \in Worlds, BeginLeak(p, w.tape)
  PROVE  IInv'
<1> USE DEF IInv
<1>1. PICK s, t : s = Reference.state /\ t = HiddenInfo!ResampleHidden(s, p, w.tape, 0)
  OBVIOUS
<1>2. /\ world.aggregate = "MatchState" /\ mode = "recording" /\ mode' = "leak"
      /\ p \in HiddenInfo!Participants(s)
      /\ leak' = [steps |-> 0, at |-> 0, perturbed |-> {p}, base |-> s, sibling |-> t]
      /\ commands' = <<>> /\ trail' = <<NewRun(world)>> /\ twin' = NewTwin
      /\ UNCHANGED <<world, faulted, armed, branch>>
  BY <1>1 DEF BeginLeak
<1>3. world \in Worlds /\ MatchOK(s)
  <2>1. world \in Worlds /\ StateOK(world, Reference.state)
    BY ReferenceOK DEF TrailOK, RunOK
  <2>. QED BY <1>1, <1>2, <2>1 DEF StateOK
<1>4. MatchOK(t) /\ Alike(s, t, {p})
  BY <1>1, <1>2, <1>3, ResampleOK
<1>5. PICK run, fresh : run = NewRun(world) /\ fresh = <<run>>
  OBVIOUS
<1>6. RunOK(world, run)
  BY <1>3, <1>5, NewRunOK
<1>7. Len(fresh) = 1 /\ fresh[1] = run /\ IsSeq(fresh) /\ Last(fresh) = run
  <2>1. Len(fresh) = 1 /\ fresh[1] = run /\ DOMAIN fresh = {1}
    BY <1>5
  <2>2. fresh \in Seq({fresh[i] : i \in DOMAIN fresh})
    <3>1. {fresh[i] : i \in DOMAIN fresh} = {run}
      BY <2>1
    <3>2. \A E : run \in E => <<run>> \in Seq(E)
      OBVIOUS
    <3>. QED BY <1>5, <3>1, <3>2
  <2>. QED BY <2>1, <2>2 DEF IsSeq, Last
<1>8. TrailOK'
  <2>1. commands' \in Seq(Command[world.aggregate]) /\ Len(commands') = 0
    BY <1>2
  <2>2. \A i \in 1 .. 1 : i = 1
    OBVIOUS
  <2>3. trail' = fresh /\ 0 + 1 = 1
    BY <1>2, <1>5
  <2>. QED BY <1>2, <1>3, <1>5, <1>6, <1>7, <2>1, <2>2, <2>3 DEF TrailOK
<1>9. TwinOK'
  <2>1. Reference' = run
    BY <1>2, <1>5, <1>7 DEF Reference
  <2>2. run.journal.records = <<>> /\ run.state = InitialState[world.aggregate]
    BY <1>5 DEF NewRun, M!NewStream
  <2>. QED BY <1>2, <2>1, <2>2 DEF TwinOK, NewTwin, L!NewLog
<1>10. FaultedOK'
  <2>1. faulted.step = 0 /\ trail[0 + 1] = run
    BY <1>2, <1>5 DEF FaultedOK, TrailOK
  <2>2. Len(commands') = 0 /\ 0 \in 0 .. 0 /\ trail'[0 + 1] = run
    BY <1>2, <1>5, <1>7
  <2>. QED BY <1>2, <2>1, <2>2 DEF FaultedOK
<1>11. LeakOK'
  <2>1. /\ leak'.steps = 0 /\ leak'.at = 0 /\ leak'.perturbed = {p} /\ leak'.base = s
        /\ leak'.sibling = t
        /\ leak' = [steps |-> leak'.steps, at |-> leak'.at, perturbed |-> leak'.perturbed,
                    base |-> leak'.base, sibling |-> leak'.sibling]
    BY <1>2
  <2>2. 0 \in 0 .. MaxLeakSteps
    BY StepsAssumption
  <2>. QED BY <1>2, <1>3, <1>4, <2>1, <2>2 DEF LeakOK, StateOK
<1>. QED BY <1>8, <1>9, <1>10, <1>11

LEMMA LeakStepKeeps ==
  ASSUME IInv, NEW cmd \in CommandStrategy(world, leak.base), LeakStep(cmd)
  PROVE  IInv'
<1> USE DEF IInv
<1>1. PICK s, t, pos : s = leak.base /\ t = leak.sibling /\ pos = leak.at
  OBVIOUS
<1>2. PICK base, sibling : /\ base = Handle(world, s, cmd, pos)
                           /\ sibling = Handle(world, t, cmd, pos)
  OBVIOUS
<1>3. /\ mode = "leak" /\ leak.steps < MaxLeakSteps /\ cmd.name # "PlayCard"
      /\ leak' = [leak EXCEPT !.steps = @ + 1, !.at = base.pos,
                              !.base = base.state, !.sibling = sibling.state]
      /\ UNCHANGED <<world, mode, commands, trail, twin, faulted, armed, branch>>
  BY <1>1, <1>2 DEF LeakStep
<1>4. /\ world \in Worlds /\ world.aggregate = "MatchState"
      /\ StateOK(world, s) /\ StateOK(world, t) /\ MatchOK(s) /\ MatchOK(t) /\ pos \in Nat
      /\ Alike(s, t, leak.perturbed) /\ leak.steps \in 0 .. MaxLeakSteps
  BY <1>1, <1>3 DEF LeakOK, StateOK, TrailOK
<1>5. cmd \in Command[world.aggregate] /\ cmd \in HiddenInfo!Command
  <2>1. cmd \in Command[world.aggregate]
    BY <1>1, <1>4, StrategiesOK
  <2>. QED BY <1>4, <2>1 DEF Command
<1>6. StateOK(world, base.state) /\ StateOK(world, sibling.state) /\ base.pos \in Nat
  <2>1. PICK d, e : d = DecideOnly(world, s, cmd, pos) /\ e = DecideOnly(world, t, cmd, pos)
    OBVIOUS
  <2>2. DecisionOK(world, s, pos, d) /\ DecisionOK(world, t, pos, e)
    BY <1>4, <1>5, <2>1, DecisionsOK
  <2>3. /\ base.state = EvolveAll(world, s, d.events) /\ base.pos = d.pos
        /\ sibling.state = EvolveAll(world, t, e.events)
    BY <1>2, <2>1 DEF Handle
  <2>. QED BY <2>2, <2>3 DEF DecisionOK
<1>7. Alike(base.state, sibling.state, leak.perturbed)
  BY <1>2, <1>4, <1>5, <1>3, HandledAlike
<1>8. LeakOK'
  <2>1. PICK k, P : k = leak.steps /\ P = leak.perturbed
    OBVIOUS
  <2>2. leak = [steps |-> k, at |-> pos, perturbed |-> P, base |-> s, sibling |-> t]
    BY <1>1, <2>1 DEF LeakOK
  <2>3. PICK x, y, at : x = base.state /\ y = sibling.state /\ at = base.pos
    OBVIOUS
  <2>4. leak' = [steps |-> k + 1, at |-> at, perturbed |-> P, base |-> x, sibling |-> y]
    BY <1>3, <2>1, <2>2, <2>3
  <2>5. /\ leak'.steps = k + 1 /\ leak'.at = at /\ leak'.perturbed = P /\ leak'.base = x
        /\ leak'.sibling = y
        /\ leak' = [steps |-> leak'.steps, at |-> leak'.at, perturbed |-> leak'.perturbed,
                    base |-> leak'.base, sibling |-> leak'.sibling]
    BY <2>4
  <2>6. k + 1 \in 0 .. MaxLeakSteps
    BY <1>3, <1>4, <2>1, StepsAssumption
  <2>7. /\ StateOK(world, x) /\ StateOK(world, y) /\ at \in Nat /\ Alike(x, y, P)
    BY <1>6, <1>7, <2>1, <2>3
  <2>8. world' = world
    BY <1>3
  <2>. QED BY <1>4, <2>5, <2>6, <2>7, <2>8 DEF LeakOK
<1>9. TrailOK'
  BY <1>3 DEF TrailOK
<1>10. TwinOK'
  BY <1>3 DEF TwinOK, Reference
<1>11. FaultedOK'
  BY <1>3 DEF FaultedOK
<1>. QED BY <1>8, <1>9, <1>10, <1>11

-----------------------------------------------------------------------------
(* The theorems.                                                           *)

LEMMA InitKeeps ==
  ASSUME Init
  PROVE  IInv
<1>1. PICK run, s, fresh, none :
        /\ run = NewRun(world) /\ s = InitialState[world.aggregate] /\ fresh = <<run>>
        /\ none = <<>>
  OBVIOUS
<1>2. /\ world \in Worlds /\ mode = "recording" /\ commands = none /\ trail = fresh
      /\ twin = NewTwin /\ faulted = [run |-> run, step |-> 0] /\ armed = FALSE /\ branch = {}
      /\ leak = NoLeakTest
  BY <1>1 DEF Init
<1>3. RunOK(world, run) /\ StateOK(world, s)
  BY <1>1, <1>2, NewRunOK, StartsOK
<1>4. Len(fresh) = 1 /\ fresh[1] = run /\ IsSeq(fresh) /\ Last(fresh) = run
  <2>1. Len(fresh) = 1 /\ fresh[1] = run /\ DOMAIN fresh = {1}
    BY <1>1
  <2>2. fresh \in Seq({fresh[i] : i \in DOMAIN fresh})
    <3>1. {fresh[i] : i \in DOMAIN fresh} = {run}
      BY <2>1
    <3>2. \A E : run \in E => <<run>> \in Seq(E)
      OBVIOUS
    <3>. QED BY <1>1, <3>1, <3>2
  <2>. QED BY <2>1, <2>2 DEF IsSeq, Last
<1>5. Len(commands) = 0 /\ commands \in Seq(Command[world.aggregate])
  BY <1>1, <1>2
<1>6. TrailOK
  <2>1. \A i \in 1 .. 1 : i = 1
    OBVIOUS
  <2>2. 0 + 1 = 1
    OBVIOUS
  <2>. QED BY <1>1, <1>2, <1>3, <1>4, <1>5, <2>1, <2>2 DEF TrailOK
<1>7. TwinOK
  <2>1. Reference = run
    BY <1>2, <1>4 DEF Reference
  <2>2. run.journal.records = <<>> /\ run.state = s
    BY <1>1 DEF NewRun, M!NewStream
  <2>. QED BY <1>1, <1>2, <2>1, <2>2 DEF TwinOK, NewTwin, L!NewLog
<1>8. FaultedOK
  <2>1. faulted.run = run /\ faulted.step = 0 /\ trail[0 + 1] = run /\ 0 \in 0 .. 0
    BY <1>2, <1>4
  <2>. QED BY <1>2, <1>5, <2>1 DEF FaultedOK
<1>9. LeakOK
  <2>1. leak = [steps |-> 0, at |-> 0, perturbed |-> {}, base |-> s, sibling |-> s]
    BY <1>1, <1>2 DEF NoLeakTest
  <2>2. 0 \in 0 .. MaxLeakSteps /\ mode # "leak"
    BY <1>2, StepsAssumption
  <2>3. /\ leak.steps = 0 /\ leak.at = 0 /\ leak.base = s /\ leak.sibling = s
        /\ leak = [steps |-> leak.steps, at |-> leak.at, perturbed |-> leak.perturbed,
                   base |-> leak.base, sibling |-> leak.sibling]
    BY <2>1
  <2>. QED BY <1>3, <2>2, <2>3 DEF LeakOK
<1>. QED BY <1>6, <1>7, <1>8, <1>9 DEF IInv

LEMMA NextKeeps ==
  ASSUME IInv, [Next]_vars
  PROVE  IInv'
<1>1. CASE \E cmd \in CommandStrategy(world, Reference.state) : Record(cmd)
  BY <1>1, RecordKeeps
<1>2. CASE StartFaults
  <2>1. /\ mode = "recording" /\ mode' = "faulted"
        /\ UNCHANGED <<world, commands, trail, twin, faulted, armed, branch, leak>>
    BY <1>2 DEF StartFaults
  <2>2. TrailOK' /\ TwinOK' /\ FaultedOK' /\ LeakOK'
    <3>1. TrailOK'
      BY <2>1 DEF TrailOK, IInv
    <3>2. TwinOK'
      BY <2>1 DEF TwinOK, Reference, IInv
    <3>3. FaultedOK'
      BY <2>1 DEF FaultedOK, IInv
    <3>4. LeakOK'
      BY <2>1 DEF LeakOK, IInv
    <3>. QED BY <3>1, <3>2, <3>3, <3>4
  <2>. QED BY <2>2 DEF IInv
<1>3. CASE PlainStep
  BY <1>3, PlainStepKeeps
<1>4. CASE FailAppendStep
  BY <1>4, FailAppendStepKeeps
<1>5. CASE CrashResumeStep
  BY <1>5, CrashResumeStepKeeps
<1>6. CASE ForkContinueStep
  BY <1>6, ForkContinueStepKeeps
<1>7. CASE \E p \in HiddenInfo!Participant, w \in Worlds : BeginLeak(p, w.tape)
  BY <1>7, BeginLeakKeeps
<1>8. CASE \E cmd \in CommandStrategy(world, leak.base) : LeakStep(cmd)
  BY <1>8, LeakStepKeeps
<1>9. CASE UNCHANGED vars
  <2>1. TrailOK'
    BY <1>9 DEF TrailOK, IInv, vars
  <2>2. TwinOK'
    BY <1>9 DEF TwinOK, Reference, IInv, vars
  <2>3. FaultedOK'
    BY <1>9 DEF FaultedOK, IInv, vars
  <2>4. LeakOK'
    BY <1>9 DEF LeakOK, IInv, vars
  <2>. QED BY <2>1, <2>2, <2>3, <2>4 DEF IInv
<1>. QED BY <1>1, <1>2, <1>3, <1>4, <1>5, <1>6, <1>7, <1>8, <1>9 DEF Next

\* The inductive invariant holds of every simulation (the loop of
\* `run_scenario`, sim.rs, and what it drives).
THEOREM Inductive == Spec => []IInv
<1>1. Init => IInv
  BY InitKeeps
<1>2. IInv /\ [Next]_vars => IInv'
  BY NextKeeps
<1>. QED BY <1>1, <1>2, PTL DEF Spec

\* Every state of every run has its type: a balance is not negative, a chest's
\* draws and loot add up, a hand holds cards (the `Evolve` of each example).
THEOREM TypeCorrect == Spec => []TypeOK
<1>1. ASSUME IInv PROVE TypeOK
  <2> USE DEF IInv
  <2>1. world \in Worlds /\ RunOK(world, Reference)
    BY <1>1, ReferenceOK DEF TrailOK
  <2>2. PICK n \in Nat : n = Len(commands) /\ Len(trail) = n + 1
    BY <1>1 DEF TrailOK
  <2>3. RunOK(world, faulted.run)
    <3>1. faulted.step + 1 \in 1 .. n + 1
      BY <1>1, <2>2 DEF FaultedOK
    <3>. QED BY <1>1, <2>2, <3>1 DEF FaultedOK, TrailOK
  <2>4. /\ StateOK(world, Reference.state) /\ StateOK(world, twin.state)
        /\ StateOK(world, faulted.run.state)
        /\ StateOK(world, leak.base) /\ StateOK(world, leak.sibling)
    <3>1. twin.state = Reference.state
      BY <1>1 DEF TwinOK
    <3>. QED BY <1>1, <2>1, <2>3, <3>1 DEF RunOK, LeakOK
  <2>5. \A s \in {Reference.state, twin.state, faulted.run.state, leak.base, leak.sibling} : Sound(s)
    BY <2>1, <2>4, StatesAreSound
  <2>6. \A i \in DOMAIN commands : commands[i] \in Command[world.aggregate]
    BY <1>1 DEF TrailOK
  <2>7. \A s \in branch : s.phase \in PhaseMachine[world.aggregate].states
    BY <1>1, <2>1, <2>4, StatesAreSound DEF FaultedOK
  <2>8. /\ mode \in {"recording", "faulted", "leak"} /\ armed \in BOOLEAN
        /\ faulted.step \in 0 .. Len(commands) /\ leak.steps \in 0 .. MaxLeakSteps
    BY <1>1 DEF FaultedOK, LeakOK
  <2>. QED BY <2>1, <2>2, <2>5, <2>6, <2>7, <2>8 DEF TypeOK
<1>. QED BY <1>1, Inductive, PTL

\* Whatever faults strike, and wherever, the run under them is the reference
\* run after each step, and so is what is resumed on a fork (`run_scenario`,
\* sim.rs).
THEOREM FaultsInvisible == Spec => []FaultsAreInvisible
<1>1. ASSUME IInv PROVE FaultsAreInvisible
  BY <1>1 DEF IInv, FaultedOK, FaultsAreInvisible
<1>. QED BY <1>1, Inductive, PTL

\* After any run of any of the aggregates the in-memory journal passes the
\* contract, and the log of the async-store example answers as it does
\* (`run_contract_forkable`, contract.rs).
THEOREM ContractPassed == Spec => []PassesContract
<1>1. ASSUME IInv PROVE PassesContract
  <2>1. RunOK(world, Reference)
    BY <1>1, ReferenceOK DEF IInv
  <2>2. Passes(world, Reference)
    BY <2>1, RunsPass
  <2>3. TwinAnswersAlike
    BY <1>1, <2>1, TwinsAnswerAlike DEF IInv
  <2>4. M!HeadSeq(Reference.journal) > 0 => TruncationPreservesResume(world, Reference.journal)
    BY <2>1, TruncationsResume
  <2>. QED BY <2>2, <2>3, <2>4 DEF PassesContract
<1>. QED BY <1>1, Inductive, PTL

\* Whatever command an aggregate is given, what it decides is legal hops of its
\* phase machine that keep its invariants (`run_test`, testkit.rs).
THEOREM HandledStepsLegal == Spec => []HandledStepsAreLegal
<1>1. ASSUME IInv PROVE HandledStepsAreLegal
  <2>1. RunOK(world, Reference) /\ world \in Worlds
    BY <1>1, ReferenceOK DEF IInv, TrailOK
  <2>2. StateOK(world, Reference.state) /\ HeadPos(Reference.journal) \in Nat
    BY <2>1, HeadsOK DEF RunOK
  <2>3. ASSUME NEW cmd \in Command[world.aggregate]
        PROVE  Lawful(world, Reference.state,
                      DecideOnly(world, Reference.state, cmd, HeadPos(Reference.journal)).events)
    BY <2>1, <2>2, DecisionsOK DEF DecisionOK
  <2>. QED BY <2>3 DEF HandledStepsAreLegal
<1>. QED BY <1>1, Inductive, PTL

\* Nobody sees a difference between two states that differ in what another
\* holds, then or after any commands that reveal nothing (`run_leak`,
\* testkit.rs).
THEOREM NothingLeaks == Spec => []NoLeak
<1>1. ASSUME IInv, mode = "leak",
             NEW q \in HiddenInfo!Participants(leak.base) \ leak.perturbed
      PROVE  HiddenInfo!ViewFor(leak.base, q) = HiddenInfo!ViewFor(leak.sibling, q)
  <2>1. PICK s, t : s = leak.base /\ t = leak.sibling
    OBVIOUS
  <2>2. MatchOK(s) /\ MatchOK(t) /\ Alike(s, t, leak.perturbed)
    BY <1>1, <2>1 DEF IInv, LeakOK, StateOK
  <2>3. PICK D : D = DOMAIN s.hands /\ D = DOMAIN t.hands
    <3>1. HiddenInfo!Participants(t) = HiddenInfo!Participants(s)
      BY <2>2 DEF Alike, HiddenInfo!Participants
    <3>. QED BY <2>2, <3>1 DEF MatchOK, MatchShape
  <2>4. \A p \in D : /\ Len(t.hands[p]) = Len(s.hands[p])
                     /\ p \notin leak.perturbed => t.hands[p] = s.hands[p]
    BY <2>2, <2>3 DEF Alike
  <2>5. HiddenInfo!ConcealCards(t.hands) = HiddenInfo!ConcealCards(s.hands)
    BY <2>3, <2>4 DEF HiddenInfo!ConcealCards
  <2>6. PICK residue : residue = HiddenInfo!ConcealCards(s.hands)
    OBVIOUS
  <2>7. HiddenInfo!RedactPerPrincipal(t.hands, residue, q)
          = HiddenInfo!RedactPerPrincipal(s.hands, residue, q)
    <3>1. \A p \in D \intersect {q} : t.hands[p] = s.hands[p]
      BY <1>1, <2>4
    <3>2. {t.hands[p] : p \in D \intersect {q}} = {s.hands[p] : p \in D \intersect {q}}
      BY <3>1
    <3>. QED BY <2>3, <3>2 DEF HiddenInfo!RedactPerPrincipal
  <2>8. HiddenInfo!RedactOwned(t.fabrication, HiddenInfo!ConcealSecret(t.fabrication), q)
          = HiddenInfo!RedactOwned(s.fabrication, HiddenInfo!ConcealSecret(s.fabrication), q)
    BY <1>1, <2>2 DEF Alike, HiddenInfo!RedactOwned, HiddenInfo!ConcealSecret
  <2>9. /\ t.phase = s.phase /\ t.board = s.board /\ t.participants = s.participants
        /\ t.turn = s.turn /\ t.decks = s.decks
    BY <2>2 DEF Alike
  <2>10. HiddenInfo!ViewFor(t, q) = HiddenInfo!ViewFor(s, q)
    BY <2>5, <2>6, <2>7, <2>8, <2>9 DEF HiddenInfo!ViewFor
  <2>. QED BY <2>1, <2>10
<1>2. IInv => NoLeak
  BY <1>1 DEF NoLeak
<1>. QED BY <1>2, Inductive, PTL

-----------------------------------------------------------------------------
(* The digest.                                                             *)

\* The run has no more commands than it may, and each of its states is within
\* as many steps of the start.
FitInv ==
  /\ Len(commands) <= MaxSteps[world.aggregate]
  /\ \A i \in 1 .. Len(trail) : StateFits(world, trail[i].state, i - 1)
  /\ StateFits(world, leak.base, MaxSteps["MatchState"] + leak.steps)
  /\ StateFits(world, leak.sibling, MaxSteps["MatchState"] + leak.steps)
  /\ world.aggregate # "MatchState" => leak.base = leak.sibling

\* What a step of the reference run leaves fits.
LEMMA RunsKeepFit ==
  ASSUME NEW w \in Worlds, NEW run, RunOK(w, run), NEW cmd \in CommandStrategy(w, run.state),
         NEW k \in Nat, StateFits(w, run.state, k)
  PROVE  StateFits(w, Step(w, run, cmd).state, k + 1)
<1>1. PICK d, pos : pos = HeadPos(run.journal) /\ d = DecideOnly(w, run.state, cmd, pos)
  OBVIOUS
<1>2. pos \in Nat /\ StateOK(w, run.state)
  BY <1>1, HeadsOK DEF RunOK
<1>3. Step(w, run, cmd) = Tried(w, run, cmd, pos).run
  BY <1>1, StepIs
<1>4. CASE ~d.accepted
  <2>1. Step(w, run, cmd) = run
    <3>1. ~DecideOnly(w, run.state, cmd, pos).accepted
      BY <1>1, <1>4
    <3>2. Tried(w, run, cmd, pos) = [outcome |-> "Rejected", run |-> run, pos |-> pos]
      BY <3>1, Rejects
    <3>. QED BY <1>3, <3>2
  <2>2. StateFits(w, run.state, k + 1)
    BY <1>2, FitsLater
  <2>. QED BY <2>1, <2>2
<1>5. CASE d.accepted
  <2>1. PICK journal, state, last : /\ journal = M!AppendRecord(run.journal, d.events, d.pos)
                                    /\ state = EvolveAll(w, run.state, d.events)
                                    /\ last = [seq |-> M!HeadSeq(journal),
                                               digest |-> Digest128(w, state)]
    OBVIOUS
  <2>2. Step(w, run, cmd)
          = [journal |-> journal, state |-> state, steps |-> Append(run.steps, last)]
    BY <1>1, <1>3, <1>5, <2>1, Appends
  <2>3. Step(w, run, cmd).state = state
    BY <2>2
  <2>4. StateFits(w, state, k + 1)
    BY <1>1, <1>2, <2>1, StepsKeepFit
  <2>. QED BY <2>3, <2>4
<1>. QED BY <1>4, <1>5

LEMMA InitFits ==
  ASSUME Init
  PROVE  FitInv
<1>1. PICK run, s : /\ run = NewRun(world) /\ s = InitialState[world.aggregate]
  OBVIOUS
<1>2. /\ world \in Worlds /\ commands = <<>> /\ trail = <<run>> /\ run.state = s
      /\ leak.steps = 0 /\ leak.base = s /\ leak.sibling = s
  BY <1>1 DEF Init, NewRun, NoLeakTest
<1>3. StateOK(world, s) /\ StateFits(world, s, 0)
  BY <1>1, <1>2, StartsOK, StartsFit
<1>4. PICK m \in Nat : m = MaxSteps["MatchState"] /\ MaxSteps[world.aggregate] \in Nat
  BY <1>2, WorldFacts, StepsAssumption DEF Name
<1>5. PICK none \in Nat : none = 0
  OBVIOUS
<1>6. StateFits(world, s, none + m) /\ none + m = m + 0
  <2>1. StateFits(world, s, none)
    BY <1>3, <1>5
  <2>. QED BY <1>2, <1>3, <1>4, <1>5, <2>1, FitsLater, SMTT(30)
<1>7. Len(commands) = 0
  BY <1>2
<1>8. \A i \in 1 .. Len(trail) : StateFits(world, trail[i].state, i - 1)
  <2>1. PICK fresh : fresh = <<run>>
    OBVIOUS
  <2>2. Len(fresh) = 1 /\ fresh[1] = run
    BY <2>1
  <2>3. \A i \in 1 .. 1 : i = 1 /\ i - 1 = 0
    OBVIOUS
  <2>. QED BY <1>2, <1>3, <2>1, <2>2, <2>3
<1>. QED BY <1>2, <1>4, <1>6, <1>7, <1>8 DEF FitInv

\* Recording a command.
LEMMA RecordKeepsFit ==
  ASSUME IInv, FitInv, NEW cmd \in CommandStrategy(world, Reference.state), Record(cmd)
  PROVE  FitInv'
<1>1. PICK n \in Nat : n = Len(commands) /\ Reference = trail[n + 1] /\ RunOK(world, Reference)
  BY ReferenceOK DEF IInv
<1>2. PICK next, m : next = Step(world, Reference, cmd) /\ m = MaxSteps[world.aggregate]
  OBVIOUS
<1>3. /\ commands' = Append(commands, cmd) /\ trail' = Append(trail, next) /\ n # m
      /\ UNCHANGED <<world, leak>>
  BY <1>1, <1>2 DEF Record, Recorded
<1>4. world \in Worlds /\ IsSeq(trail) /\ Len(trail) = n + 1
      /\ commands \in Seq(Command[world.aggregate])
  BY <1>1 DEF IInv, TrailOK
<1>5. Len(commands') = n + 1
  BY <1>1, <1>3, <1>4
<1>6. n + 1 <= m
  <2>1. n <= m
    BY <1>1, <1>2 DEF FitInv
  <2>2. m \in Nat
    BY <1>2, <1>4, WorldFacts, StepsAssumption DEF Name
  <2>. QED BY <1>3, <2>1, <2>2
<1>7. Len(trail') = n + 2 /\ trail'[n + 2] = next /\ \A i \in 1 .. n + 1 : trail'[i] = trail[i]
  <2>1. (n + 1) + 1 = n + 2
    OBVIOUS
  <2>. QED BY <1>3, <1>4, <2>1, Grown
<1>8. StateFits(world, next.state, n + 1)
  <2>1. n + 1 \in 1 .. Len(trail) /\ (n + 1) - 1 = n
    BY <1>4
  <2>2. StateFits(world, Reference.state, n)
    BY <1>1, <2>1 DEF FitInv
  <2>. QED BY <1>1, <1>2, <1>4, <2>2, RunsKeepFit
<1>9. ASSUME NEW i \in 1 .. n + 2 PROVE StateFits(world, trail'[i].state, i - 1)
  <2>1. CASE i = n + 2
    <3>1. i - 1 = n + 1
      BY <2>1
    <3>. QED BY <1>7, <1>8, <2>1, <3>1
  <2>2. CASE i # n + 2
    <3>1. i \in 1 .. n + 1
      BY <2>2
    <3>. QED BY <1>4, <1>7, <3>1 DEF FitInv
  <2>. QED BY <2>1, <2>2
<1>10. world' = world /\ leak' = leak
  BY <1>3
<1>. QED BY <1>2, <1>5, <1>6, <1>7, <1>9, <1>10 DEF FitInv

\* Beginning a leak test: the sibling's secrets are as wide as the base's.
LEMMA BeginLeakKeepsFit ==
  ASSUME IInv, FitInv, NEW p \in HiddenInfo!Participant, NEW w \in Worlds, BeginLeak(p, w.tape)
  PROVE  FitInv'
<1>1. PICK s, t : s = Reference.state /\ t = HiddenInfo!ResampleHidden(s, p, w.tape, 0)
  OBVIOUS
<1>2. /\ world.aggregate = "MatchState" /\ p \in HiddenInfo!Participants(s)
      /\ commands' = <<>> /\ trail' = <<NewRun(world)>> /\ world' = world
      /\ leak'.steps = 0 /\ leak'.base = s /\ leak'.sibling = t
  BY <1>1 DEF BeginLeak
<1>3. PICK n \in Nat : n = Len(commands) /\ Reference = trail[n + 1] /\ RunOK(world, Reference)
                       /\ Len(trail) = n + 1 /\ world \in Worlds
  BY ReferenceOK DEF IInv, TrailOK
<1>4. StateOK(world, s) /\ MatchOK(s) /\ StateFits(world, s, n)
  <2>1. n + 1 \in 1 .. Len(trail) /\ (n + 1) - 1 = n
    BY <1>3
  <2>2. StateFits(world, Reference.state, n)
    BY <1>3, <2>1 DEF FitInv
  <2>. QED BY <1>1, <1>2, <1>3, <2>2 DEF RunOK, StateOK
<1>5. PICK m \in Nat : m = MaxSteps["MatchState"] /\ n <= m
  BY <1>2, <1>3, StepsAssumption DEF FitInv, Name
<1>6. StateFits(world, s, m)
  <2>1. m - n \in Nat /\ n + (m - n) = m
    BY <1>5
  <2>. QED BY <1>3, <1>4, <2>1, FitsLater
<1>7. MatchOK(t) /\ Alike(s, t, {p})
      /\ (t.fabrication.value = s.fabrication.value \/ t.fabrication.value \in 0 .. Tokens - 1)
  BY <1>1, <1>2, <1>4, ResampleOK
<1>8. MatchFits(s, m)
  BY <1>2, <1>6 DEF StateFits
<1>9. MatchFits(t, m)
  <2>1. HiddenInfo!Participants(t) = HiddenInfo!Participants(s)
    BY <1>7 DEF Alike, HiddenInfo!Participants
  <2>2. DOMAIN t.hands = DOMAIN s.hands
    BY <1>4, <1>7, <2>1 DEF MatchOK, MatchShape
  <2>3. \A q \in DOMAIN t.hands : Len(t.hands[q]) <= m
    BY <1>7, <1>8, <2>2 DEF Alike, MatchFits
  <2>4. t.fabrication.value \in 0 .. Tokens - 1 /\ t.fabrication.owner = 0
    BY <1>7, <1>8 DEF Alike, MatchFits
  <2>5. /\ t.board = s.board /\ t.turn = s.turn /\ t.participants = s.participants
        /\ t.decks = s.decks
    BY <1>7 DEF Alike
  <2>. QED BY <1>8, <2>1, <2>3, <2>4, <2>5 DEF MatchFits
<1>10. /\ StateFits(world, leak'.base, m + leak'.steps)
       /\ StateFits(world, leak'.sibling, m + leak'.steps)
  <2>1. m + 0 = m
    BY <1>5
  <2>2. StateFits(world, t, m)
    BY <1>2, <1>9 DEF StateFits
  <2>. QED BY <1>2, <1>6, <2>1, <2>2
<1>11. Len(commands') = 0 /\ MaxSteps[world.aggregate] \in Nat
  BY <1>2, StepsAssumption DEF Name
<1>12. \A i \in 1 .. Len(trail') : StateFits(world, trail'[i].state, i - 1)
  <2>1. PICK run, fresh : run = NewRun(world) /\ fresh = <<run>>
    OBVIOUS
  <2>2. Len(fresh) = 1 /\ fresh[1] = run
    BY <2>1
  <2>3. \A i \in 1 .. 1 : i = 1 /\ i - 1 = 0
    OBVIOUS
  <2>4. StateFits(world, run.state, 0)
    <3>1. run.state = InitialState[world.aggregate]
      BY <2>1 DEF NewRun
    <3>. QED BY <1>3, <3>1, StartsFit
  <2>. QED BY <1>2, <2>1, <2>2, <2>3, <2>4
<1>. QED BY <1>2, <1>5, <1>10, <1>11, <1>12 DEF FitInv

\* A step of a leak test: the strategy offers both what it offers the base.
LEMMA LeakStepKeepsFit ==
  ASSUME IInv, FitInv, NEW cmd \in CommandStrategy(world, leak.base), LeakStep(cmd)
  PROVE  FitInv'
<1>1. PICK s, t, pos, k : /\ s = leak.base /\ t = leak.sibling /\ pos = leak.at
                          /\ k = leak.steps
  OBVIOUS
<1>2. PICK d, e : d = DecideOnly(world, s, cmd, pos) /\ e = DecideOnly(world, t, cmd, pos)
  OBVIOUS
<1>3. PICK x, y : x = EvolveAll(world, s, d.events) /\ y = EvolveAll(world, t, e.events)
  OBVIOUS
<1>4. /\ mode = "leak" /\ UNCHANGED <<world, commands, trail>>
      /\ leak' = [leak EXCEPT !.steps = @ + 1, !.at = d.pos, !.base = x, !.sibling = y]
  BY <1>1, <1>2, <1>3 DEF LeakStep, Handle
<1>5. /\ world \in Worlds /\ world.aggregate = "MatchState" /\ k \in Nat /\ pos \in Nat
      /\ StateOK(world, s) /\ StateOK(world, t) /\ Alike(s, t, leak.perturbed)
      /\ leak = [steps |-> leak.steps, at |-> leak.at, perturbed |-> leak.perturbed,
                 base |-> leak.base, sibling |-> leak.sibling]
  BY <1>1, <1>4, StepsAssumption DEF IInv, LeakOK, TrailOK
<1>6. leak'.steps = k + 1 /\ leak'.base = x /\ leak'.sibling = y
  BY <1>1, <1>4, <1>5
<1>7. PICK m \in Nat : m = MaxSteps["MatchState"]
  BY StepsAssumption DEF Name
<1>8. StateFits(world, s, m + k) /\ StateFits(world, t, m + k)
  BY <1>1, <1>7 DEF FitInv
<1>9. cmd \in CommandStrategy(world, s) /\ cmd \in CommandStrategy(world, t)
  <2>1. /\ t.phase = s.phase /\ t.participants = s.participants /\ t.turn = s.turn
    BY <1>5 DEF Alike
  <2>2. HiddenInfo!Active(t) = HiddenInfo!Active(s)
    BY <2>1 DEF HiddenInfo!Active
  <2>3. HiddenInfo!Strategy(t) = HiddenInfo!Strategy(s)
    BY <2>1, <2>2 DEF HiddenInfo!Strategy
  <2>. QED BY <1>1, <1>5, <2>3 DEF CommandStrategy
<1>10. m + k \in Nat /\ (m + k) + 1 = m + (k + 1)
  BY <1>5, <1>7
<1>11. StateFits(world, x, (m + k) + 1)
  BY <1>2, <1>3, <1>5, <1>8, <1>9, <1>10, StepsKeepFit
<1>12. StateFits(world, y, (m + k) + 1)
  BY <1>2, <1>3, <1>5, <1>8, <1>9, <1>10, StepsKeepFit
<1>13. world' = world /\ commands' = commands /\ trail' = trail
  BY <1>4
<1>. QED BY <1>5, <1>6, <1>7, <1>10, <1>11, <1>12, <1>13 DEF FitInv

LEMMA NextKeepsFit ==
  ASSUME IInv, FitInv, [Next]_vars
  PROVE  FitInv'
<1>1. CASE \E cmd \in CommandStrategy(world, Reference.state) : Record(cmd)
  BY <1>1, RecordKeepsFit
<1>2. CASE \E p \in HiddenInfo!Participant, w \in Worlds : BeginLeak(p, w.tape)
  BY <1>2, BeginLeakKeepsFit
<1>3. CASE \E cmd \in CommandStrategy(world, leak.base) : LeakStep(cmd)
  BY <1>3, LeakStepKeepsFit
<1>4. CASE \/ StartFaults \/ PlainStep \/ FailAppendStep \/ CrashResumeStep \/ ForkContinueStep
           \/ UNCHANGED vars
  <2>1. UNCHANGED <<world, commands, trail, leak>>
    BY <1>4 DEF StartFaults, PlainStep, FailAppendStep, CrashResumeStep, ForkContinueStep,
                Advance, vars
  <2>2. world' = world /\ commands' = commands /\ trail' = trail /\ leak' = leak
    BY <2>1
  <2>. QED BY <2>2 DEF FitInv
<1>. QED BY <1>1, <1>2, <1>3, <1>4 DEF Next

\* Two states of a run that fit have one digest only if they are the same.
LEMMA DigestsDiffer ==
  ASSUME NEW w \in Worlds, NEW k, k \in Nat,
         w.aggregate = "Account" => k = MaxSteps["Account"],
         w.aggregate = "MatchState" => Bytes!FitsIn(k, 8),
         NEW s, StateOK(w, s), StateFits(w, s, k), NEW t, StateOK(w, t), StateFits(w, t, k),
         Digest128(w, s) = Digest128(w, t)
  PROVE  s = t
<1>1. CASE w.aggregate = "Account"
  <2>1. s \in AccountState /\ t \in AccountState /\ Ledger!Encode(s) = Ledger!Encode(t)
    BY <1>1 DEF StateOK, Digest128
  <2>2. ASSUME NEW b \in Nat, NEW c \in Cents \union {0}, b <= c * k
        PROVE  Bytes!FitsIn(b, 8)
    <3>1. CASE c \in Cents
      <4>1. Bytes!FitsIn(c * k, 8)
        BY <1>1, <3>1, WidthsAssumption
      <4>2. c * k \in Nat
        BY <4>1 DEF Bytes!FitsIn
      <4>3. b \in 0 .. c * k
        BY <2>2, <4>2
      <4>. QED BY <4>1, <4>3, SmallerFits
    <3>2. CASE c = 0
      <4>1. 0 * k = 0
        OBVIOUS
      <4>2. b = 0
        BY <2>2, <3>2, <4>1
      <4>. QED BY <4>2, BytesFit
    <3>. QED BY <3>1, <3>2
  <2>3. s.balance_cents \in Nat /\ t.balance_cents \in Nat
    BY <2>1 DEF AccountState
  <2>4. Bytes!FitsIn(s.balance_cents, 8) /\ Bytes!FitsIn(t.balance_cents, 8)
    BY <1>1, <2>2, <2>3 DEF StateFits, AccountFits
  <2>. QED BY <2>1, <2>4, AccountsTellApart
<1>2. CASE w.aggregate = "Chest"
  <2>1. s \in ChestState /\ t \in ChestState /\ CatalogCtx!Encode(s) = CatalogCtx!Encode(t)
    BY <1>2 DEF StateOK, Digest128
  <2>. QED BY <2>1, ChestsTellApart
<1>3. CASE w.aggregate = "MatchState"
  <2>1. /\ MatchOK(s) /\ MatchOK(t) /\ HiddenInfo!Encode(s) = HiddenInfo!Encode(t)
        /\ MatchFits(s, k) /\ MatchFits(t, k) /\ Bytes!FitsIn(k, 8)
    BY <1>3 DEF StateOK, Digest128, StateFits
  <2>. QED BY <2>1, MatchesTellApart
<1>. QED BY <1>1, <1>2, <1>3, WorldFacts

\* The digest that every comparison of the harness looks at tells apart any two
\* states of a run, and a state from its sibling (stablehash.rs).
THEOREM DigestsTellApart == Spec => []DigestTellsStatesApart
<1>1. Init => IInv /\ FitInv
  BY InitKeeps, InitFits
<1>2. (IInv /\ FitInv) /\ [Next]_vars => (IInv /\ FitInv)'
  BY NextKeeps, NextKeepsFit
<1>3. ASSUME IInv, FitInv PROVE DigestTellsStatesApart
  <2>1. PICK n \in Nat : n = Len(commands) /\ Reference = trail[n + 1] /\ Len(trail) = n + 1
                         /\ world \in Worlds /\ \A i \in 1 .. n + 1 : RunOK(world, trail[i])
    BY <1>3, ReferenceOK DEF IInv, TrailOK
  <2>2. PICK m \in Nat : m = MaxSteps[world.aggregate] /\ n <= m
    BY <1>3, <2>1, WorldFacts, StepsAssumption DEF FitInv, Name
  <2>3. ASSUME NEW i \in 1 .. n + 1
        PROVE  StateOK(world, trail[i].state) /\ StateFits(world, trail[i].state, m)
    <3>1. StateOK(world, trail[i].state) /\ StateFits(world, trail[i].state, i - 1)
      BY <1>3, <2>1 DEF RunOK, FitInv
    <3>2. i - 1 \in Nat /\ m - (i - 1) \in Nat /\ (i - 1) + (m - (i - 1)) = m
      BY <2>2
    <3>. QED BY <2>1, <3>1, <3>2, FitsLater
  <2>4. PICK l \in Nat : l = MaxSteps["MatchState"] + MaxLeakSteps /\ Bytes!FitsIn(l, 8)
    BY StepsAssumption, WidthsAssumption DEF Name
  <2>5. world.aggregate = "MatchState" => Bytes!FitsIn(m, 8)
    <3>1. world.aggregate = "MatchState" => m \in 0 .. l
      BY <2>2, <2>4, StepsAssumption DEF Name
    <3>. QED BY <2>4, <3>1, SmallerFits
  <2>6. ASSUME NEW i \in DOMAIN trail,
               Digest128(world, trail[i].state) = Digest128(world, Reference.state)
        PROVE  trail[i].state = Reference.state
    <3>1. i \in 1 .. n + 1 /\ n + 1 \in 1 .. n + 1
      BY <1>3, <2>1 DEF IInv, TrailOK, IsSeq
    <3>2. PICK s, t : s = trail[i].state /\ t = Reference.state
      OBVIOUS
    <3>3. /\ StateOK(world, s) /\ StateFits(world, s, m)
          /\ StateOK(world, t) /\ StateFits(world, t, m)
      BY <2>1, <2>3, <3>1, <3>2
    <3>4. s = t
      BY <2>1, <2>2, <2>5, <2>6, <3>2, <3>3, DigestsDiffer
    <3>. QED BY <3>2, <3>4
  <2>7. ASSUME Digest128(world, leak.base) = Digest128(world, leak.sibling)
        PROVE  leak.base = leak.sibling
    <3>1. PICK s, t, k : s = leak.base /\ t = leak.sibling /\ k = leak.steps
      OBVIOUS
    <3>2. /\ StateOK(world, s) /\ StateOK(world, t) /\ k \in 0 .. MaxLeakSteps
          /\ mode = "leak" => world.aggregate = "MatchState"
      BY <1>3, <3>1 DEF IInv, LeakOK
    <3>3. CASE world.aggregate = "MatchState"
      <4>1. PICK j \in Nat : j = MaxSteps["MatchState"] + k
        BY <3>2, StepsAssumption DEF Name
      <4>2. StateFits(world, s, j) /\ StateFits(world, t, j)
        BY <1>3, <3>1, <4>1 DEF FitInv
      <4>3. Bytes!FitsIn(j, 8)
        <5>1. j \in 0 .. l
          BY <2>4, <3>2, <4>1, StepsAssumption DEF Name
        <5>. QED BY <2>4, <5>1, SmallerFits
      <4>. QED BY <2>1, <2>7, <3>1, <3>2, <3>3, <4>2, <4>3, DigestsDiffer
    <3>4. CASE world.aggregate # "MatchState"
      BY <1>3, <3>4 DEF FitInv
    <3>. QED BY <3>3, <3>4
  <2>. QED BY <2>6, <2>7 DEF DigestTellsStatesApart
<1>. QED BY <1>1, <1>2, <1>3, PTL DEF Spec
=============================================================================
