----------------------------- MODULE MachineProofs -----------------------------
(***************************************************************************)
(* What is proved of every set of lineages, every bound and every run: the *)
(* searches of `analyze!` and the walks of `test!` find the same, since    *)
(* either finds the least set closed under the edges; what the report      *)
(* claims comes true; the probes agree with `apply`, the listeners hear    *)
(* what happened, and the path of the upgrades does not matter.            *)
(***************************************************************************)
EXTENDS Machine, InductionLemmas, SequenceTheorems

-----------------------------------------------------------------------------
(* The searches of the analysis.                                           *)

\* Edges between states of a definition.
EdgesOf(d) == SUBSET (d.states \X d.states)

\* What a search keeps closed once it is through.
Closed(C, edges) == \A edge \in edges : edge[1] \in C => edge[2] \in C

Unseen(d, w) == d.states \ w.seen

Work(d, w) == Cardinality(Unseen(d, w)) + Cardinality(Unseen(d, w)) + Cardinality(w.stack)

NewOf(w, edges, i) ==
  {x \in {edge[2] : edge \in {y \in edges : y[1] = i}} : x \notin w.seen}

\* One turn of a search takes a state off the stack and adds those it leads to.
LEMMA ExpandIs ==
  ASSUME NEW d, NEW edges \in EdgesOf(d), NEW w \in SearchState(d), w.stack # {}
  PROVE  \E i \in w.stack :
           /\ Expand(w, edges) = [seen  |-> w.seen \union NewOf(w, edges, i),
                                  stack |-> (w.stack \ {i}) \union NewOf(w, edges, i)]
           /\ NewOf(w, edges, i) \subseteq Unseen(d, w)
           /\ \A x : x \in NewOf(w, edges, i) <=>
                       x \notin w.seen /\ \E edge \in edges : edge[1] = i /\ edge[2] = x
           /\ Expand(w, edges) \in SearchState(d)
<1>1. PICK i : i = CHOOSE s \in w.stack : TRUE
  OBVIOUS
<1>2. i \in w.stack
  BY <1>1
<1>3. PICK new : new = NewOf(w, edges, i)
  OBVIOUS
<1>4. Expand(w, edges) = [seen |-> w.seen \union new, stack |-> (w.stack \ {i}) \union new]
  BY <1>1, <1>3 DEF Expand, NewOf
<1>5. \A x : x \in new <=> x \notin w.seen /\ \E edge \in edges : edge[1] = i /\ edge[2] = x
  BY <1>3 DEF NewOf
<1>6. new \subseteq Unseen(d, w)
  BY <1>5 DEF Unseen, EdgesOf
<1>7. Expand(w, edges) \in SearchState(d)
  BY <1>4, <1>6 DEF SearchState, Unseen
<1>. QED BY <1>2, <1>3, <1>4, <1>5, <1>6, <1>7

\* What is left to a search is bounded by the number of states.
LEMMA WorkType ==
  ASSUME NEW d, IsFiniteSet(d.states), NEW w \in SearchState(d)
  PROVE  /\ IsFiniteSet(Unseen(d, w)) /\ IsFiniteSet(w.stack)
         /\ Cardinality(Unseen(d, w)) \in Nat /\ Cardinality(w.stack) \in Nat
         /\ Cardinality(d.states) \in Nat
         /\ Work(d, w) \in Nat
         /\ Work(d, w) <= Cardinality(d.states) + Cardinality(d.states) + Cardinality(d.states)
<1>1. Unseen(d, w) \in SUBSET d.states /\ w.stack \in SUBSET d.states
  BY DEF Unseen, SearchState
<1>2. /\ IsFiniteSet(Unseen(d, w)) /\ Cardinality(Unseen(d, w)) <= Cardinality(d.states)
      /\ IsFiniteSet(w.stack) /\ Cardinality(w.stack) <= Cardinality(d.states)
  BY <1>1, FS_Subset
<1>3. /\ Cardinality(Unseen(d, w)) \in Nat /\ Cardinality(w.stack) \in Nat
      /\ Cardinality(d.states) \in Nat
  BY <1>2, FS_CardinalityType
<1>. QED BY <1>2, <1>3 DEF Work

\* Expanding a state takes work away, for a state is put on the stack only when it
\* is marked.
LEMMA ExpandWorks ==
  ASSUME NEW d, IsFiniteSet(d.states), NEW edges \in EdgesOf(d),
         NEW w \in SearchState(d), w.stack # {}
  PROVE  Work(d, Expand(w, edges)) < Work(d, w)
<1>1. PICK next \in SearchState(d) : next = Expand(w, edges)
  BY ExpandIs
<1>2. PICK i \in w.stack :
        /\ next = [seen  |-> w.seen \union NewOf(w, edges, i),
                   stack |-> (w.stack \ {i}) \union NewOf(w, edges, i)]
        /\ NewOf(w, edges, i) \subseteq Unseen(d, w)
  BY <1>1, ExpandIs
<1>3. PICK new : new = NewOf(w, edges, i)
  OBVIOUS
<1>4. new \in SUBSET Unseen(d, w) /\ IsFiniteSet(Unseen(d, w)) /\ IsFiniteSet(w.stack)
  BY <1>2, <1>3, WorkType
<1>5. IsFiniteSet(new) /\ Cardinality(new) \in Nat
  BY <1>4, FS_Subset, FS_CardinalityType
<1>6. Unseen(d, next) \union new = Unseen(d, w) /\ Unseen(d, next) \intersect new = {}
  BY <1>2, <1>3, <1>4 DEF Unseen
<1>7. Cardinality(Unseen(d, w)) = Cardinality(Unseen(d, next)) + Cardinality(new)
  <2>1. PICK u, v : u = Unseen(d, next) /\ v = Unseen(d, w)
    OBVIOUS
  <2>2. IsFiniteSet(u) /\ Cardinality(u) \in Nat
    BY <2>1, WorkType
  <2>3. Cardinality(u \union new) = Cardinality(u) + Cardinality(new) - Cardinality(u \intersect new)
    BY <1>5, <2>2, FS_Union
  <2>4. u \union new = v /\ u \intersect new = {}
    BY <1>6, <2>1
  <2>5. Cardinality({}) = 0
    BY FS_EmptySet
  <2>6. Cardinality(v) = Cardinality(u) + Cardinality(new) - Cardinality({})
    BY <2>3, <2>4, Zenon
  <2>7. Cardinality(v) = Cardinality(u) + Cardinality(new)
    BY <1>5, <2>2, <2>5, <2>6
  <2>. QED BY <2>1, <2>7
<1>8. Cardinality(next.stack) <= Cardinality(w.stack) - 1 + Cardinality(new)
  <2>1. IsFiniteSet(w.stack \ {i}) /\ Cardinality(w.stack \ {i}) = Cardinality(w.stack) - 1
    BY <1>4, FS_RemoveElement
  <2>2. Cardinality((w.stack \ {i}) \union new) =
          Cardinality(w.stack \ {i}) + Cardinality(new)
            - Cardinality((w.stack \ {i}) \intersect new)
    BY <1>5, <2>1, FS_Union
  <2>3. Cardinality((w.stack \ {i}) \intersect new) \in Nat
    BY <1>5, FS_Subset, FS_CardinalityType
  <2>4. Cardinality(w.stack) \in Nat
    BY WorkType
  <2>. QED BY <1>2, <1>3, <1>5, <2>1, <2>2, <2>3, <2>4
<1>. QED BY <1>1, <1>5, <1>7, <1>8, WorkType DEF Work
\* The search is a function that unfolds as it is written, since the work to do
\* falls with every state expanded.
LEMMA SearchUnfolds ==
  ASSUME NEW d, IsFiniteSet(d.states), NEW edges \in EdgesOf(d),
         NEW start \in SUBSET d.states
  PROVE  \E search :
           /\ \A w \in SearchState(d) :
                search[w] = IF w.stack = {} THEN w.seen ELSE search[Expand(w, edges)]
           /\ Search(d, start, edges) = search[[seen |-> start, stack |-> start]]
<1> DEFINE D(g) == [w \in SearchState(d) |->
                      IF w.stack = {} THEN w.seen ELSE g[Expand(w, edges)]]
           done == {w \in SearchState(d) : w.stack = {}}
           value == [w \in SearchState(d) |-> w.seen]
           next == [w \in SearchState(d) |-> IF w.stack = {} THEN w ELSE Expand(w, edges)]
           measure == [w \in SearchState(d) |-> Work(d, w)]
           bound == Cardinality(d.states) + Cardinality(d.states) + Cardinality(d.states)
           search == CHOOSE g : g = D(g)
<1>1. /\ value \in [SearchState(d) -> SUBSET d.states]
      /\ next \in [SearchState(d) -> SearchState(d)]
      /\ measure \in [SearchState(d) -> Nat]
      /\ \A w \in SearchState(d) : measure[w] <= bound
  BY ExpandIs, WorkType DEF SearchState
<1>2. bound \in Nat
  BY FS_CardinalityType
<1>3. FallsBelow(SearchState(d), done, next, measure, bound)
  BY <1>1, ExpandIs, ExpandWorks DEF FallsBelow
<1>4. PICK f \in [SearchState(d) -> SUBSET d.states] :
        Unrolls(f, SearchState(d), done, value, next)
  <2> HIDE DEF done, value, next, measure, bound
  <2>. QED BY <1>1, <1>2, <1>3, MeasuredRecursion
<1>5. D(f) = D(D(f))
  <2>1. \A w \in SearchState(d) : D(f)[w] = f[w]
    BY <1>4 DEF Unrolls
  <2>2. \A w \in SearchState(d) : w.stack # {} => Expand(w, edges) \in SearchState(d)
    BY ExpandIs
  <2>. QED BY <2>1, <2>2
<1>6. search = D(search)
  <2> HIDE DEF D
  <2>. QED BY <1>5
<1>7. Search(d, start, edges) = search[[seen |-> start, stack |-> start]]
  BY DEF Search
<1>8. \A w \in SearchState(d) :
        search[w] = IF w.stack = {} THEN w.seen ELSE search[Expand(w, edges)]
  <2> HIDE DEF search
  <2>. QED BY <1>6
<1> HIDE DEF search
<1>. QED BY <1>7, <1>8

\* A search that is under way: what waits is marked, and what was expanded leads
\* to what is marked.
UnderWay(w, edges) ==
  /\ w.stack \subseteq w.seen
  /\ \A edge \in edges : edge[1] \in w.seen \ w.stack => edge[2] \in w.seen

\* A turn keeps what is seen within every closed set, and closed but for the
\* stack.
LEMMA ExpandKeepsUnderWay ==
  ASSUME NEW d, NEW edges \in EdgesOf(d), NEW w \in SearchState(d), w.stack # {},
         UnderWay(w, edges)
  PROVE  /\ UnderWay(Expand(w, edges), edges)
         /\ w.seen \subseteq Expand(w, edges).seen
         /\ \A C : w.seen \subseteq C /\ Closed(C, edges) => Expand(w, edges).seen \subseteq C
<1>1. PICK i \in w.stack :
        /\ Expand(w, edges) = [seen  |-> w.seen \union NewOf(w, edges, i),
                               stack |-> (w.stack \ {i}) \union NewOf(w, edges, i)]
        /\ \A x : x \in NewOf(w, edges, i) <=>
                    x \notin w.seen /\ \E edge \in edges : edge[1] = i /\ edge[2] = x
  BY ExpandIs
<1>2. PICK new : new = NewOf(w, edges, i)
  OBVIOUS
<1>3. PICK next : next = Expand(w, edges)
  OBVIOUS
<1>4. next.seen = w.seen \union new /\ next.stack = (w.stack \ {i}) \union new
  BY <1>1, <1>2, <1>3
<1>5. \A x : x \in new <=> x \notin w.seen /\ \E edge \in edges : edge[1] = i /\ edge[2] = x
  BY <1>1, <1>2
<1>6. next.stack \subseteq next.seen
  BY <1>4 DEF UnderWay
<1>7. ASSUME NEW edge \in edges, edge[1] \in next.seen \ next.stack
      PROVE  edge[2] \in next.seen
  <2>1. CASE edge[1] = i
    BY <1>4, <1>5, <2>1
  <2>2. CASE edge[1] # i
    BY <1>4, <1>7, <2>2 DEF UnderWay
  <2>. QED BY <2>1, <2>2
<1>8. ASSUME NEW C, w.seen \subseteq C, Closed(C, edges) PROVE next.seen \subseteq C
  <2>1. i \in C
    BY <1>8 DEF UnderWay
  <2>. QED BY <1>4, <1>5, <1>8, <2>1 DEF Closed
<1>. QED BY <1>3, <1>4, <1>6, <1>7, <1>8 DEF UnderWay

\* What a search marks is the least set that holds its start and is closed under
\* the edges.
LEMMA SearchFinds ==
  ASSUME NEW d, IsFiniteSet(d.states), NEW edges \in EdgesOf(d),
         NEW start \in SUBSET d.states
  PROVE  /\ start \subseteq Search(d, start, edges)
         /\ Search(d, start, edges) \subseteq d.states
         /\ Closed(Search(d, start, edges), edges)
         /\ \A C : start \subseteq C /\ Closed(C, edges) => Search(d, start, edges) \subseteq C
<1>1. PICK search :
        /\ \A w \in SearchState(d) :
             search[w] = IF w.stack = {} THEN w.seen ELSE search[Expand(w, edges)]
        /\ Search(d, start, edges) = search[[seen |-> start, stack |-> start]]
  BY SearchUnfolds, SMTT(30)
<1> DEFINE Found(w) ==
             /\ w.seen \subseteq search[w]
             /\ search[w] \subseteq d.states
             /\ Closed(search[w], edges)
             /\ \A C : w.seen \subseteq C /\ Closed(C, edges) => search[w] \subseteq C
           T == {n \in Nat : \A w \in SearchState(d) :
                                UnderWay(w, edges) /\ Work(d, w) < n => Found(w)}
<1>2. 0 \in T
  <2>1. \A w \in SearchState(d) : ~(Work(d, w) < 0)
    BY WorkType
  <2>. QED BY <2>1
<1>3. ASSUME NEW n \in Nat, n \in T PROVE n + 1 \in T
  <2>1. ASSUME NEW w \in SearchState(d), UnderWay(w, edges), Work(d, w) < n + 1
        PROVE  Found(w)
    <3>1. CASE w.stack = {}
      <4>1. search[w] = w.seen
        BY <1>1, <3>1
      <4>. QED BY <2>1, <3>1, <4>1 DEF UnderWay, SearchState, Closed
    <3>2. CASE w.stack # {}
      <4>1. PICK next \in SearchState(d) : next = Expand(w, edges)
        BY <3>2, ExpandIs
      <4>2. Work(d, next) < Work(d, w) /\ Work(d, next) \in Nat /\ Work(d, w) \in Nat
        BY <3>2, <4>1, ExpandWorks, WorkType
      <4>3. Work(d, next) < n
        BY <2>1, <4>2
      <4>4. /\ UnderWay(next, edges)
            /\ w.seen \subseteq next.seen
            /\ \A C : w.seen \subseteq C /\ Closed(C, edges) => next.seen \subseteq C
        BY <2>1, <3>2, <4>1, ExpandKeepsUnderWay
      <4>5. Found(next)
        BY <1>3, <4>3, <4>4
      <4>6. search[w] = search[next]
        BY <1>1, <3>2, <4>1
      <4>. QED BY <4>4, <4>5, <4>6
    <3>. QED BY <3>1, <3>2
  <2> HIDE DEF Found
  <2>. QED BY <2>1
<1>4. \A n \in Nat : n \in T
  <2> HIDE DEF T
  <2>. QED BY <1>2, <1>3, SetInduction
<1>5. PICK w : w = [seen |-> start, stack |-> start]
  OBVIOUS
<1>6. w \in SearchState(d) /\ UnderWay(w, edges) /\ w.seen = start
  BY <1>5 DEF SearchState, UnderWay
<1>7. Work(d, w) \in Nat
  BY <1>6, WorkType
<1>8. Found(w)
  <2>1. Work(d, w) + 1 \in T
    BY <1>4, <1>7
  <2> HIDE DEF Found
  <2>. QED BY <1>6, <1>7, <2>1
<1>. QED BY <1>1, <1>5, <1>6, <1>8

-----------------------------------------------------------------------------
(* The edges, the walks, and where they lead.                              *)

\* The edges are the moves `could_apply` grants for some representative.
LEMMA EdgesAre ==
  ASSUME NEW d, WellTyped(d)
  PROVE  /\ Edges(d) \in EdgesOf(d)
         /\ \A s, t : <<s, t>> \in Edges(d) <=>
              \E e \in EventVariants(d) : CouldApply(d, s, e) /\ t = d.transition[<<s, e>>]
         /\ \A edge \in Edges(d) : edge = <<edge[1], edge[2]>>
<1>1. \A se \in DOMAIN d.transition :
        /\ se = <<se[1], se[2]>> /\ se[1] \in d.states /\ se[2] \in d.events
        /\ d.transition[se] \in d.states
  BY DEF WellTyped
<1>2. \A edge : edge \in Edges(d) <=>
         \E se \in DOMAIN d.transition :
           /\ se[2] \in EventVariants(d) /\ CouldApply(d, se[1], se[2])
           /\ edge = <<se[1], d.transition[se]>>
  BY <1>1 DEF Edges, Representative, StructurallyAllowed, CouldApply, HasTransition
<1>3. \A edge \in Edges(d) :
        edge = <<edge[1], edge[2]>> /\ edge[1] \in d.states /\ edge[2] \in d.states
  BY <1>1, <1>2
<1>4. Edges(d) \in EdgesOf(d)
  <2>1. \A edge \in Edges(d) : edge \in d.states \X d.states
    BY <1>3
  <2>. QED BY <2>1 DEF EdgesOf
<1>5. ASSUME NEW s, NEW t
      PROVE  <<s, t>> \in Edges(d) <=>
              \E e \in EventVariants(d) : CouldApply(d, s, e) /\ t = d.transition[<<s, e>>]
  <2>1. ASSUME <<s, t>> \in Edges(d)
        PROVE  \E e \in EventVariants(d) : CouldApply(d, s, e) /\ t = d.transition[<<s, e>>]
    <3>1. PICK se \in DOMAIN d.transition :
            /\ se[2] \in EventVariants(d) /\ CouldApply(d, se[1], se[2])
            /\ <<s, t>> = <<se[1], d.transition[se]>>
      BY <1>2, <2>1
    <3>2. s = se[1] /\ t = d.transition[se] /\ se = <<s, se[2]>>
      BY <1>1, <3>1
    <3>. QED BY <3>1, <3>2
  <2>2. ASSUME NEW e \in EventVariants(d), CouldApply(d, s, e), t = d.transition[<<s, e>>]
        PROVE  <<s, t>> \in Edges(d)
    <3>1. <<s, e>> \in DOMAIN d.transition
      BY <2>2 DEF CouldApply, HasTransition
    <3>2. <<s, e>>[1] = s /\ <<s, e>>[2] = e /\ t = d.transition[<<s, e>>]
      BY <2>2
    <3>. QED BY <1>2, <2>2, <3>1, <3>2
  <2>. QED BY <2>1, <2>2
<1>. QED BY <1>3, <1>4, <1>5

\* One more event leads along one more edge.
LEMMA WalkIs ==
  ASSUME NEW d, WellTyped(d), NEW from \in SUBSET d.states
  PROVE  /\ Walk(d, from) \in SUBSET d.states
         /\ \A t : t \in Walk(d, from) <=>
              t \in from \/ \E s \in from : <<s, t>> \in Edges(d)
<1>1. \A se \in from \X Testable(d) : se = <<se[1], se[2]>> /\ se[1] \in from
  OBVIOUS
<1>2. \A t : t \in Walk(d, from) <=>
        \/ t \in from
        \/ \E se \in from \X Testable(d) :
             CouldApply(d, se[1], se[2]) /\ t = d.transition[se]
  BY DEF Walk
<1>3. ASSUME NEW t
      PROVE  t \in Walk(d, from) <=>
              t \in from \/ \E s \in from : <<s, t>> \in Edges(d)
  <2>1. ASSUME NEW se \in from \X Testable(d), CouldApply(d, se[1], se[2]),
               t = d.transition[se]
        PROVE  \E s \in from : <<s, t>> \in Edges(d)
    <3>1. t = d.transition[<<se[1], se[2]>>] /\ se[1] \in from /\ se[2] \in EventVariants(d)
      BY <1>1, <2>1, SMTT(30) DEF Testable
    <3>. QED BY <2>1, <3>1, EdgesAre
  <2>2. ASSUME NEW s \in from, <<s, t>> \in Edges(d)
        PROVE  \E se \in from \X Testable(d) :
                 CouldApply(d, se[1], se[2]) /\ t = d.transition[se]
    <3>1. PICK e \in EventVariants(d) : CouldApply(d, s, e) /\ t = d.transition[<<s, e>>]
      BY <2>2, EdgesAre
    <3>2. PICK se : se = <<s, e>>
      OBVIOUS
    <3>3. se \in from \X Testable(d) /\ se[1] = s /\ se[2] = e /\ t = d.transition[se]
      BY <3>1, <3>2 DEF Testable
    <3>. QED BY <3>1, <3>3
  <2>. QED BY <1>2, <2>1, <2>2
<1>4. \A s, t : <<s, t>> \in Edges(d) => t \in d.states
  BY EdgesAre DEF EdgesOf
<1>. QED BY <1>3, <1>4

\* Going on from what is closed leads nowhere new, and from anything else it leads
\* somewhere.
LEMMA WalkStops ==
  ASSUME NEW d, WellTyped(d), NEW from \in SUBSET d.states
  PROVE  Closed(from, Edges(d)) <=> Walk(d, from) = from
<1>1. \A edge \in Edges(d) : edge = <<edge[1], edge[2]>>
  BY EdgesAre
<1>2. \A s, t : <<s, t>>[1] = s /\ <<s, t>>[2] = t
  OBVIOUS
<1>3. Closed(from, Edges(d)) <=>
        \A s, t : <<s, t>> \in Edges(d) /\ s \in from => t \in from
  BY <1>1, <1>2 DEF Closed
<1>. QED BY <1>3, WalkIs

\* The recursion of WalkedFrom has a value for as many rounds as there are
\* states.
LEMMA WalkedUnfolds ==
  ASSUME NEW d, WellTyped(d), NEW from \in SUBSET d.states
  PROVE  \E walked :
           /\ \A n \in 0 .. Cardinality(d.states) :
                walked[n] = IF n = 0 THEN from ELSE Walk(d, walked[n - 1])
           /\ WalkedFrom(d, from) = walked[Cardinality(d.states)]
<1> DEFINE N == Cardinality(d.states)
           D(g) == [n \in 0 .. N |-> IF n = 0 THEN from ELSE Walk(d, g[n - 1])]
           step == [i \in Int |-> [X \in SUBSET d.states |-> Walk(d, X)]]
           walked == CHOOSE g : g = D(g)
<1>1. N \in Nat
  BY FS_CardinalityType DEF WellTyped
<1>2. step \in [Int -> [SUBSET d.states -> SUBSET d.states]]
  BY WalkIs
<1>3. PICK f \in [0 .. N -> SUBSET d.states] : StepsFrom(f, from, step, 0, N)
  <2> HIDE DEF N, step
  <2>1. N \in Int /\ 0 \in Int
    BY <1>1
  <2>. QED BY <1>2, <2>1, IntervalRecursion
<1>4. \A n \in 0 .. N : n # 0 => n - 1 \in 0 .. N /\ n \in Int
  BY <1>1
<1>5. D(f) = D(D(f))
  <2>1. \A n \in 0 .. N : D(f)[n] = f[n]
    <3> HIDE DEF N
    <3>. QED BY <1>3, <1>4 DEF StepsFrom
  <2> HIDE DEF N
  <2>. QED BY <1>4, <2>1
<1>6. walked = D(walked)
  <2> HIDE DEF D
  <2>. QED BY <1>5
<1>7. WalkedFrom(d, from) = walked[N]
  BY DEF WalkedFrom
<1>8. \A n \in 0 .. N : walked[n] = IF n = 0 THEN from ELSE Walk(d, walked[n - 1])
  <2> HIDE DEF walked, N
  <2>. QED BY <1>6
<1> HIDE DEF walked
<1>. QED BY <1>7, <1>8

\* What the walks stand in is the least set that holds where they begin and is
\* closed under the edges: as many events as there are states are enough.
LEMMA WalksFind ==
  ASSUME NEW d, WellTyped(d), NEW from \in SUBSET d.states
  PROVE  /\ from \subseteq WalkedFrom(d, from)
         /\ WalkedFrom(d, from) \subseteq d.states
         /\ Closed(WalkedFrom(d, from), Edges(d))
         /\ \A C : from \subseteq C /\ Closed(C, Edges(d)) => WalkedFrom(d, from) \subseteq C
<1>1. PICK N : N = Cardinality(d.states)
  OBVIOUS
<1>2. IsFiniteSet(d.states) /\ N \in Nat
  BY <1>1, FS_CardinalityType DEF WellTyped
<1>3. PICK walked :
        /\ \A n \in 0 .. N : walked[n] = IF n = 0 THEN from ELSE Walk(d, walked[n - 1])
        /\ WalkedFrom(d, from) = walked[N]
  BY <1>1, WalkedUnfolds
<1> DEFINE Good(n) ==
             /\ from \subseteq walked[n]
             /\ walked[n] \subseteq d.states
             /\ \A C : from \subseteq C /\ Closed(C, Edges(d)) => walked[n] \subseteq C
             /\ Closed(walked[n], Edges(d)) \/ Cardinality(walked[n]) >= n
           T == {n \in 0 .. N : Good(n)}
<1>4. 0 \in T
  <2>1. walked[0] = from
    BY <1>2, <1>3
  <2>2. Cardinality(from) >= 0
    BY <1>2, FS_Subset, FS_CardinalityType
  <2>. QED BY <1>2, <2>1, <2>2
<1>5. ASSUME NEW n \in 0 .. N - 1, n \in T PROVE n + 1 \in T
  <2>1. n \in 0 .. N /\ n + 1 \in 0 .. N /\ n \in Nat
    BY <1>2
  <2>2. walked[n + 1] = Walk(d, walked[n])
    BY <1>3, <2>1
  <2>3. PICK now, next : now = walked[n] /\ next = walked[n + 1]
    OBVIOUS
  <2>4. /\ from \subseteq now /\ now \subseteq d.states
        /\ \A C : from \subseteq C /\ Closed(C, Edges(d)) => now \subseteq C
        /\ Closed(now, Edges(d)) \/ Cardinality(now) >= n
    BY <1>5, <2>3
  <2>5. /\ next \in SUBSET d.states
        /\ \A t : t \in next <=> t \in now \/ \E s \in now : <<s, t>> \in Edges(d)
    <3>1. now \in SUBSET d.states
      BY <2>4
    <3>2. next = Walk(d, now)
      BY <2>2, <2>3
    <3>. QED BY <3>1, <3>2, WalkIs
  <2>6. from \subseteq next /\ now \subseteq next
    BY <2>4, <2>5
  <2>7. ASSUME NEW C, from \subseteq C, Closed(C, Edges(d)) PROVE next \subseteq C
    <3>1. now \subseteq C
      BY <2>4, <2>7
    <3>2. \A s, t : <<s, t>>[1] = s /\ <<s, t>>[2] = t
      OBVIOUS
    <3>. QED BY <2>5, <2>7, <3>1, <3>2 DEF Closed
  <2>8. Closed(next, Edges(d)) \/ Cardinality(next) >= n + 1
    <3>1. CASE Closed(now, Edges(d))
      BY <2>2, <2>3, <2>4, <3>1, WalkStops
    <3>2. CASE ~Closed(now, Edges(d))
      <4>1. next # now
        BY <2>2, <2>3, <2>4, <3>2, WalkStops
      <4>2. IsFiniteSet(next)
        BY <1>2, <2>5, FS_Subset
      <4>3. Cardinality(now) <= Cardinality(next) /\ Cardinality(now) # Cardinality(next)
        BY <2>6, <4>1, <4>2, FS_Subset
      <4>4. Cardinality(now) \in Nat /\ Cardinality(next) \in Nat
        BY <2>6, <4>2, FS_Subset, FS_CardinalityType
      <4>. QED BY <2>1, <2>4, <3>2, <4>3, <4>4
    <3>. QED BY <3>1, <3>2
  <2>9. Good(n + 1)
    BY <2>3, <2>5, <2>6, <2>7, <2>8
  <2> HIDE DEF Good
  <2>. QED BY <2>1, <2>9
<1>6. N \in T
  <2>1. 0 \in Int /\ N \in Int /\ N \in 0 .. N
    BY <1>2
  <2>2. \A i \in 0 .. N : i \in T
    <3> HIDE DEF T
    <3>. QED BY <1>4, <1>5, <2>1, IntervalInduction
  <2>. QED BY <2>1, <2>2
<1>7. PICK all : all = walked[N]
  OBVIOUS
<1>8. /\ from \subseteq all /\ all \subseteq d.states
      /\ \A C : from \subseteq C /\ Closed(C, Edges(d)) => all \subseteq C
      /\ Closed(all, Edges(d)) \/ Cardinality(all) >= N
  BY <1>6, <1>7
<1>9. Closed(all, Edges(d))
  <2>1. CASE Cardinality(all) >= N
    <3>1. /\ Cardinality(all) <= N /\ Cardinality(all) \in Nat
          /\ Cardinality(d.states) = Cardinality(all) => d.states = all
      BY <1>1, <1>2, <1>8, FS_Subset, FS_CardinalityType
    <3>2. all = d.states
      BY <1>1, <1>2, <2>1, <3>1
    <3>. QED BY <3>2, EdgesAre DEF Closed, EdgesOf
  <2>. QED BY <1>8, <2>1
<1>. QED BY <1>3, <1>7, <1>8, <1>9

-----------------------------------------------------------------------------
(* The report and the walks.                                               *)

\* The edges, reversed, for the search back from the terminal states.
LEMMA ReversedAre ==
  ASSUME NEW d, WellTyped(d)
  PROVE  /\ {<<edge[2], edge[1]>> : edge \in Edges(d)} \in EdgesOf(d)
         /\ \A s, t : <<s, t>> \in {<<edge[2], edge[1]>> : edge \in Edges(d)} <=>
                      <<t, s>> \in Edges(d)
<1>1. \A edge \in Edges(d) :
        /\ edge = <<edge[1], edge[2]>> /\ edge[1] \in d.states /\ edge[2] \in d.states
  <2>1. \A edge \in Edges(d) : edge \in d.states \X d.states
    BY EdgesAre DEF EdgesOf
  <2>. QED BY <2>1
<1>2. {<<edge[2], edge[1]>> : edge \in Edges(d)} \in EdgesOf(d)
  BY <1>1 DEF EdgesOf
<1>3. ASSUME NEW s, NEW t
      PROVE  <<s, t>> \in {<<edge[2], edge[1]>> : edge \in Edges(d)} <=>
               <<t, s>> \in Edges(d)
  <2>1. <<t, s>>[1] = t /\ <<t, s>>[2] = s
    OBVIOUS
  <2>2. ASSUME NEW edge \in Edges(d), <<s, t>> = <<edge[2], edge[1]>>
        PROVE  <<t, s>> \in Edges(d)
    BY <1>1, <2>2
  <2>. QED BY <2>1, <2>2
<1>. QED BY <1>2, <1>3

\* What is reachable is what the walks from the initial state stand in.
LEMMA ReachableIsWalked ==
  ASSUME NEW d, WellTyped(d), Compiles(d)
  PROVE  ReachableFrom(d) = WalkedFrom(d, {d.initial})
<1>1. {d.initial} \in SUBSET d.states /\ IsFiniteSet(d.states) /\ Edges(d) \in EdgesOf(d)
  BY EdgesAre DEF Compiles, WellTyped
<1>2. PICK R, W : R = ReachableFrom(d) /\ W = WalkedFrom(d, {d.initial})
  OBVIOUS
<1>3. /\ {d.initial} \subseteq R /\ Closed(R, Edges(d))
      /\ \A C : {d.initial} \subseteq C /\ Closed(C, Edges(d)) => R \subseteq C
  BY <1>1, <1>2, SearchFinds DEF ReachableFrom
<1>4. /\ {d.initial} \subseteq W /\ Closed(W, Edges(d))
      /\ \A C : {d.initial} \subseteq C /\ Closed(C, Edges(d)) => W \subseteq C
  BY <1>1, <1>2, WalksFind
<1>5. R \subseteq W /\ W \subseteq R
  BY <1>3, <1>4
<1>. QED BY <1>2, <1>5

\* The states from which the search against the edges finds a terminal state are
\* those from which the walks along them meet one.
LEMMA ReachesIsMet ==
  ASSUME NEW d, WellTyped(d), Compiles(d)
  PROVE  /\ d.terminal \subseteq ReachesTerminal(d)
         /\ \A s, t : <<s, t>> \in Edges(d) /\ t \in ReachesTerminal(d) => s \in ReachesTerminal(d)
         /\ \A s \in d.states :
              s \in ReachesTerminal(d) <=> WalkedFrom(d, {s}) \cap d.terminal # {}
<1> DEFINE rev == {<<edge[2], edge[1]>> : edge \in Edges(d)}
<1>1. PICK R : R = ReachesTerminal(d)
  OBVIOUS
<1>2. rev \in EdgesOf(d) /\ \A s, t : <<s, t>> \in rev <=> <<t, s>> \in Edges(d)
  BY ReversedAre
<1>3. /\ d.terminal \subseteq R /\ Closed(R, rev)
      /\ \A C : d.terminal \subseteq C /\ Closed(C, rev) => R \subseteq C
  <2>1. R = Search(d, d.terminal, rev)
    BY <1>1 DEF ReachesTerminal
  <2>2. d.terminal \in SUBSET d.states /\ IsFiniteSet(d.states)
    BY DEF Compiles, WellTyped
  <2> HIDE DEF rev
  <2>. QED BY <1>2, <2>1, <2>2, SearchFinds
<1>4. \A edge \in rev : edge = <<edge[1], edge[2]>>
  OBVIOUS
<1>5. \A edge \in Edges(d) : edge = <<edge[1], edge[2]>>
  BY EdgesAre
<1>6. \A s, t : <<s, t>>[1] = s /\ <<s, t>>[2] = t
  OBVIOUS
<1> HIDE DEF rev
<1>7. ASSUME NEW s, NEW t, <<s, t>> \in Edges(d), t \in R PROVE s \in R
  <2>1. PICK edge : edge = <<t, s>>
    OBVIOUS
  <2>2. edge \in rev /\ edge[1] = t /\ edge[2] = s
    BY <1>2, <1>7, <2>1
  <2>. QED BY <1>3, <1>7, <2>2 DEF Closed
<1>8. \A s \in d.states :
        /\ s \in WalkedFrom(d, {s}) /\ Closed(WalkedFrom(d, {s}), Edges(d))
        /\ \A C : s \in C /\ Closed(C, Edges(d)) => WalkedFrom(d, {s}) \subseteq C
  <2>1. \A s \in d.states : {s} \in SUBSET d.states
    OBVIOUS
  <2>. QED BY <2>1, WalksFind
<1>9. ASSUME NEW s \in d.states, s \notin R
      PROVE  WalkedFrom(d, {s}) \cap d.terminal = {}
  <2> DEFINE C == {x \in d.states : x \notin R}
  <2>1. Closed(C, Edges(d))
    <3>1. \A edge \in Edges(d) : edge[2] \in d.states
      BY EdgesAre DEF EdgesOf
    <3>. QED BY <1>5, <1>7, <3>1 DEF Closed
  <2>2. WalkedFrom(d, {s}) \subseteq C
    <3>1. s \in C
      BY <1>9
    <3> HIDE DEF C
    <3>. QED BY <1>8, <2>1, <3>1
  <2>. QED BY <1>3, <2>2
<1>10. ASSUME NEW s \in R, s \in d.states
       PROVE  WalkedFrom(d, {s}) \cap d.terminal # {}
  <2> DEFINE C == {x \in d.states : WalkedFrom(d, {x}) \cap d.terminal # {}}
  <2>1. d.terminal \subseteq C
    BY <1>8 DEF Compiles
  <2>2. Closed(C, rev)
    <3>1. ASSUME NEW edge \in rev, edge[1] \in C PROVE edge[2] \in C
      <4>1. PICK x, y : x = edge[2] /\ y = edge[1]
        OBVIOUS
      <4>2. <<x, y>> \in Edges(d) /\ y \in d.states /\ x \in d.states
        BY <1>2, <1>4, <3>1, <4>1 DEF EdgesOf
      <4>3. y \in WalkedFrom(d, {x})
        BY <1>6, <1>8, <4>2 DEF Closed
      <4>4. WalkedFrom(d, {y}) \subseteq WalkedFrom(d, {x})
        BY <1>8, <4>2, <4>3
      <4>. QED BY <3>1, <4>1, <4>2, <4>4
    <3> HIDE DEF C
    <3>. QED BY <3>1 DEF Closed
  <2>3. R \subseteq C
    <3> HIDE DEF C
    <3>. QED BY <1>3, <2>1, <2>2
  <2>. QED BY <1>10, <2>3
<1>. QED BY <1>1, <1>3, <1>7, <1>9, <1>10

\* The report of any definition that compiles says what the walks find.
LEMMA ReportsAgree ==
  ASSUME NEW d, WellTyped(d), Compiles(d)
  PROVE  ReportAgrees(d, Report(d))
<1>1. PICK r : r = Report(d)
  OBVIOUS
<1>2. /\ r.unreachable = d.states \ ReachableFrom(d)
      /\ r.deadlocks = {s \in d.states \ d.terminal : ~HasEdges(d, s)}
      /\ r.inescapable = {s \in (d.states \ d.terminal) \ ReachesTerminal(d) : HasEdges(d, s)}
  BY <1>1 DEF Report
<1>3. r.unreachable = d.states \ WalkedFrom(d, {d.initial})
  BY <1>2, ReachableIsWalked
<1>4. \A s, t : ~HasEdges(d, s) => <<s, t>> \notin Edges(d)
  BY DEF HasEdges
<1>5. \A s \in d.states : {s} \in SUBSET d.states
  OBVIOUS
<1>6. ASSUME NEW s \in r.deadlocks PROVE Walk(d, {s}) = {s}
  <2>1. s \in d.states /\ \A t : <<s, t>> \notin Edges(d)
    BY <1>2, <1>4
  <2>2. PICK w : w = Walk(d, {s})
    OBVIOUS
  <2>3. \A t : t \in w <=> t \in {s} \/ \E x \in {s} : <<x, t>> \in Edges(d)
    BY <1>5, <2>1, <2>2, WalkIs
  <2>4. w = {s}
    BY <2>1, <2>3
  <2>. QED BY <2>2, <2>4
<1>7. ASSUME NEW s \in d.states \ d.terminal
      PROVE  WalkedFrom(d, {s}) \cap d.terminal = {} <=> s \in r.deadlocks \union r.inescapable
  <2>1. CASE ~HasEdges(d, s)
    <3>1. Closed({s}, Edges(d))
      BY <1>2, <1>5, <1>6, <2>1, WalkStops
    <3>2. WalkedFrom(d, {s}) \subseteq {s}
      BY <1>5, <3>1, WalksFind
    <3>. QED BY <1>2, <2>1, <3>2
  <2>2. CASE HasEdges(d, s)
    BY <1>2, <2>2, ReachesIsMet
  <2>. QED BY <2>1, <2>2
<1>8. ASSUME ~HasErrors(r), NEW s \in d.states
      PROVE  d.terminal \cap WalkedFrom(d, {s}) # {}
  <2>1. CASE s \in d.terminal
    BY <1>5, <2>1, WalksFind
  <2>2. CASE s \notin d.terminal
    BY <1>7, <1>8, <2>2 DEF HasErrors
  <2>. QED BY <2>1, <2>2
<1>. QED BY <1>1, <1>3, <1>6, <1>7, <1>8 DEF ReportAgrees

-----------------------------------------------------------------------------
(* Migration.                                                              *)

\* What a value becomes on its way, at each version.
Chain(g, from, to, value) ==
  CHOOSE chain : chain = [i \in from .. to |->
                            IF i = from THEN value ELSE g.migrate[i - 1][chain[i - 1]]]

\* The recursion of Chain has a value for every version on the way.
LEMMA ChainUnfolds ==
  ASSUME NEW g, ChainCompiles(g), NEW from \in 1 .. Len(g.types),
         NEW to \in from .. Len(g.types), NEW value \in g.types[from].states
  PROVE  /\ \A i \in from .. to : Chain(g, from, to, value)[i] =
              IF i = from THEN value ELSE g.migrate[i - 1][Chain(g, from, to, value)[i - 1]]
         /\ \A i \in from .. to : Chain(g, from, to, value)[i] \in g.types[i].states
<1> DEFINE D(c) == [i \in from .. to |-> IF i = from THEN value ELSE g.migrate[i - 1][c[i - 1]]]
           S == UNION {g.types[i].states : i \in from .. to}
           step == [i \in Int |-> [x \in S |->
                      IF i \in from + 1 .. to /\ x \in g.types[i - 1].states
                      THEN g.migrate[i - 1][x] ELSE x]]
           chain == CHOOSE c : c = D(c)
<1>1. /\ from \in Nat /\ to \in Nat /\ from <= to /\ Len(g.types) \in Nat
      /\ from \in Int /\ to \in Int
  BY DEF ChainCompiles
<1>2. \A i \in from + 1 .. to : \A x \in g.types[i - 1].states :
        g.migrate[i - 1][x] \in g.types[i].states
  <2>1. ASSUME NEW i \in from + 1 .. to
        PROVE  g.migrate[i - 1] \in [g.types[i - 1].states -> g.types[i].states]
    <3>1. i - 1 \in 1 .. Len(g.migrate) /\ (i - 1) + 1 = i
      BY <1>1 DEF ChainCompiles
    <3>2. g.migrate[i - 1] \in [g.types[i - 1].states -> g.types[(i - 1) + 1].states]
      BY <3>1 DEF ChainCompiles
    <3>. QED BY <3>1, <3>2
  <2>. QED BY <2>1
<1>3. step \in [Int -> [S -> S]]
  <2>1. \A i \in from + 1 .. to : i \in from .. to
    BY <1>1
  <2>2. \A i \in from .. to : g.types[i].states \subseteq S
    OBVIOUS
  <2>3. ASSUME NEW i \in Int, NEW x \in S PROVE step[i][x] \in S
    <3>1. CASE i \in from + 1 .. to /\ x \in g.types[i - 1].states
      <4>1. step[i][x] = g.migrate[i - 1][x]
        BY <3>1
      <4>2. g.migrate[i - 1][x] \in g.types[i].states
        BY <1>2, <3>1
      <4> HIDE DEF S, step
      <4>. QED BY <2>1, <2>2, <3>1, <4>1, <4>2
    <3>2. CASE ~(i \in from + 1 .. to /\ x \in g.types[i - 1].states)
      <4>1. step[i][x] = x
        BY <3>2
      <4>. QED BY <4>1
    <3>. QED BY <3>1, <3>2
  <2>4. step = [i \in Int |-> [x \in S |-> step[i][x]]]
    OBVIOUS
  <2> HIDE DEF S, step
  <2>. QED BY <2>3, <2>4
<1>4. value \in S
  BY <1>1
<1>5. PICK f \in [from .. to -> S] : StepsFrom(f, value, step, from, to)
  <2> HIDE DEF S, step
  <2>. QED BY <1>1, <1>3, <1>4, IntervalRecursion
<1>6. \A i \in from .. to : i # from => i - 1 \in from .. to /\ i \in from + 1 .. to /\ i \in Int
  BY <1>1
<1>7. \A i \in from .. to : i # from /\ f[i - 1] \in g.types[i - 1].states =>
        f[i] = g.migrate[i - 1][f[i - 1]]
  <2>1. ASSUME NEW i \in from .. to, i # from, f[i - 1] \in g.types[i - 1].states
        PROVE  f[i] = g.migrate[i - 1][f[i - 1]]
    <3>1. f[i] = step[i][f[i - 1]]
      <4> HIDE DEF S, step
      <4>. QED BY <1>5, <2>1 DEF StepsFrom
    <3>2. f[i - 1] \in S
      <4> HIDE DEF S
      <4>. QED BY <1>5, <1>6, <2>1
    <3>. QED BY <1>6, <2>1, <3>1, <3>2
  <2>. QED BY <2>1
<1>8. f[from] = value
  <2>1. from \in from .. to
    BY <1>1
  <2> HIDE DEF S, step
  <2>. QED BY <1>5, <2>1 DEF StepsFrom
<1> HIDE DEF S, step
<1>9. \A i \in from .. to : f[i] \in g.types[i].states
  <2> DEFINE T == {i \in from .. to : f[i] \in g.types[i].states}
  <2>1. from \in T
    BY <1>1, <1>8
  <2>2. ASSUME NEW i \in from .. to - 1, i \in T PROVE i + 1 \in T
    <3>1. i + 1 \in from .. to /\ i + 1 # from /\ (i + 1) - 1 = i /\ i + 1 \in from + 1 .. to
      BY <1>1
    <3>2. f[i + 1] = g.migrate[i][f[i]]
      BY <1>7, <2>2, <3>1
    <3>. QED BY <1>2, <2>2, <3>1, <3>2
  <2>3. \A i \in from .. to : i \in T
    <3> HIDE DEF T
    <3>. QED BY <1>1, <2>1, <2>2, IntervalInduction
  <2>. QED BY <2>3
<1>10. \A i \in from .. to : f[i] = IF i = from THEN value ELSE g.migrate[i - 1][f[i - 1]]
  BY <1>6, <1>7, <1>8, <1>9
<1>11. D(f) = D(D(f))
  <2>1. \A i \in from .. to : D(f)[i] = f[i]
    BY <1>10
  <2>. QED BY <1>6, <2>1
<1>12. chain = D(chain)
  <2> HIDE DEF D
  <2>. QED BY <1>11
<1>13. chain = Chain(g, from, to, value)
  BY DEF Chain
<1>14. \A i \in from .. to : chain[i] = IF i = from THEN value ELSE g.migrate[i - 1][chain[i - 1]]
  <2> HIDE DEF chain
  <2>. QED BY <1>12
<1> HIDE DEF chain, D
<1>15. \A i \in from .. to : f[i] = chain[i]
  <2> DEFINE T == {i \in from .. to : f[i] = chain[i]}
  <2>1. from \in T
    BY <1>1, <1>8, <1>14
  <2>2. ASSUME NEW i \in from .. to - 1, i \in T PROVE i + 1 \in T
    <3>1. i + 1 \in from .. to /\ i + 1 # from /\ (i + 1) - 1 = i
      BY <1>1
    <3>. QED BY <1>10, <1>14, <2>2, <3>1
  <2>3. \A i \in from .. to : i \in T
    <3> HIDE DEF T
    <3>. QED BY <1>1, <2>1, <2>2, IntervalInduction
  <2>. QED BY <2>3
<1>. QED BY <1>9, <1>13, <1>14, <1>15

\* Migrating is the end of the chain, in the states of its version.
LEMMA MigrateIs ==
  ASSUME NEW g, ChainCompiles(g), NEW from \in 1 .. Len(g.types),
         NEW to \in from .. Len(g.types), NEW value \in g.types[from].states
  PROVE  /\ Migrate(g, from, to, value) = Chain(g, from, to, value)[to]
         /\ Migrate(g, from, to, value) \in g.types[to].states
         /\ \A i \in from .. to : Migrate(g, from, i, value) = Chain(g, from, to, value)[i]
         /\ Migrate(g, from, from, value) = value
<1>1. \A i \in from .. to : Migrate(g, from, i, value) = Chain(g, from, i, value)[i]
  BY DEF Migrate, Chain
<1>2. /\ from \in Nat /\ to \in Nat /\ from <= to /\ Len(g.types) \in Nat
      /\ from \in from .. Len(g.types) /\ from \in from .. to /\ to \in from .. to
  BY DEF ChainCompiles
<1>3. ASSUME NEW i \in from .. to
      PROVE  Chain(g, from, i, value)[i] = Chain(g, from, to, value)[i]
  <2>1. i \in from .. Len(g.types) /\ i \in Int /\ from \in Int
    BY <1>2
  <2>2. PICK short, long : short = Chain(g, from, i, value) /\ long = Chain(g, from, to, value)
    OBVIOUS
  <2>3. \A j \in from .. i : short[j] = IF j = from THEN value ELSE g.migrate[j - 1][short[j - 1]]
    BY <2>1, <2>2, ChainUnfolds
  <2>4. \A j \in from .. to : long[j] = IF j = from THEN value ELSE g.migrate[j - 1][long[j - 1]]
    BY <2>2, ChainUnfolds
  <2> DEFINE T == {j \in from .. i : short[j] = long[j]}
  <2>5. from \in T
    BY <1>2, <2>3, <2>4
  <2>6. ASSUME NEW j \in from .. i - 1, j \in T PROVE j + 1 \in T
    <3>1. j + 1 \in from .. i /\ j + 1 \in from .. to /\ j + 1 # from /\ (j + 1) - 1 = j
      BY <1>2
    <3>. QED BY <2>3, <2>4, <2>6, <3>1
  <2>7. \A j \in from .. i : j \in T
    <3> HIDE DEF T
    <3>. QED BY <2>1, <2>5, <2>6, IntervalInduction
  <2>8. i \in T
    BY <2>1, <2>7
  <2>. QED BY <2>2, <2>8
<1>4. Chain(g, from, to, value)[from] = value /\ Chain(g, from, to, value)[to] \in g.types[to].states
  BY <1>2, ChainUnfolds
<1>. QED BY <1>1, <1>2, <1>3, <1>4

\* A value migrated in two goes is the value migrated in one.
LEMMA MigrateComposes ==
  ASSUME NEW g, ChainCompiles(g), NEW from \in 1 .. Len(g.types),
         NEW via \in from .. Len(g.types), NEW to \in via .. Len(g.types),
         NEW value \in g.types[from].states
  PROVE  Migrate(g, via, to, Migrate(g, from, via, value)) = Migrate(g, from, to, value)
<1>1. /\ from \in Nat /\ via \in Nat /\ to \in Nat /\ from <= via /\ via <= to /\ to <= Len(g.types)
      /\ Len(g.types) \in Nat
      /\ via \in from .. to /\ via \in 1 .. Len(g.types) /\ to \in from .. Len(g.types)
      /\ via \in Int /\ to \in Int /\ via \in via .. to /\ to \in via .. to
  BY DEF ChainCompiles
<1>2. PICK x : x = Migrate(g, from, via, value)
  OBVIOUS
<1>3. x \in g.types[via].states
  BY <1>2, MigrateIs
<1>4. PICK first, second : first = Chain(g, via, to, x) /\ second = Chain(g, from, to, value)
  OBVIOUS
<1>5. \A j \in via .. to : first[j] = IF j = via THEN x ELSE g.migrate[j - 1][first[j - 1]]
  BY <1>1, <1>3, <1>4, ChainUnfolds
<1>6. \A j \in from .. to : second[j] = IF j = from THEN value ELSE g.migrate[j - 1][second[j - 1]]
  BY <1>1, <1>4, ChainUnfolds
<1>7. second[via] = x
  BY <1>1, <1>2, <1>4, MigrateIs
<1> DEFINE T == {j \in via .. to : first[j] = second[j]}
<1>8. via \in T
  BY <1>1, <1>5, <1>7
<1>9. ASSUME NEW j \in via .. to - 1, j \in T PROVE j + 1 \in T
  <2>1. /\ j + 1 \in via .. to /\ j + 1 \in from .. to /\ j + 1 # from /\ j + 1 # via
        /\ (j + 1) - 1 = j
    BY <1>1
  <2>. QED BY <1>5, <1>6, <1>9, <2>1
<1>10. \A j \in via .. to : j \in T
  <2> HIDE DEF T
  <2>. QED BY <1>1, <1>8, <1>9, IntervalInduction
<1>11. first[to] = second[to]
  BY <1>1, <1>10
<1>12. Migrate(g, via, to, x) = first[to]
  BY <1>1, <1>3, <1>4, MigrateIs
<1>13. Migrate(g, from, to, value) = second[to]
  BY <1>1, <1>4, MigrateIs
<1>. QED BY <1>2, <1>11, <1>12, <1>13

-----------------------------------------------------------------------------
(* The inductive invariant.                                                *)

Steps(d) == d.states \X d.events \X d.states

\* The moves are legal ones, and each led on to where the machine now is.
MovesOK(d, moves, current) ==
  /\ moves \in Seq(Steps(d))
  /\ \A i \in 1 .. Len(moves) :
       /\ CouldApply(d, moves[i][1], moves[i][2])
       /\ moves[i][3] = d.transition[<<moves[i][1], moves[i][2]>>]
       /\ DataFree(d) => current \in WalkedFrom(d, {moves[i][1]})
  /\ moves # <<>> => moves[Len(moves)][3] = current

\* The past L of a value that was read, or written, as one of version v: it is
\* what the last own value of L became, and the moves, if there are any, are
\* moves of version v.
PastOK(g, L, v, current) ==
  /\ L = [version |-> L.version, value |-> L.value, start |-> L.start, moves |-> L.moves]
  /\ v \in 1 .. Len(g.types)
  /\ L.version \in 1 .. v
  /\ L.value \in g.types[L.version].states
  /\ current = Migrate(g, L.version, v, L.value)
  /\ L.start \in g.types[v].states
  /\ DataFree(g.types[v]) => current \in WalkedFrom(g.types[v], {L.start})
  /\ MovesOK(g.types[v], L.moves, current)
  /\ L.moves # <<>> => L.version = v

StateOK ==
  /\ state = <<>> \/ state = <<Current>>
  /\ Running => PastOK(lineage, life.now, binary, Current)

StoredOK ==
  \/ stored = <<>> /\ life.stored = <<>>
  \/ /\ stored = <<[version |-> stored[1].version, payload |-> stored[1].payload]>>
     /\ life.stored = <<life.stored[1]>>
     /\ PastOK(lineage, life.stored[1], stored[1].version, stored[1].payload)

HeardOK ==
  \/ heard = <<>>
  \/ /\ Running
     /\ heard = <<[after |-> heard[1].after, moves |-> heard[1].moves,
                   refusals |-> heard[1].refusals]>>
     /\ heard[1].after \in 0 .. Len(life.now.moves)
     /\ heard[1].moves = SubSeq(life.now.moves, heard[1].after + 1, Len(life.now.moves))

ReportOK == report = <<>> \/ report = <<Report(lineage.types[1])>>

IInv ==
  /\ name \in Name
  /\ binary \in 1 .. Len(lineage.types)
  /\ life = [now |-> life.now, stored |-> life.stored]
  /\ StateOK
  /\ StoredOK
  /\ HeardOK
  /\ ReportOK

-----------------------------------------------------------------------------
(* What the invariant is kept by.                                          *)

\* What the assumptions on the constants give of a lineage.
LEMMA LineageFacts ==
  ASSUME NEW n \in Name
  PROVE  /\ ChainCompiles(Lineages[n])
         /\ Len(Lineages[n].types) \in Nat \ {0}
         /\ \A v \in 1 .. Len(Lineages[n].types) :
              Compiles(Lineages[n].types[v]) /\ WellTyped(Lineages[n].types[v])
BY LineagesAssumption DEF ChainCompiles

\* A transition of a machine whose payloads decide nothing is an edge.
LEMMA MoveIsEdge ==
  ASSUME NEW d, WellTyped(d), DataFree(d), NEW s \in d.states, NEW e \in d.events,
         CouldApply(d, s, e)
  PROVE  /\ <<s, d.transition[<<s, e>>]>> \in Edges(d)
         /\ <<e[1], DefaultPayload>> \in EventVariants(d)
         /\ CouldApply(d, s, <<e[1], DefaultPayload>>)
<1>1. PICK f : f = <<e[1], DefaultPayload>>
  OBVIOUS
<1>2. f \in d.events /\ f[1] = e[1] /\ f[2] = DefaultPayload
  BY <1>1 DEF WellTyped
<1>3. f \in EventVariants(d)
  BY <1>2 DEF EventVariants
<1>4. HasTransition(d, s, f) /\ d.transition[<<s, f>>] = d.transition[<<s, e>>]
  BY <1>2 DEF DataFree, CouldApply
<1>5. KindAccepted(d, s, f)
  BY <1>2 DEF KindAccepted, CouldApply
<1>6. CouldApply(d, s, f)
  BY <1>4, <1>5 DEF CouldApply
<1>. QED BY <1>1, <1>3, <1>4, <1>6, EdgesAre

\* A move leads to a state of the definition.
LEMMA TransitionType ==
  ASSUME NEW d, WellTyped(d), NEW s, NEW e, CouldApply(d, s, e)
  PROVE  d.transition[<<s, e>>] \in d.states
BY DEF WellTyped, CouldApply, HasTransition

\* Walks that reach a state reach what an edge leads to from it.
LEMMA WalksGoOn ==
  ASSUME NEW d, WellTyped(d), NEW from \in d.states, NEW s, NEW t, <<s, t>> \in Edges(d),
         s \in WalkedFrom(d, {from})
  PROVE  t \in WalkedFrom(d, {from})
<1>1. Closed(WalkedFrom(d, {from}), Edges(d))
  BY WalksFind
<1>2. <<s, t>>[1] = s /\ <<s, t>>[2] = t
  OBVIOUS
<1>. QED BY <1>1, <1>2 DEF Closed

\* A walk is where it starts from.
LEMMA WalksBegin ==
  ASSUME NEW d, WellTyped(d), NEW s \in d.states
  PROVE  s \in WalkedFrom(d, {s})
BY WalksFind

\* A past ends in a state of the version that runs.
LEMMA PastIsOfItsVersion ==
  ASSUME NEW g, ChainCompiles(g), NEW L, NEW v, NEW current, PastOK(g, L, v, current)
  PROVE  /\ v \in 1 .. Len(g.types) /\ current \in g.types[v].states
         /\ L.version \in 1 .. Len(g.types) /\ v \in L.version .. Len(g.types)
<1>1. v \in 1 .. Len(g.types) /\ L.version \in 1 .. v /\ Len(g.types) \in Nat
  BY DEF PastOK, ChainCompiles
<1>2. L.version \in 1 .. Len(g.types) /\ v \in L.version .. Len(g.types)
  BY <1>1
<1>. QED BY <1>1, <1>2, MigrateIs DEF PastOK

\* A machine that starts has a past of no moves.
LEMMA PastBegins ==
  ASSUME NEW g, ChainCompiles(g), WellTyped(g.types[1]), NEW s \in g.types[1].states
  PROVE  PastOK(g, Begin(1, s), 1, s)
<1>1. PICK L : L = Begin(1, s)
  OBVIOUS
<1>2. L = [version |-> 1, value |-> s, start |-> s, moves |-> <<>>]
  BY <1>1 DEF Begin
<1>3. L.version = 1 /\ L.value = s /\ L.start = s /\ L.moves = <<>>
  BY <1>2
<1>4. 1 \in 1 .. Len(g.types) /\ 1 \in 1 .. 1
  BY DEF ChainCompiles
<1>5. Migrate(g, 1, 1, s) = s
  BY <1>4, MigrateIs
<1>6. MovesOK(g.types[1], <<>>, s)
  BY DEF MovesOK
<1>7. PastOK(g, L, 1, s)
  BY <1>2, <1>3, <1>4, <1>5, <1>6, WalksBegin DEF PastOK
<1>. QED BY <1>1, <1>7

\* A move added to a story goes on from where it ended.
LEMMA MovesGoOn ==
  ASSUME NEW d, WellTyped(d), NEW moves, NEW s \in d.states, NEW e \in d.events,
         MovesOK(d, moves, s), CouldApply(d, s, e)
  PROVE  MovesOK(d, Append(moves, <<s, e, d.transition[<<s, e>>]>>), d.transition[<<s, e>>])
<1>1. PICK to, next : to = d.transition[<<s, e>>] /\ next = Append(moves, <<s, e, to>>)
  OBVIOUS
<1>2. to \in d.states
  BY <1>1, TransitionType
<1>3. <<s, e, to>> \in Steps(d)
  BY <1>2 DEF Steps
<1>4. moves \in Seq(Steps(d))
  BY DEF MovesOK
<1>5. /\ next \in Seq(Steps(d)) /\ Len(next) = Len(moves) + 1 /\ Len(moves) \in Nat
      /\ next[Len(moves) + 1] = <<s, e, to>>
      /\ \A i \in 1 .. Len(moves) : next[i] = moves[i]
  BY <1>1, <1>3, <1>4
<1>6. ASSUME NEW i \in 1 .. Len(next)
      PROVE  /\ CouldApply(d, next[i][1], next[i][2])
             /\ next[i][3] = d.transition[<<next[i][1], next[i][2]>>]
             /\ DataFree(d) => to \in WalkedFrom(d, {next[i][1]})
  <2>1. CASE i = Len(moves) + 1
    <3>1. next[i][1] = s /\ next[i][2] = e /\ next[i][3] = to
      BY <1>5, <2>1
    <3>2. DataFree(d) => <<s, to>> \in Edges(d)
      BY <1>1, MoveIsEdge
    <3>3. DataFree(d) => to \in WalkedFrom(d, {s})
      BY <3>2, WalksBegin, WalksGoOn
    <3>. QED BY <1>1, <3>1, <3>3
  <2>2. CASE i # Len(moves) + 1
    <3>1. i \in 1 .. Len(moves) /\ next[i] = moves[i]
      BY <1>5, <2>2
    <3>2. moves[i] \in Steps(d)
      BY <1>4, <3>1
    <3>3. moves[i][1] \in d.states
      BY <3>2 DEF Steps
    <3>4. DataFree(d) => <<s, to>> \in Edges(d)
      BY <1>1, MoveIsEdge
    <3>5. DataFree(d) => s \in WalkedFrom(d, {moves[i][1]})
      BY <3>1 DEF MovesOK
    <3>6. DataFree(d) => to \in WalkedFrom(d, {moves[i][1]})
      BY <3>3, <3>4, <3>5, WalksGoOn
    <3>. QED BY <3>1, <3>6 DEF MovesOK
  <2>. QED BY <2>1, <2>2
<1>7. next[Len(next)][3] = to
  BY <1>5
<1>8. MovesOK(d, next, to)
  BY <1>5, <1>6, <1>7 DEF MovesOK
<1>. QED BY <1>1, <1>8

\* A move starts the last own value of the version that runs.
LEMMA PastGoesOn ==
  ASSUME NEW g, ChainCompiles(g), NEW L, NEW v, NEW s, PastOK(g, L, v, s),
         WellTyped(g.types[v]), NEW e \in g.types[v].events, CouldApply(g.types[v], s, e)
  PROVE  LET to == g.types[v].transition[<<s, e>>]
         IN PastOK(g, [version |-> v, value |-> to, start |-> L.start,
                       moves |-> Append(L.moves, <<s, e, to>>)], v, to)
<1>1. PICK d, to, M : /\ d = g.types[v] /\ to = d.transition[<<s, e>>]
                      /\ M = [version |-> v, value |-> to, start |-> L.start,
                               moves |-> Append(L.moves, <<s, e, to>>)]
  OBVIOUS
<1>2. s \in d.states /\ v \in 1 .. Len(g.types)
  BY <1>1, PastIsOfItsVersion
<1>3. to \in d.states
  BY <1>1, TransitionType
<1>4. v \in 1 .. v /\ v \in v .. Len(g.types)
  BY <1>2 DEF ChainCompiles
<1>5. Migrate(g, v, v, to) = to
  BY <1>1, <1>2, <1>3, <1>4, MigrateIs
<1>6. MovesOK(d, M.moves, to)
  BY <1>1, <1>2, MovesGoOn DEF PastOK
<1>7. ASSUME DataFree(d) PROVE to \in WalkedFrom(d, {L.start})
  <2>1. WellTyped(d)
    BY <1>1
  <2>2. <<s, to>> \in Edges(d)
    BY <1>1, <1>2, <1>7, <2>1, MoveIsEdge
  <2>3. PICK from : from = L.start
    OBVIOUS
  <2>4. from \in d.states /\ s \in WalkedFrom(d, {from})
    BY <1>1, <1>7, <2>3 DEF PastOK
  <2>. QED BY <2>1, <2>2, <2>3, <2>4, WalksGoOn
<1>8. /\ M = [version |-> M.version, value |-> M.value, start |-> M.start, moves |-> M.moves]
      /\ M.version = v /\ M.value = to /\ M.start = L.start
  BY <1>1
<1>9. L.start \in d.states
  BY <1>1 DEF PastOK
<1>10. PastOK(g, M, v, to)
  BY <1>1, <1>2, <1>3, <1>4, <1>5, <1>6, <1>7, <1>8, <1>9 DEF PastOK
<1>. QED BY <1>1, <1>10

\* A value read by a later version has the same last own value, and a new start.
LEMMA PastIsRestored ==
  ASSUME NEW g, ChainCompiles(g), NEW L, NEW v, NEW s, PastOK(g, L, v, s),
         NEW w \in v .. Len(g.types), WellTyped(g.types[w])
  PROVE  LET to == Migrate(g, v, w, s)
         IN PastOK(g, IF v = w THEN L ELSE [L EXCEPT !.start = to, !.moves = <<>>], w, to)
<1>1. PICK to : to = Migrate(g, v, w, s)
  OBVIOUS
<1>2. /\ v \in 1 .. Len(g.types) /\ s \in g.types[v].states
      /\ L.version \in 1 .. Len(g.types) /\ v \in L.version .. Len(g.types)
  BY PastIsOfItsVersion
<1>3. L.value \in g.types[L.version].states /\ s = Migrate(g, L.version, v, L.value)
  BY DEF PastOK
<1>4. CASE v = w
  <2>1. to = s
    BY <1>1, <1>2, <1>4, MigrateIs
  <2>. QED BY <1>1, <1>4, <2>1
<1>5. CASE v # w
  <2>1. PICK M : M = [L EXCEPT !.start = to, !.moves = <<>>]
    OBVIOUS
  <2>2. L = [version |-> L.version, value |-> L.value, start |-> L.start, moves |-> L.moves]
    BY DEF PastOK
  <2>3. /\ M = [version |-> M.version, value |-> M.value, start |-> M.start, moves |-> M.moves]
        /\ M.version = L.version /\ M.value = L.value /\ M.start = to /\ M.moves = <<>>
    BY <2>1, <2>2
  <2>4. w \in 1 .. Len(g.types) /\ L.version \in 1 .. w
    BY <1>2 DEF ChainCompiles
  <2>5. to = Migrate(g, L.version, w, L.value)
    BY <1>1, <1>2, <1>3, MigrateComposes
  <2>6. to \in g.types[w].states
    BY <1>1, <1>2, MigrateIs
  <2>7. MovesOK(g.types[w], <<>>, to)
    BY DEF MovesOK
  <2>8. PastOK(g, M, w, to)
    BY <1>3, <2>3, <2>4, <2>5, <2>6, <2>7, WalksBegin DEF PastOK
  <2>. QED BY <1>1, <1>5, <2>1, <2>8
<1>. QED BY <1>4, <1>5

-----------------------------------------------------------------------------
(* The invariant is inductive.                                             *)

LEMMA InitEstablishesIInv == Init => IInv
<1> SUFFICES ASSUME Init PROVE IInv
  OBVIOUS
<1>1. PICK s \in Definition.states : state = <<s>>
  BY DEF Init
<1>2. name \in Name /\ binary = 1 /\ heard = <<>> /\ stored = <<>> /\ report = <<>>
  BY DEF Init
<1>3. life = [now |-> Begin(1, s), stored |-> <<>>] /\ Current = s
  BY <1>1, <1>2 DEF Init, Current
<1>4. ChainCompiles(lineage) /\ 1 \in 1 .. Len(lineage.types) /\ WellTyped(lineage.types[1])
  BY <1>2, LineageFacts DEF lineage
<1>5. s \in lineage.types[1].states
  BY <1>2 DEF Definition
<1>6. PastOK(lineage, Begin(1, s), 1, s)
  BY <1>4, <1>5, PastBegins
<1>7. StateOK
  BY <1>1, <1>2, <1>3, <1>6 DEF StateOK
<1>. QED BY <1>2, <1>3, <1>4, <1>7 DEF IInv, StoredOK, HeardOK, ReportOK

\* Facts of the machine that runs.
LEMMA RunningFacts ==
  ASSUME IInv
  PROVE  /\ ChainCompiles(lineage) /\ Len(lineage.types) \in Nat \ {0}
         /\ \A v \in 1 .. Len(lineage.types) :
              Compiles(lineage.types[v]) /\ WellTyped(lineage.types[v])
         /\ Compiles(Definition) /\ WellTyped(Definition)
         /\ Running => PastOK(lineage, life.now, binary, Current)
         /\ Running => Current \in Definition.states
         /\ Running => MovesOK(Definition, life.now.moves, Current)
         /\ Running => life.now.moves \in Seq(Steps(Definition))
<1>1. /\ ChainCompiles(lineage) /\ Len(lineage.types) \in Nat \ {0}
      /\ \A v \in 1 .. Len(lineage.types) :
           Compiles(lineage.types[v]) /\ WellTyped(lineage.types[v])
  BY LineageFacts DEF IInv, lineage
<1>2. Compiles(Definition) /\ WellTyped(Definition)
  BY <1>1 DEF IInv, Definition
<1>3. Running => PastOK(lineage, life.now, binary, Current)
  BY DEF IInv, StateOK
<1>4. Running => Current \in Definition.states
  BY <1>1, <1>3, PastIsOfItsVersion DEF Definition
<1>5. Running => MovesOK(Definition, life.now.moves, Current)
  BY <1>3 DEF PastOK, Definition
<1>. QED BY <1>1, <1>2, <1>3, <1>4, <1>5 DEF MovesOK

\* A refusal tells the listeners, and changes nothing else.
LEMMA RefusalTells ==
  ASSUME IInv, NEW e, NEW error, FireRejection(e, error), UNCHANGED <<state, life>>
  PROVE  /\ HeardOK'
         /\ Listening => heard'[1].refusals = Append(heard[1].refusals, <<Current, e, error>>)
<1>1. CASE ~Listening
  BY <1>1 DEF Listening, FireRejection, HeardOK
<1>2. CASE Listening
  <2>1. PICK h : h = heard[1]
    OBVIOUS
  <2>2. /\ Running
        /\ h = [after |-> h.after, moves |-> h.moves, refusals |-> h.refusals]
        /\ h.after \in 0 .. Len(life.now.moves)
        /\ h.moves = SubSeq(life.now.moves, h.after + 1, Len(life.now.moves))
    <3>1. HeardOK /\ heard # <<>>
      BY <1>2 DEF IInv, Listening
    <3>2. /\ Running
          /\ heard = <<[after |-> h.after, moves |-> h.moves, refusals |-> h.refusals]>>
          /\ h.after \in 0 .. Len(life.now.moves)
          /\ h.moves = SubSeq(life.now.moves, h.after + 1, Len(life.now.moves))
      BY <2>1, <3>1, Zenon DEF HeardOK
    <3>3. PICK r : r = [after |-> h.after, moves |-> h.moves, refusals |-> h.refusals]
      OBVIOUS
    <3>4. heard[1] = r
      BY <3>2, <3>3
    <3>. QED BY <2>1, <3>2, <3>3, <3>4
  <2>3. PICK k : k = [h EXCEPT !.refusals = Append(@, <<Current, e, error>>)]
    OBVIOUS
  <2>4. heard' = <<k>>
    BY <1>2, <2>1, <2>3 DEF FireRejection
  <2>5. /\ k = [after |-> k.after, moves |-> k.moves, refusals |-> k.refusals]
        /\ k.after = h.after /\ k.moves = h.moves
        /\ k.refusals = Append(h.refusals, <<Current, e, error>>)
    BY <2>2, <2>3
  <2>6. heard'[1] = k
    BY <2>4
  <2>7. HeardOK'
    BY <2>2, <2>4, <2>5, <2>6 DEF HeardOK, Running
  <2>. QED BY <2>1, <2>5, <2>6, <2>7
<1>. QED BY <1>1, <1>2

\* What was told since, with one move more.
LEMMA SubSeqGrows ==
  ASSUME NEW S, NEW moves \in Seq(S), NEW m \in S, NEW after \in 0 .. Len(moves)
  PROVE  SubSeq(Append(moves, m), after + 1, Len(moves) + 1) =
           Append(SubSeq(moves, after + 1, Len(moves)), m)
<1>1. PICK long : long = Append(moves, m)
  OBVIOUS
<1>2. /\ long \in Seq(S) /\ Len(long) = Len(moves) + 1 /\ Len(moves) \in Nat
      /\ long[Len(moves) + 1] = m /\ \A i \in 1 .. Len(moves) : long[i] = moves[i]
  BY <1>1
<1>3. PICK a, b : a = SubSeq(long, after + 1, Len(moves) + 1) /\ b = SubSeq(moves, after + 1, Len(moves))
  OBVIOUS
<1>4. /\ a \in Seq(S) /\ Len(a) = Len(moves) - after + 1
      /\ \A i \in 1 .. Len(moves) - after + 1 : a[i] = long[after + i]
  <2>1. after + 1 \in 1 .. Len(long) + 1 /\ Len(moves) + 1 \in after .. Len(long)
    BY <1>2
  <2>2. /\ a \in Seq(S)
        /\ Len(a) = IF after + 1 <= Len(moves) + 1 THEN (Len(moves) + 1) - (after + 1) + 1 ELSE 0
        /\ \A i \in 1 .. (Len(moves) + 1) - (after + 1) + 1 : a[i] = long[(after + 1) + i - 1]
    BY <1>2, <1>3, <2>1, SubSeqProperties
  <2>. QED BY <1>2, <2>2
<1>5. /\ b \in Seq(S) /\ Len(b) = Len(moves) - after
      /\ \A i \in 1 .. Len(moves) - after : b[i] = moves[after + i]
  <2>1. after + 1 \in 1 .. Len(moves) + 1 /\ Len(moves) \in after .. Len(moves)
    BY <1>2
  <2>2. /\ b \in Seq(S)
        /\ Len(b) = IF after + 1 <= Len(moves) THEN Len(moves) - (after + 1) + 1 ELSE 0
        /\ \A i \in 1 .. Len(moves) - (after + 1) + 1 : b[i] = moves[(after + 1) + i - 1]
    BY <1>2, <1>3, <2>1, SubSeqProperties
  <2>. QED BY <1>2, <2>2
<1>6. PICK c : c = Append(b, m)
  OBVIOUS
<1>7. /\ c \in Seq(S) /\ Len(c) = Len(b) + 1
      /\ \A i \in 1 .. Len(b) : c[i] = b[i]
      /\ c[Len(b) + 1] = m
  BY <1>5, <1>6
<1>8. Len(a) = Len(c) /\ \A i \in 1 .. Len(c) : a[i] = c[i]
  <2>1. Len(a) = Len(c) /\ Len(b) \in Nat
    BY <1>2, <1>4, <1>5, <1>7
  <2>2. ASSUME NEW i \in 1 .. Len(c) PROVE a[i] = c[i]
    <3>1. CASE i = Len(b) + 1
      BY <1>2, <1>4, <1>5, <1>7, <3>1
    <3>2. CASE i # Len(b) + 1
      <4>1. i \in 1 .. Len(b) /\ after + i \in 1 .. Len(moves) /\ i \in 1 .. Len(moves) - after + 1
        BY <1>2, <1>5, <1>7, <3>2, SMTT(30)
      <4>. QED BY <1>2, <1>4, <1>5, <1>7, <4>1
    <3>. QED BY <3>1, <3>2
  <2>. QED BY <2>1, <2>2
<1>9. a = c
  BY <1>4, <1>7, <1>8, SeqEqual
<1>. QED BY <1>1, <1>3, <1>6, <1>9

\* A move adds one to the moves, and tells it to the listeners.
LEMMA MoveTells ==
  ASSUME IInv, Running, NEW e \in Definition.events, Move(e), UNCHANGED <<name, binary, stored>>
  PROVE  /\ StateOK' /\ HeardOK'
         /\ life' = [now |-> life'.now, stored |-> life.stored]
         /\ life'.now.moves # life.now.moves
         /\ state' = <<Definition.transition[<<Current, e>>]>>
         /\ CouldApply(Definition, Current, e)
<1>1. PICK d, s, to, L : /\ d = Definition /\ s = Current /\ L = life.now
                        /\ to = d.transition[<<s, e>>]
  OBVIOUS
<1>2. PICK M : M = [version |-> binary, value |-> to, start |-> L.start,
                    moves |-> Append(L.moves, <<s, e, to>>)]
  OBVIOUS
<1>3. CouldApply(d, s, e) /\ state' = <<to>>
  BY <1>1 DEF Move, CouldApply
<1>4. life' = [now |-> M, stored |-> life.stored]
  <2>1. life = [now |-> L, stored |-> life.stored]
    BY <1>1 DEF IInv
  <2>2. life' = [life EXCEPT !.now =
                   [version |-> binary, value |-> to, start |-> @.start,
                    moves |-> Append(@.moves, <<s, e, to>>)]]
    BY <1>1, Zenon DEF Move
  <2>. QED BY <1>1, <1>2, <2>1, <2>2
<1>5. life'.now = M /\ Current' = to /\ Running'
  BY <1>3, <1>4 DEF Current, Running
<1>6. M.moves = Append(L.moves, <<s, e, to>>)
  BY <1>2
<1>7. L.moves \in Seq(Steps(d)) /\ <<s, e, to>> \in Steps(d) /\ M.moves \in Seq(Steps(d))
  <2>1. L.moves \in Seq(Steps(d)) /\ s \in d.states /\ WellTyped(d)
    BY <1>1, RunningFacts
  <2>2. to \in d.states
    BY <1>1, <1>3, <2>1, TransitionType
  <2>3. <<s, e, to>> \in Steps(d)
    BY <1>1, <2>1, <2>2 DEF Steps
  <2>. QED BY <1>6, <2>1, <2>3
<1>8. M.moves # L.moves
  <2>1. Len(M.moves) = Len(L.moves) + 1 /\ Len(L.moves) \in Nat
    BY <1>6, <1>7
  <2>. QED BY <2>1
<1>9. PastOK(lineage, M, binary, to)
  <2>1. PICK g : g = lineage
    OBVIOUS
  <2>2. /\ ChainCompiles(g) /\ PastOK(g, L, binary, s) /\ WellTyped(g.types[binary])
        /\ d = g.types[binary] /\ e \in g.types[binary].events
    BY <1>1, <2>1, RunningFacts DEF IInv, Definition
  <2>. QED BY <1>1, <1>2, <1>3, <2>1, <2>2, PastGoesOn
<1>10. StateOK'
  BY <1>3, <1>5, <1>9 DEF StateOK, Current, Running, lineage
<1>11. HeardOK'
  <2>1. CASE ~Listening
    BY <2>1 DEF Listening, Move, FireTransition, HeardOK
  <2>2. CASE Listening
    <3>1. PICK h, k : h = heard[1] /\ k = [h EXCEPT !.moves = Append(@, <<s, e, to>>)]
      OBVIOUS
    <3>2. HeardOK /\ heard # <<>>
      BY <2>2 DEF IInv, Listening
    <3>3. /\ heard = <<[after |-> h.after, moves |-> h.moves, refusals |-> h.refusals]>>
          /\ h.after \in 0 .. Len(L.moves)
          /\ h.moves = SubSeq(L.moves, h.after + 1, Len(L.moves))
      BY <1>1, <3>1, <3>2, Zenon DEF HeardOK
    <3>4. PICK r : r = [after |-> h.after, moves |-> h.moves, refusals |-> h.refusals]
      OBVIOUS
    <3>5. h = r
      BY <3>1, <3>3, <3>4
    <3>6. heard' = <<k>>
      BY <1>1, <2>2, <3>1, Zenon DEF Move, FireTransition
    <3>7. /\ k = [after |-> k.after, moves |-> k.moves, refusals |-> k.refusals]
          /\ k.after = h.after /\ k.moves = Append(h.moves, <<s, e, to>>)
      BY <3>1, <3>4, <3>5
    <3>8. Len(M.moves) = Len(L.moves) + 1 /\ Len(L.moves) \in Nat
      BY <1>6, <1>7
    <3>9. k.moves = SubSeq(M.moves, k.after + 1, Len(M.moves))
      BY <1>6, <1>7, <3>3, <3>7, <3>8, SubSeqGrows
    <3>10. k.after \in 0 .. Len(M.moves)
      BY <3>3, <3>7, <3>8
    <3>11. heard'[1] = k
      BY <3>6
    <3>. QED BY <1>5, <3>6, <3>7, <3>9, <3>10, <3>11 DEF HeardOK
  <2>. QED BY <2>1, <2>2
<1>. QED BY <1>1, <1>3, <1>4, <1>5, <1>8, <1>10, <1>11

LEMMA ApplyKeepsIInv ==
  ASSUME IInv, NEW e \in Definition.events, Apply(e) PROVE IInv'
<1>1. Running /\ UNCHANGED <<name, binary, stored, report>>
  BY DEF Apply
<1>2. lineage' = lineage
  BY <1>1 DEF lineage
<1>3. ReportOK'
  BY <1>1, <1>2 DEF IInv, ReportOK
<1>4. CASE Move(e)
  <2>1. /\ StateOK' /\ HeardOK' /\ life' = [now |-> life'.now, stored |-> life.stored]
    BY <1>1, <1>4, MoveTells
  <2>2. life'.stored = life.stored
    BY <2>1
  <2>3. StoredOK'
    BY <1>1, <1>2, <2>2 DEF IInv, StoredOK
  <2>. QED BY <1>1, <1>2, <1>3, <2>1, <2>2, <2>3 DEF IInv
<1>5. CASE ~Move(e)
  <2>1. PICK error : FireRejection(e, error) /\ UNCHANGED <<state, life>>
    BY <1>5 DEF Apply, RefuseTerminal, RefuseKind, RefuseUndefined, Refuse
  <2>2. HeardOK'
    BY <2>1, RefusalTells
  <2>3. StateOK' /\ StoredOK'
    BY <1>1, <1>2, <2>1 DEF IInv, StateOK, StoredOK, Running, Current
  <2>. QED BY <1>1, <1>2, <1>3, <2>1, <2>2, <2>3 DEF IInv
<1>. QED BY <1>4, <1>5

LEMMA ListenKeepsIInv ==
  ASSUME IInv, Listen PROVE IInv'
<1>1. UNCHANGED <<name, binary, state, stored, report, life>> /\ lineage' = lineage /\ Running
  BY DEF Listen, lineage
<1>2. PICK h : h = [after |-> Len(life.now.moves), moves |-> <<>>, refusals |-> <<>>]
  OBVIOUS
<1>3. heard' = <<h>> /\ heard'[1] = h
  BY <1>2 DEF Listen
<1>4. h.after = Len(life.now.moves) /\ h.moves = <<>> /\ h.refusals = <<>>
  BY <1>2
<1>5. Len(life.now.moves) \in Nat
  BY <1>1, RunningFacts
<1>6. SubSeq(life.now.moves, h.after + 1, Len(life.now.moves)) = <<>>
  BY <1>4, <1>5, SubSeqEmpty
<1>7. h.after \in 0 .. Len(life.now.moves)
  BY <1>4, <1>5
<1>8. HeardOK'
  <2>1. h = [after |-> h.after, moves |-> h.moves, refusals |-> h.refusals]
    BY <1>2, <1>4
  <2>. QED BY <1>1, <1>3, <1>4, <1>6, <1>7, <2>1 DEF HeardOK, Running
<1>9. StateOK' /\ StoredOK' /\ ReportOK'
  BY <1>1 DEF IInv, StateOK, StoredOK, ReportOK, Running, Current
<1>. QED BY <1>1, <1>8, <1>9 DEF IInv

LEMMA AnalyzeKeepsIInv ==
  ASSUME IInv, Analyze PROVE IInv'
<1>1. UNCHANGED <<name, binary, state, heard, stored, life>> /\ lineage' = lineage /\ binary = 1
  BY DEF Analyze, lineage
<1>2. report' = <<Report(lineage.types[1])>>
  BY <1>1 DEF Analyze, Definition
<1>3. ReportOK'
  BY <1>1, <1>2 DEF ReportOK
<1>4. StateOK' /\ StoredOK' /\ HeardOK'
  BY <1>1 DEF IInv, StateOK, StoredOK, HeardOK, Running, Current
<1>. QED BY <1>1, <1>3, <1>4 DEF IInv

LEMMA StoreKeepsIInv ==
  ASSUME IInv, Store PROVE IInv'
<1>1. UNCHANGED <<name, binary, state, heard, report>> /\ lineage' = lineage /\ Running
  BY DEF Store, lineage
<1>2. PICK env : env = [version |-> binary, payload |-> Current]
  OBVIOUS
<1>3. env.version = binary /\ env.payload = Current
      /\ env = [version |-> env.version, payload |-> env.payload]
  BY <1>2
<1>4. stored' = <<env>> /\ stored'[1] = env
  BY <1>2 DEF Store
<1>5. life' = [now |-> life.now, stored |-> <<life.now>>]
  <2>1. life = [now |-> life.now, stored |-> life.stored]
    BY DEF IInv
  <2>2. life' = [life EXCEPT !.stored = <<life.now>>]
    BY DEF Store
  <2>. QED BY <2>1, <2>2
<1>6. life'.now = life.now /\ life'.stored = <<life.now>> /\ life'.stored[1] = life.now
  BY <1>5
<1>7. PastOK(lineage, life.now, binary, Current)
  BY <1>1, RunningFacts
<1>8. StoredOK'
  BY <1>1, <1>3, <1>4, <1>6, <1>7 DEF StoredOK
<1>9. StateOK' /\ HeardOK' /\ ReportOK'
  BY <1>1, <1>6 DEF IInv, StateOK, HeardOK, ReportOK, Running, Current
<1>. QED BY <1>1, <1>5, <1>6, <1>8, <1>9 DEF IInv

LEMMA DeployKeepsIInv ==
  ASSUME IInv, NEW v \in 1 .. Len(lineage.types), Deploy(v) PROVE IInv'
<1>1. /\ UNCHANGED <<name, stored, report, life>> /\ lineage' = lineage
      /\ binary' = v /\ state' = <<>> /\ heard' = <<>>
  BY DEF Deploy, lineage
<1>2. StateOK' /\ StoredOK' /\ HeardOK' /\ ReportOK'
  BY <1>1 DEF IInv, StateOK, StoredOK, HeardOK, ReportOK, Running
<1>. QED BY <1>1, <1>2 DEF IInv

LEMMA LoadKeepsIInv ==
  ASSUME IInv, Load PROVE IInv'
<1>1. UNCHANGED <<name, binary, heard, stored, report>> /\ lineage' = lineage
  BY DEF Load, lineage
<1>2. ~Running /\ stored # <<>>
  BY DEF Load
<1>3. PICK g, w, was, found : /\ g = lineage /\ w = binary
                             /\ was = life.stored[1] /\ found = stored[1]
  OBVIOUS
<1>4. PICK answer : answer = RestoreVersioned(g, w, found)
  OBVIOUS
<1>5. /\ ChainCompiles(g) /\ Len(g.types) \in Nat /\ w \in 1 .. Len(g.types)
      /\ WellTyped(g.types[w])
  BY <1>3, RunningFacts DEF IInv
<1>6. PastOK(g, was, found.version, found.payload)
  BY <1>2, <1>3 DEF IInv, StoredOK
<1>7. found.version \in 1 .. Len(g.types)
  BY <1>5, <1>6, PastIsOfItsVersion
<1>8. /\ "state" \in DOMAIN answer /\ state' = <<answer.state>>
      /\ life' = [life EXCEPT !.now =
                    IF found.version = w THEN was
                    ELSE [was EXCEPT !.start = answer.state, !.moves = <<>>]]
  BY <1>3, <1>4, Zenon DEF Load
<1>9. found.version <= w
  <2>1. CASE found.version > w
    <3>1. ~(found.version \in 1 .. w)
      BY <1>5, <1>7, <2>1
    <3>2. answer = [error |-> "NewerThanBinary", found |-> found.version, supports |-> w]
      BY <1>4, <2>1, <3>1 DEF RestoreVersioned
    <3>. QED BY <1>8, <3>2
  <2>. QED BY <1>5, <1>7, <2>1
<1>10. found.version \in 1 .. w /\ w \in found.version .. Len(g.types)
  BY <1>5, <1>7, <1>9
<1>11. answer.state = Migrate(g, found.version, w, found.payload)
  <2>1. found.payload \in g.types[found.version].states
    BY <1>5, <1>6, PastIsOfItsVersion
  <2>2. answer = [state |-> Migrate(g, found.version, w, found.payload)]
    BY <1>4, <1>5, <1>7, <1>10, <2>1 DEF RestoreVersioned
  <2>. QED BY <2>2
<1>12. PICK M : M = IF found.version = w THEN was
                    ELSE [was EXCEPT !.start = answer.state, !.moves = <<>>]
  OBVIOUS
<1>13. PastOK(g, M, w, answer.state)
  BY <1>5, <1>6, <1>10, <1>11, <1>12, PastIsRestored
<1>14. life' = [now |-> M, stored |-> life.stored]
  <2>1. life = [now |-> life.now, stored |-> life.stored]
    BY DEF IInv
  <2>2. life' = [life EXCEPT !.now = M]
    BY <1>8, <1>12
  <2>. QED BY <2>1, <2>2
<1>15. life'.now = M /\ life'.stored = life.stored /\ Current' = answer.state
  BY <1>8, <1>14 DEF Current
<1>16. StateOK'
  BY <1>1, <1>3, <1>8, <1>13, <1>15 DEF StateOK, Current
<1>17. heard = <<>>
  BY <1>2 DEF IInv, HeardOK
<1>18. StoredOK' /\ HeardOK' /\ ReportOK'
  BY <1>1, <1>15, <1>17 DEF IInv, StoredOK, HeardOK, ReportOK
<1>. QED BY <1>1, <1>14, <1>15, <1>16, <1>18 DEF IInv

LEMMA NextKeepsIInv ==
  ASSUME IInv, [Next]_vars PROVE IInv'
<1>1. ASSUME NEW e \in Definition.events, Apply(e) PROVE IInv'
  BY <1>1, ApplyKeepsIInv
<1>2. ASSUME NEW v \in 1 .. Len(lineage.types), Deploy(v) PROVE IInv'
  BY <1>2, DeployKeepsIInv
<1>3. CASE UNCHANGED vars
  BY <1>3 DEF vars, IInv, StateOK, StoredOK, HeardOK, ReportOK, Running, Current, lineage
<1>. QED
  BY <1>1, <1>2, <1>3, ListenKeepsIInv, AnalyzeKeepsIInv, StoreKeepsIInv, LoadKeepsIInv DEF Next

LEMMA Invariance == Spec => []IInv
<1>1. Init => IInv
  BY InitEstablishesIInv
<1>2. IInv /\ [Next]_vars => IInv'
  BY NextKeepsIInv
<1>. QED BY <1>1, <1>2, PTL DEF Spec

-----------------------------------------------------------------------------
(* The theorems.                                                           *)

\* The machine that runs is one of the lineage and stands in a state of its
\* version; listeners belong to a machine that runs.
THEOREM TypeCorrect == Spec => []TypeOK
<1>1. IInv => TypeOK
  <2> SUFFICES ASSUME IInv PROVE TypeOK
    OBVIOUS
  <2>1. Running => Current \in Definition.states
    BY RunningFacts
  <2>2. Len(heard) <= 1 /\ (Listening => Running)
    <3>1. CASE heard = <<>>
      BY <3>1 DEF Listening
    <3>2. CASE heard # <<>>
      <4>1. PICK h : h = [after |-> heard[1].after, moves |-> heard[1].moves,
                          refusals |-> heard[1].refusals]
        OBVIOUS
      <4>2. Running /\ heard = <<h>>
        BY <3>2, <4>1, Zenon DEF IInv, HeardOK
      <4>. QED BY <4>2
    <3>. QED BY <3>1, <3>2
  <2>3. Len(stored) = Len(life.stored)
    <3>1. CASE stored = <<>> /\ life.stored = <<>>
      BY <3>1
    <3>2. CASE ~(stored = <<>> /\ life.stored = <<>>)
      <4>1. PICK a, b : /\ a = [version |-> stored[1].version, payload |-> stored[1].payload]
                        /\ b = life.stored[1]
        OBVIOUS
      <4>2. stored = <<a>> /\ life.stored = <<b>>
        BY <3>2, <4>1, Zenon DEF IInv, StoredOK
      <4>. QED BY <4>2
    <3>. QED BY <3>1, <3>2
  <2>. QED BY <2>1, <2>2, <2>3 DEF IInv, TypeOK
<1>. QED BY <1>1, Invariance, PTL

\* The listeners are told of every move since they were registered, in order and
\* once, and of none that was not made.
THEOREM ListenersAreToldEveryMove == Spec => []ListenersTellTheStory
<1>1. IInv => ListenersTellTheStory
  <2> SUFFICES ASSUME IInv, Listening PROVE ListenersTellTheStory
    BY DEF ListenersTellTheStory
  <2>1. PICK h, moves : h = heard[1] /\ moves = life.now.moves
    OBVIOUS
  <2>2. /\ Running /\ h.after \in 0 .. Len(moves)
        /\ h.moves = SubSeq(moves, h.after + 1, Len(moves))
    BY <2>1, Zenon DEF IInv, HeardOK, Listening
  <2>3. moves \in Seq(Steps(Definition)) /\ MovesOK(Definition, moves, Current)
    BY <2>1, <2>2, RunningFacts
  <2>4. ASSUME h.moves # <<>> PROVE h.moves[Len(h.moves)][3] = Current
    <3>1. PICK after, n : after = h.after /\ n = Len(moves)
      OBVIOUS
    <3>2. after \in Nat /\ n \in Nat /\ after <= n
      BY <2>2, <2>3, <3>1
    <3>3. after # n
      <4>1. ASSUME after = n PROVE FALSE
        <5>1. SubSeq(moves, after + 1, n) = <<>>
          BY <3>2, <4>1, SubSeqEmpty
        <5>. QED BY <2>2, <2>4, <3>1, <5>1
      <4>. QED BY <4>1
    <3>4. /\ Len(SubSeq(moves, after + 1, n)) = n - after
          /\ SubSeq(moves, after + 1, n)[n - after] = moves[n]
      <4>1. /\ Len(SubSeq(moves, after + 1, n)) =
                 IF after + 1 <= n THEN n - (after + 1) + 1 ELSE 0
            /\ \A i \in 1 .. n - (after + 1) + 1 :
                 SubSeq(moves, after + 1, n)[i] = moves[(after + 1) + i - 1]
        <5>1. \A i \in after + 1 .. n : moves[i] \in Steps(Definition)
          BY <2>3, <3>1, <3>2
        <5>2. after + 1 \in Int /\ n \in Int
          BY <3>2
        <5>. QED BY <5>1, <5>2, SubSeqProperties
      <4>2. /\ n - after \in 1 .. n - (after + 1) + 1 /\ (after + 1) + (n - after) - 1 = n
            /\ n - (after + 1) + 1 = n - after /\ after + 1 <= n
        BY <3>2, <3>3
      <4>. QED BY <4>1, <4>2
    <3>5. moves # <<>>
      BY <2>3, <3>1, <3>2, <3>3
    <3>6. moves[n][3] = Current
      BY <2>3, <3>1, <3>5 DEF MovesOK
    <3>. QED BY <2>2, <3>1, <3>4, <3>6
  <2>. QED BY <2>1, <2>2, <2>4 DEF ListenersTellTheStory
<1>. QED BY <1>1, Invariance, PTL

\* The probes say of an event what `apply` does with it, error included, and the
\* metadata lists the representatives it moves on.
THEOREM ProbesAgreeWithApply == Spec => ProbesPredictApply
<1>1. ASSUME IInv, NEW e \in Definition.events, Apply(e) PROVE ProbesAgree(e)
  <2>1. PICK d, s, why : d = Definition /\ s = Current /\ why = WhyNot(d, s, e)
    OBVIOUS
  <2>2. PICK moved \in BOOLEAN : moved <=> life'.now.moves # life.now.moves
    OBVIOUS
  <2>3. Running /\ UNCHANGED <<name, binary, stored, report>>
    BY <1>1 DEF Apply
  <2>4. moved <=> CouldApply(d, s, e)
    <3>1. CASE Move(e)
      BY <1>1, <2>1, <2>2, <2>3, <3>1, MoveTells
    <3>2. CASE ~Move(e)
      <4>1. life' = life
        BY <1>1, <3>2 DEF Apply, RefuseTerminal, RefuseKind, RefuseUndefined, Refuse
      <4>2. ~CouldApply(d, s, e)
        BY <1>1, <2>1, <3>2 DEF Apply, RefuseTerminal, RefuseKind, RefuseUndefined, CouldApply
      <4>. QED BY <2>2, <4>1, <4>2
    <3>. QED BY <3>1, <3>2
  <2>5. moved => state' = <<d.transition[<<s, e>>]>>
    <3>1. moved => Move(e)
      BY <1>1, <2>2 DEF Apply, RefuseTerminal, RefuseKind, RefuseUndefined, Refuse
    <3>. QED BY <1>1, <2>1, <2>3, <3>1, MoveTells
  <2>6. PeekTransition(d, s, e) = IF moved THEN {state'[1]} ELSE {}
    BY <2>4, <2>5 DEF PeekTransition
  <2>7. moved <=> why = "None"
    BY <2>1, <2>4 DEF WhyNot, CouldApply
  <2>8. ASSUME Listening, ~moved
        PROVE  heard'[1].refusals = Append(heard[1].refusals, <<s, e, why>>)
    <3>1. FireRejection(e, why) /\ UNCHANGED <<state, life>>
      <4>1. CASE RefuseTerminal(e)
        BY <2>1, <4>1 DEF RefuseTerminal, Refuse, WhyNot
      <4>2. CASE RefuseKind(e)
        BY <2>1, <4>2 DEF RefuseKind, Refuse, WhyNot
      <4>3. CASE RefuseUndefined(e)
        BY <2>1, <2>4, <2>7, <2>8, <4>3 DEF RefuseUndefined, Refuse, WhyNot, CouldApply
      <4>4. CASE Move(e)
        BY <1>1, <2>1, <2>2, <2>3, <2>8, <4>4, MoveTells
      <4>. QED BY <1>1, <4>1, <4>2, <4>3, <4>4 DEF Apply
    <3>. QED BY <1>1, <2>1, <2>8, <3>1, RefusalTells
  <2>9. ASSUME e \in EventVariants(d)
        PROVE  moved <=> \E t \in MetadataTransitions(d) : t[1] = s /\ t[2] = e
    <3>1. ASSUME CouldApply(d, s, e)
          PROVE  \E t \in MetadataTransitions(d) : t[1] = s /\ t[2] = e
      <4>1. PICK se : se = <<s, e>>
        OBVIOUS
      <4>2. /\ se \in DOMAIN d.transition /\ se[1] = s /\ se[2] = e
            /\ se[1] \notin d.terminal /\ KindAccepted(d, se[1], se[2])
        BY <3>1, <4>1 DEF CouldApply, HasTransition
      <4>3. <<se[1], se[2], d.transition[se]>> \in MetadataTransitions(d)
        BY <2>9, <4>2 DEF MetadataTransitions
      <4>. QED BY <4>2, <4>3
    <3>2. ASSUME NEW t \in MetadataTransitions(d), t[1] = s, t[2] = e
          PROVE  CouldApply(d, s, e)
      <4>1. PICK se \in DOMAIN d.transition :
              /\ se[1] \notin d.terminal /\ KindAccepted(d, se[1], se[2])
              /\ t = <<se[1], se[2], d.transition[se]>>
        BY <3>2 DEF MetadataTransitions
      <4>2. se[1] = s /\ se[2] = e
        BY <3>2, <4>1
      <4>3. WellTyped(d)
        BY <1>1, <2>1, RunningFacts
      <4>4. se = <<s, e>>
        BY <4>2, <4>3 DEF WellTyped
      <4>. QED BY <4>1, <4>2, <4>4 DEF CouldApply, HasTransition
    <3>. QED BY <2>4, <3>1, <3>2
  <2>. QED BY <2>1, <2>2, <2>4, <2>6, <2>7, <2>8, <2>9 DEF ProbesAgree
<1>2. IInv => \A e \in Definition.events : Apply(e) => ProbesAgree(e)
  BY <1>1
<1>. QED BY <1>2, Invariance, PTL DEF ProbesPredictApply

\* The report says of a definition what the walks find: the two traversals never
\* disagree.
THEOREM ReportAgreesWithTheWalks == Spec => ReportAgreesWithWalks
<1>1. ASSUME IInv, [Next]_vars, report # report' PROVE ReportAgrees(Definition, report'[1])
  <2>1. Analyze
    <3>1. ASSUME NEW e \in Definition.events, Apply(e) PROVE report' = report
      BY <3>1 DEF Apply
    <3>2. ASSUME NEW v \in 1 .. Len(lineage.types), Deploy(v) PROVE report' = report
      BY <3>2 DEF Deploy
    <3>. QED BY <1>1, <3>1, <3>2 DEF Next, vars, Listen, Store, Load
  <2>2. report'[1] = Report(Definition)
    BY <2>1 DEF Analyze
  <2>3. ReportAgrees(Definition, Report(Definition))
    BY <1>1, RunningFacts, ReportsAgree
  <2>. QED BY <2>2, <2>3
<1>2. IInv /\ [Next]_vars => (report # report' => ReportAgrees(Definition, report'[1]))
  BY <1>1
<1>. QED BY <1>2, Invariance, PTL DEF Spec, ReportAgreesWithWalks

\* What the report calls proven comes true in every run of a machine whose payloads
\* decide nothing.
THEOREM ReportsComeTrue == Spec => []ReportComesTrue
<1>1. IInv => ReportComesTrue
  <2> SUFFICES ASSUME IInv, Running, binary = 1, report # <<>>, DataFree(Definition)
               PROVE  ReportComesTrue
    BY DEF ReportComesTrue
  <2>1. PICK d, r, s, L : d = Definition /\ r = report[1] /\ s = Current /\ L = life.now
    OBVIOUS
  <2>2. r = Report(d)
    BY <2>1 DEF IInv, ReportOK, Definition
  <2>3. /\ WellTyped(d) /\ Compiles(d) /\ DataFree(d) /\ s \in d.states
        /\ PastOK(lineage, L, binary, s) /\ MovesOK(d, L.moves, s)
    BY <2>1, RunningFacts
  <2>4. L.start \in d.states /\ s \in WalkedFrom(d, {L.start})
    BY <2>1, <2>3 DEF PastOK, Definition
  <2>5. ReportAgrees(d, r)
    BY <2>2, <2>3, ReportsAgree
  <2>6. /\ r.deadlocks = {x \in d.states \ d.terminal : ~HasEdges(d, x)}
        /\ r.inescapable = {x \in (d.states \ d.terminal) \ ReachesTerminal(d) : HasEdges(d, x)}
        /\ r.dead = {se \in Representative(d) : ~StructurallyAllowed(d, se)}
    BY <2>2 DEF Report
  <2>7. L.start = d.initial => s \notin r.unreachable
    BY <2>4, <2>5 DEF ReportAgrees
  <2>8. ASSUME NEW i \in 1 .. Len(L.moves)
        PROVE  /\ L.moves[i][1] \notin r.deadlocks
               /\ L.moves[i][1] \in r.inescapable => s \notin d.terminal
               /\ <<L.moves[i][1], <<L.moves[i][2][1], DefaultPayload>>>> \notin r.dead
    <3>1. PICK from, e : from = L.moves[i][1] /\ e = L.moves[i][2]
      OBVIOUS
    <3>2. from \in d.states /\ e \in d.events
      <4>1. L.moves[i] \in Steps(d)
        BY <2>3 DEF MovesOK
      <4>. QED BY <3>1, <4>1 DEF Steps
    <3>3. CouldApply(d, from, e) /\ s \in WalkedFrom(d, {from})
      BY <2>3, <3>1 DEF MovesOK
    <3>4. PICK f : f = <<e[1], DefaultPayload>>
      OBVIOUS
    <3>5. /\ <<from, d.transition[<<from, e>>]>> \in Edges(d)
          /\ CouldApply(d, from, f)
      BY <2>3, <3>2, <3>3, <3>4, MoveIsEdge
    <3>6. from \notin r.deadlocks
      <4>1. <<from, d.transition[<<from, e>>]>>[1] = from
        OBVIOUS
      <4>2. HasEdges(d, from)
        BY <3>5, <4>1 DEF HasEdges
      <4>. QED BY <2>6, <4>2
    <3>7. from \in r.inescapable => s \notin d.terminal
      BY <2>5, <2>6, <3>3 DEF ReportAgrees
    <3>8. <<from, f>> \notin r.dead
      <4>1. <<from, f>>[1] = from /\ <<from, f>>[2] = f
        OBVIOUS
      <4>2. StructurallyAllowed(d, <<from, f>>)
        BY <3>5, <4>1 DEF StructurallyAllowed, CouldApply
      <4>. QED BY <2>6, <4>2
    <3>. QED BY <3>1, <3>4, <3>6, <3>7, <3>8
  <2>9. ASSUME ~HasErrors(r), s \notin d.terminal
        PROVE  \E e \in d.events : CouldApply(d, s, e)
    <3>1. s \notin r.deadlocks
      BY <2>9 DEF HasErrors
    <3>2. PICK edge \in Edges(d) : edge[1] = s
      BY <2>3, <2>6, <2>9, <3>1 DEF HasEdges
    <3>3. <<s, edge[2]>> \in Edges(d)
      BY <2>3, <3>2, EdgesAre
    <3>4. PICK e \in EventVariants(d) : CouldApply(d, s, e)
      BY <2>3, <3>3, EdgesAre
    <3>. QED BY <3>4 DEF EventVariants
  <2>. QED BY <2>1, <2>7, <2>8, <2>9 DEF ReportComesTrue
<1>. QED BY <1>1, Invariance, PTL

\* Whichever way the releases went, a restored state is what its last own version
\* would have become through every later version once.
THEOREM UpgradesDoNotDependOnThePath == Spec => []UpgradePathDoesNotMatter
<1>1. IInv => UpgradePathDoesNotMatter
  <2> SUFFICES ASSUME IInv, Running PROVE UpgradePathDoesNotMatter
    BY DEF UpgradePathDoesNotMatter
  <2>1. PICK g, L, v, top : /\ g = lineage /\ L = life.now /\ v = binary
                            /\ top = Len(lineage.types)
    OBVIOUS
  <2>2. ChainCompiles(g) /\ PastOK(g, L, v, Current) /\ top \in Nat
    BY <2>1, RunningFacts
  <2>3. /\ L.version \in 1 .. top /\ v \in L.version .. top /\ v \in 1 .. top
        /\ L.value \in g.types[L.version].states /\ L.version <= v
        /\ Current = Migrate(g, L.version, v, L.value)
    BY <2>1, <2>2, PastIsOfItsVersion DEF PastOK
  <2>4. top \in L.version .. top
    BY <2>2, <2>3
  <2>5. Current = Chain(g, L.version, top, L.value)[v]
    BY <2>1, <2>2, <2>3, <2>4, MigrateIs
  <2>. QED BY <2>1, <2>3, <2>5 DEF UpgradePathDoesNotMatter, Chain
<1>. QED BY <1>1, Invariance, PTL
=============================================================================
