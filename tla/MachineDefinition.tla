-------------------------- MODULE MachineDefinition --------------------------
(***************************************************************************)
(* A state machine as a value: what `#[derive(StateMachine)]` and          *)
(* `#[derive(Event)]` generate for an enum, together with the transition   *)
(* function its author wrote, and everything the library computes from     *)
(* those without running a machine: the guards of `apply` and of its       *)
(* probes, the metadata, the report of `analyze!`, the states `test!`      *)
(* walks through, and the restore of a value stored by an older version.   *)
(*                                                                         *)
(* A definition d has the fields                                           *)
(*   states, initial, terminal  the variants of the enum;                  *)
(*   restriction                the kinds a state accepts, a function on   *)
(*                              the states marked #[only_accepts];         *)
(*   events                     pairs of a variant and a payload;          *)
(*   kinds                      the kinds an event carries, a function on  *)
(*                              the variants marked #[event_kind];         *)
(*   transition                 the transition function, defined on the    *)
(*                              pairs it answers with Some.                *)
(* A state is its variant: data carried by a state is left out.            *)
(***************************************************************************)
EXTENDS Integers, Sequences, FiniteSets

\* The payload of Default::default().
DefaultPayload == 0

\* One representative of each event variant.
EventVariants(d) == {e \in d.events : e[2] = DefaultPayload}

\* What the derive refuses to compile.
Compiles(d) ==
  /\ d.initial \in d.states
  /\ d.terminal # {}
  /\ d.terminal \subseteq d.states

\* What the types of the generated code and of the transition function say.
\* Every variant of an event has a representative.
WellTyped(d) ==
  /\ IsFiniteSet(d.states)
  /\ \A e \in d.events : <<e[1], DefaultPayload>> \in d.events
  /\ DOMAIN d.transition \subseteq d.states \X d.events
  /\ \A se \in DOMAIN d.transition : d.transition[se] \in d.states

-----------------------------------------------------------------------------
(* The guards.                                                             *)

Intersects(a, b) == a \cap b # {}

\* An event without a kind is blocked by every restricted state.
KindAccepted(d, s, e) ==
  s \in DOMAIN d.restriction =>
    /\ e[1] \in DOMAIN d.kinds
    /\ Intersects(d.restriction[s], d.kinds[e[1]])

HasTransition(d, s, e) == <<s, e>> \in DOMAIN d.transition

\* Slip: the restriction is not looked at.
CouldApplyAnyKind(d, s, e) == s \notin d.terminal /\ HasTransition(d, s, e)

CouldApply(d, s, e) ==
  /\ s \notin d.terminal
  /\ KindAccepted(d, s, e)
  /\ HasTransition(d, s, e)

\* The error `apply` would return, or "None".
WhyNot(d, s, e) ==
  CASE s \in d.terminal -> "TerminalState"
    [] s \notin d.terminal /\ ~KindAccepted(d, s, e) -> "EventKindRejected"
    [] OTHER -> IF HasTransition(d, s, e) THEN "None" ELSE "NoTransition"

PeekTransition(d, s, e) ==
  IF CouldApply(d, s, e) THEN {d.transition[<<s, e>>]} ELSE {}

\* The transitions between variants that enforcement lets through.
MetadataTransitions(d) ==
  {<<se[1], se[2], d.transition[se]>> :
     se \in {x \in DOMAIN d.transition :
               /\ x[1] \notin d.terminal
               /\ x[2] \in EventVariants(d)
               /\ KindAccepted(d, x[1], x[2])}}

-----------------------------------------------------------------------------
(* The report of `analyze!`.                                               *)

\* The transitions the function defines between representatives.
Representative(d) ==
  {se \in DOMAIN d.transition : se[2] \in EventVariants(d)}

StructurallyAllowed(d, se) ==
  se[1] \notin d.terminal /\ KindAccepted(d, se[1], se[2])

Edges(d) ==
  {<<se[1], d.transition[se]>> :
     se \in {x \in Representative(d) : StructurallyAllowed(d, x)}}

\* A search that has marked `seen` and still has to expand `stack`.  The order
\* it expands them in does not matter to what it marks.
SearchState(d) == [seen : SUBSET d.states, stack : SUBSET d.states]

Expand(w, edges) ==
  LET i == CHOOSE s \in w.stack : TRUE
      new == {x \in {edge[2] : edge \in {y \in edges : y[1] = i}} : x \notin w.seen}
  IN [seen |-> w.seen \union new, stack |-> (w.stack \ {i}) \union new]

Search(d, start, edges) ==
  LET search[w \in SearchState(d)] ==
        IF w.stack = {} THEN w.seen ELSE search[Expand(w, edges)]
  IN search[[seen |-> start, stack |-> start]]

ReachableFrom(d) == Search(d, {d.initial}, Edges(d))

\* Slip: the edges are not reversed.
ReachesTerminalForward(d) == Search(d, d.terminal, Edges(d))

ReachesTerminal(d) ==
  Search(d, d.terminal, {<<edge[2], edge[1]>> : edge \in Edges(d)})

HasEdges(d, s) == \E edge \in Edges(d) : edge[1] = s

Report(d) ==
  [unreachable |-> d.states \ ReachableFrom(d),
   deadlocks   |-> {s \in d.states \ d.terminal : ~HasEdges(d, s)},
   inescapable |-> {s \in (d.states \ d.terminal) \ ReachesTerminal(d) :
                      HasEdges(d, s)},
   dead        |-> {se \in Representative(d) : ~StructurallyAllowed(d, se)},
   unused      |-> {e \in EventVariants(d) :
                      ~\E se \in Representative(d) :
                         se[2] = e /\ StructurallyAllowed(d, se)}]

HasErrors(r) ==
  r.unreachable \union r.deadlocks \union r.inescapable # {} \/ r.dead # {}

-----------------------------------------------------------------------------
(* The walks of `test!`.                                                   *)

\* A walk applies representatives, the only events the harness can make.
Testable(d) == EventVariants(d)

\* Where one more event may lead a machine that stands in one of `from`.
Walk(d, from) ==
  from \union {d.transition[se] :
                 se \in {x \in from \X Testable(d) : CouldApply(d, x[1], x[2])}}

\* Every state a walk from `from` can stand in: no simple path is longer than
\* the number of states.
WalkedFrom(d, from) ==
  LET walked[n \in 0 .. Cardinality(d.states)] ==
        IF n = 0 THEN from ELSE Walk(d, walked[n - 1])
  IN walked[Cardinality(d.states)]

-----------------------------------------------------------------------------
(* Versioned restore.  A lineage is the enum through its versions: `types` *)
(* has the definition at each, and migrate[i] takes a value of types[i] to *)
(* types[i+1], MigrateFrom.  The binary at version v declares the types    *)
(* before it as its history.                                               *)

Lineage(types, migrate) == [types |-> types, migrate |-> migrate]

\* A chain with a step missing, or a type that is refused, does not compile.
ChainCompiles(g) ==
  /\ Len(g.types) \in Nat \ {0}
  /\ \A i \in 1 .. Len(g.types) : Compiles(g.types[i])
  /\ Len(g.migrate) = Len(g.types) - 1
  /\ \A i \in 1 .. Len(g.migrate) :
       g.migrate[i] \in [g.types[i].states -> g.types[i + 1].states]

\* Slip: the last step, into the current type, is left out.
MigrateToLastHistory(g, from, to, value) ==
  LET chain[i \in from .. to] ==
        IF i = from THEN value ELSE g.migrate[i - 1][chain[i - 1]]
  IN chain[IF to > from THEN to - 1 ELSE to]

\* The generated steps: every later type of the history, then the current one.
Migrate(g, from, to, value) ==
  LET chain[i \in from .. to] ==
        IF i = from THEN value ELSE g.migrate[i - 1][chain[i - 1]]
  IN chain[to]

\* The answer to bytes that are no envelope.
DecodeError(version) == [error |-> "Decode", version |-> version]

\* Slip: what is newer than the binary is read as its own type.
RestoreVersionedLoosely(g, version, found) ==
  IF found.version \in 1 .. version
  THEN IF found.payload \in g.types[found.version].states
       THEN [state |-> Migrate(g, found.version, version, found.payload)]
       ELSE DecodeError(found.version)
  ELSE IF found.payload \in g.types[version].states
       THEN [state |-> found.payload]
       ELSE DecodeError(version)

\* The binary at `version` reads an envelope: the payload is decoded as the
\* type recorded for the version found, and migrated to the binary's own.
RestoreVersioned(g, version, found) ==
  CASE found.version \in 1 .. version ->
         IF found.payload \in g.types[found.version].states
         THEN [state |-> Migrate(g, found.version, version, found.payload)]
         ELSE DecodeError(found.version)
    [] found.version > version ->
         [error |-> "NewerThanBinary", found |-> found.version, supports |-> version]
    [] OTHER -> [error |-> "UnknownVersion", found |-> found.version]
=============================================================================
