----------------------------- MODULE Aggregates -----------------------------
(***************************************************************************)
(* Aggregates (ironstate-aggregate/src/rules.rs) and what the harness asks *)
(* of them (testkit.rs), for three of the examples.  A world w says which  *)
(* aggregate it is and over which tape its contexts draw.                  *)
(*                                                                         *)
(* A decision is the events of a command, none if it is rejected, whether  *)
(* it was accepted, and the position it leaves the context at.             *)
(***************************************************************************)
EXTENDS Integers, Sequences

CONSTANTS WordBits, Cents, Catalog, Capacity, Cards, Tokens

ASSUME WordBitsAssumption == WordBits \in Nat
ASSUME CentsAssumption == Cents \subseteq Nat
ASSUME CatalogAssumption ==
  /\ Catalog \in Seq({Catalog[i] : i \in DOMAIN Catalog})
  /\ \A i \in DOMAIN Catalog : Catalog[i].weight \in Nat \ {0}
ASSUME CapacityAssumption == Capacity \in Nat
ASSUME CardsAssumption == Cards \in Nat \ {0}
ASSUME TokensAssumption == Tokens \in Nat \ {0}

Ledger     == INSTANCE Account
CatalogCtx == INSTANCE Chest
HiddenInfo == INSTANCE MatchState

LOCAL INSTANCE MachineDefinition

Name == {"Account", "Chest", "MatchState"}

\* The phase machine of each, its first state, and the commands there are.
PhaseMachine ==
  [Account |-> Ledger!AccountPhase, Chest |-> CatalogCtx!ChestPhase,
   MatchState |-> HiddenInfo!MatchPhase]

InitialState ==
  [Account |-> Ledger!Open, Chest |-> CatalogCtx!Sealed, MatchState |-> HiddenInfo!NewMatch]

Command ==
  [Account |-> Ledger!Command, Chest |-> CatalogCtx!Command,
   MatchState |-> HiddenInfo!Command]

CommandKinds ==
  [Account |-> Ledger!NoMarks, Chest |-> CatalogCtx!CommandKinds,
   MatchState |-> HiddenInfo!CommandKinds]

CommandStrategy(w, s) ==
  IF w.aggregate = "MatchState" THEN HiddenInfo!Strategy(s) ELSE Command[w.aggregate]

IsTerminal(w, s) == s.phase \in PhaseMachine[w.aggregate].terminal

\* Only a state in the initial phase starts an aggregate.
New(w, s) == s.phase = PhaseMachine[w.aggregate].initial

\* Slip: the kind of a command is not looked at.
StructurallyRejectedTerminal(w, s, cmd) == IsTerminal(w, s)

\* A terminal phase, or one that restricts the kinds, rejects before `decide`.
StructurallyRejected(w, s, cmd) ==
  LET machine == PhaseMachine[w.aggregate]
      kinds == CommandKinds[w.aggregate]
  IN \/ IsTerminal(w, s)
     \/ /\ s.phase \in DOMAIN machine.restriction
        /\ cmd.name \in DOMAIN kinds =>
             ~Intersects(machine.restriction[s.phase], kinds[cmd.name])

Rejected(pos) == [accepted |-> FALSE, events |-> <<>>, pos |-> pos]

Accepted(events, pos) == [accepted |-> TRUE, events |-> events, pos |-> pos]

\* `decide` of each aggregate.  A rejected gamble has drawn.
Decide(w, s, cmd, pos) ==
  CASE w.aggregate = "Account" ->
         IF Ledger!Accepts(s, cmd)
         THEN Accepted(Ledger!Decide(s, cmd), pos) ELSE Rejected(pos)
    [] w.aggregate = "Chest" ->
         LET drawn == CatalogCtx!DrawItem(w.tape, pos)
             after == CatalogCtx!PosAfter(s, cmd, pos, drawn)
         IN IF CatalogCtx!Accepts(s, cmd, drawn)
            THEN Accepted(CatalogCtx!Decide(cmd, drawn), after) ELSE Rejected(after)
    [] w.aggregate = "MatchState" ->
         LET drawn == HiddenInfo!DrawRange(w.tape, pos, 0, Cards)
             after == HiddenInfo!PosAfter(s, cmd, pos, drawn)
         IN IF HiddenInfo!Accepts(s, cmd)
            THEN Accepted(HiddenInfo!Decide(s, cmd, drawn), after) ELSE Rejected(after)

DecideOnly(w, s, cmd, pos) ==
  IF StructurallyRejected(w, s, cmd) THEN Rejected(pos) ELSE Decide(w, s, cmd, pos)

Evolve(w, s, event) ==
  CASE w.aggregate = "Account"    -> Ledger!Evolve(s, event)
    [] w.aggregate = "Chest"      -> CatalogCtx!Evolve(s, event)
    [] w.aggregate = "MatchState" -> HiddenInfo!Evolve(s, event)

EvolveAll(w, s, events) ==
  LET after[i \in 0 .. Len(events)] ==
        IF i = 0 THEN s ELSE Evolve(w, after[i - 1], events[i])
  IN after[Len(events)]

\* What replay makes of a history of batches.
Rebuilt(w, batches) ==
  LET after[i \in 0 .. Len(batches)] ==
        IF i = 0 THEN InitialState[w.aggregate] ELSE EvolveAll(w, after[i - 1], batches[i])
  IN after[Len(batches)]

\* The in-memory loop.
Handle(w, s, cmd, pos) ==
  LET decision == DecideOnly(w, s, cmd, pos)
  IN [state |-> EvolveAll(w, s, decision.events), pos |-> decision.pos]

Digest128(w, s) ==
  CASE w.aggregate = "Account"    -> Ledger!Encode(s)
    [] w.aggregate = "Chest"      -> CatalogCtx!Encode(s)
    [] w.aggregate = "MatchState" -> HiddenInfo!Encode(s)

-----------------------------------------------------------------------------
(* What `test!` asks of every event that is applied.                       *)

LegalHop(w, from, to) ==
  LET machine == PhaseMachine[w.aggregate]
  IN \/ from = to
     \/ \E event \in EventVariants(machine) :
          HasTransition(machine, from, event) /\ machine.transition[<<from, event>>] = to

InvariantHolds(w, before, event, after) ==
  CASE w.aggregate = "Account"    -> Ledger!NeverOverdraws(before, event)
    [] w.aggregate = "Chest"      -> CatalogCtx!DropsInLockstep(before, event, after)
    [] w.aggregate = "MatchState" -> HiddenInfo!BoardOnlyGrows(before, after)

Lawful(w, s, events) ==
  \A i \in DOMAIN events :
    LET before == EvolveAll(w, s, SubSeq(events, 1, i - 1))
        after == Evolve(w, before, events[i])
    IN LegalHop(w, before.phase, after.phase) /\ InvariantHolds(w, before, events[i], after)
=============================================================================
