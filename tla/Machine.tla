------------------------------- MODULE Machine -------------------------------
(***************************************************************************)
(* The runtime of one machine (ironstate/src/machine.rs): a process that   *)
(* applies events to it, registers listeners, stores its state in an       *)
(* envelope, and is redeployed as a newer or an older binary that restores *)
(* what was stored.  Beside it, the harness analyzes the definition.       *)
(*                                                                         *)
(* The machine is any of a set of lineages: TLC takes small ones, every    *)
(* transition function among them, and those of the examples.              *)
(* A definition introduced as a slip is used by nothing, see JournalStream.*)
(***************************************************************************)
EXTENDS MachineDefinition

CONSTANTS
  Name,         (* Names for the machines considered.                      *)
  Lineages,     (* Each of them, through its versions.                     *)
  MaxMoves,     (* Bound on the transitions of one machine.                *)
  MaxRefusals   (* Bound on the refusals a listener is told of.            *)

ASSUME LineagesAssumption ==
  /\ DOMAIN Lineages = Name
  /\ \A n \in Name : /\ ChainCompiles(Lineages[n])
                    /\ \A i \in 1 .. Len(Lineages[n].types) : WellTyped(Lineages[n].types[i])
ASSUME BoundsAssumption ==
  /\ MaxMoves \in [Name -> Nat]
  /\ MaxRefusals \in Nat

VARIABLES
  name,      (* Never changes.                                             *)
  binary,    (* The version of the process that runs or is to be started.  *)
  state,     (* A sequence: the machine's state, or none without machine.  *)
  heard,     (* What the listeners were told, or <<>> before they are      *)
             (* registered: a sequence of at most one record.              *)
  stored,    (* The envelope at rest, a sequence of at most one.           *)
  report,    (* The analysis of the first version, once it was run.        *)
  life       (* History: where the machine began, how it moved, and the    *)
             (* version and value of its last own state; and that of the   *)
             (* stored one.                                                *)

vars == <<name, binary, state, heard, stored, report, life>>

lineage == Lineages[name]

Definition == lineage.types[binary]

Running == state # <<>>

Current == state[1]

Listening == heard # <<>>

Begin(v, s) == [version |-> v, value |-> s, start |-> s, moves |-> <<>>]

TypeOK ==
  /\ name \in Name
  /\ binary \in 1 .. Len(lineage.types)
  /\ Running => Current \in Definition.states
  /\ Len(heard) <= 1 /\ (Listening => Running)
  /\ Len(stored) = Len(life.stored)

\* A machine is new, or loaded from a known state.
Init ==
  /\ name \in Name
  /\ binary = 1
  /\ state \in {<<s>> : s \in Definition.states}
  /\ heard = <<>>
  /\ stored = <<>>
  /\ report = <<>>
  /\ life = [now |-> Begin(binary, Current), stored |-> <<>>]

-----------------------------------------------------------------------------

\* Slip: the listeners are told before the machine has moved.
FireTransitionEarly(e, to) ==
  heard' = IF Listening
           THEN <<[heard[1] EXCEPT !.moves = Append(@, <<Current, e, Current>>)]>>
           ELSE heard

FireTransition(e, to) ==
  heard' = IF Listening
           THEN <<[heard[1] EXCEPT !.moves = Append(@, <<Current, e, to>>)]>>
           ELSE heard

FireRejection(e, error) ==
  heard' = IF Listening
           THEN <<[heard[1] EXCEPT !.refusals = Append(@, <<Current, e, error>>)]>>
           ELSE heard

Refuse(e, error) ==
  /\ Listening => Len(heard[1].refusals) < MaxRefusals
  /\ FireRejection(e, error)
  /\ UNCHANGED <<state, life>>

RefuseTerminal(e) ==
  /\ Current \in Definition.terminal
  /\ Refuse(e, "TerminalState")

RefuseKind(e) ==
  /\ Current \notin Definition.terminal
  /\ ~KindAccepted(Definition, Current, e)
  /\ Refuse(e, "EventKindRejected")

RefuseUndefined(e) ==
  /\ Current \notin Definition.terminal
  /\ KindAccepted(Definition, Current, e)
  /\ ~HasTransition(Definition, Current, e)
  /\ Refuse(e, "NoTransition")

\* Slip: a terminal state that still has transitions moves.
MoveFromTerminal(e) ==
  LET to == Definition.transition[<<Current, e>>]
  IN /\ KindAccepted(Definition, Current, e)
     /\ HasTransition(Definition, Current, e)
     /\ Len(life.now.moves) < MaxMoves[name]
     /\ state' = <<to>>
     /\ FireTransition(e, to)
     /\ life' = [life EXCEPT !.now =
          [version |-> binary, value |-> to, start |-> @.start,
           moves |-> Append(@.moves, <<Current, e, to>>)]]

Move(e) ==
  LET to == Definition.transition[<<Current, e>>]
  IN /\ Current \notin Definition.terminal
     /\ KindAccepted(Definition, Current, e)
     /\ HasTransition(Definition, Current, e)
     /\ Len(life.now.moves) < MaxMoves[name]
     /\ state' = <<to>>
     /\ FireTransition(e, to)
     /\ life' = [life EXCEPT !.now =
          [version |-> binary, value |-> to, start |-> @.start,
           moves |-> Append(@.moves, <<Current, e, to>>)]]

Apply(e) ==
  /\ Running
  /\ \/ RefuseTerminal(e)
     \/ RefuseKind(e)
     \/ RefuseUndefined(e)
     \/ Move(e)
  /\ UNCHANGED <<name, binary, stored, report>>

\* Both listeners are registered, at any time.
Listen ==
  /\ Running
  /\ ~Listening
  /\ heard' = <<[after |-> Len(life.now.moves), moves |-> <<>>, refusals |-> <<>>]>>
  /\ UNCHANGED <<name, binary, state, stored, report, life>>

\* analyze!, a test of its own.
Analyze ==
  /\ report = <<>>
  /\ binary = 1 /\ Running
  /\ life.now.moves = <<>>
  /\ report' = <<Report(Definition)>>
  /\ UNCHANGED <<name, binary, state, heard, stored, life>>

\* The application stores the state, tagged with the version it runs.
Store ==
  /\ Running
  /\ Len(lineage.types) > 1
  /\ stored' = <<[version |-> binary, payload |-> Current]>>
  /\ life' = [life EXCEPT !.stored = <<life.now>>]
  /\ UNCHANGED <<name, binary, state, heard, report>>

\* The process ends, and another version of it is put in its place.
Deploy(v) ==
  /\ stored # <<>>
  /\ binary' = v
  /\ state' = <<>>
  /\ heard' = <<>>
  /\ UNCHANGED <<name, stored, report, life>>

\* A machine is restored from what is stored, if this binary can read it.
Load ==
  LET answer == RestoreVersioned(lineage, binary, stored[1])
      was == life.stored[1]
  IN /\ ~Running
     /\ stored # <<>>
     /\ "state" \in DOMAIN answer
     /\ state' = <<answer.state>>
     /\ life' = [life EXCEPT !.now =
          IF stored[1].version = binary
          THEN was
          ELSE [was EXCEPT !.start = answer.state, !.moves = <<>>]]
     /\ UNCHANGED <<name, binary, heard, stored, report>>

Next ==
  \/ \E e \in Definition.events : Apply(e)
  \/ Listen
  \/ Analyze
  \/ Store
  \/ \E v \in 1 .. Len(lineage.types) : Deploy(v)
  \/ Load

Spec == Init /\ [][Next]_vars

-----------------------------------------------------------------------------
(* Properties.                                                             *)

\* Whether an event's payload never changes what it does.
DataFree(d) ==
  \A s \in d.states, e, f \in d.events : e[1] = f[1] =>
    /\ HasTransition(d, s, e) <=> HasTransition(d, s, f)
    /\ HasTransition(d, s, e) => d.transition[<<s, e>>] = d.transition[<<s, f>>]

\* What the probes and the metadata say of an event, beside what `apply` did.
ProbesAgree(e) ==
  LET d == Definition
      moved == life'.now.moves # life.now.moves
  IN /\ moved <=> CouldApply(d, Current, e)
     /\ PeekTransition(d, Current, e) = IF moved THEN {state'[1]} ELSE {}
     /\ moved <=> WhyNot(d, Current, e) = "None"
     /\ Listening /\ ~moved =>
          heard'[1].refusals =
            Append(heard[1].refusals, <<Current, e, WhyNot(d, Current, e)>>)
     /\ e \in EventVariants(d) =>
          (moved <=> \E t \in MetadataTransitions(d) : t[1] = Current /\ t[2] = e)

\* The five places that decide whether an event is legal never disagree: the
\* probes say of an event what `apply` then does with it, error included, and
\* the metadata lists exactly the representatives `apply` moves on.
\* (machine.rs: "The exact error `apply(event)` would return".)
ProbesPredictApply ==
  [][\A e \in Definition.events : Apply(e) => ProbesAgree(e)]_vars

\* What the listeners were told is what the machine did: every move since they
\* were registered, in order and once, and no move it did not make.
ListenersTellTheStory ==
  Listening =>
    /\ heard[1].moves =
         SubSeq(life.now.moves, heard[1].after + 1, Len(life.now.moves))
    /\ heard[1].moves # <<>> => heard[1].moves[Len(heard[1].moves)][3] = Current

\* A report beside the walks.
ReportAgrees(d, r) ==
  LET walked(s) == WalkedFrom(d, {s})
      stuck(s) == Walk(d, {s}) = {s}
  IN /\ r.unreachable = d.states \ walked(d.initial)
     /\ \A s \in r.deadlocks : stuck(s)
     /\ \A s \in d.states \ d.terminal :
          walked(s) \cap d.terminal = {} <=> s \in r.deadlocks \union r.inescapable
     /\ ~HasErrors(r) => \A s \in d.states : d.terminal \cap walked(s) # {}

\* The claims of the report agree with the walks `test!` makes by `apply`, a
\* different traversal of the machine: what they can reach from the initial
\* state, which states have no way out, and from which no terminal is reached.
ReportAgreesWithWalks ==
  [][report # report' => ReportAgrees(Definition, report'[1])]_vars

\* What the report calls proven comes true in every run of a machine whose
\* payloads decide nothing: it never enters a state called unreachable, never
\* leaves one called a deadlock, never finishes from one called inescapable,
\* never takes a dead transition; and with no error reported it never gets
\* stuck short of a terminal state.  (analysis.rs:3.)
ReportComesTrue ==
  Running /\ binary = 1 /\ report # <<>> /\ DataFree(Definition) =>
    LET d == Definition
        r == report[1]
        moves == life.now.moves
    IN /\ life.now.start = d.initial => Current \notin r.unreachable
       /\ \A i \in 1 .. Len(moves) :
            /\ moves[i][1] \notin r.deadlocks
            /\ moves[i][1] \in r.inescapable => Current \notin d.terminal
            /\ <<moves[i][1], <<moves[i][2][1], DefaultPayload>>>> \notin r.dead
       /\ ~HasErrors(r) /\ Current \notin d.terminal =>
            \E e \in d.events : CouldApply(d, Current, e)

\* Whichever way the releases went, up, down or skipping some, a restored state
\* is what its last own version would have become through every later version
\* once; and a binary refuses what is newer than itself instead of reading it as
\* a state of its own that happens to have the same name.
\* (migrate.rs, versioned_impl.)
UpgradePathDoesNotMatter ==
  Running =>
    LET upgraded[v \in life.now.version .. Len(lineage.types)] ==
          IF v = life.now.version
          THEN life.now.value
          ELSE lineage.migrate[v - 1][upgraded[v - 1]]
    IN life.now.version <= binary /\ Current = upgraded[binary]
=============================================================================
