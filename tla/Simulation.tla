----------------------------- MODULE Simulation -----------------------------
(***************************************************************************)
(* The tests an application gets for its aggregate, run to exhaustion on   *)
(* the examples of the repository: the scenario test, which drives a run   *)
(* without faults, then the same commands under faults                     *)
(* (ironstate-journal/src/sim.rs); the journal contract, over the          *)
(* in-memory journal, and for the async-store example's log that it gives  *)
(* the answers the suite accepts; the walk of `test!`; and the leak test   *)
(* (ironstate-aggregate/src/testkit.rs).                                   *)
(*                                                                         *)
(* Every step takes any fault: a schedule that was drawn is one of them.   *)
(* The leak test starts from any state a run reaches, where the code       *)
(* starts only from an initial state, and perturbs from any tape.          *)
(*                                                                         *)
(* Bounds: Worlds, the aggregates and the tapes they draw from; MaxSteps,  *)
(* the commands of a run of each; MaxLeakSteps.                            *)
(***************************************************************************)
EXTENDS JournalContract

CONSTANTS Worlds, MaxSteps, MaxLeakSteps

LOCAL INSTANCE SequencesExt

\* A tape that a draw would refuse for ever is none.
ASSUME WorldsAssumption ==
  \A w \in Worlds :
    /\ w.aggregate \in Name
    /\ w.tape \in Seq(HiddenInfo!Word) /\ w.tape # <<>>
    /\ HiddenInfo!AcceptedBy(w.tape, CatalogCtx!TotalWeight)
    /\ HiddenInfo!AcceptedBy(w.tape, Cards)

ASSUME StepsAssumption == MaxSteps \in [Name -> Nat] /\ MaxLeakSteps \in Nat

Bytes == INSTANCE StableHash

\* The fields of the states are as wide as what they hold.
ASSUME WidthsAssumption ==
  /\ \A c \in Cents : Bytes!FitsIn(c * MaxSteps["Account"], 8)
  /\ Bytes!FitsIn(Capacity, 4)
  /\ \A i \in DOMAIN Catalog : Bytes!FitsIn(Catalog[i].item, 2)
  /\ Bytes!FitsIn(Cards - 1, 1)
  /\ Bytes!FitsIn(Tokens - 1, 4)
  /\ Bytes!FitsIn(MaxSteps["MatchState"] + MaxLeakSteps, 8)

L == INSTANCE StoreLog

\* Property 10 of the suite, which only the in-memory journal is offered: a
\* snapshot at the head, and all before the midpoint dropped.
TruncationPreservesResume(w, journal) ==
  LET head == M!HeadSeq(journal)
      at == Midpoint(journal)
      covered == M!PushSnapshot(journal,
                   [at |-> head, entropy_pos |-> M!ResumedPos(journal),
                    state |-> M!ResumedState(journal)])
      kept == M!TruncateBefore(covered, at)
  IN /\ M!TruncateOk(covered, at)
     /\ M!RetainedFrom(kept) = at
     /\ PositionsMonotonic(kept, at, head)
     /\ \A gone \in 1 .. at - 1 : ~M!PosKnown(kept, gone)
     /\ M!Resumable(kept)
     /\ ResumedState(w, kept) = ResumedState(w, journal)
     /\ M!ResumedPos(kept) = M!ResumedPos(journal)

VARIABLES
  world,     (* The aggregate, and the tape its contexts draw from.        *)
  mode,      (* "recording", "faulted" or "leak".                          *)
  commands,  (* The commands of the reference run.                         *)
  trail,     (* The reference run before and after each of them.           *)
  twin,      (* The same commands over the log of the async-store example. *)
  faulted,   (* The run under faults.                                      *)
  armed,     (* FaultInjector: the next append fails.                      *)
  branch,    (* The state resumed on the fork this step took, if it did.   *)
  leak       (* The leak test: base and sibling, whose secrets differ.     *)

vars == <<world, mode, commands, trail, twin, faulted, armed, branch, leak>>

Reference == Last(trail)

\* Before a leak test the two are the same.
NoLeakTest ==
  [steps |-> 0, at |-> 0, perturbed |-> {}, base |-> InitialState[world.aggregate],
   sibling |-> InitialState[world.aggregate]]

NewTwin == [log |-> L!NewLog, state |-> InitialState[world.aggregate]]

Init ==
  /\ world \in Worlds
  /\ mode = "recording"
  /\ commands = <<>>
  /\ trail = <<NewRun(world)>>
  /\ twin = NewTwin
  /\ faulted = [run |-> NewRun(world), step |-> 0]
  /\ armed = FALSE
  /\ branch = {}
  /\ leak = NoLeakTest

-----------------------------------------------------------------------------
(* The reference run.                                                      *)

Recorded ==
  \/ IsTerminal(world, Reference.state)
  \/ Len(commands) = MaxSteps[world.aggregate]

\* One command over the twin, from where the head of its log stands.
TwinStep(cmd) ==
  LET decision == DecideOnly(world, twin.state, cmd,
                             L!LogEntropyPos(twin.log, L!LogHead(twin.log)))
  IN IF ~decision.accepted THEN twin
     ELSE [log   |-> L!LogAppend(twin.log, decision.events, decision.pos),
           state |-> EvolveAll(world, twin.state, decision.events)]

Record(cmd) ==
  /\ mode = "recording" /\ ~Recorded
  /\ commands' = Append(commands, cmd)
  /\ trail' = Append(trail, Step(world, Reference, cmd))
  /\ twin' = TwinStep(cmd)
  /\ UNCHANGED <<world, mode, faulted, armed, branch, leak>>

-----------------------------------------------------------------------------
(* The run under faults.                                                   *)

StartFaults ==
  /\ mode = "recording" /\ Recorded
  /\ mode' = "faulted"
  /\ UNCHANGED <<world, commands, trail, twin, faulted, armed, branch, leak>>

\* One attempt at the next command, from the head.  The armed append fails.
Attempt(run, injected) ==
  Execute(world, run, commands[faulted.step + 1], HeadPos(run.journal), injected)

\* Only an append spends the arming.
StillArmed(tried, injected) == injected /\ tried.outcome = "Rejected"

StepBegins ==
  /\ mode = "faulted" /\ faulted.step < Len(commands)
  /\ ~IsTerminal(world, faulted.run.state)

\* The step is done: the loop goes on with this run.
Advance(run) ==
  /\ faulted' = [run |-> run, step |-> faulted.step + 1]
  /\ UNCHANGED <<world, mode, commands, trail, twin, leak>>

PlainStep ==
  /\ StepBegins
  /\ LET tried == Attempt(faulted.run, armed)
     IN Advance(tried.run) /\ armed' = StillArmed(tried, armed)
  /\ branch' = {}

\* The append is armed to fail.  A command that reached it is retried, and one
\* that did not leaves the arming to be cleared.
Retried(tried) ==
  IF tried.outcome = "Journal" THEN Attempt(tried.run, FALSE).run ELSE tried.run

\* Slip: the arming of a command that never reached the append is kept.
FailAppendStepKeepingArmed ==
  /\ StepBegins
  /\ LET tried == Attempt(faulted.run, TRUE)
     IN Advance(Retried(tried)) /\ armed' = StillArmed(tried, TRUE)
  /\ branch' = {}

FailAppendStep ==
  /\ StepBegins
  /\ Advance(Retried(Attempt(faulted.run, TRUE)))
  /\ armed' = FALSE
  /\ branch' = {}

\* The aggregate is dropped after the command and resumed.
CrashResumeStep ==
  /\ StepBegins
  /\ LET tried == Attempt(faulted.run, armed)
     IN /\ M!Resumable(tried.run.journal)
        /\ Advance([tried.run EXCEPT !.state = ResumedState(world, tried.run.journal)])
        /\ armed' = StillArmed(tried, armed)
  /\ branch' = {}

\* The journal is forked at its head and resumed on the fork, which is then
\* dropped.
ForkContinueStep ==
  /\ StepBegins
  /\ LET tried == Attempt(faulted.run, armed)
         journal == tried.run.journal
         head == M!HeadSeq(journal)
     IN /\ Advance(tried.run)
        /\ armed' = StillArmed(tried, armed)
        /\ branch' = IF head = 0 THEN {}
                     ELSE {ResumedState(world, M!Fork(journal, head))}

-----------------------------------------------------------------------------
(* The leak test.                                                          *)

BeginLeak(p, tape) ==
  /\ world.aggregate = "MatchState" /\ mode = "recording"
  /\ p \in HiddenInfo!Participants(Reference.state)
  /\ mode' = "leak"
  /\ leak' = [steps |-> 0, at |-> 0, perturbed |-> {p}, base |-> Reference.state,
              sibling |-> HiddenInfo!ResampleHidden(Reference.state, p, tape, 0)]
  /\ commands' = <<>>
  /\ trail' = <<NewRun(world)>>
  /\ twin' = NewTwin
  /\ UNCHANGED <<world, faulted, armed, branch>>

\* Both take the same command from the same position, the one where it leaves
\* the base.  Playing a card reveals it and is excluded.
LeakStep(cmd) ==
  /\ mode = "leak" /\ leak.steps < MaxLeakSteps
  /\ ~IsTerminal(world, leak.base)
  /\ cmd \in CommandStrategy(world, leak.base) /\ cmd.name # "PlayCard"
  /\ LET base == Handle(world, leak.base, cmd, leak.at)
         sibling == Handle(world, leak.sibling, cmd, leak.at)
     IN leak' = [leak EXCEPT !.steps = @ + 1, !.at = base.pos,
                             !.base = base.state, !.sibling = sibling.state]
  /\ UNCHANGED <<world, mode, commands, trail, twin, faulted, armed, branch>>

Next ==
  \/ \E cmd \in CommandStrategy(world, Reference.state) : Record(cmd)
  \/ StartFaults
  \/ PlainStep
  \/ FailAppendStep
  \/ CrashResumeStep
  \/ ForkContinueStep
  \/ \E p \in HiddenInfo!Participant, w \in Worlds : BeginLeak(p, w.tape)
  \/ \E cmd \in CommandStrategy(world, leak.base) : LeakStep(cmd)

Spec == Init /\ [][Next]_vars

-----------------------------------------------------------------------------
(* Properties.                                                             *)

Sound(s) ==
  CASE world.aggregate = "Account" -> s.balance_cents >= 0
    [] world.aggregate = "Chest" -> s.draws_left + Len(s.loot) \in {0, Capacity}
    [] world.aggregate = "MatchState" ->
         \A p \in DOMAIN s.hands : \A i \in DOMAIN s.hands[p] : s.hands[p][i] \in 0 .. Cards - 1

\* The states of every run have their type: a balance is unsigned, a chest's
\* draws and loot add up, a hand holds cards.
TypeOK ==
  /\ world \in Worlds /\ mode \in {"recording", "faulted", "leak"}
  /\ \A i \in DOMAIN commands : commands[i] \in Command[world.aggregate]
  /\ Len(trail) = Len(commands) + 1
  /\ \A s \in {Reference.state, twin.state, faulted.run.state, leak.base, leak.sibling} : Sound(s)
  /\ faulted.step \in 0 .. Len(commands)
  /\ armed \in BOOLEAN
  /\ \A s \in branch : s.phase \in PhaseMachine[world.aggregate].states
  /\ leak.steps \in 0 .. MaxLeakSteps

\* Faults are invisible (`run_scenario`, sim.rs): after every step, and not
\* only at the end, the run under faults has the journal and the state the
\* reference run had there, and a fork that was resumed has that state too.
FaultsAreInvisible ==
  mode = "faulted" =>
    LET reference == trail[faulted.step + 1]
    IN /\ faulted.run = reference
       /\ \A s \in branch : Digest128(world, s) = Digest128(world, reference.state)

\* To every question of the suite, asked of any sequence.
TwinAnswersAlike ==
  LET log == twin.log
      journal == Reference.journal
      head == M!HeadSeq(journal)
  IN /\ twin.state = Reference.state
     /\ L!LogHead(log) = head
     /\ L!LogLatestSnapshot(log, <<>>) = M!LatestSnapshot(journal)
     /\ \A at \in 0 .. head + 1 :
          /\ L!LogPosKnown(log, at) = M!PosKnown(journal, at)
          /\ M!PosKnown(journal, at) => L!LogEntropyPos(log, at) = M!EntropyPos(journal, at)
          /\ L!LogEventsSince(log, at) = M!EventsSince(journal, at)
          /\ L!LogForkOk(log, at) = M!ForkOk(journal, at)
          /\ M!ForkOk(journal, at) =>
               L!LogFork(log, at).records = M!Fork(journal, at).records

\* `run_contract_forkable` and `run_contract_retainable` (contract.rs): the
\* in-memory journal passes the suite after any run of any of the aggregates,
\* the async-store's log answers as it does, and what it resumes to survives a
\* truncation at the midpoint.
PassesContract ==
  mode = "recording" =>
    /\ Passes(world, Reference)
    /\ TwinAnswersAlike
    /\ M!HeadSeq(Reference.journal) > 0 => TruncationPreservesResume(world, Reference.journal)

\* `run_test` (testkit.rs): whatever command an aggregate is given, and not
\* only those its strategy offers, each event it decides is a legal hop of its
\* phase machine and keeps the invariants the aggregate declares.
HandledStepsAreLegal ==
  mode = "recording" =>
    \A cmd \in Command[world.aggregate] :
      Lawful(world, Reference.state,
             DecideOnly(world, Reference.state, cmd, HeadPos(Reference.journal)).events)

\* The digest is what every comparison of the harness looks at (stablehash.rs):
\* it tells apart any two states of a run, and a state from its sibling.
DigestTellsStatesApart ==
  LET distinguishes(s, t) == Digest128(world, s) = Digest128(world, t) => s = t
  IN /\ \A i \in DOMAIN trail : distinguishes(trail[i].state, Reference.state)
     /\ distinguishes(leak.base, leak.sibling)

\* `run_leak` (testkit.rs): when only p's secrets differ, no other principal
\* sees a difference, then or after any commands that reveal nothing.
NoLeak ==
  mode = "leak" =>
    \A q \in HiddenInfo!Participants(leak.base) \ leak.perturbed :
      HiddenInfo!ViewFor(leak.base, q) = HiddenInfo!ViewFor(leak.sibling, q)
=============================================================================
