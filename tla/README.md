# A verification project for ironstate

TLA+ models of ironstate, its state machines and its event-sourcing core, checked
with TLC, and, but for liveness, proved with TLAPS for every value of the constants. Paths below are relative to `src/app/crates/`.

## 1. Inventory

### The parts of the system

| Part | Source | State it keeps | Operations |
|---|---|---|---|
| Journal contract | `ironstate-journal/src/journal.rs` | none (traits) | `append_in`, `snapshot_in`, `head`, `entropy_pos`, `events_since`, `latest_snapshot`; `fork`; `truncate_before`, `retained_from`, `streams` |
| In-memory journal | `ironstate-journal/src/memory.rs` | per stream: records, snapshots, how many records were truncated | all of the contract |
| Replay and loop | `ironstate-journal/src/replay.rs` | none of its own: an aggregate, a context with an entropy position, a `Prepared`/`Pending` in flight | `replay`, `resume`, `execute`, `execute_in`, `prepare`, `Pending::commit/abort`, `Prepared::commit/abort`, `head_pos` |
| Subscription | `ironstate-journal/src/subscription.rs` | a mark for each source stream | `deliver`, `mark` |
| Scenario testkit | `ironstate-journal/src/sim.rs` | armed faults, a reference digest | `FaultInjector`, `ReferenceRun::record`, `run_scenario`, `run_faulted` |
| Contract suite | `ironstate-journal/src/contract.rs` | none | assertions about any journal |
| Aggregate | `ironstate-aggregate/src/rules.rs` | the domain state | `handle`, `decide_only`, `evolve`, `why_not`, `structural_check` |
| Entropy | `ironstate-aggregate/src/entropy.rs` | generator, number of words drawn | `draw`, `draw_range`, `seek`, `draws` |
| Machine | `ironstate/src/machine.rs`, `kind.rs`, `listener.rs`, `metadata.rs` | current state, listeners | `apply`, `could_apply`, `why_not`, `peek_transition`, `restore` |
| Graph analysis | `ironstate/src/analysis.rs` | none | `analyze`: unreachable and trapped states |
| Versioning | `ironstate/src/migrate.rs`, `ironstate-derive/src/statemachine.rs`, `ironstate-aggregate/src/macros.rs` | none (an envelope the application stores) | `store`, `restore` through the chain of migrations |
| Hash, redaction, testkits | `stablehash.rs`, `redaction.rs`, `testkit.rs`, `testing.rs` | none | pure functions and random walks |
| Derives | `ironstate-derive`, `ironstate-aggregate-derive` | none | compile time |
| Outbox example | `examples/outbox/src/main.rs` | a database: records, read model, outbox; a staged transaction | `begin`, `commit`, `append_in`, `ship` |
| Async store example | `examples/async-store/src/main.rs` | a shared log behind awaits | `execute_async`, `resume_async` |
| Other examples | `examples/*` | | walk-throughs |

### How they interact

A command reaches the loop, which asks the aggregate to *decide*; deciding draws
words from the context's entropy. The events go to the journal together with the
position the entropy was left at, inside a transaction the caller may have opened
for its own writes too. Only when that transaction has committed is the aggregate
*evolved*. A process that restarts calls `resume`: the latest snapshot the head
covers, every event since, and the entropy reopened at the head's position.
Snapshots and truncations may come between any two commands; a fork copies a prefix
of one stream into a journal of its own. A subscription reads one aggregate's
stream and executes commands against another's.

### Which behaviours are hard

* **Retention.** Sequence numbers, vector indices and the horizon must agree in
  `record_at`, `events_since`, `entropy_pos`, `truncate_before` and `fork`, and all
  of them must agree with `resume` about which snapshot counts. A mistake does not
  crash: it rebuilds a wrong aggregate.
* **Snapshots that are not on time.** `snapshot_in` accepts any sequence: one a
  truncation has passed, and one the stream has not reached.
* **Two copies of the state.** The log and the aggregate, and the log's position and
  the context's, drift apart if any step between drawing and evolving is interrupted:
  a refusal, a failed append, a rollback, a crash.
* **Several writes, one transaction.** The record, the read model row and the outbox
  job.
* **At-least-once transport, exactly-once effect.** Redelivery, a reaction that fails
  half way, a restart that loses the marks.
* **Awaits** in the async store, where a future may be dropped, and its hand-written
  runtime of parked threads and tokens.
* **One rule in several places.** `apply`, the probes, the metadata and the analysis
  repeat the same checks; the aggregate's own checks and the phase machine's must agree;
  two journals must give the same answers.
* **Versions.** A stored state meets a newer binary, or after a rollback an older one.
* **Secrets.** What one principal's hidden fields leave in another's view, after commands
  that move them.

### What makes each part correct

* Journal: `resume` never fails and gives what the appends gave; a read has no gap; a
  position is never another record's; a granted fork can be resumed as the prefix; the
  way out an error names is open; an answer once given stays. In one sentence: a
  journal that retains little is to its readers one that keeps everything.
* Loop: between commands memory and log agree in state and entropy; the aggregate is
  never ahead of what is durable, and catches up with it; a command happens with all
  its writes or not at all.
* Subscription: nothing acknowledged was skipped; nothing is done twice, or
  after a later event, while the subscription lives; commands keep the order of the stream and of the reaction;
  everything is done in the end.
* Async store: the same as the loop, at every await; a resume reads one log; every call
  returns.
* Machine and analysis: the probes predict `apply` and its errors; listeners hear what
  happened; what a report calls proven comes true; a stored state is the same whichever
  way the releases went.
* Testkits: a fault changes nothing in the end; two journals answer alike; a digest tells
  states apart; nobody sees a difference in another's secrets.

`PROJECT.json` lists the hazards one by one with the line each bites at.

## 2. The modules

| Module | What it is | Code |
|---|---|---|
| `JournalStream` | One stream as a value, and every read and write of it; `replay`, `resume` | `memory.rs`, `replay.rs` |
| `MemoryJournal` | Journals of many streams driven by callers; one action per operation | `memory.rs`, the trait impls |
| `DurableStreams` | Abstract: every stream is a state and a position. No log, no snapshot, no truncation | what `journal.rs` promises |
| `UnitOfWork` | Workers with an aggregate each running the persistent loop against a transactional store | `replay.rs`, `examples/outbox` |
| `AtomicCommands` | Abstract: a command happens in one step with all its writes | what `execute_in` promises |
| `Subscription` | `deliver` step by step, with its transport | `subscription.rs` |
| `StoreLog` | The log of the async-store example and its answers | `examples/async-store` |
| `AsyncStore` | `execute_async`, `resume_async` and `block_on`, one awaited access a step | `examples/async-store` |
| `MachineDefinition` | A machine as data: its guards, probes and metadata, the report of the analysis, the walk of `test!`, restore through versions, what the derive refuses | `ironstate/src`, `ironstate-derive` |
| `Phases` | The machines of the examples | `examples/*` |
| `Machine` | A process with a machine, listeners, a stored envelope, deployed up and down | `machine.rs`, `listener.rs`, `migrate.rs` |
| `Entropy` | Draws over a tape of words | `entropy.rs` |
| `StableHash`, `Redaction` | The canonical encoding; secrets and the views of them | `stablehash.rs`, `redaction.rs`, both derives |
| `Account`, `Chest`, `MatchState` | The aggregates of ledger, catalog-ctx and hidden-info: checks, events, `evolve`, strategies | `examples/*` |
| `Aggregates` | `handle`, `decide_only`, `evolve`, the structural check, over those three | `rules.rs`, `testkit.rs` |
| `JournalContract` | The conformance suite as predicates, and the loop that drives a journal for it | `contract.rs` |
| `Simulation` | Reference run, run under faults, twin journal, leak test | `sim.rs`, `testkit.rs` |
| `MCMemoryJournal`, `MCUnitOfWork`, `MCAsyncStore`, `MCMachine`, `MCSimulation` | Values of the constants for TLC | |
| `JournalStreamProofs`, `MemoryJournalProofs`, `UnitOfWorkProofs`, `AsyncStoreProofs`, `SubscriptionProofs`, `MachineProofs`, `SimulationProofs` | The theorems and their lemmas | |
| `InductionLemmas` | Induction and recursion on the naturals, for the two last | |

`MemoryJournal` EXTENDS `JournalStream`; `UnitOfWork` and `JournalContract` instantiate it
with their own events, and `Simulation` EXTENDS `JournalContract`. `MemoryJournal` and `UnitOfWork` are refined to
their abstract specifications through the same mapping, *what `resume` would give now*.
`UnitOfWork` and `AsyncStore` are two ways to the same promise and refine the same
`AtomicCommands`.

### How state and actions correspond to the code

**Streams.** `Stream` is the struct of that name: `records`, `snapshots`, `truncated`.
Sequence numbers start at 1 and 0 is genesis, so `Option<Seq>` heads become 0 for
`None`. An operation that returns a `Result` is two operators: a predicate where it
returns `Ok` (`EventsKnown`, `PosKnown`, `TruncateOk`, `ForkOk`, `Resumable`) and the
value. A refused operation changes nothing, as in the code, where every early return
precedes the first write. `BTreeMap::get` on an id nobody wrote to answers like
`NewStream`; `seen` keeps the one difference that matters, that truncating such a
stream is refused and does not create an entry. Snapshots are a set: pushed order only
decides between two snapshots of one sequence that differ, which callers who tell the
truth never make.

The aggregate is the free one: its state is the sequence of everything evolved into
it. Two such states are equal only if no aggregate could tell them apart, so a property
that holds of it holds of every aggregate whose `evolve` is deterministic.

**Callers of the journal.** A snapshot is normally true and taken at a sequence between
the horizon and the head. The constant `Callers` adds two liberties the code does not
exclude: `"late"`, a true snapshot of a sequence a truncation has passed (captured
before, recorded after), and `"ahead"`, a snapshot of a sequence the stream has not
reached. `history` is a history variable: what was appended, truncated or not.

**The loop.** `execute_in` is cut where a process can die or another worker can act:
`Prepare` (decide and draw; the rewind anchor is read from committed state, as
`head_pos` does), `Stage` (the append joins the transaction and answers with a
sequence), `Commit` (the database makes all three writes visible), `Evolve`
(`Pending::commit`). `Reject`, `FailAppend` and `RollBack` are the error paths, all of
which rewind the entropy. `Crash` loses the memory and the open transaction; `Resume`
rebuilds them. `execute` is the same loop with the transaction resolved at once.
`TakeSnapshot` and `Truncate` happen between commands. An event carries the command,
the length of the state it was decided on and the position its draws started at, so
that deciding on a stale state or on the wrong words shows in the log.

**The subscription.** `Drop` and `React` are the two outcomes of the mark check,
`ExecuteNext` and `Fail` one turn of the loop over commands, `Advance` the mark's move
and the return of `Ok`. The transport is the consumer's and is modelled from how the
examples and tests call it: it redelivers at will. Of a stream of `InOrder` it passes to the
next event only after `Ok` for the ones before, as one does that reads `events_since`; of
the others it offers what is recorded in any order, as the testkit's
`Fault::ReorderDelivery` has in mind. Records of a stream of `Batching` may hold several
events. `Crash` loses the marks, for nothing in the
crate stores them; the target's journal survives.

**The async store.** Every operation of the store awaits `yield_now` once before it
touches the log: the poll that reaches it asks to be woken and gives up (`Yield`), the
thread parks and takes its token (`Unpark`), the next poll does the access and runs to
the next await. So each access is one action (`CtxHead`, `ExecAppended`, `ResumeEvents`,
...), and everything else can happen between two. What Rust's borrows exclude is a guard
and nothing more: a resume holds `&` and an execute `&mut` of the store until it returns
or is dropped, which is why a resume's four accesses see one log. `DropFuture` drops the
call at whatever await it has reached, and the caller lets go of the context with it: one
that keeps it would decide its next command on words that are skipped, which the slip of
that action shows. `ArmAppendFailure` is the example's own injected fault.

**Machines.** A machine is a record: states, initial and terminal states, events (a name
and a payload, of which 0 is the default), kinds, restrictions, and the transition
function that the user's `match` is. `Apply` has one disjunct per error and one for the
move, in the order `apply` checks. `Listen` registers both listeners at any time.
`Store`, `Deploy` and `Load` are the envelope at rest, a release or a rollback, and
`restore`; a binary of version v knows the migrations up to v. `Report` is the analysis,
searches included, as an operator; `Analyze` runs it.

**Aggregates and testkits.** `Simulation` has three modes. *Recording*: any command of
the strategy at each step, with the events in the in-memory journal and, as its twin, in
the async-store's log. *Faulted*: the same commands again, each plain, with its append
failing, with a crash and a resume, or with a fork. *Leak*: from any state of a recording
a sibling is made whose secrets differ in one principal's, and both take the same
commands. Words have `WordBits` bits and come from a tape repeated for ever, so a draw
may be rejected and the retries count. Invariants, strategies and redaction are the
examples' own.

Definitions introduced by a comment as a *slip* are mistakes the code could make in the
definition after them. No specification uses them. With one of them put in place of
its definition, the property named with it in `PROJECT.json` fails: that is how each
property is known to say something about the code.

## 3. What TLC checks

| Run | Instance | What it shows |
|---|---|---|
| `JournalRetention` | one stream, two events, up to 4 records, callers late and ahead | `ResumeFaithful`, `PositionNeverWrong`, `ReadsHaveNoGap` |
| `JournalForks` | a journal and a branch, up to 3 records, callers on time | `AlwaysFaithful` (the invariant the proofs use), `ForkFaithful`, `AdviceWorks`, `AnswersAreStable`, `ImplementsDurableStreams` |
| `UnitOfWork` | two workers, two streams (3 records and 1), one command that draws and one that does not | `LogAndMemoryAgree`, `AggregateNeverAhead`, `TablesAgree`, `SeqIsWhereItLanded`, `AggregateCatchesUp`, `ImplementsAtomicCommands` |
| `Subscription` | two source streams, one offered in order and one in any order, up to 2 records of at most one event, reactions of up to 2 commands | `NothingIsSkipped`, `HandledIsEarlier`, `OnlyLateIsLost`, `OrderIsKept`, `EveryEventIsHandled` |
| `AsyncStore` | an owner and a reader, up to 3 records, a command that draws twice and one that does not draw | `LogAndTallyAgree`, `ContextStandsAtHead`, `ResumeReadsOneLog`, `EveryCallReturns`, `ImplementsAtomicCommands` |
| `Machine` | 1536 small machines, those of the examples, one whose payloads decide, a lineage of three versions | `ProbesPredictApply`, `ListenersTellTheStory`, `ReportAgreesWithWalks`, `ReportComesTrue`, `UpgradePathDoesNotMatter` |
| `Simulation` | three aggregates, two tapes, up to 4 or 5 commands, any fault at any step | `FaultsAreInvisible`, `PassesContract`, `HandledStepsAreLegal`, `DigestTellsStatesApart`, `NoLeak` |

**Bounds.** `MaxHead`, `MaxLog`, `MaxBatch` and `MaxCommands` bound lengths in the
guards; everything else is finite by itself. Four records let a stream be truncated
twice with a snapshot before, between and after the horizons and a late snapshot below
the second; three are enough for a fork below, at and above a snapshot of a truncated
stream followed by an append to the branch. The loop needs a record before a
truncation, one after it and one after the resume that follows. Two records and two
commands let a reaction fail half way before and after another event was handled, and an
event come late to the mark of a later one. The runs of the journal have one stream:
what several streams do to each other, which is nothing, is proved (`RetentionIsInvisible`,
for any number of streams and journals), and the loop's run has two. Events of one record
are in `SubscriptionBatch` and in the proofs.

The async store needs a record before a dropped call, one for it and one decided after
it. The small machines are every transition function of three states and two events (the
terminal state may keep one way back, to the initial state, which the code must ignore),
with one terminal state or two and with the three kinds of `only_accepts`: three states
are enough for a state unreachable, one a deadlock and one inescapable. `MaxMoves` lets
the lineage and the release machine walk every simple path and the others three moves;
`MaxRefusals` bounds what a listener is told in vain. `MaxSteps` takes every aggregate to
its terminal phase by the shortest way and by some longer ones, `Capacity`, `Cards` and
`Cents` are the smallest with a choice left, and `MaxLeakSteps` lets a secret be moved
and looked at. `Machine` and `Simulation` turn the deadlock check off because their runs
end: at a terminal state, or when the last command has been compared.

**Fairness.** The journal's specification has none: its callers owe nobody a call. In
`AsyncStore` the operating system runs each thread that is not parked, and one that is
parked with a token is unparked (`WF` of `Proceed`, for each task); nothing else is
assumed, so `EveryCallReturns` says that no wake is lost. In `UnitOfWork` a process goes
on with the unit of work it has begun and is restarted after a crash (`WF` of `Proceed`,
for each worker); it may crash for ever, and no command need be issued, accepted or
committed. `Subscription` needs more, and it is an assumption about the consumer, not
about the code: the transport delivers the next unacknowledged event of each stream in
order again and again (`SF`; of the other streams, what it likes), a command does not
fail for ever (`SF` for each stream and each command of a reaction), a `deliver` that
has run all its commands returns (`WF`), and the process stops crashing. A reaction that
is refused every time blocks its stream: the liveness property does not cover it.

**Where the documentation and the code disagree.** Five runs state what a comment, a
test or the guide says and find it violated:

* `UnitOfWorkShared`: of two units of work of one stream that are open at once, both are
  told the same sequence and both commit. `Pending::seq` is documented as where the append
  landed, valid once the transaction commits; for the second it is where the first one
  landed. No documentation asks for one writer, and the append carries no expected head.
* `SubscriptionBatch`: all events of one record share its sequence, so the mark the first
  one leaves makes `deliver` drop the others as duplicates.
* `SubscriptionCrash`: after a restart the marks are gone and a redelivered event is
  acted on again, where the guide says it is recognized and skipped.
* `JournalAheadResume`: a snapshot recorded past the head is used by `resume` once the
  head has caught up with it.
* `JournalLateFork`: a snapshot below the horizon counts as a base for `fork`, which
  grants a branch that cannot be resumed.

Four things the code leaves to its user and does not check. One writer for each stream:
`UnitOfWorkShared` shows a run without it, and all that is checked and proved of the loop
else is with it (`OneWriter`). Deliveries in the order of the source stream: without them
events are lost, and `OnlyLateIsLost` says which. One `execute_in` for each transaction:
the model has no other. A `Pending` or `Prepared` that is committed or aborted: one
dropped undriven in the synchronous loop is in no model (`#[must_use]` is the code's only
defence); what a dropped call of the async store leaves behind is in `AsyncStore`.

**Seen while modelling**, and not a run's subject:

* The leak test of the testkit takes its principals from the *initial* state; hidden-info
  has none there, so its leak test compares nothing. `NoLeak` takes those of the state
  the test starts from.
* `Fault::ForkContinue` is documented as continuing on both branches; `run_faulted`
  compares the digest and drops the fork. `DuplicateDelivery`, `ReorderDelivery` and
  `PlantOldVersion` are scheduled and never acted on.
* `test!` looks only at events with a default payload, and the analysis at the same
  representatives: its claims hold for machines whose payloads decide nothing, which is
  the condition (`DataFree`) in `ReportComesTrue`.
* An `only_accepts` attribute that does not parse, or is empty, is ignored without a word
  (`ironstate-derive/src/statemachine.rs:247`).
* The comment of contract property 10 does not hold for a snapshot exactly at the
  horizon, and property 6 says nothing for aggregates that draw no words.
* A malformed envelope is reported as a decoding error of version 0.
* The context's position counts 32-bit words, of which `next_u64` takes two; two contexts
  opened at one head draw the same words.
* hidden-info puts several events in one record, which a subscription to it would read
  one of (`SubscriptionBatch`).
* A deposit in ledger may overflow in `evolve`, after the append.

## 4. What is proved

### The journal

In `MemoryJournalProofs`, for any sets of events, positions,
journals and streams and any bound on their length.

| Theorem | Callers | Property |
|---|---|---|
| `TypeCorrect` | any | `TypeOK` |
| `PositionsCorrect` | any | `PositionNeverWrong` |
| `ReadsCorrect` | any | `ReadsHaveNoGap` |
| `ResumeCorrect` | any in one journal; not late if there are forks | `ResumeFaithful` |
| `AdviceCorrect` | any in one journal; not late if there are forks | `AdviceWorks` |
| `StreamsStayFaithful` | on time | `AlwaysFaithful` |
| `ForksCorrect` | on time | `ForkFaithful` |
| `AnswersNeverChange` | on time | `AnswersAreStable` |
| `RetentionIsInvisible` | on time | `ImplementsDurableStreams` |

The assumptions are those the modules declare: `Main` is a journal, positions are
naturals that include 0, `MaxHead` is a natural, `Callers` names known liberties.

**The argument.** None of the properties is inductive: that a stream can be resumed
now says nothing of the records a later truncation would need. Three invariants carry
the proofs, each for callers with fewer liberties.

1. `TypeInv`: every stream is *aligned* to its history, its head is the history's length
   and each retained record is where the history has it. This is the arithmetic of
   `truncated`, and needs nothing of the snapshots. Reads and positions follow from it.
2. `AlwaysKeepsBase`: every stream is *anchored*, some snapshot at or below the head is
   at or above the horizon. An append and a snapshot keep the one there was; a
   truncation is granted only if the newest base is at or past `at - 1`, the new horizon,
   and keeps it. A fork keeps only the snapshots at or below its point, so it needs all
   of them to be at or above the horizon, which late callers break: that is the
   exception in `ResumeCorrect` and `AdviceCorrect`, and the run `JournalLateFork` shows it is real.
   Then the *newest* base, which is the one `resume` takes, is no older than the anchor.
3. `AlwaysFaithful`: aligned, and every snapshot is true, not older than the horizon and
   not newer than the head. Then a fork resumes as the prefix, and what `resume` gives
   is a function of the history alone: snapshots and truncations do not change it, an
   append adds one event, a fork is a prefix. That is the refinement.

`JournalStreamProofs` holds the lemmas about one stream: each write keeps each part of
the invariant, and each part gives an answer its truth. That a nonempty bounded set of
sequences has a greatest element, which the `CHOOSE` in `LatestSnapshot` needs, is
proved there from the well-foundedness of the naturals.

### The loop, the async store and the subscription

| Theorem | Module | Property |
|---|---|---|
| `TypeCorrect` | each | `TypeOK` |
| `MemoryIsDurable` | `UnitOfWorkProofs` | `LogAndMemoryAgree` |
| `NeverAhead` | `UnitOfWorkProofs` | `AggregateNeverAhead` |
| `SeqIsKept` | `UnitOfWorkProofs` | `SeqIsWhereItLanded` |
| `TablesKeepUp` | `UnitOfWorkProofs` | `TablesAgree` |
| `Refinement` | `UnitOfWorkProofs` | `ImplementsAtomicCommands` |
| `TallyIsDurable` | `AsyncStoreProofs` | `LogAndTallyAgree` |
| `ContextIsAtHead` | `AsyncStoreProofs` | `ContextStandsAtHead` |
| `ResumeIsOneRead` | `AsyncStoreProofs` | `ResumeReadsOneLog` |
| `Refinement` | `AsyncStoreProofs` | `ImplementsAtomicCommands` |
| `HandledComesBefore` | `SubscriptionProofs` | `HandledIsEarlier` |
| `OnlyLateLost` | `SubscriptionProofs` | `OnlyLateIsLost` |
| `NothingSkipped` | `SubscriptionProofs` | `NothingIsSkipped`, where no stream is in both `InOrder` and `Batching` |
| `OrderKept` | `SubscriptionProofs` | `OrderIsKept`, where no stream is in both `InOrder` and `Batching` |

For any number of workers, readers, streams, commands, draws and records; the assumptions
are the modules' own. The theorems of `UnitOfWorkProofs` have `OneWriter` as a hypothesis,
that no two workers serve the same stream, which says something of the deployment.

**The loop.** What a worker knows depends on its phase: nothing while it is down; when
idle, that its aggregate is what the log resumes to and its entropy stands at the head;
with a command prepared, that the decision was taken on that state and the draws start at
that position; once staged, the sequence the record will have; once committed, that the
record is the last of the log and the aggregate is one behind. The invariant says that,
and that every stream is sound (the journal's `AlwaysFaithful` of one stream, whose
lemmas `JournalStreamProofs` shares). A step of one worker leaves what another knows
alone because no other writes its stream. `Commit` is the only step that shows in
`AtomicCommands`: its three writes, the state it was decided on and the words it drew are
there at once. `TablesAgree` is inductive given the rest: a commit adds one event to the log,
and the one job enqueued with it is the last of its stream and none of another
(`JobsAppend`, by unfolding the recursion that picks a stream's jobs out of the queue).

**The async store.** The invariant says what each call has read, await by await. Only
`ExecAppended` changes the log; it needs the owner to be past `BeginExec`, whose borrow
needs every reader to be between calls, and stays so until it returns. So what a resume
has read stays true, and what the owner read at `exec.head` is where its append lands.
No await lies between that append and `commit`, which is why nothing can be dropped there.

**The subscription.** `HandledIsMarked`: what this subscription handled is at or below the
mark, and `deliver` acts only on what is above it; that needs nothing of the batch nor of
the transport. Nor does `MarksAreHandled`, that a mark stands where an event was handled:
what is dropped at or below it came after that event (`OnlyLateLost`).
`MarkedIsHandled` is the converse, that all that is recorded at or below a mark was
handled: when a mark moves to a record, everything before has been acknowledged, and
acknowledged means handled. It fails for the second event of a record, which stands at
the mark with the first, and for an event that comes late, and so two theorems ask for
records of one event and for a transport that keeps the order; the run
`SubscriptionBatch` shows that the first condition is needed. A crash puts the marks to 0 and
turns what was handled into `"forgotten"`, which keeps both.

### Machines and the analysis

In `MachineProofs`, for any lineages of machines, with any finite set of states, any
events and payloads, any number of versions and any bounds.

| Theorem | Property |
|---|---|
| `TypeCorrect` | `TypeOK` |
| `ListenersAreToldEveryMove` | `ListenersTellTheStory` |
| `ProbesAgreeWithApply` | `ProbesPredictApply` |
| `ReportAgreesWithTheWalks` | `ReportAgreesWithWalks` |
| `ReportsComeTrue` | `ReportComesTrue` |
| `UpgradesDoNotDependOnThePath` | `UpgradePathDoesNotMatter` |

`LineagesAssumption` says what the Rust types and the derive give: the states are
finitely many, every event has its default payload, a transition leads to a state, and
the definitions and chains of migrations are those that compile.

**The searches.** `analyze!` searches with a stack, `test!` walks in rounds. Each is proved
to find the *least set that is closed under the edges* and holds its start, so they find
the same. A turn of the stack keeps what was seen inside every closed set, and closed
but for the states on the stack; states not yet seen, counted twice, and the height of
the stack fall with every turn, which is why the search ends. The walk stops growing
after as many rounds as there are states, since a set that grows in each of them would
be larger than the set of states.

**The invariant.** `PastOK` says how a value came to be: the last version that moved it,
the moves it made there, from where, and the migrations since. It is the same statement
of the value that runs and of the one stored, so that storing and loading carry it over,
and a deployment, which leaves both alone, keeps it. From the moves come `ReportComesTrue` (a
move is an edge, so a run is a path) and the story of the listeners; from the migrations
`UpgradePathDoesNotMatter`, since migrating in two goes is migrating in one
(`MigrateComposes`).

### Aggregates and testkits

In `SimulationProofs`, for any tapes and word size, amounts, catalog with positive weights,
capacity, number of cards and of commands.

| Theorem | Property |
|---|---|
| `TypeCorrect` | `TypeOK` |
| `FaultsInvisible` | `FaultsAreInvisible` |
| `ContractPassed` | `PassesContract` |
| `HandledStepsLegal` | `HandledStepsAreLegal` |
| `DigestsTellApart` | `DigestTellsStatesApart` |
| `NothingLeaks` | `NoLeak` |

`WorldsAssumption` excludes tapes on which a draw would be refused for ever: the code
retries without a limit, and the generator repeats no word for ever.
`CatalogAssumption` asks for positive weights, which is what the example's `const` has.
`WidthsAssumption` says that what the bounds let a field hold fits the bytes it is written
in: a balance 8, a card 1, a token 4, and so on. The code's types see to that; the model's
numbers have no width of their own.

**Draws.** A tape repeats, so the candidates from any position are those from its start in
another order: a range that accepts one word of the tape accepts one from everywhere,
and `DrawRange` lands in its range. `Covering`, the mask plus one, is positive for every
span. For the chest, the cumulative weights grow by each item's weight, so every draw
below the total picks exactly one item.

**Decisions.** `DecisionsOK`: in a state of its type (`StateOK`; of a match that includes
that it has at most one participant in the setup and two after it), whatever command an aggregate is given
and whatever it draws, it decides none, one or two events, each a legal hop that keeps
the aggregate's invariant, and ends in a state of its type, with the position not moved
back. `EvolveAll` and `Rebuilt` unfold event by event and batch by batch.

**The invariant** has four parts.

1. `TrailOK`: each run of the trail is a `Step` of the one before. Of each run, the
   journal is never truncated and has no snapshot, its positions do not fall, the state is what the
   log rebuilds, and the digests noted are those of the prefixes.
2. `TwinOK`: the twin's log has the reference run's records.
3. `FaultedOK`: nothing stays armed between steps, and the run under faults *is* the
   run of the trail after as many commands: its journal, state and positions, not only its
   digest. Each fault then needs one fact of a run in order: a failed append leaves no
   trace, a resume gives the state, a fork at the head is the journal.
4. `LeakOK`: the base and its sibling are `Alike`, equal in all but the values of what the
   perturbed hold. A command that reveals nothing keeps them alike: how many cards there are and
   whose turn it is decide what happens, and no card's value does. A view redacts
   exactly what two alike matches may differ in.

`PassesContract` follows from the first two: a journal that was only appended to answers by
its records, read by read (`JournalReads`), and a snapshot at the head with a truncation
at the midpoint changes no resume.

**Encodings.** Of each encoding it is shown that it tells two values apart whatever is
written after it: if two encodings, each with a rest, are the same bytes, the values and
the rests are the same (`Code`). For a number that is so because its bytes give it back,
from the last to the first (`Remains`); for a vector, and for the map of hands and decks, by
the count in front and then item by item; for a variant without fields, by its place in
the declaration. So each of the three states can be taken apart field by field
(`AccountsTellApart`, `ChestsTellApart`, `MatchesTellApart`). That its numbers fit is an
invariant of the runs (`FitInv`): after `i` commands a balance is at most `i` deposits, and
neither the board nor a hand has more than `i` cards, so the bounds on the length of a
run bound what is written.

`InductionLemmas` is what both parts rest on: induction is stated of the *set* of the
numbers a fact holds of, and a recursive definition's body is a function, so the facts
can be cited without a lemma that takes an operator.

### Only model-checked

* Liveness under fairness, out of the prover's reach: `AggregateCatchesUp`,
  `EveryCallReturns`, `EveryEventIsHandled`.
* The self-checks of `Entropy`, `MachineDefinition` and the other modules of pure
  operators that TLC evaluates as assumptions.

## 5. Not modelled

* The generator behind the entropy (ChaCha) and the digest behind the stable hash
  (SipHash, 128 bits): bytes, kept by their golden tests. A tape of words stands for the
  first; the second is taken to be free of collisions, so what is modelled is the
  encoding. Floats, strings and the codec of keys are left out of it: no state of the
  examples that are modelled depends on them.
* The version tags of events (`versioned.rs`, contract property 7): nothing in the loop
  reads them, so there is no behaviour to compare. A hazard says so.
* Contract property 8, another stream's answers: `RetentionIsInvisible` says more.
* Sampling and shrinking, which are proptest's. The models take every input of a small
  instance instead.
* The derives as token manipulation. What the generated code does, and which definitions
  they refuse, is in `MachineDefinition`, `StableHash`, `Redaction` and `MatchState`.
* The order example's own decisions, and the walk-throughs of all examples.
* `schema_version`, `type_name`, the wording of errors, timestamps.

## 6. Plan

*Done.* The journal with its abstract specification; the loop, the async store and the
subscription; machines, analysis and versions; aggregates, entropy, encoding, redaction
and the testkits; proofs of the safety of them all.

*Left*, in order of what it would add:

1. A store whose commit can be applied and its acknowledgement lost, so that the caller
   aborts what was committed. None of the repository's stores can do this, a database
   over a network can: such a module would be about the store, not about this code.
2. Several `execute_in` calls in one transaction, which the documentation forbids and the
   code grants: a run that shows what goes wrong.
3. The async-store's log as a journal for any callers, not only for a recording: that its
   four accesses implement those of `JournalStream`.
