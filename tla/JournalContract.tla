--------------------------- MODULE JournalContract ---------------------------
(***************************************************************************)
(* The conformance suite every journal is held to                          *)
(* (ironstate-journal/src/contract.rs), and the loop that drives a journal *)
(* for it, over one stream of the in-memory journal.  An event of the      *)
(* stream is the batch of one command.                                     *)
(*                                                                         *)
(* Property 7 (version tags) and property 8 (another stream's answers) say *)
(* nothing of one stream as a value and are left out.                      *)
(***************************************************************************)
EXTENDS Aggregates

LOCAL INSTANCE SequencesExt

M == INSTANCE JournalStream WITH Event <- {}, DrawPos <- Nat

HeadPos(journal) ==
  IF M!HeadSeq(journal) = 0 THEN 0 ELSE M!EntropyPos(journal, M!HeadSeq(journal))

\* The aggregate a journal resumes to.
ResumedState(w, journal) == Rebuilt(w, M!ResumedState(journal))

-----------------------------------------------------------------------------
(* Driving a journal: a run is the journal, the live aggregate, and where  *)
(* each command that was accepted landed.                                  *)

NewRun(w) ==
  [journal |-> M!NewStream, state |-> InitialState[w.aggregate], steps |-> <<>>]

\* What becomes of a decision that was taken on the run: nothing when it is a
\* refusal or its append fails, and the context is then rewound.
Concluded(w, run, decision, pos, fails) ==
  LET journal == M!AppendRecord(run.journal, decision.events, decision.pos)
      state == EvolveAll(w, run.state, decision.events)
      step == [seq |-> M!HeadSeq(journal), digest |-> Digest128(w, state)]
  IN IF ~decision.accepted THEN [outcome |-> "Rejected", run |-> run, pos |-> pos]
     ELSE IF fails THEN [outcome |-> "Journal", run |-> run, pos |-> pos]
     ELSE [outcome |-> "Ok", pos |-> decision.pos,
           run |-> [journal |-> journal, state |-> state,
                    steps |-> Append(run.steps, step)]]

\* `execute` with a context at that position.
Execute(w, run, cmd, pos, fails) ==
  Concluded(w, run, DecideOnly(w, run.state, cmd, pos), pos, fails)

\* One command from where the head of the log stands.
Step(w, run, cmd) == Execute(w, run, cmd, HeadPos(run.journal), FALSE).run

-----------------------------------------------------------------------------
(* The properties of the suite.                                            *)

PositionsMonotonic(journal, first, last) ==
  \A seq \in first .. last :
    /\ M!PosKnown(journal, seq)
    /\ seq > first => M!EntropyPos(journal, seq) >= M!EntropyPos(journal, seq - 1)

RoundTrip(w, journal, digest) ==
  /\ M!EventsKnown(journal, 0)
  /\ Digest128(w, Rebuilt(w, M!Replay(<<>>, M!EventsSince(journal, 0)))) = digest

RoundTripAtEachStep(w, run) ==
  \A i \in DOMAIN run.steps :
    /\ M!ForkOk(run.journal, run.steps[i].seq)
    /\ RoundTrip(w, M!Fork(run.journal, run.steps[i].seq), run.steps[i].digest)

\* What each command makes of a state, from a position.
Futures(w, s, pos) ==
  {<<cmd, Handle(w, s, cmd, pos).state>> : cmd \in CommandStrategy(w, s)}

ResumeIdentity(w, run) ==
  LET pos == HeadPos(run.journal)
  IN \A resumed \in {ResumedState(w, run.journal)} :
       Futures(w, resumed, pos) = Futures(w, run.state, pos)

Midpoint(journal) == (M!HeadSeq(journal) + 1) \div 2

ForkPositionEquality(journal) ==
  LET at == Midpoint(journal)
      branch == M!Fork(journal, at)
  IN /\ M!ForkOk(journal, at)
     /\ M!HeadSeq(branch) = at
     /\ M!EntropyPos(branch, at) = M!EntropyPos(journal, at)

FailedAppendAtomicity(w) ==
  LET run == NewRun(w)
  IN \A failed \in {Execute(w, run, cmd, 0, TRUE) : cmd \in CommandStrategy(w, run.state)} :
       failed.outcome = "Journal" =>
         /\ M!HeadSeq(failed.run.journal) = 0
         /\ Digest128(w, failed.run.state) = Digest128(w, run.state)
         /\ failed.pos = 0

OutOfRange(journal) ==
  \A beyond \in {1, 2, 2 ^ 16} : ~M!PosKnown(journal, M!HeadSeq(journal) + beyond)

\* What `run_contract_forkable` asks of a run it has driven.
Passes(w, run) ==
  /\ FailedAppendAtomicity(w)
  /\ OutOfRange(run.journal)
  /\ M!HeadSeq(run.journal) > 0 =>
       /\ PositionsMonotonic(run.journal, 1, M!HeadSeq(run.journal))
       /\ M!Resumable(run.journal)
       /\ M!ResumedPos(run.journal) = HeadPos(run.journal)
       /\ ResumeIdentity(w, run)
       /\ ForkPositionEquality(run.journal)
       /\ RoundTripAtEachStep(w, run)
       /\ RoundTrip(w, run.journal, Last(run.steps).digest)
=============================================================================
