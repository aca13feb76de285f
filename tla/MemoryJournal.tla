---------------------------- MODULE MemoryJournal ----------------------------
(***************************************************************************)
(* The in-memory journal as its callers drive it: any number of streams,   *)
(* appended to, snapshotted, truncated and forked into branch journals     *)
(* that are then driven in the same way.                                   *)
(*                                                                         *)
(* Callers are trusted to describe what they snapshot truly, but not to be *)
(* on time: the state handed to `snapshot_in` was captured at some         *)
(* sequence, and appends and truncations may have run since.  Callers      *)
(* names the liberties the environment takes beyond that:                  *)
(*   "late"   a snapshot may arrive after a truncation went past it;       *)
(*   "ahead"  a snapshot may be recorded past the head, holding a state    *)
(*            the stream never had.                                        *)
(***************************************************************************)
EXTENDS JournalStream

CONSTANTS
  JournalId,     (* Journal values: the first one and the forks of it.     *)
  Main,          (* The journal that exists from the start.                *)
  StreamId,
  Callers,       (* Which liberties callers take, see above.               *)
  MaxHead        (* Bound on the length of a stream's history.             *)

ASSUME MainAssumption == Main \in JournalId
ASSUME CallersAssumption == Callers \subseteq {"late", "ahead"}
ASSUME MaxHeadAssumption == MaxHead \in Nat

VARIABLES
  opened,        (* The journals that exist.                               *)
  journal,       (* Their streams.                                         *)
  seen,          (* The streams each journal holds an entry for.           *)
  history        (* History variable: every record ever appended,          *)
                 (* truncated or not.                                      *)

vars == <<opened, journal, seen, history>>

TypeOK ==
  /\ opened \subseteq JournalId
  /\ journal \in [JournalId -> [StreamId -> Stream]]
  /\ seen \in [JournalId -> SUBSET StreamId]
  /\ history \in [JournalId -> [StreamId -> Seq(Record)]]

Init ==
  /\ opened = {Main}
  /\ journal = [j \in JournalId |-> [s \in StreamId |-> NewStream]]
  /\ seen = [j \in JournalId |-> {}]
  /\ history = [j \in JournalId |-> [s \in StreamId |-> <<>>]]

-----------------------------------------------------------------------------
(* Operations.  Writing to an unseen stream creates its entry.             *)

AppendIn(j, s, events, pos) ==
  /\ HeadSeq(journal[j][s]) < MaxHead
  /\ journal' = [journal EXCEPT ![j][s] = AppendRecord(@, events, pos)]
  /\ seen' = [seen EXCEPT ![j] = @ \union {s}]
  /\ history' = [history EXCEPT ![j][s] =
                   Append(@, [events |-> events, entropy_pos |-> pos])]
  /\ UNCHANGED opened

PushIn(j, s, snap) ==
  /\ journal' = [journal EXCEPT ![j][s] = PushSnapshot(@, snap)]
  /\ seen' = [seen EXCEPT ![j] = @ \union {s}]
  /\ UNCHANGED <<opened, history>>

\* A true snapshot of some sequence the stream has reached.
SnapshotIn(j, s, at) ==
  /\ at <= HeadSeq(journal[j][s])
  /\ "late" \in Callers \/ at >= journal[j][s].truncated
  /\ PushIn(j, s, TrueSnapshot(history[j][s], at))

\* A snapshot of a sequence the stream has not reached.  Its state is the one
\* the stream began with, which no stream is in again.
SnapshotAhead(j, s, at) ==
  /\ "ahead" \in Callers
  /\ at > HeadSeq(journal[j][s])
  /\ PushIn(j, s, [Genesis EXCEPT !.at = at])

\* The stream must have an entry: a refused truncation never creates one.
Truncate(j, s, at) ==
  /\ s \in seen[j]
  /\ TruncateOk(journal[j][s], at)
  /\ journal' = [journal EXCEPT ![j][s] = TruncateBefore(@, at)]
  /\ UNCHANGED <<opened, seen, history>>

\* The branch holds the forked stream and no other.
ForkInto(j, s, at, k) ==
  /\ k \notin opened
  /\ ForkOk(journal[j][s], at)
  /\ opened' = opened \union {k}
  /\ journal' = [journal EXCEPT ![k] =
                   [t \in StreamId |->
                      IF t = s THEN Fork(journal[j][s], at) ELSE NewStream]]
  /\ seen' = [seen EXCEPT ![k] = {s} \intersect seen[j]]
  /\ history' = [history EXCEPT ![k] =
                   [t \in StreamId |->
                      IF t = s THEN SubSeq(history[j][s], 1, at) ELSE <<>>]]

Next ==
  \E j \in opened, s \in StreamId :
    \/ \E events \in Event, pos \in DrawPos : AppendIn(j, s, events, pos)
    \/ \E at \in 0 .. MaxHead : SnapshotIn(j, s, at) \/ SnapshotAhead(j, s, at)
    \/ \E at \in 0 .. MaxHead + 1 : Truncate(j, s, at)
    \/ \E at \in 0 .. MaxHead, k \in JournalId : ForkInto(j, s, at, k)

Spec == Init /\ [][Next]_vars
-----------------------------------------------------------------------------
(* Safety.                                                                 *)

\* The inductive invariant of a journal whose callers take no liberties: every
\* stream retains exactly the end of its history, and every snapshot is true
\* and not older than the horizon, so that a replay can start from any of them.
\* (memory.rs: truncate_before keeps no snapshot older than at - 1.)
AlwaysFaithful ==
  \A j \in JournalId, s \in StreamId :
    Faithful(journal[j][s], history[j][s])

\* No snapshot at or below the head of the stream lies.  Callers that record
\* snapshots ahead of the head break this once the head gets there.
Trusted(j, s) ==
  \A snap \in Bases(journal[j][s]) : snap = TrueSnapshot(history[j][s], snap.at)

\* Whatever was snapshotted and truncated, however late or early, `resume` never
\* fails: some base with an unbroken run of records after it survives.  And as
\* long as no snapshot at or below the head lies, it rebuilds exactly the state
\* and the position that the appends left behind.  (replay.rs, `resume`;
\* memory.rs, `latest_snapshot`, `events_since` and `truncate_before`, which must
\* agree on the horizon and on which snapshots count.)
ResumeFaithful ==
  \A j \in opened, s \in StreamId :
    LET st == journal[j][s]
        h == history[j][s]
    IN /\ Resumable(st)
       /\ Trusted(j, s) => /\ ResumedState(st) = StateAt(h, Len(h))
                           /\ ResumedPos(st) = PosAt(h, Len(h))

\* Up to the head, `entropy_pos` answers with the position of the record asked
\* for or refuses, and it refuses nothing that is retained.  (journal.rs, "never
\* a different record's position".)
PositionNeverWrong ==
  \A j \in opened, s \in StreamId, at \in 0 .. MaxHead :
    LET st == journal[j][s]
        h == history[j][s]
    IN at <= Len(h) =>
         /\ Trusted(j, s) /\ PosKnown(st, at) => EntropyPos(st, at) = PosAt(h, at)
         /\ at >= RetainedFrom(st) => PosKnown(st, at)

\* `events_since` gives everything that follows the mark, or refuses: a reader
\* catching up from any mark never skips a record without an error.
ReadsHaveNoGap ==
  \A j \in opened, s \in StreamId, after \in 0 .. MaxHead :
    EventsKnown(journal[j][s], after) =>
      EventsSince(journal[j][s], after) =
        SubSeq(history[j][s], after + 1, Len(history[j][s]))

\* A fork that is granted can be resumed, at the fork point, as the prefix of
\* the source through it.  (memory.rs, `fork`: "refuse here rather than hand
\* back a journal whose `resume` fails later".)
ForkFaithful ==
  \A j \in opened, s \in StreamId, at \in 0 .. MaxHead :
    ForkOk(journal[j][s], at) =>
      LET branch == Fork(journal[j][s], at)
      IN /\ HeadSeq(branch) = at
         /\ Resumable(branch)
         /\ ResumedState(branch) = StateAt(history[j][s], at)
         /\ ResumedPos(branch) = PosAt(history[j][s], at)

\* The way out each refusal names is open.  A fork refused for want of a base
\* is granted at the newest snapshot and above; a truncation refused for want
\* of a snapshot is granted after one at or past the sequence before `at`.
\* (journal.rs, Display of NoBaseForFork and NoSnapshotForTruncation.)
AdviceWorks ==
  \A j \in opened, s \in StreamId, at \in 0 .. MaxHead + 1 :
    LET st == journal[j][s]
        h == history[j][s]
    IN /\ ForkPoint(st, at) /\ ~ForkOk(st, at) =>
            \A above \in LatestSnapshot(st).at .. HeadSeq(st) : ForkOk(st, above)
       /\ st.truncated < at /\ at <= HeadSeq(st) /\ ~TruncateOk(st, at) =>
            \A up \in at - 1 .. HeadSeq(st) :
              TruncateOk(PushSnapshot(st, TrueSnapshot(h, up)), at)

-----------------------------------------------------------------------------
(* What a step may never do.                                               *)

\* A journal that exists never takes back an answer: heads and horizons only
\* advance, a known position keeps its value for as long as it is known, and a
\* sequence refused once as below the horizon is refused for ever, but for the
\* one right before the first retained record, which a snapshot can restore.
AnswersAreStable ==
  [][\A j \in opened, s \in StreamId :
       LET st == journal[j][s]
           next == journal'[j][s]
       IN /\ HeadSeq(next) >= HeadSeq(st)
          /\ RetainedFrom(next) >= RetainedFrom(st)
          /\ \A at \in 0 .. HeadSeq(st) :
               PosKnown(next, at) =>
                 IF PosKnown(st, at)
                 THEN EntropyPos(next, at) = EntropyPos(st, at)
                 ELSE at = st.truncated]_vars

-----------------------------------------------------------------------------
(* Refinement: what resuming every stream gives is a DurableStreams.       *)

States ==
  [j \in JournalId |-> [s \in StreamId |-> ResumedState(journal[j][s])]]

Positions ==
  [j \in JournalId |-> [s \in StreamId |-> ResumedPos(journal[j][s])]]

Durable == INSTANCE DurableStreams WITH state <- States, pos <- Positions

\* Snapshots and truncations are invisible, an append is one atomic step, and a
\* fork is a prefix.
ImplementsDurableStreams == Durable!Spec

-----------------------------------------------------------------------------
(* What the documentation says and the runs refute.                        *)

\* tests/retention.rs: a snapshot recorded past the head is not a base `resume`
\* may use.
ResumeIgnoresAheadSnapshots ==
  \A j \in opened, s \in StreamId :
    Resumable(journal[j][s]) =>
      ResumedState(journal[j][s]) = StateAt(history[j][s], Len(history[j][s]))

\* memory.rs: a fork that would be unresumable is refused.
GrantedForksResume ==
  \A j \in opened, s \in StreamId, at \in 0 .. MaxHead :
    ForkOk(journal[j][s], at) => Resumable(Fork(journal[j][s], at))
=============================================================================
