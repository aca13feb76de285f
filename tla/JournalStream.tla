---------------------------- MODULE JournalStream ----------------------------
(***************************************************************************)
(* One stream of the in-memory journal, as a value, and what the journal   *)
(* reads from it and writes to it (ironstate-journal/src/memory.rs), with  *)
(* the replay that rebuilds an aggregate from it (replay.rs).              *)
(*                                                                         *)
(* An operation that can fail is a pair: a predicate, true where the code  *)
(* returns Ok, and an operator giving the value of Ok.  A refused          *)
(* operation changes nothing.                                              *)
(*                                                                         *)
(* The aggregate is the free one: its state is the sequence of everything  *)
(* that was evolved into it, so two states are equal exactly when no       *)
(* aggregate whatever could tell them apart.  An Event stands for the      *)
(* whole batch one record holds.  A stream's snapshots are a set: the      *)
(* order they were pushed in matters only between two of them with the     *)
(* same `at` and different contents.                                       *)
(*                                                                         *)
(* A definition introduced as a slip is a mistake the code could make in   *)
(* the definition after it: nothing uses it, and with it in place of that  *)
(* definition some property fails.                                         *)
(***************************************************************************)
EXTENDS Integers, Sequences

CONSTANTS
  Event,     (* The batches of events one append may carry.                *)
  DrawPos    (* Positions of the entropy stream.                           *)

ASSUME DrawPosAssumption == DrawPos \subseteq Nat /\ 0 \in DrawPos

AggregateState == Seq(Event)

Record == [events : Event, entropy_pos : DrawPos]

Snapshot == [at : Nat, state : AggregateState, entropy_pos : DrawPos]

Stream == [records : Seq(Record), snapshots : SUBSET Snapshot, truncated : Nat]

(***************************************************************************)
(* A stream nothing was appended to: the genesis snapshot and no record.   *)
(* The journal answers the same for an id it has never seen.               *)
(***************************************************************************)
Genesis == [at |-> 0, state |-> <<>>, entropy_pos |-> 0]

NewStream == [records |-> <<>>, snapshots |-> {Genesis}, truncated |-> 0]

-----------------------------------------------------------------------------
(* Reads.                                                                  *)

\* Zero stands for the None of a stream that has no head yet.
HeadSeq(st) == st.truncated + Len(st.records)

RetainedFrom(st) == st.truncated + 1

Retained(st, at) == st.truncated < at /\ at <= HeadSeq(st)

RecordAt(st, at) == st.records[at - st.truncated]

\* Snapshots past the head are never a base.
Bases(st) == {snap \in st.snapshots : snap.at <= HeadSeq(st)}

LatestSnapshot(st) ==
  CHOOSE snap \in Bases(st) : \A other \in Bases(st) : other.at <= snap.at

SnapshotsAt(st, at) == {snap \in st.snapshots : snap.at = at}

\* A snapshot answers for its own sequence before the records are looked at,
\* wherever it lies.
PosKnown(st, at) ==
  \/ SnapshotsAt(st, at) # {}
  \/ at = 0 /\ st.truncated = 0
  \/ Retained(st, at)

\* Slip: a retained record answers with the position of the head.
EntropyPosOfHead(st, at) ==
  IF SnapshotsAt(st, at) # {}
  THEN (CHOOSE snap \in SnapshotsAt(st, at) : TRUE).entropy_pos
  ELSE IF at = 0 THEN 0 ELSE RecordAt(st, HeadSeq(st)).entropy_pos

EntropyPos(st, at) ==
  IF SnapshotsAt(st, at) # {}
  THEN (CHOOSE snap \in SnapshotsAt(st, at) : TRUE).entropy_pos
  ELSE IF at = 0 THEN 0 ELSE RecordAt(st, at).entropy_pos

EventsKnown(st, after) == after >= st.truncated

\* Slip: a sequence is taken for an index, as if nothing had been truncated.
EventsSinceIndex(st, after) ==
  SubSeq(st.records, after + 1, Len(st.records))

EventsSince(st, after) ==
  SubSeq(st.records, after - st.truncated + 1, Len(st.records))

-----------------------------------------------------------------------------
(* Replay and resume.                                                      *)

Replay(state, records) ==
  state \o [i \in 1 .. Len(records) |-> records[i].events]

Resumable(st) ==
  /\ Bases(st) # {}
  /\ EventsKnown(st, LatestSnapshot(st).at)
  /\ HeadSeq(st) > 0 => PosKnown(st, HeadSeq(st))

ResumedState(st) ==
  Replay(LatestSnapshot(st).state, EventsSince(st, LatestSnapshot(st).at))

\* Slip: the position of the base, not of the head.
ResumedPosOfBase(st) == LatestSnapshot(st).entropy_pos

ResumedPos(st) ==
  IF HeadSeq(st) > 0
  THEN EntropyPos(st, HeadSeq(st))
  ELSE LatestSnapshot(st).entropy_pos

-----------------------------------------------------------------------------
(* Writes.                                                                 *)

AppendRecord(st, events, pos) ==
  [st EXCEPT !.records = Append(@, [events |-> events, entropy_pos |-> pos])]

PushSnapshot(st, snap) == [st EXCEPT !.snapshots = @ \union {snap}]

\* Slip: a snapshot past the head stands in for the records too.
TruncateOkAhead(st, at) ==
  /\ st.truncated < at /\ at <= HeadSeq(st) + 1
  /\ \E snap \in st.snapshots : snap.at >= at - 1

TruncateOk(st, at) ==
  /\ st.truncated < at /\ at <= HeadSeq(st) + 1
  /\ Bases(st) # {}
  /\ LatestSnapshot(st).at >= at - 1

\* Slip: snapshots are never dropped.
TruncateKeepingSnapshots(st, at) ==
  [records   |-> SubSeq(st.records, at - st.truncated, Len(st.records)),
   snapshots |-> st.snapshots,
   truncated |-> at - 1]

\* Slip: the horizon stays where it was.
TruncateKeepingHorizon(st, at) ==
  [records   |-> SubSeq(st.records, at - st.truncated, Len(st.records)),
   snapshots |-> {snap \in st.snapshots : snap.at >= at - 1},
   truncated |-> st.truncated]

\* Slip: the number of dropped records is subtracted from the horizon.
TruncateBackwards(st, at) ==
  [records   |-> SubSeq(st.records, at - st.truncated, Len(st.records)),
   snapshots |-> {snap \in st.snapshots : snap.at >= at - 1},
   truncated |-> st.truncated - (at - 1 - st.truncated)]

TruncateBefore(st, at) ==
  [records   |-> SubSeq(st.records, at - st.truncated, Len(st.records)),
   snapshots |-> {snap \in st.snapshots : snap.at >= at - 1},
   truncated |-> at - 1]

\* Slip: a snapshot at the fork point itself is no base.
ForkBasesBefore(st, at) == {snap \in st.snapshots : snap.at < at}

ForkBases(st, at) == {snap \in st.snapshots : snap.at <= at}

\* Every fork point the stream still covers, base or no base.
ForkPoint(st, at) ==
  /\ at <= HeadSeq(st)
  /\ st.truncated > 0 => at > st.truncated

ForkOk(st, at) == ForkPoint(st, at) /\ ForkBases(st, at) # {}

Fork(st, at) ==
  [records   |-> SubSeq(st.records, 1, at - st.truncated),
   snapshots |-> ForkBases(st, at),
   truncated |-> st.truncated]

-----------------------------------------------------------------------------
(* What the whole history h of a stream says of it, retained or not.       *)

StateAt(h, at) == [i \in 1 .. at |-> h[i].events]

PosAt(h, at) == IF at = 0 THEN 0 ELSE h[at].entropy_pos

TrueSnapshot(h, at) ==
  [at |-> at, state |-> StateAt(h, at), entropy_pos |-> PosAt(h, at)]

\* A stream is faithful to its history: what is retained is where the history
\* has it, and every snapshot is true and can be replayed from.
Faithful(st, h) ==
  /\ HeadSeq(st) = Len(h)
  /\ \A i \in 1 .. Len(st.records) : st.records[i] = h[st.truncated + i]
  /\ st.snapshots # {}
  /\ \A snap \in st.snapshots :
       /\ st.truncated <= snap.at /\ snap.at <= Len(h)
       /\ snap = TrueSnapshot(h, snap.at)
=============================================================================
