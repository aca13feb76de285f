-------------------------- MODULE JournalStreamProofs --------------------------
(***************************************************************************)
(* Lemmas about one stream: what Faithful streams answer, and that every   *)
(* write keeps a stream faithful to its history.                           *)
(***************************************************************************)
EXTENDS JournalStream, SequenceTheorems, WellFoundedInduction, TLAPS

\* A bounded nonempty set of naturals has a greatest element.
LEMMA GreatestNatural ==
  ASSUME NEW T, T \subseteq Nat, T # {},
         NEW n \in Nat, \A t \in T : t <= n
  PROVE  \E x \in T : \A y \in T : y <= x
<1> DEFINE R == OpToRel(<, Nat)
           D == {d \in Nat : \E t \in T : d = n - t}
<1>1. D \subseteq Nat /\ D # {}
  <2>1. PICK t \in T : TRUE
    OBVIOUS
  <2>2. n - t \in D
    OBVIOUS
  <2>. QED BY <2>2
<1>2. PICK d \in D : \A e \in D : ~ (<<e, d>> \in R)
  <2> HIDE DEF R, D
  <2>1. IsWellFoundedOn(R, Nat)
    BY NatLessThanWellFounded DEF R
  <2>. QED BY <1>1, <2>1, WFMin
<1>3. PICK x \in T : d = n - x
  OBVIOUS
<1>4. \A y \in T : y <= x
  <2> SUFFICES ASSUME NEW y \in T, y > x PROVE FALSE
    OBVIOUS
  <2>1. n - y \in D
    OBVIOUS
  <2>2. <<n - y, d>> \in Nat \X Nat /\ n - y < d
    BY <1>3, <2>1
  <2>3. <<n - y, d>> \in R
    BY <2>2 DEF OpToRel
  <2>. QED BY <1>2, <2>1, <2>3
<1>. QED BY <1>4

-----------------------------------------------------------------------------
(* Histories.                                                              *)

LEMMA RecordsType ==
  ASSUME NEW h \in Seq(Record), NEW i \in 1 .. Len(h)
  PROVE  h[i].events \in Event /\ h[i].entropy_pos \in DrawPos
<1>1. h[i] \in Record
  BY ElementOfSeq
<1>. QED BY <1>1 DEF Record

LEMMA StateAtType ==
  ASSUME NEW h \in Seq(Record), NEW at \in 0 .. Len(h)
  PROVE  /\ StateAt(h, at) \in Seq(Event) /\ Len(StateAt(h, at)) = at
         /\ \A i \in 1 .. at : StateAt(h, at)[i] = h[i].events
<1>1. at \in Nat /\ \A i \in 1 .. at : i \in 1 .. Len(h)
  BY LenProperties
<1>2. \A i \in 1 .. at : h[i].events \in Event
  BY <1>1, RecordsType
<1>. QED BY <1>1, <1>2 DEF StateAt

-----------------------------------------------------------------------------
(* What a stream answers, in parts of what makes it faithful.              *)

\* What is retained is where the history has it.
Aligned(st, h) ==
  /\ HeadSeq(st) = Len(h)
  /\ \A i \in 1 .. Len(st.records) : st.records[i] = h[st.truncated + i]

\* Some base can be replayed from.
Anchored(st) == \E snap \in Bases(st) : st.truncated <= snap.at

\* No base lies.
Truthful(st, h) ==
  \A snap \in Bases(st) : snap = TrueSnapshot(h, snap.at)

LEMMA FaithfulIsSound ==
  ASSUME NEW st \in Stream, NEW h \in Seq(Record), Faithful(st, h)
  PROVE  /\ Aligned(st, h) /\ Anchored(st) /\ Truthful(st, h)
         /\ Bases(st) = st.snapshots
<1>1. Bases(st) = st.snapshots
  BY DEF Faithful, Bases
<1>. QED BY <1>1 DEF Faithful, Aligned, Anchored, Truthful

LEMMA HeadIsNatural ==
  ASSUME NEW st \in Stream
  PROVE  HeadSeq(st) \in Nat /\ st.truncated \in Nat /\ Len(st.records) \in Nat
BY LenProperties DEF HeadSeq, Stream

\* The latest base exists, and is the newest of them all.
LEMMA LatestIsNewest ==
  ASSUME NEW st \in Stream, Bases(st) # {}
  PROVE  /\ LatestSnapshot(st) \in Bases(st)
         /\ \A snap \in Bases(st) : snap.at <= LatestSnapshot(st).at
<1> DEFINE T == {snap.at : snap \in Bases(st)}
<1>1. PICK x \in T : \A y \in T : y <= x
  <2>1. \A snap \in Bases(st) : snap.at \in Nat /\ snap.at <= HeadSeq(st)
    BY DEF Bases, Stream, Snapshot
  <2>2. T \subseteq Nat /\ T # {} /\ \A t \in T : t <= HeadSeq(st)
    BY <2>1
  <2>3. HeadSeq(st) \in Nat
    BY HeadIsNatural
  <2> HIDE DEF T
  <2>. QED BY <2>2, <2>3, GreatestNatural
<1>2. \E snap \in Bases(st) : \A other \in Bases(st) : other.at <= snap.at
  BY <1>1
<1>. QED BY <1>2 DEF LatestSnapshot

\* A position is known where a snapshot or a retained record has it, and is the
\* position the history has there.
LEMMA PositionIsTrue ==
  ASSUME NEW st \in Stream, NEW h \in Seq(Record), Aligned(st, h), Truthful(st, h),
         NEW at \in 0 .. Len(h), PosKnown(st, at)
  PROVE  EntropyPos(st, at) = PosAt(h, at)
<1>1. CASE SnapshotsAt(st, at) # {}
  <2>1. PICK snap \in SnapshotsAt(st, at) :
          EntropyPos(st, at) = snap.entropy_pos
    BY <1>1 DEF EntropyPos
  <2>2. snap \in Bases(st)
    BY <2>1 DEF SnapshotsAt, Aligned, Bases
  <2>3. snap = TrueSnapshot(h, at)
    BY <2>1, <2>2 DEF SnapshotsAt, Truthful
  <2>. QED BY <2>1, <2>3 DEF TrueSnapshot
<1>2. CASE SnapshotsAt(st, at) = {} /\ at = 0
  BY <1>2 DEF EntropyPos, PosAt
<1>3. CASE SnapshotsAt(st, at) = {} /\ at # 0
  <2>1. Retained(st, at)
    BY <1>3 DEF PosKnown
  <2>2. st.truncated \in Nat /\ Len(st.records) \in Nat /\ Len(h) \in Nat
    BY LenProperties DEF Stream
  <2>3. at - st.truncated \in 1 .. Len(st.records)
    BY <2>1, <2>2 DEF Retained, HeadSeq
  <2>4. st.records[at - st.truncated] = h[st.truncated + (at - st.truncated)]
    BY <2>3 DEF Aligned
  <2>5. st.truncated + (at - st.truncated) = at
    BY <2>2
  <2>6. RecordAt(st, at) = h[at]
    BY <2>4, <2>5 DEF RecordAt
  <2>. QED BY <1>3, <2>6 DEF EntropyPos, PosAt
<1>. QED BY <1>1, <1>2, <1>3

\* A read from a mark that is not refused is the history after the mark.
LEMMA ReadIsSuffix ==
  ASSUME NEW st \in Stream, NEW h \in Seq(Record), Aligned(st, h),
         NEW after \in Nat, EventsKnown(st, after)
  PROVE  EventsSince(st, after) = SubSeq(h, after + 1, Len(h))
<1>1. PICK r \in Seq(Record), t \in Nat : r = st.records /\ t = st.truncated
  BY DEF Stream
<1>2. /\ Len(r) \in Nat /\ Len(h) = t + Len(r)
      /\ \A i \in 1 .. Len(r) : r[i] = h[t + i]
  BY <1>1, LenProperties DEF Aligned, HeadSeq
<1>3. PICK m \in Nat : m = after - t + 1 /\ m > 0 /\ t + m = after + 1
  BY <1>1 DEF EventsKnown
<1>4. SubSeq(r, m, Len(r)) = SubSeq(h, t + m, t + Len(r))
  BY <1>2, <1>3
<1>. QED BY <1>1, <1>2, <1>3, <1>4 DEF EventsSince

\* Replaying what follows n records onto the state they left gives the whole.
LEMMA ReplayIsWhole ==
  ASSUME NEW h \in Seq(Record), NEW n \in 0 .. Len(h)
  PROVE  Replay(StateAt(h, n), SubSeq(h, n + 1, Len(h))) = StateAt(h, Len(h))
<1> DEFINE rest == SubSeq(h, n + 1, Len(h))
           tail == [i \in 1 .. Len(rest) |-> rest[i].events]
<1>1. Len(h) \in Nat /\ n \in Nat /\ \A i \in 1 .. Len(h) : h[i].events \in Event
  BY RecordsType, LenProperties
<1>2. Len(rest) = Len(h) - n /\ \A i \in 1 .. Len(h) - n : rest[i] = h[n + i]
  BY <1>1
<1>3. StateAt(h, n) \in Seq(Event) /\ Len(StateAt(h, n)) = n
  BY StateAtType
<1>4. tail \in Seq(Event) /\ Len(tail) = Len(h) - n
  BY <1>1, <1>2
<1>5. StateAt(h, Len(h)) \in Seq(Event) /\ Len(StateAt(h, Len(h))) = Len(h)
  BY <1>1 DEF StateAt
<1>6. /\ StateAt(h, n) \o tail \in Seq(Event)
      /\ Len(StateAt(h, n) \o tail) = Len(h)
      /\ \A i \in 1 .. Len(h) :
           (StateAt(h, n) \o tail)[i] =
             IF i <= n THEN StateAt(h, n)[i] ELSE tail[i - n]
  <2> HIDE DEF tail
  <2>. QED BY <1>1, <1>3, <1>4, ConcatProperties
<1>7. ASSUME NEW i \in 1 .. Len(h)
      PROVE  (StateAt(h, n) \o tail)[i] = StateAt(h, Len(h))[i]
  <2>1. CASE i <= n
    BY <2>1, <1>1, <1>6 DEF StateAt
  <2>2. CASE ~ (i <= n)
    <3>1. i - n \in 1 .. Len(rest) /\ rest[i - n] = h[i]
      BY <2>2, <1>1, <1>2
    <3>. QED BY <2>2, <3>1, <1>1, <1>6 DEF StateAt
  <2>. QED BY <2>1, <2>2
<1>8. StateAt(h, n) \o tail = StateAt(h, Len(h))
  <2> HIDE DEF tail
  <2>. QED BY <1>5, <1>6, <1>7, SeqEqual
<1>. QED BY <1>8 DEF Replay

\* `resume` of an anchored stream never fails.
LEMMA ResumeIsGranted ==
  ASSUME NEW st \in Stream, Anchored(st)
  PROVE  /\ Resumable(st)
         /\ LatestSnapshot(st) \in Bases(st)
         /\ EventsKnown(st, LatestSnapshot(st).at)
<1> DEFINE base == LatestSnapshot(st)
<1>1. PICK anchor \in Bases(st) : st.truncated <= anchor.at
  BY DEF Anchored
<1>2. base \in Bases(st) /\ anchor.at <= base.at
  BY <1>1, LatestIsNewest
<1>3. /\ base.at \in Nat /\ anchor.at \in Nat
      /\ base.at <= HeadSeq(st) /\ st.truncated <= base.at
  <2>1. base \in Snapshot /\ anchor \in Snapshot /\ base.at <= HeadSeq(st)
    BY <1>1, <1>2 DEF Bases, Stream
  <2>2. base.at \in Nat /\ anchor.at \in Nat /\ st.truncated \in Nat
    BY <2>1, HeadIsNatural DEF Snapshot
  <2>. QED BY <1>1, <1>2, <2>1, <2>2
<1>4. HeadSeq(st) > 0 => PosKnown(st, HeadSeq(st))
  <2>1. CASE base.at = HeadSeq(st)
    BY <2>1, <1>2 DEF PosKnown, SnapshotsAt, Bases
  <2>2. CASE base.at < HeadSeq(st)
    BY <2>2, <1>3, HeadIsNatural DEF PosKnown, Retained
  <2>. QED BY <1>3, <2>1, <2>2, HeadIsNatural
<1>. QED BY <1>1, <1>2, <1>3, <1>4 DEF Resumable, EventsKnown

\* And if no base lies it gives what the history says.
LEMMA ResumeIsTrue ==
  ASSUME NEW st \in Stream, NEW h \in Seq(Record),
         Aligned(st, h), Anchored(st), Truthful(st, h)
  PROVE  /\ ResumedState(st) = StateAt(h, Len(h))
         /\ ResumedPos(st) = PosAt(h, Len(h))
<1> DEFINE base == LatestSnapshot(st)
<1>1. /\ base \in Bases(st) /\ base = TrueSnapshot(h, base.at)
      /\ EventsKnown(st, base.at) /\ Resumable(st)
  BY ResumeIsGranted DEF Truthful
<1>2. /\ base.at \in 0 .. Len(h)
      /\ Len(h) \in Nat /\ Len(h) = HeadSeq(st)
  BY <1>1, LenProperties DEF Aligned, Bases, Snapshot, Stream
<1>3. ResumedState(st) = StateAt(h, Len(h))
  <2>1. EventsSince(st, base.at) = SubSeq(h, base.at + 1, Len(h))
    BY <1>1, <1>2, ReadIsSuffix
  <2>2. base.state = StateAt(h, base.at)
    BY <1>1 DEF TrueSnapshot
  <2>. QED BY <1>2, <2>1, <2>2, ReplayIsWhole DEF ResumedState
<1>4. ResumedPos(st) = PosAt(h, Len(h))
  <2>1. CASE HeadSeq(st) > 0
    BY <2>1, <1>1, <1>2, PositionIsTrue DEF ResumedPos, Resumable
  <2>2. CASE HeadSeq(st) = 0
    BY <2>2, <1>1, <1>2 DEF ResumedPos, TrueSnapshot, PosAt
  <2>. QED BY <1>2, <2>1, <2>2
<1>. QED BY <1>3, <1>4

LEMMA FaithfulResumes ==
  ASSUME NEW st \in Stream, NEW h \in Seq(Record), Faithful(st, h)
  PROVE  /\ Resumable(st)
         /\ ResumedState(st) = StateAt(h, Len(h))
         /\ ResumedPos(st) = PosAt(h, Len(h))
BY FaithfulIsSound, ResumeIsGranted, ResumeIsTrue

-----------------------------------------------------------------------------
(* The writes are closed under Stream.                                     *)

LEMMA NewStreamType == NewStream \in Stream
<1>1. Genesis \in Snapshot
  BY DrawPosAssumption DEF Genesis, Snapshot, AggregateState
<1>. QED BY <1>1 DEF NewStream, Stream

LEMMA AppendRecordType ==
  ASSUME NEW st \in Stream, NEW events \in Event, NEW pos \in DrawPos
  PROVE  AppendRecord(st, events, pos) \in Stream
<1>1. [events |-> events, entropy_pos |-> pos] \in Record
  BY DEF Record
<1>2. Append(st.records, [events |-> events, entropy_pos |-> pos]) \in Seq(Record)
  BY <1>1, AppendProperties DEF Stream
<1>. QED BY <1>2 DEF AppendRecord, Stream

LEMMA PushSnapshotType ==
  ASSUME NEW st \in Stream, NEW snap \in Snapshot
  PROVE  PushSnapshot(st, snap) \in Stream
BY DEF PushSnapshot, Stream

LEMMA TruncateBeforeType ==
  ASSUME NEW st \in Stream, NEW at \in Nat, TruncateOk(st, at)
  PROVE  TruncateBefore(st, at) \in Stream
<1>1. PICK r \in Seq(Record), t \in Nat : r = st.records /\ t = st.truncated
  BY DEF Stream
<1>2. Len(r) \in Nat /\ at - t \in Nat \ {0} /\ at - 1 \in Nat
  BY <1>1, LenProperties DEF TruncateOk
<1>3. SubSeq(r, at - t, Len(r)) \in Seq(Record)
  BY <1>2
<1>4. {snap \in st.snapshots : snap.at >= at - 1} \in SUBSET Snapshot
  BY DEF Stream
<1>. QED BY <1>1, <1>2, <1>3, <1>4 DEF TruncateBefore, Stream

LEMMA ForkType ==
  ASSUME NEW st \in Stream, NEW at \in Nat, ForkOk(st, at)
  PROVE  Fork(st, at) \in Stream
<1>1. PICK r \in Seq(Record), t \in Nat : r = st.records /\ t = st.truncated
  BY DEF Stream
<1>2. Len(r) \in Nat /\ at - t \in Nat /\ at - t <= Len(r)
  BY <1>1, LenProperties DEF ForkOk, ForkPoint, HeadSeq
<1>3. SubSeq(r, 1, at - t) \in Seq(Record)
  BY <1>2
<1>4. ForkBases(st, at) \in SUBSET Snapshot
  BY DEF Stream, ForkBases
<1>. QED BY <1>1, <1>3, <1>4 DEF Fork, Stream

LEMMA TrueSnapshotType ==
  ASSUME NEW h \in Seq(Record), NEW at \in 0 .. Len(h)
  PROVE  TrueSnapshot(h, at) \in Snapshot
<1>1. at \in Nat /\ StateAt(h, at) \in Seq(Event)
  BY StateAtType, LenProperties
<1>2. PosAt(h, at) \in DrawPos
  BY <1>1, RecordsType, LenProperties, DrawPosAssumption DEF PosAt
<1>. QED BY <1>1, <1>2 DEF TrueSnapshot, Snapshot, AggregateState

-----------------------------------------------------------------------------
(* The writes keep a stream aligned and anchored, whatever its snapshots   *)
(* hold.                                                                   *)

LEMMA AppendAligned ==
  ASSUME NEW st \in Stream, NEW h \in Seq(Record), Aligned(st, h),
         NEW events \in Event, NEW pos \in DrawPos
  PROVE  LET next == AppendRecord(st, events, pos)
         IN /\ Aligned(next, Append(h, [events |-> events, entropy_pos |-> pos]))
            /\ Anchored(st) => Anchored(next)
<1> DEFINE rec == [events |-> events, entropy_pos |-> pos]
           g == Append(h, rec)
           next == AppendRecord(st, events, pos)
<1>1. PICK r \in Seq(Record), t \in Nat : r = st.records /\ t = st.truncated
  BY DEF Stream
<1>2. /\ Len(r) \in Nat /\ Len(h) \in Nat /\ Len(h) = t + Len(r)
      /\ \A i \in 1 .. Len(r) : r[i] = h[t + i]
  BY <1>1, LenProperties DEF Aligned, HeadSeq
<1>3. next.records = Append(r, rec) /\ next.truncated = t
      /\ next.snapshots = st.snapshots
  BY <1>1 DEF AppendRecord, Stream
<1>4. rec \in Record
  BY DEF Record
<1> HIDE DEF rec, next
<1>5. /\ Len(g) = Len(h) + 1
      /\ \A i \in 1 .. Len(h) : g[i] = h[i]
      /\ g[Len(h) + 1] = rec
  BY <1>4, AppendProperties
<1>6. /\ Len(Append(r, rec)) = Len(r) + 1
      /\ \A i \in 1 .. Len(r) : Append(r, rec)[i] = r[i]
      /\ Append(r, rec)[Len(r) + 1] = rec
  BY <1>4, AppendProperties
<1> HIDE DEF g
<1>7. HeadSeq(next) = Len(g) /\ HeadSeq(next) = HeadSeq(st) + 1
  <2>1. HeadSeq(st) = t + Len(r)
    BY <1>1 DEF HeadSeq
  <2>. QED BY <2>1, <1>2, <1>3, <1>5, <1>6 DEF HeadSeq
<1>8. ASSUME NEW i \in 1 .. Len(next.records)
      PROVE  next.records[i] = g[next.truncated + i]
  <2>1. i \in 1 .. Len(r) + 1
    BY <1>3, <1>6
  <2>2. CASE i = Len(r) + 1
    BY <2>2, <1>2, <1>3, <1>5, <1>6
  <2>3. CASE i # Len(r) + 1
    <3>1. i \in 1 .. Len(r) /\ t + i \in 1 .. Len(h)
      BY <2>1, <2>3, <1>2
    <3>. QED BY <3>1, <1>2, <1>3, <1>5, <1>6
  <2>. QED BY <2>2, <2>3
<1>9. Anchored(st) => Anchored(next)
  <2> SUFFICES ASSUME NEW snap \in Bases(st), st.truncated <= snap.at
               PROVE  snap \in Bases(next) /\ next.truncated <= snap.at
    BY DEF Anchored
  <2>1. snap.at \in Nat /\ snap.at <= HeadSeq(st) /\ HeadSeq(st) \in Nat
    BY HeadIsNatural DEF Bases, Stream, Snapshot
  <2>. QED BY <2>1, <1>1, <1>3, <1>7 DEF Bases
<1>. QED BY <1>7, <1>8, <1>9 DEF Aligned, g, rec, next

LEMMA PushAligned ==
  ASSUME NEW st \in Stream, NEW h, Aligned(st, h), NEW snap \in Snapshot
  PROVE  LET next == PushSnapshot(st, snap)
         IN Aligned(next, h) /\ (Anchored(st) => Anchored(next))
<1> DEFINE next == PushSnapshot(st, snap)
<1>1. /\ next.records = st.records /\ next.truncated = st.truncated
      /\ next.snapshots = st.snapshots \union {snap}
  BY DEF PushSnapshot, Stream
<1> HIDE DEF next
<1>2. HeadSeq(next) = HeadSeq(st)
  BY <1>1 DEF HeadSeq
<1>. QED BY <1>1, <1>2 DEF Aligned, Anchored, Bases, next

LEMMA TruncateAligned ==
  ASSUME NEW st \in Stream, NEW h \in Seq(Record), Aligned(st, h),
         NEW at \in Nat, TruncateOk(st, at)
  PROVE  Aligned(TruncateBefore(st, at), h) /\ Anchored(TruncateBefore(st, at))
<1> DEFINE next == TruncateBefore(st, at)
<1>1. PICK r \in Seq(Record), t \in Nat : r = st.records /\ t = st.truncated
  BY DEF Stream
<1>2. /\ Len(r) \in Nat /\ Len(h) \in Nat /\ Len(h) = t + Len(r)
      /\ \A i \in 1 .. Len(r) : r[i] = h[t + i]
      /\ t < at /\ at <= Len(h) + 1
  BY <1>1, LenProperties DEF Aligned, HeadSeq, TruncateOk
<1>3. /\ next.records = SubSeq(r, at - t, Len(r)) /\ next.truncated = at - 1
      /\ next.snapshots = {snap \in st.snapshots : snap.at >= at - 1}
  BY <1>1 DEF TruncateBefore
<1> HIDE DEF next
<1>4. PICK m \in Nat : m = at - t /\ m > 0 /\ m <= Len(r) + 1
  BY <1>2
<1>5. /\ Len(next.records) = Len(r) - m + 1
      /\ \A i \in 1 .. Len(r) - m + 1 : next.records[i] = r[m + i - 1]
  <2>1. next.records = SubSeq(r, m, Len(r))
    BY <1>3, <1>4
  <2>2. \A i \in m .. Len(r) : r[i] \in Record
    BY <1>2, <1>4, ElementOfSeq
  <2>3. /\ Len(SubSeq(r, m, Len(r))) = IF m <= Len(r) THEN Len(r) - m + 1 ELSE 0
        /\ \A i \in 1 .. Len(r) - m + 1 : SubSeq(r, m, Len(r))[i] = r[m + i - 1]
    BY <1>2, <2>2, SubSeqProperties
  <2>. QED BY <2>1, <2>3, <1>2, <1>4
<1>6. HeadSeq(next) = Len(h) /\ HeadSeq(next) = HeadSeq(st)
  BY <1>2, <1>3, <1>4, <1>5 DEF HeadSeq, Aligned
<1>7. ASSUME NEW i \in 1 .. Len(next.records)
      PROVE  next.records[i] = h[next.truncated + i]
  <2>1. m + i - 1 \in 1 .. Len(r) /\ t + (m + i - 1) = at - 1 + i
    BY <1>2, <1>4, <1>5
  <2>2. next.records[i] = r[m + i - 1] /\ r[m + i - 1] = h[t + (m + i - 1)]
    BY <2>1, <1>2, <1>5
  <2>. QED BY <2>1, <2>2, <1>3
<1>8. Anchored(next)
  <2>1. LatestSnapshot(st) \in Bases(st) /\ LatestSnapshot(st).at >= at - 1
    BY LatestIsNewest DEF TruncateOk
  <2>2. LatestSnapshot(st).at \in Nat /\ at - 1 \in Nat
    BY <2>1, <1>2, <1>1 DEF Bases, Stream, Snapshot
  <2>3. LatestSnapshot(st) \in Bases(next)
    BY <2>1, <1>3, <1>6 DEF Bases
  <2>. QED BY <2>1, <2>2, <2>3, <1>3 DEF Anchored
<1>. QED BY <1>6, <1>7, <1>8 DEF Aligned, next

\* A fork is anchored if its source keeps no snapshot older than the horizon.
LEMMA ForkAligned ==
  ASSUME NEW st \in Stream, NEW h \in Seq(Record), Aligned(st, h),
         NEW at \in Nat, ForkOk(st, at)
  PROVE  /\ Aligned(Fork(st, at), SubSeq(h, 1, at))
         /\ (\A snap \in st.snapshots : st.truncated <= snap.at)
              => Anchored(Fork(st, at))
<1> DEFINE next == Fork(st, at)
           g == SubSeq(h, 1, at)
<1>1. PICK r \in Seq(Record), t \in Nat : r = st.records /\ t = st.truncated
  BY DEF Stream
<1>2. /\ Len(r) \in Nat /\ Len(h) \in Nat /\ Len(h) = t + Len(r)
      /\ \A i \in 1 .. Len(r) : r[i] = h[t + i]
      /\ at <= Len(h) /\ t <= at
  BY <1>1, LenProperties DEF Aligned, HeadSeq, ForkOk, ForkPoint
<1>3. /\ next.records = SubSeq(r, 1, at - t) /\ next.truncated = t
      /\ next.snapshots = ForkBases(st, at) /\ ForkBases(st, at) # {}
  BY <1>1 DEF Fork, ForkOk
<1>4. Len(g) = at /\ \A i \in 1 .. at : g[i] = h[i]
  BY <1>2
<1> HIDE DEF next, g
<1>5. PICK m \in Nat : m = at - t /\ m <= Len(r)
  BY <1>2
<1>6. Len(next.records) = m /\ \A i \in 1 .. m : next.records[i] = r[i]
  BY <1>3, <1>5
<1>7. HeadSeq(next) = Len(g) /\ HeadSeq(next) = at
  BY <1>2, <1>3, <1>4, <1>5, <1>6 DEF HeadSeq
<1>8. ASSUME NEW i \in 1 .. Len(next.records)
      PROVE  next.records[i] = g[next.truncated + i]
  <2>1. i \in 1 .. Len(r) /\ t + i \in 1 .. at
    BY <1>2, <1>5, <1>6
  <2>. QED BY <2>1, <1>2, <1>3, <1>4, <1>5, <1>6
<1>9. ASSUME \A snap \in st.snapshots : st.truncated <= snap.at
      PROVE  Anchored(next)
  <2>1. PICK snap \in st.snapshots : snap \in next.snapshots /\ snap.at <= at
    BY <1>3 DEF ForkBases
  <2>. QED BY <2>1, <1>1, <1>3, <1>7, <1>9 DEF Anchored, Bases
<1>. QED BY <1>7, <1>8, <1>9 DEF Aligned, next, g

-----------------------------------------------------------------------------
(* The writes keep a stream faithful.                                      *)

LEMMA NewStreamFaithful == Faithful(NewStream, <<>>)
<1>1. /\ NewStream.records = <<>> /\ NewStream.truncated = 0
      /\ NewStream.snapshots = {Genesis} /\ Genesis.at = 0
  BY DEF NewStream, Genesis
<1>2. TrueSnapshot(<<>>, 0) = Genesis
  <2>1. [i \in 1 .. 0 |-> <<>>[i].events] = <<>>
    OBVIOUS
  <2>. QED BY <2>1 DEF TrueSnapshot, StateAt, PosAt, Genesis
<1>3. HeadSeq(NewStream) = 0
  BY <1>1 DEF HeadSeq
<1>. QED BY <1>1, <1>2, <1>3 DEF Faithful

\* Two histories with the same prefix say the same of it.
LEMMA SameTruth ==
  ASSUME NEW h, NEW g, NEW at \in Nat, \A i \in 1 .. at : g[i] = h[i]
  PROVE  TrueSnapshot(g, at) = TrueSnapshot(h, at)
BY DEF TrueSnapshot, StateAt, PosAt

\* A faithful stream whose next state is aligned to a history that agrees with
\* the old one up to every snapshot it keeps is faithful still.
LEMMA StillFaithful ==
  ASSUME NEW st \in Stream, NEW h \in Seq(Record), Faithful(st, h),
         NEW next \in Stream, NEW g, Aligned(next, g),
         next.snapshots \subseteq st.snapshots, next.snapshots # {},
         \A snap \in next.snapshots :
           /\ next.truncated <= snap.at /\ snap.at <= Len(g)
           /\ \A i \in 1 .. snap.at : g[i] = h[i]
  PROVE  Faithful(next, g)
<1>1. ASSUME NEW snap \in next.snapshots
      PROVE  snap = TrueSnapshot(g, snap.at)
  <2>1. snap.at \in Nat /\ snap = TrueSnapshot(h, snap.at)
    BY DEF Faithful, Stream, Snapshot
  <2>2. TrueSnapshot(g, snap.at) = TrueSnapshot(h, snap.at)
    BY <2>1, SameTruth
  <2>. QED BY <2>1, <2>2
<1>. QED BY <1>1 DEF Faithful, Aligned

LEMMA AppendFaithful ==
  ASSUME NEW st \in Stream, NEW h \in Seq(Record), Faithful(st, h),
         NEW events \in Event, NEW pos \in DrawPos
  PROVE  Faithful(AppendRecord(st, events, pos),
                  Append(h, [events |-> events, entropy_pos |-> pos]))
<1>1. PICK rec \in Record : rec = [events |-> events, entropy_pos |-> pos]
  BY DEF Record
<1>2. PICK next \in Stream : next = AppendRecord(st, events, pos)
  BY AppendRecordType
<1>3. PICK g \in Seq(Record) : g = Append(h, rec)
  BY AppendProperties
<1>4. Aligned(next, g)
  BY <1>1, <1>2, <1>3, FaithfulIsSound, AppendAligned
<1>5. /\ next.snapshots = st.snapshots /\ next.truncated = st.truncated
  BY <1>2 DEF AppendRecord, Stream
<1>6. /\ Len(h) \in Nat /\ Len(g) = Len(h) + 1
      /\ \A i \in 1 .. Len(h) : g[i] = h[i]
  BY <1>3, AppendProperties, LenProperties
<1>7. ASSUME NEW snap \in next.snapshots
      PROVE  /\ next.truncated <= snap.at /\ snap.at <= Len(g)
             /\ \A i \in 1 .. snap.at : g[i] = h[i]
  <2>1. snap.at \in Nat /\ st.truncated <= snap.at /\ snap.at <= Len(h)
    BY <1>5 DEF Faithful, Stream, Snapshot
  <2>. QED BY <2>1, <1>5, <1>6
<1>8. next.snapshots # {}
  BY <1>5 DEF Faithful
<1>9. next.snapshots \subseteq st.snapshots
  BY <1>5
<1>10. Faithful(next, g)
  BY <1>4, <1>7, <1>8, <1>9, StillFaithful
<1>. QED BY <1>1, <1>2, <1>3, <1>10

\* A snapshot must be on time for its stream to stay faithful.
LEMMA SnapshotFaithful ==
  ASSUME NEW st \in Stream, NEW h \in Seq(Record), Faithful(st, h),
         NEW at \in Nat, st.truncated <= at, at <= HeadSeq(st)
  PROVE  Faithful(PushSnapshot(st, TrueSnapshot(h, at)), h)
<1> DEFINE new == TrueSnapshot(h, at)
           next == PushSnapshot(st, new)
<1>1. /\ next.records = st.records /\ next.truncated = st.truncated
      /\ next.snapshots = st.snapshots \union {new}
  BY DEF PushSnapshot, Stream
<1>2. new.at = at
  BY DEF TrueSnapshot
<1> HIDE DEF new, next
<1>3. HeadSeq(next) = HeadSeq(st)
  BY <1>1 DEF HeadSeq
<1>4. new = TrueSnapshot(h, new.at)
  BY <1>2 DEF new
<1>. QED BY <1>1, <1>2, <1>3, <1>4 DEF Faithful, new, next

LEMMA TruncateFaithful ==
  ASSUME NEW st \in Stream, NEW h \in Seq(Record), Faithful(st, h),
         NEW at \in Nat, TruncateOk(st, at)
  PROVE  Faithful(TruncateBefore(st, at), h)
<1>1. PICK next \in Stream : next = TruncateBefore(st, at)
  BY TruncateBeforeType
<1>2. Aligned(next, h) /\ Anchored(next)
  BY <1>1, FaithfulIsSound, TruncateAligned
<1>3. /\ next.snapshots = {snap \in st.snapshots : snap.at >= at - 1}
      /\ next.truncated = at - 1
  BY <1>1 DEF TruncateBefore
<1>4. ASSUME NEW snap \in next.snapshots
      PROVE  next.truncated <= snap.at /\ snap.at <= Len(h)
  <2>1. snap.at \in Nat /\ snap.at <= Len(h) /\ snap.at >= at - 1
    BY <1>3 DEF Faithful, Stream, Snapshot
  <2>. QED BY <2>1, <1>3
<1>5. next.snapshots # {}
  BY <1>2 DEF Anchored, Bases
<1>. QED BY <1>1, <1>2, <1>3, <1>4, <1>5, StillFaithful

LEMMA ForkIsFaithful ==
  ASSUME NEW st \in Stream, NEW h \in Seq(Record), Faithful(st, h),
         NEW at \in Nat, ForkOk(st, at)
  PROVE  Faithful(Fork(st, at), SubSeq(h, 1, at))
<1>1. PICK next \in Stream : next = Fork(st, at)
  BY ForkType
<1>2. Aligned(next, SubSeq(h, 1, at))
  BY <1>1, FaithfulIsSound, ForkAligned
<1>3. /\ next.snapshots = ForkBases(st, at) /\ ForkBases(st, at) # {}
      /\ next.truncated = st.truncated
  BY <1>1 DEF Fork, ForkOk
<1>4. /\ Len(h) \in Nat /\ at <= Len(h)
  BY LenProperties DEF ForkOk, ForkPoint, Faithful
<1>5. PICK g : g = SubSeq(h, 1, at)
  OBVIOUS
<1>6. Len(g) = at /\ \A i \in 1 .. at : g[i] = h[i]
  BY <1>4, <1>5
<1>7. ASSUME NEW snap \in next.snapshots
      PROVE  /\ next.truncated <= snap.at /\ snap.at <= Len(g)
             /\ \A i \in 1 .. snap.at : g[i] = h[i]
  <2>1. snap.at \in Nat /\ st.truncated <= snap.at /\ snap.at <= at
    BY <1>3 DEF Faithful, Stream, Snapshot, ForkBases
  <2>. QED BY <2>1, <1>3, <1>6
<1>8. next.snapshots \subseteq st.snapshots
  BY <1>3 DEF ForkBases
<1>9. next.snapshots # {} /\ Aligned(next, g)
  BY <1>2, <1>3, <1>5
<1>10. Faithful(next, g)
  BY <1>7, <1>8, <1>9, StillFaithful
<1>. QED BY <1>1, <1>5, <1>10

-----------------------------------------------------------------------------
(* What a stream that is faithful to some history resumes to, and what the *)
(* writes make of that: all a user of one stream needs to know of it.      *)

\* Where an append lands.
LEMMA AppendHorizon ==
  ASSUME NEW st \in Stream, NEW events \in Event, NEW pos \in DrawPos
  PROVE  LET next == AppendRecord(st, events, pos)
         IN /\ next.truncated = st.truncated
            /\ RecordAt(next, HeadSeq(st) + 1).events = events
<1>1. PICK rec \in Record : rec = [events |-> events, entropy_pos |-> pos]
  BY DEF Record
<1>2. PICK r \in Seq(Record) : r = st.records
  BY DEF Stream
<1>3. PICK next \in Stream : next = AppendRecord(st, events, pos)
  BY AppendRecordType
<1>4. next.truncated = st.truncated /\ next.records = Append(r, rec)
  BY <1>1, <1>2, <1>3 DEF AppendRecord, Stream
<1>5. Append(r, rec)[Len(r) + 1] = rec
  BY AppendProperties
<1>6. (HeadSeq(st) + 1) - st.truncated = Len(r) + 1
  BY <1>2, HeadIsNatural DEF HeadSeq
<1>7. RecordAt(next, HeadSeq(st) + 1) = rec
  <2>1. (HeadSeq(st) + 1) - next.truncated = Len(r) + 1
    BY <1>4, <1>6
  <2>2. next.records[Len(r) + 1] = rec
    BY <1>4, <1>5
  <2>3. \A at : RecordAt(next, at) = next.records[at - next.truncated]
    BY DEF RecordAt
  <2>. QED BY <2>1, <2>2, <2>3
<1>8. rec.events = events
  BY <1>1
<1>. QED BY <1>3, <1>4, <1>7, <1>8

SoundStream(st) == st \in Stream /\ \E h \in Seq(Record) : Faithful(st, h)

LEMMA HistoryRebuilds ==
  ASSUME NEW st \in Stream, NEW h \in Seq(Record), Faithful(st, h)
  PROVE  /\ Resumable(st)
         /\ HeadSeq(st) = Len(h)
         /\ ResumedState(st) \in Seq(Event)
         /\ Len(ResumedState(st)) = Len(h)
         /\ \A i \in 1 .. Len(h) : ResumedState(st)[i] = h[i].events
         /\ ResumedPos(st) = PosAt(h, Len(h)) /\ ResumedPos(st) \in DrawPos
<1>1. Len(h) \in Nat /\ Len(h) \in 0 .. Len(h)
  BY LenProperties
<1>2. ResumedState(st) = StateAt(h, Len(h)) /\ ResumedPos(st) = PosAt(h, Len(h))
  BY FaithfulResumes
<1>3. /\ StateAt(h, Len(h)) \in Seq(Event) /\ Len(StateAt(h, Len(h))) = Len(h)
      /\ \A i \in 1 .. Len(h) : StateAt(h, Len(h))[i] = h[i].events
  BY <1>1, StateAtType
<1>4. PosAt(h, Len(h)) \in DrawPos
  BY <1>1, RecordsType, DrawPosAssumption DEF PosAt
<1>. QED BY <1>2, <1>3, <1>4, FaithfulResumes DEF Faithful

LEMMA SoundResumes ==
  ASSUME NEW st, SoundStream(st)
  PROVE  /\ Resumable(st)
         /\ HeadSeq(st) \in Nat
         /\ ResumedState(st) \in Seq(Event)
         /\ Len(ResumedState(st)) = HeadSeq(st)
         /\ ResumedPos(st) \in DrawPos
         /\ HeadSeq(st) = 0 => ResumedPos(st) = 0
<1>1. PICK h \in Seq(Record) : Faithful(st, h)
  BY DEF SoundStream
<1>. QED BY <1>1, HistoryRebuilds, HeadIsNatural DEF SoundStream, PosAt

LEMMA SoundNew ==
  /\ SoundStream(NewStream) /\ HeadSeq(NewStream) = 0
  /\ ResumedState(NewStream) = <<>> /\ ResumedPos(NewStream) = 0
<1>1. <<>> \in Seq(Record) /\ Len(<<>>) = 0
  OBVIOUS
<1>2. SoundStream(NewStream)
  BY <1>1, NewStreamType, NewStreamFaithful DEF SoundStream
<1>3. HeadSeq(NewStream) = 0
  BY DEF HeadSeq, NewStream
<1>4. \A s \in Seq(Event) : Len(s) = 0 => s = <<>>
  OBVIOUS
<1>. QED BY <1>2, <1>3, <1>4, SoundResumes

LEMMA SoundAppend ==
  ASSUME NEW st, SoundStream(st), NEW events \in Event, NEW pos \in DrawPos
  PROVE  LET next == AppendRecord(st, events, pos)
         IN /\ SoundStream(next)
            /\ HeadSeq(next) = HeadSeq(st) + 1
            /\ ResumedState(next) = Append(ResumedState(st), events)
            /\ ResumedPos(next) = pos
            /\ Retained(next, HeadSeq(st) + 1)
            /\ RecordAt(next, HeadSeq(st) + 1).events = events
<1>1. PICK h \in Seq(Record) : Faithful(st, h)
  BY DEF SoundStream
<1>2. PICK rec \in Record : rec = [events |-> events, entropy_pos |-> pos]
  BY DEF Record
<1>3. PICK next \in Stream : next = AppendRecord(st, events, pos)
  BY AppendRecordType DEF SoundStream
<1>4. PICK g \in Seq(Record) : g = Append(h, rec)
  BY AppendProperties
<1>5. Faithful(next, g)
  BY <1>1, <1>2, <1>3, <1>4, AppendFaithful DEF SoundStream
<1>6. /\ Len(h) \in Nat /\ Len(g) = Len(h) + 1 /\ g[Len(h) + 1] = rec
      /\ \A i \in 1 .. Len(h) : g[i] = h[i]
  BY <1>4, AppendProperties, LenProperties
<1>7. HeadSeq(st) = Len(h) /\ HeadSeq(next) = Len(h) + 1
  BY <1>1, <1>5, <1>6 DEF Faithful
<1>8. ResumedState(next) = Append(ResumedState(st), events)
  <2>1. PICK s \in Seq(Event) : s = ResumedState(st)
    BY <1>1, HistoryRebuilds DEF SoundStream
  <2>2. PICK t \in Seq(Event) : t = ResumedState(next)
    BY <1>5, HistoryRebuilds
  <2>3. Len(s) = Len(h) /\ \A i \in 1 .. Len(h) : s[i] = h[i].events
    BY <1>1, <2>1, HistoryRebuilds DEF SoundStream
  <2>4. Len(t) = Len(g) /\ \A i \in 1 .. Len(g) : t[i] = g[i].events
    BY <1>5, <2>2, HistoryRebuilds
  <2>5. t[Len(h) + 1] = events
    BY <1>2, <1>6, <2>4
  <2>6. \A i \in 1 .. Len(h) : t[i] = s[i]
    BY <1>6, <2>3, <2>4
  <2>7. PICK u \in Seq(Event) : u = Append(s, events)
    BY AppendProperties
  <2>8. /\ Len(u) = Len(h) + 1 /\ u[Len(h) + 1] = events
        /\ \A i \in 1 .. Len(h) : u[i] = s[i]
    BY <2>3, <2>7, AppendProperties
  <2>9. \A i \in 1 .. Len(t) : t[i] = u[i]
    BY <1>6, <2>4, <2>5, <2>6, <2>8
  <2>10. t = u
    BY <1>6, <2>4, <2>8, <2>9, SeqEqual
  <2>. QED BY <2>1, <2>2, <2>7, <2>10
<1>9. ResumedPos(next) = pos
  BY <1>2, <1>5, <1>6, HistoryRebuilds DEF PosAt
<1>10. Retained(next, HeadSeq(st) + 1)
  <2>1. next.truncated = st.truncated
    BY <1>3, AppendHorizon DEF SoundStream
  <2>2. st.truncated \in Nat /\ st.truncated <= HeadSeq(st) /\ HeadSeq(st) \in Nat
    BY HeadIsNatural DEF HeadSeq, SoundStream
  <2>. QED BY <1>6, <1>7, <2>1, <2>2 DEF Retained
<1>11. RecordAt(next, HeadSeq(st) + 1).events = events
  BY <1>3, AppendHorizon DEF SoundStream
<1>. QED BY <1>3, <1>5, <1>7, <1>8, <1>9, <1>10, <1>11 DEF SoundStream

LEMMA SoundSnapshot ==
  ASSUME NEW st, SoundStream(st)
  PROVE  LET next == PushSnapshot(st, [at          |-> HeadSeq(st),
                                       state       |-> ResumedState(st),
                                       entropy_pos |-> ResumedPos(st)])
         IN /\ SoundStream(next)
            /\ HeadSeq(next) = HeadSeq(st)
            /\ ResumedState(next) = ResumedState(st)
            /\ ResumedPos(next) = ResumedPos(st)
<1>1. PICK h \in Seq(Record) : Faithful(st, h)
  BY DEF SoundStream
<1>2. st \in Stream /\ HeadSeq(st) = Len(h) /\ Len(h) \in Nat /\ st.truncated <= HeadSeq(st)
  BY <1>1, HeadIsNatural, LenProperties DEF SoundStream, Faithful, HeadSeq
<1>3. [at |-> HeadSeq(st), state |-> ResumedState(st), entropy_pos |-> ResumedPos(st)]
        = TrueSnapshot(h, Len(h))
  BY <1>1, <1>2, FaithfulResumes DEF TrueSnapshot
<1>4. PICK snap \in Snapshot : snap = TrueSnapshot(h, Len(h))
  BY <1>2, TrueSnapshotType
<1>5. PICK next \in Stream : next = PushSnapshot(st, snap)
  BY <1>2, PushSnapshotType
<1>6. Faithful(next, h)
  BY <1>1, <1>2, <1>4, <1>5, SnapshotFaithful
<1>7. /\ HeadSeq(next) = HeadSeq(st)
      /\ ResumedState(next) = ResumedState(st)
      /\ ResumedPos(next) = ResumedPos(st)
  BY <1>1, <1>2, <1>6, FaithfulResumes DEF Faithful
<1>. QED BY <1>3, <1>4, <1>5, <1>6, <1>7 DEF SoundStream

LEMMA SoundTruncate ==
  ASSUME NEW st, SoundStream(st), NEW at \in Nat, TruncateOk(st, at)
  PROVE  LET next == TruncateBefore(st, at)
         IN /\ SoundStream(next)
            /\ HeadSeq(next) = HeadSeq(st)
            /\ ResumedState(next) = ResumedState(st)
            /\ ResumedPos(next) = ResumedPos(st)
<1>1. PICK h \in Seq(Record) : Faithful(st, h)
  BY DEF SoundStream
<1>2. st \in Stream
  BY DEF SoundStream
<1>3. PICK next \in Stream : next = TruncateBefore(st, at)
  BY <1>2, TruncateBeforeType
<1>4. Faithful(next, h)
  BY <1>1, <1>2, <1>3, TruncateFaithful
<1>5. /\ HeadSeq(next) = HeadSeq(st)
      /\ ResumedState(next) = ResumedState(st)
      /\ ResumedPos(next) = ResumedPos(st)
  BY <1>1, <1>2, <1>4, FaithfulResumes DEF Faithful
<1>. QED BY <1>3, <1>4, <1>5 DEF SoundStream
=============================================================================
