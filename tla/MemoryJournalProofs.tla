-------------------------- MODULE MemoryJournalProofs --------------------------
(***************************************************************************)
(* Whatever its callers do, the in-memory journal is type correct, every   *)
(* stream retains exactly the end of its history, and neither a position   *)
(* nor a read is ever another record's.  `resume` never fails, unless a    *)
(* snapshot that came too late is forked from.  And when callers are on    *)
(* time every stream stays faithful to its history: it implements the      *)
(* streams that keep everything; the way out an error names is open, and   *)
(* an answer is never taken back.                                          *)
(***************************************************************************)
EXTENDS MemoryJournal, JournalStreamProofs

\* Updating one stream of one journal leaves the others alone.
LEMMA UpdateOne ==
  ASSUME NEW V, NEW f \in [JournalId -> [StreamId -> V]],
         NEW j \in JournalId, NEW s \in StreamId, NEW v \in V
  PROVE  LET g == [f EXCEPT ![j][s] = v]
         IN /\ g \in [JournalId -> [StreamId -> V]]
            /\ \A k \in JournalId, t \in StreamId :
                 g[k][t] = IF k = j /\ t = s THEN v ELSE f[k][t]
OBVIOUS

\* Updating every stream of one journal leaves the other journals alone.
LEMMA UpdateAll ==
  ASSUME NEW V, NEW f \in [JournalId -> [StreamId -> V]],
         NEW j \in JournalId, NEW row \in [StreamId -> V]
  PROVE  LET g == [f EXCEPT ![j] = row]
         IN /\ g \in [JournalId -> [StreamId -> V]]
            /\ \A k \in JournalId : g[k] = IF k = j THEN row ELSE f[k]
OBVIOUS

-----------------------------------------------------------------------------
(* Type correctness, for any callers.                                      *)

\* What is retained is the end of the history, in every stream.
AlwaysAligned ==
  \A j \in JournalId, s \in StreamId : Aligned(journal[j][s], history[j][s])

TypeInv == TypeOK /\ AlwaysAligned

LEMMA InitType == Init => TypeInv
<1> SUFFICES ASSUME Init PROVE TypeInv
  OBVIOUS
<1>1. <<>> \in Seq(Record)
  OBVIOUS
<1>2. TypeOK
  BY <1>1, NewStreamType, MainAssumption DEF Init, TypeOK
<1>3. Aligned(NewStream, <<>>)
  BY NewStreamFaithful DEF Faithful, Aligned
<1>4. AlwaysAligned
  BY <1>3 DEF Init, AlwaysAligned
<1>. QED BY <1>2, <1>4 DEF TypeInv

LEMMA StreamType ==
  ASSUME TypeInv, NEW j \in JournalId, NEW s \in StreamId
  PROVE  /\ journal[j][s] \in Stream /\ history[j][s] \in Seq(Record)
         /\ Aligned(journal[j][s], history[j][s])
         /\ HeadSeq(journal[j][s]) = Len(history[j][s])
BY DEF TypeInv, TypeOK, AlwaysAligned, Aligned

\* What each action leaves in every stream of every journal.
LEMMA AppendInShape ==
  ASSUME TypeInv, NEW j \in opened, NEW s \in StreamId,
         NEW events \in Event, NEW pos \in DrawPos, AppendIn(j, s, events, pos)
  PROVE  /\ TypeOK'
         /\ \A k \in JournalId, t \in StreamId :
              /\ journal'[k][t] = IF k = j /\ t = s
                                  THEN AppendRecord(journal[j][s], events, pos)
                                  ELSE journal[k][t]
              /\ history'[k][t] =
                   IF k = j /\ t = s
                   THEN Append(history[j][s], [events |-> events, entropy_pos |-> pos])
                   ELSE history[k][t]
<1> DEFINE rec == [events |-> events, entropy_pos |-> pos]
           st == journal[j][s]
           h == history[j][s]
<1>1. j \in JournalId /\ st \in Stream /\ h \in Seq(Record)
  BY StreamType DEF TypeInv, TypeOK
<1>2. rec \in Record
  BY DEF Record
<1>3. Append(h, rec) \in Seq(Record)
  BY <1>1, <1>2, AppendProperties
<1>4. AppendRecord(st, events, pos) \in Stream
  BY <1>1, AppendRecordType
<1>5. /\ journal' = [journal EXCEPT ![j][s] = AppendRecord(st, events, pos)]
      /\ history' = [history EXCEPT ![j][s] = Append(h, rec)]
      /\ seen' = [seen EXCEPT ![j] = @ \union {s}] /\ opened' = opened
  BY DEF AppendIn
<1> HIDE DEF rec, st, h
<1>6. /\ journal' \in [JournalId -> [StreamId -> Stream]]
      /\ \A k \in JournalId, t \in StreamId :
           journal'[k][t] = IF k = j /\ t = s
                            THEN AppendRecord(st, events, pos) ELSE journal[k][t]
  BY <1>1, <1>4, <1>5, UpdateOne DEF TypeInv, TypeOK
<1>7. /\ history' \in [JournalId -> [StreamId -> Seq(Record)]]
      /\ \A k \in JournalId, t \in StreamId :
           history'[k][t] = IF k = j /\ t = s THEN Append(h, rec) ELSE history[k][t]
  BY <1>1, <1>3, <1>5, UpdateOne DEF TypeInv, TypeOK
<1>8. seen' \in [JournalId -> SUBSET StreamId] /\ opened' \subseteq JournalId
  BY <1>5 DEF TypeInv, TypeOK
<1>. QED BY <1>6, <1>7, <1>8 DEF TypeOK, st, h, rec

LEMMA PushInShape ==
  ASSUME TypeInv, NEW j \in opened, NEW s \in StreamId,
         NEW snap \in Snapshot, PushIn(j, s, snap)
  PROVE  /\ TypeOK' /\ history' = history
         /\ \A k \in JournalId, t \in StreamId :
              journal'[k][t] = IF k = j /\ t = s
                               THEN PushSnapshot(journal[j][s], snap)
                               ELSE journal[k][t]
<1>1. j \in JournalId /\ journal[j][s] \in Stream
  BY StreamType DEF TypeInv, TypeOK
<1>2. PushSnapshot(journal[j][s], snap) \in Stream
  BY <1>1, PushSnapshotType
<1>3. /\ journal' = [journal EXCEPT ![j][s] = PushSnapshot(journal[j][s], snap)]
      /\ seen' = [seen EXCEPT ![j] = @ \union {s}]
      /\ opened' = opened /\ history' = history
  BY DEF PushIn
<1>4. /\ journal' \in [JournalId -> [StreamId -> Stream]]
      /\ \A k \in JournalId, t \in StreamId :
           journal'[k][t] = IF k = j /\ t = s
                            THEN PushSnapshot(journal[j][s], snap)
                            ELSE journal[k][t]
  BY <1>1, <1>2, <1>3, UpdateOne DEF TypeInv, TypeOK
<1>. QED BY <1>3, <1>4 DEF TypeInv, TypeOK

LEMMA TruncateShape ==
  ASSUME TypeInv, NEW j \in opened, NEW s \in StreamId,
         NEW at \in Nat, Truncate(j, s, at)
  PROVE  /\ TypeOK' /\ history' = history
         /\ TruncateOk(journal[j][s], at)
         /\ \A k \in JournalId, t \in StreamId :
              journal'[k][t] = IF k = j /\ t = s
                               THEN TruncateBefore(journal[j][s], at)
                               ELSE journal[k][t]
<1>1. j \in JournalId /\ journal[j][s] \in Stream
  BY StreamType DEF TypeInv, TypeOK
<1>2. TruncateOk(journal[j][s], at)
  BY DEF Truncate
<1>3. TruncateBefore(journal[j][s], at) \in Stream
  BY <1>1, <1>2, TruncateBeforeType
<1>4. /\ journal' = [journal EXCEPT ![j][s] = TruncateBefore(journal[j][s], at)]
      /\ seen' = seen /\ opened' = opened /\ history' = history
  BY DEF Truncate
<1>5. /\ journal' \in [JournalId -> [StreamId -> Stream]]
      /\ \A k \in JournalId, t \in StreamId :
           journal'[k][t] = IF k = j /\ t = s
                            THEN TruncateBefore(journal[j][s], at)
                            ELSE journal[k][t]
  BY <1>1, <1>3, <1>4, UpdateOne DEF TypeInv, TypeOK
<1>. QED BY <1>2, <1>4, <1>5 DEF TypeInv, TypeOK

LEMMA ForkIntoShape ==
  ASSUME TypeInv, NEW j \in opened, NEW s \in StreamId,
         NEW at \in Nat, NEW b \in JournalId, ForkInto(j, s, at, b)
  PROVE  /\ TypeOK'
         /\ ForkOk(journal[j][s], at)
         /\ at <= Len(history[j][s])
         /\ SubSeq(history[j][s], 1, at) \in Seq(Record)
         /\ journal'[b][s] = Fork(journal[j][s], at)
         /\ history'[b][s] = SubSeq(history[j][s], 1, at)
         /\ \A t \in StreamId \ {s} :
              journal'[b][t] = NewStream /\ history'[b][t] = <<>>
         /\ \A k \in JournalId \ {b}, t \in StreamId :
              journal'[k][t] = journal[k][t] /\ history'[k][t] = history[k][t]
<1> DEFINE st == journal[j][s]
           h == history[j][s]
           row == [t \in StreamId |-> IF t = s THEN Fork(st, at) ELSE NewStream]
           past == [t \in StreamId |-> IF t = s THEN SubSeq(h, 1, at) ELSE <<>>]
<1>1. /\ j \in JournalId /\ st \in Stream /\ h \in Seq(Record)
      /\ HeadSeq(st) = Len(h)
  BY StreamType DEF TypeInv, TypeOK
<1>2. ForkOk(st, at)
  BY DEF ForkInto
<1>3. Fork(st, at) \in Stream
  BY <1>1, <1>2, ForkType
<1>4. at <= Len(h)
  BY <1>1, <1>2 DEF ForkOk, ForkPoint
<1>5. SubSeq(h, 1, at) \in Seq(Record)
  <2>1. Len(h) \in Nat
    BY <1>1, LenProperties
  <2> HIDE DEF h
  <2>. QED BY <1>1, <1>4, <2>1
<1>6. /\ journal' = [journal EXCEPT ![b] = row]
      /\ history' = [history EXCEPT ![b] = past]
      /\ seen' = [seen EXCEPT ![b] = {s} \intersect seen[j]]
      /\ opened' = opened \union {b}
  BY DEF ForkInto
<1> HIDE DEF st, h
<1>7. row \in [StreamId -> Stream]
  BY <1>3, NewStreamType
<1>8. past \in [StreamId -> Seq(Record)]
  BY <1>5
<1> HIDE DEF row, past
<1>9. /\ journal' \in [JournalId -> [StreamId -> Stream]]
      /\ \A k \in JournalId : journal'[k] = IF k = b THEN row ELSE journal[k]
  BY <1>6, <1>7, UpdateAll DEF TypeInv, TypeOK
<1>10. /\ history' \in [JournalId -> [StreamId -> Seq(Record)]]
       /\ \A k \in JournalId : history'[k] = IF k = b THEN past ELSE history[k]
  BY <1>6, <1>8, UpdateAll DEF TypeInv, TypeOK
<1>11. seen' \in [JournalId -> SUBSET StreamId] /\ opened' \subseteq JournalId
  BY <1>6 DEF TypeInv, TypeOK
<1>12. /\ journal'[b] = row /\ history'[b] = past
       /\ \A k \in JournalId \ {b} : journal'[k] = journal[k] /\ history'[k] = history[k]
  BY <1>9, <1>10
<1>13. /\ row[s] = Fork(st, at) /\ past[s] = SubSeq(h, 1, at)
       /\ \A t \in StreamId \ {s} : row[t] = NewStream /\ past[t] = <<>>
  BY DEF row, past
<1>14. TypeOK'
  BY <1>9, <1>10, <1>11 DEF TypeOK
<1>. QED BY <1>2, <1>4, <1>5, <1>12, <1>13, <1>14 DEF st, h

-----------------------------------------------------------------------------

\* A snapshot the environment hands over is a snapshot, on time or not.
LEMMA SnapshotInType ==
  ASSUME TypeInv, NEW j \in opened, NEW s \in StreamId,
         NEW at \in Nat, SnapshotIn(j, s, at)
  PROVE  TrueSnapshot(history[j][s], at) \in Snapshot
<1>1. at \in 0 .. Len(history[j][s]) /\ history[j][s] \in Seq(Record)
  BY StreamType, LenProperties DEF SnapshotIn, TypeInv, TypeOK
<1>. QED BY <1>1, TrueSnapshotType

LEMMA SnapshotPushed ==
  ASSUME TypeInv, NEW j \in opened, NEW s \in StreamId, NEW at \in 0 .. MaxHead,
         SnapshotIn(j, s, at) \/ SnapshotAhead(j, s, at)
  PROVE  \E snap \in Snapshot : snap.at = at /\ PushIn(j, s, snap)
<1>1. at \in Nat
  BY MaxHeadAssumption
<1>2. CASE SnapshotIn(j, s, at)
  <2>1. TrueSnapshot(history[j][s], at) \in Snapshot
    BY <1>1, <1>2, SnapshotInType
  <2>. QED BY <1>2, <2>1 DEF SnapshotIn, TrueSnapshot
<1>3. CASE SnapshotAhead(j, s, at)
  <2>1. [Genesis EXCEPT !.at = at] = [at |-> at, state |-> <<>>, entropy_pos |-> 0]
    BY DEF Genesis
  <2>2. [Genesis EXCEPT !.at = at] \in Snapshot
    <3>1. <<>> \in AggregateState
      BY DEF AggregateState
    <3>. QED BY <1>1, <2>1, <3>1, DrawPosAssumption DEF Snapshot
  <2>. QED BY <1>3, <2>1, <2>2 DEF SnapshotAhead
<1>. QED BY <1>2, <1>3

LEMMA NextType == TypeInv /\ [Next]_vars => TypeInv'
<1> SUFFICES ASSUME TypeInv, [Next]_vars PROVE TypeInv'
  OBVIOUS
<1>1. ASSUME NEW j \in opened, NEW s \in StreamId,
             NEW events \in Event, NEW pos \in DrawPos, AppendIn(j, s, events, pos)
      PROVE  TypeInv'
  <2>1. j \in JournalId
    BY DEF TypeInv, TypeOK
  <2>2. Aligned(AppendRecord(journal[j][s], events, pos),
                Append(history[j][s], [events |-> events, entropy_pos |-> pos]))
    BY <2>1, StreamType, AppendAligned
  <2>3. ASSUME NEW k \in JournalId, NEW t \in StreamId
        PROVE  Aligned(journal'[k][t], history'[k][t])
    <3>0. /\ journal'[k][t] = IF k = j /\ t = s
                              THEN AppendRecord(journal[j][s], events, pos)
                              ELSE journal[k][t]
          /\ history'[k][t] =
               IF k = j /\ t = s
               THEN Append(history[j][s], [events |-> events, entropy_pos |-> pos])
               ELSE history[k][t]
      BY <1>1, AppendInShape
    <3>1. CASE k = j /\ t = s
      BY <2>2, <3>0, <3>1
    <3>2. CASE ~ (k = j /\ t = s)
      BY <3>0, <3>2, StreamType
    <3>. QED BY <3>1, <3>2
  <2>4. TypeOK'
    BY <1>1, AppendInShape
  <2>. QED BY <2>3, <2>4 DEF TypeInv, AlwaysAligned
<1>2. ASSUME NEW j \in opened, NEW s \in StreamId,
             NEW snap \in Snapshot, PushIn(j, s, snap)
      PROVE  TypeInv'
  <2>1. Aligned(PushSnapshot(journal[j][s], snap), history[j][s])
    BY StreamType, PushAligned DEF TypeInv, TypeOK
  <2>. QED BY <1>2, <2>1, PushInShape DEF TypeInv, AlwaysAligned
<1>3. ASSUME NEW j \in opened, NEW s \in StreamId,
             NEW at \in Nat, Truncate(j, s, at)
      PROVE  TypeInv'
  <2>1. Aligned(TruncateBefore(journal[j][s], at), history[j][s])
    BY <1>3, StreamType, TruncateAligned, TruncateShape DEF TypeInv, TypeOK
  <2>. QED BY <1>3, <2>1, TruncateShape DEF TypeInv, AlwaysAligned
<1>4. ASSUME NEW j \in opened, NEW s \in StreamId,
             NEW at \in Nat, NEW b \in JournalId, ForkInto(j, s, at, b)
      PROVE  TypeInv'
  <2>1. Aligned(Fork(journal[j][s], at), SubSeq(history[j][s], 1, at))
    BY <1>4, StreamType, ForkAligned, ForkIntoShape DEF TypeInv, TypeOK
  <2>2. Aligned(NewStream, <<>>)
    BY NewStreamFaithful DEF Faithful, Aligned
  <2>3. ASSUME NEW k \in JournalId, NEW t \in StreamId
        PROVE  Aligned(journal'[k][t], history'[k][t])
    <3>1. CASE k = b /\ t = s
      <4>1. /\ journal'[b][s] = Fork(journal[j][s], at)
            /\ history'[b][s] = SubSeq(history[j][s], 1, at)
        BY <1>4, ForkIntoShape
      <4>. QED BY <2>1, <3>1, <4>1
    <3>2. CASE k = b /\ t # s
      <4>1. journal'[b][t] = NewStream /\ history'[b][t] = <<>>
        BY <1>4, <3>2, ForkIntoShape
      <4>. QED BY <2>2, <3>2, <4>1
    <3>3. CASE k # b
      <4>1. journal'[k][t] = journal[k][t] /\ history'[k][t] = history[k][t]
        BY <1>4, <3>3, ForkIntoShape
      <4>. QED BY <4>1, StreamType
    <3>. QED BY <3>1, <3>2, <3>3
  <2>4. TypeOK'
    BY <1>4, ForkIntoShape
  <2>. QED BY <2>3, <2>4 DEF TypeInv, AlwaysAligned
<1>5. CASE UNCHANGED vars
  BY <1>5 DEF vars, TypeInv, TypeOK, AlwaysAligned
<1>6. ASSUME NEW j \in opened, NEW s \in StreamId,
             NEW at \in 0 .. MaxHead, SnapshotIn(j, s, at) \/ SnapshotAhead(j, s, at)
      PROVE  TypeInv'
  BY <1>2, <1>6, SnapshotPushed
<1>7. 0 .. MaxHead \subseteq Nat /\ 0 .. MaxHead + 1 \subseteq Nat
  BY MaxHeadAssumption
<1>. QED BY <1>1, <1>3, <1>4, <1>5, <1>6, <1>7 DEF Next

\* Every reachable state of the journal is well typed: a truncation or a fork
\* never leaves a stream whose horizon and records do not fit together.
THEOREM TypeCorrect == Spec => []TypeOK
<1>1. TypeInv => TypeOK
  BY DEF TypeInv
<1>. QED BY <1>1, InitType, NextType, PTL DEF Spec

LEMMA AlwaysTypeInv == Spec => []TypeInv
BY InitType, NextType, PTL DEF Spec

LEMMA OpenedAligned ==
  ASSUME TypeInv, NEW j \in opened, NEW s \in StreamId
  PROVE  /\ j \in JournalId
         /\ journal[j][s] \in Stream /\ history[j][s] \in Seq(Record)
         /\ Len(history[j][s]) \in Nat
         /\ Aligned(journal[j][s], history[j][s])
         /\ HeadSeq(journal[j][s]) = Len(history[j][s])
BY StreamType, LenProperties DEF TypeInv, TypeOK

\* `entropy_pos` never answers with another record's position, and refuses
\* nothing that is retained, whatever was snapshotted.
THEOREM PositionsCorrect == Spec => []PositionNeverWrong
<1>1. TypeInv => PositionNeverWrong
  <2> SUFFICES ASSUME TypeInv, NEW j \in opened, NEW s \in StreamId,
                      NEW at \in 0 .. MaxHead, at <= Len(history[j][s])
               PROVE  /\ Trusted(j, s) /\ PosKnown(journal[j][s], at) =>
                           EntropyPos(journal[j][s], at) = PosAt(history[j][s], at)
                      /\ at >= RetainedFrom(journal[j][s]) =>
                           PosKnown(journal[j][s], at)
    BY DEF PositionNeverWrong
  <2>1. at \in 0 .. Len(history[j][s])
    BY OpenedAligned
  <2>2. ASSUME at >= RetainedFrom(journal[j][s])
        PROVE  PosKnown(journal[j][s], at)
    <3>1. journal[j][s].truncated \in Nat /\ HeadSeq(journal[j][s]) = Len(history[j][s])
      BY OpenedAligned DEF Stream
    <3>. QED BY <2>1, <2>2, <3>1 DEF RetainedFrom, PosKnown, Retained
  <2>3. Trusted(j, s) => Truthful(journal[j][s], history[j][s])
    BY DEF Trusted, Truthful
  <2>. QED BY <2>1, <2>2, <2>3, OpenedAligned, PositionIsTrue
<1>. QED BY <1>1, AlwaysTypeInv, PTL

\* `events_since` never skips a record without refusing, whatever was
\* snapshotted.
THEOREM ReadsCorrect == Spec => []ReadsHaveNoGap
<1>1. TypeInv => ReadsHaveNoGap
  <2>1. 0 .. MaxHead \subseteq Nat
    BY MaxHeadAssumption
  <2>. QED BY <2>1, OpenedAligned, ReadIsSuffix DEF ReadsHaveNoGap
<1>. QED BY <1>1, AlwaysTypeInv, PTL

-----------------------------------------------------------------------------
(* Resuming.                                                               *)

\* A snapshot older than the horizon arrives only late.
NoneTooOld(st) == \A snap \in st.snapshots : st.truncated <= snap.at

\* What every stream keeps for `resume`.
KeepsBase(st) == Anchored(st) /\ ("late" \notin Callers => NoneTooOld(st))

AlwaysKeepsBase ==
  /\ Main \in opened
  /\ \A j \in JournalId, s \in StreamId : KeepsBase(journal[j][s])

LEMMA NewStreamKeepsBase == KeepsBase(NewStream)
BY NewStreamFaithful, NewStreamType, FaithfulIsSound
   DEF KeepsBase, NoneTooOld, NewStream, Genesis, Faithful, Anchored, Bases, HeadSeq

LEMMA NextKeepsBase ==
  ASSUME "late" \notin Callers \/ JournalId = {Main},
         TypeInv, AlwaysKeepsBase, [Next]_vars
  PROVE  AlwaysKeepsBase'
<1>0. \A j \in JournalId, s \in StreamId :
        /\ journal[j][s] \in Stream /\ history[j][s] \in Seq(Record)
        /\ Aligned(journal[j][s], history[j][s]) /\ KeepsBase(journal[j][s])
        /\ journal[j][s].truncated \in Nat
        /\ HeadSeq(journal[j][s]) \in Nat
        /\ journal[j][s].truncated <= HeadSeq(journal[j][s])
  <2>1. \A j \in JournalId, s \in StreamId :
          /\ journal[j][s].truncated \in Nat
          /\ HeadSeq(journal[j][s]) \in Nat
          /\ journal[j][s].truncated <= HeadSeq(journal[j][s])
    BY StreamType, HeadIsNatural DEF HeadSeq
  <2>. QED BY <2>1, StreamType DEF AlwaysKeepsBase
<1>1. opened \subseteq JournalId /\ Main \in opened
  BY DEF TypeInv, TypeOK, AlwaysKeepsBase
<1>2. ASSUME NEW j \in opened, NEW s \in StreamId,
             NEW events \in Event, NEW pos \in DrawPos, AppendIn(j, s, events, pos)
      PROVE  AlwaysKeepsBase'
  <2>1. KeepsBase(AppendRecord(journal[j][s], events, pos))
    <3>1. /\ AppendRecord(journal[j][s], events, pos).snapshots = journal[j][s].snapshots
          /\ AppendRecord(journal[j][s], events, pos).truncated = journal[j][s].truncated
      BY <1>0, <1>1 DEF AppendRecord, Stream
    <3>. QED BY <1>0, <1>1, <3>1, AppendAligned DEF KeepsBase, NoneTooOld
  <2>2. opened' = opened
    BY <1>2 DEF AppendIn
  <2>4. ASSUME NEW k \in JournalId, NEW t \in StreamId
        PROVE  KeepsBase(journal'[k][t])
    <3>1. /\ journal'[k][t] = IF k = j /\ t = s
                              THEN AppendRecord(journal[j][s], events, pos)
                              ELSE journal[k][t]
          /\ history'[k][t] =
               IF k = j /\ t = s
               THEN Append(history[j][s], [events |-> events, entropy_pos |-> pos])
               ELSE history[k][t]
      BY <1>2, AppendInShape
    <3>. QED BY <1>0, <2>1, <3>1
  <2>. QED BY <1>1, <2>2, <2>4 DEF AlwaysKeepsBase
<1>3. ASSUME NEW j \in opened, NEW s \in StreamId, NEW at \in 0 .. MaxHead,
             SnapshotIn(j, s, at) \/ SnapshotAhead(j, s, at)
      PROVE  AlwaysKeepsBase'
  <2>1. PICK snap \in Snapshot : snap.at = at /\ PushIn(j, s, snap)
    BY <1>3, SnapshotPushed
  <2>2. "late" \notin Callers => journal[j][s].truncated <= snap.at
    BY <1>0, <1>1, <1>3, <2>1, MaxHeadAssumption DEF SnapshotIn, SnapshotAhead
  <2>3. KeepsBase(PushSnapshot(journal[j][s], snap))
    <3>1. /\ PushSnapshot(journal[j][s], snap).snapshots
               = journal[j][s].snapshots \union {snap}
          /\ PushSnapshot(journal[j][s], snap).truncated = journal[j][s].truncated
      BY <1>0, <1>1 DEF PushSnapshot, Stream
    <3>. QED BY <1>0, <1>1, <2>2, <3>1, PushAligned DEF KeepsBase, NoneTooOld
  <2>4. opened' = opened
    BY <2>1 DEF PushIn
  <2>. QED BY <1>0, <1>1, <2>1, <2>3, <2>4, PushInShape DEF AlwaysKeepsBase
<1>4. ASSUME NEW j \in opened, NEW s \in StreamId,
             NEW at \in Nat, Truncate(j, s, at)
      PROVE  AlwaysKeepsBase'
  <2>1. TruncateOk(journal[j][s], at)
    BY <1>4, TruncateShape
  <2>2. NoneTooOld(TruncateBefore(journal[j][s], at))
    <3>1. \A snap \in journal[j][s].snapshots : snap.at \in Nat
      BY <1>0, <1>1 DEF Stream, Snapshot
    <3>. QED BY <3>1 DEF NoneTooOld, TruncateBefore
  <2>3. KeepsBase(TruncateBefore(journal[j][s], at))
    BY <1>0, <1>1, <2>1, <2>2, TruncateAligned DEF KeepsBase
  <2>4. opened' = opened
    BY <1>4 DEF Truncate
  <2>. QED BY <1>0, <1>1, <1>4, <2>3, <2>4, TruncateShape DEF AlwaysKeepsBase
<1>5. ASSUME NEW j \in opened, NEW s \in StreamId,
             NEW at \in Nat, NEW b \in JournalId, ForkInto(j, s, at, b)
      PROVE  AlwaysKeepsBase'
  <2>1. b \notin opened /\ opened' = opened \union {b}
    BY <1>5 DEF ForkInto
  <2>2. "late" \notin Callers
    BY <1>1, <2>1
  <2>3. KeepsBase(Fork(journal[j][s], at))
    <3>1. NoneTooOld(journal[j][s])
      BY <1>0, <1>1, <2>2 DEF KeepsBase
    <3>2. ForkOk(journal[j][s], at)
      BY <1>5, ForkIntoShape
    <3>3. Anchored(Fork(journal[j][s], at))
      BY <1>0, <1>1, <3>1, <3>2, ForkAligned DEF NoneTooOld
    <3>4. NoneTooOld(Fork(journal[j][s], at))
      BY <3>1 DEF NoneTooOld, Fork, ForkBases
    <3>. QED BY <3>3, <3>4 DEF KeepsBase
  <2>4. ASSUME NEW k \in JournalId, NEW t \in StreamId
        PROVE  KeepsBase(journal'[k][t])
    <3>1. CASE k = b /\ t = s
      <4>1. journal'[b][s] = Fork(journal[j][s], at)
        BY <1>5, ForkIntoShape
      <4>. QED BY <2>3, <3>1, <4>1
    <3>2. CASE k = b /\ t # s
      <4>1. journal'[b][t] = NewStream
        BY <1>5, <3>2, ForkIntoShape
      <4>. QED BY <3>2, <4>1, NewStreamKeepsBase
    <3>3. CASE k # b
      <4>1. journal'[k][t] = journal[k][t]
        BY <1>5, <3>3, ForkIntoShape
      <4>. QED BY <4>1, <1>0
    <3>. QED BY <3>1, <3>2, <3>3
  <2>. QED BY <1>1, <2>1, <2>4 DEF AlwaysKeepsBase
<1>6. CASE UNCHANGED vars
  BY <1>6 DEF vars, AlwaysKeepsBase
<1>7. 0 .. MaxHead \subseteq Nat /\ 0 .. MaxHead + 1 \subseteq Nat
  BY MaxHeadAssumption
<1>. QED BY <1>2, <1>3, <1>4, <1>5, <1>6, <1>7 DEF Next

LEMMA AlwaysKeeps ==
  ASSUME "late" \notin Callers \/ JournalId = {Main}
  PROVE  Spec => []AlwaysKeepsBase
<1>1. Init => AlwaysKeepsBase
  BY NewStreamKeepsBase DEF Init, AlwaysKeepsBase
<1>2. TypeInv /\ AlwaysKeepsBase /\ [Next]_vars => AlwaysKeepsBase'
  BY NextKeepsBase
<1>. QED BY <1>1, <1>2, AlwaysTypeInv, PTL DEF Spec

\* `resume` never fails, and as long as no base lies it never lies: in journals
\* of any number of streams and any length, however early or late they were
\* snapshotted, whatever was truncated and forked, unless a snapshot that came
\* too late can be forked from.
THEOREM ResumeCorrect ==
  ASSUME "late" \notin Callers \/ JournalId = {Main}
  PROVE  Spec => []ResumeFaithful
<1>1. TypeInv /\ AlwaysKeepsBase => ResumeFaithful
  <2> SUFFICES ASSUME TypeInv, AlwaysKeepsBase, NEW j \in opened, NEW s \in StreamId
               PROVE  LET st == journal[j][s]
                          h == history[j][s]
                      IN /\ Resumable(st)
                         /\ Trusted(j, s) => /\ ResumedState(st) = StateAt(h, Len(h))
                                             /\ ResumedPos(st) = PosAt(h, Len(h))
    BY DEF ResumeFaithful
  <2>1. Anchored(journal[j][s])
    BY OpenedAligned DEF AlwaysKeepsBase, KeepsBase
  <2>2. Trusted(j, s) => Truthful(journal[j][s], history[j][s])
    BY DEF Trusted, Truthful
  <2>. QED BY <2>1, <2>2, OpenedAligned, ResumeIsGranted, ResumeIsTrue
<1>. QED BY <1>1, AlwaysKeeps, AlwaysTypeInv, PTL

-----------------------------------------------------------------------------
(* Faithfulness, for callers that take no liberties.                       *)

Inv == TypeInv /\ AlwaysFaithful

LEMMA InitFaithful == Init => Inv
BY InitType, NewStreamFaithful DEF Init, Inv, AlwaysFaithful

LEMMA NextFaithful ==
  ASSUME Callers = {}
  PROVE  Inv /\ [Next]_vars => Inv'
<1> SUFFICES ASSUME Inv, [Next]_vars PROVE AlwaysFaithful'
  BY NextType DEF Inv
<1>0. /\ TypeInv
      /\ \A j \in JournalId, s \in StreamId :
           /\ Faithful(journal[j][s], history[j][s])
           /\ journal[j][s] \in Stream /\ history[j][s] \in Seq(Record)
  BY StreamType DEF Inv, AlwaysFaithful
<1>1. ASSUME NEW j \in opened, NEW s \in StreamId,
             NEW events \in Event, NEW pos \in DrawPos, AppendIn(j, s, events, pos)
      PROVE  AlwaysFaithful'
  <2>1. j \in JournalId
    BY <1>0 DEF TypeInv, TypeOK
  <2>2. Faithful(AppendRecord(journal[j][s], events, pos),
                 Append(history[j][s], [events |-> events, entropy_pos |-> pos]))
    BY <1>0, <2>1, AppendFaithful
  <2>3. ASSUME NEW k \in JournalId, NEW t \in StreamId
        PROVE  Faithful(journal'[k][t], history'[k][t])
    <3>0. /\ journal'[k][t] = IF k = j /\ t = s
                              THEN AppendRecord(journal[j][s], events, pos)
                              ELSE journal[k][t]
          /\ history'[k][t] =
               IF k = j /\ t = s
               THEN Append(history[j][s], [events |-> events, entropy_pos |-> pos])
               ELSE history[k][t]
      BY <1>0, <1>1, AppendInShape
    <3>1. CASE k = j /\ t = s
      BY <2>2, <3>0, <3>1
    <3>2. CASE ~ (k = j /\ t = s)
      BY <1>0, <3>0, <3>2
    <3>. QED BY <3>1, <3>2
  <2>. QED BY <2>3 DEF AlwaysFaithful
<1>2. ASSUME NEW j \in opened, NEW s \in StreamId, NEW at \in Nat,
             SnapshotIn(j, s, at)
      PROVE  AlwaysFaithful'
  <2>1. j \in JournalId
    BY <1>0 DEF TypeInv, TypeOK
  <2>2. Faithful(PushSnapshot(journal[j][s], TrueSnapshot(history[j][s], at)),
                 history[j][s])
    <3>1. journal[j][s].truncated <= at /\ at <= HeadSeq(journal[j][s])
      <4>1. journal[j][s].truncated \in Nat
        BY <1>0, <2>1 DEF Stream
      <4>. QED BY <1>2, <4>1 DEF SnapshotIn
    <3>. QED BY <1>0, <2>1, <3>1, SnapshotFaithful
  <2>3. /\ TrueSnapshot(history[j][s], at) \in Snapshot
        /\ PushIn(j, s, TrueSnapshot(history[j][s], at))
    BY <1>0, <1>2, SnapshotInType DEF SnapshotIn
  <2>. QED BY <1>0, <2>2, <2>3, PushInShape DEF AlwaysFaithful
<1>3. ASSUME NEW j \in opened, NEW s \in StreamId,
             NEW at \in Nat, Truncate(j, s, at)
      PROVE  AlwaysFaithful'
  <2>1. j \in JournalId
    BY <1>0 DEF TypeInv, TypeOK
  <2>2. Faithful(TruncateBefore(journal[j][s], at), history[j][s])
    BY <1>0, <1>3, <2>1, TruncateShape, TruncateFaithful
  <2>. QED BY <1>0, <1>3, <2>2, TruncateShape DEF AlwaysFaithful
<1>4. ASSUME NEW j \in opened, NEW s \in StreamId,
             NEW at \in Nat, NEW b \in JournalId, ForkInto(j, s, at, b)
      PROVE  AlwaysFaithful'
  <2>1. j \in JournalId
    BY <1>0 DEF TypeInv, TypeOK
  <2>2. Faithful(Fork(journal[j][s], at), SubSeq(history[j][s], 1, at))
    BY <1>0, <1>4, <2>1, ForkIntoShape, ForkIsFaithful
  <2>3. ASSUME NEW k \in JournalId, NEW t \in StreamId
        PROVE  Faithful(journal'[k][t], history'[k][t])
    <3>1. CASE k = b /\ t = s
      <4>1. /\ journal'[b][s] = Fork(journal[j][s], at)
            /\ history'[b][s] = SubSeq(history[j][s], 1, at)
        BY <1>0, <1>4, ForkIntoShape
      <4>. QED BY <2>2, <3>1, <4>1
    <3>2. CASE k = b /\ t # s
      <4>1. journal'[b][t] = NewStream /\ history'[b][t] = <<>>
        BY <1>0, <1>4, <3>2, ForkIntoShape
      <4>. QED BY <3>2, <4>1, NewStreamFaithful
    <3>3. CASE k # b
      <4>1. journal'[k][t] = journal[k][t] /\ history'[k][t] = history[k][t]
        BY <1>0, <1>4, <3>3, ForkIntoShape
      <4>. QED BY <1>0, <4>1
    <3>. QED BY <3>1, <3>2, <3>3
  <2>. QED BY <2>3 DEF AlwaysFaithful
<1>5. CASE UNCHANGED vars
  BY <1>5 DEF vars, Inv, AlwaysFaithful
<1>6. 0 .. MaxHead \subseteq Nat /\ 0 .. MaxHead + 1 \subseteq Nat
  BY MaxHeadAssumption
<1>. QED BY <1>1, <1>2, <1>3, <1>4, <1>5, <1>6 DEF Next, SnapshotAhead

LEMMA AlwaysInv == ASSUME Callers = {} PROVE Spec => []Inv
BY InitFaithful, NextFaithful, PTL DEF Spec

\* What the invariant says of the streams that exist.
LEMMA OpenedFaithful ==
  ASSUME Inv, NEW j \in opened, NEW s \in StreamId
  PROVE  /\ j \in JournalId
         /\ journal[j][s] \in Stream /\ history[j][s] \in Seq(Record)
         /\ Len(history[j][s]) \in Nat
         /\ Faithful(journal[j][s], history[j][s])
BY StreamType, LenProperties DEF Inv, TypeInv, TypeOK, AlwaysFaithful

\* The inductive invariant itself: no operation lets a stream drift from its
\* history or keeps a snapshot a replay could not start from.
THEOREM StreamsStayFaithful ==
  ASSUME Callers = {} PROVE Spec => []AlwaysFaithful
<1>1. Inv => AlwaysFaithful
  BY DEF Inv
<1>. QED BY <1>1, AlwaysInv, PTL

\* A fork that is granted resumes as the prefix of its source.
THEOREM ForksCorrect ==
  ASSUME Callers = {} PROVE Spec => []ForkFaithful
<1>1. Inv => ForkFaithful
  <2> SUFFICES ASSUME Inv, NEW j \in opened, NEW s \in StreamId,
                      NEW at \in 0 .. MaxHead, ForkOk(journal[j][s], at)
               PROVE  LET branch == Fork(journal[j][s], at)
                      IN /\ HeadSeq(branch) = at
                         /\ Resumable(branch)
                         /\ ResumedState(branch) = StateAt(history[j][s], at)
                         /\ ResumedPos(branch) = PosAt(history[j][s], at)
    BY DEF ForkFaithful
  <2>1. PICK h \in Seq(Record) : h = history[j][s]
    BY OpenedFaithful
  <2>2. at \in Nat /\ at <= Len(h) /\ Len(h) \in Nat
    <3>1. HeadSeq(journal[j][s]) = Len(h)
      BY <2>1, OpenedFaithful DEF Faithful
    <3>. QED BY <2>1, <3>1, OpenedFaithful DEF ForkOk, ForkPoint
  <2>3. PICK g \in Seq(Record) : g = SubSeq(h, 1, at)
    <3>1. SubSeq(h, 1, at) \in Seq(Record)
      BY <2>2
    <3>. QED BY <3>1
  <2>4. Len(g) = at /\ \A i \in 1 .. at : g[i] = h[i]
    BY <2>2, <2>3
  <2>5. TrueSnapshot(g, at) = TrueSnapshot(h, at)
    BY <2>2, <2>4, SameTruth
  <2>6. StateAt(g, at) = StateAt(h, at) /\ PosAt(g, at) = PosAt(h, at)
    BY <2>5 DEF TrueSnapshot
  <2>7. PICK branch \in Stream : branch = Fork(journal[j][s], at)
    BY <2>2, OpenedFaithful, ForkType
  <2>8. Faithful(branch, g)
    BY <2>1, <2>2, <2>3, <2>7, OpenedFaithful, ForkIsFaithful
  <2>9. /\ Resumable(branch)
        /\ ResumedState(branch) = StateAt(g, Len(g))
        /\ ResumedPos(branch) = PosAt(g, Len(g))
    BY <2>8, FaithfulResumes
  <2>10. HeadSeq(branch) = at
    BY <2>4, <2>8 DEF Faithful
  <2>. QED BY <2>1, <2>4, <2>6, <2>7, <2>9, <2>10
<1>. QED BY <1>1, AlwaysInv, PTL

-----------------------------------------------------------------------------
(* Refinement: the journal implements DurableStreams.                      *)

LEMMA PastOfAppend ==
  ASSUME NEW h \in Seq(Record), NEW rec \in Record
  PROVE  LET g == Append(h, rec)
         IN /\ StateAt(g, Len(g)) = Append(StateAt(h, Len(h)), rec.events)
            /\ PosAt(g, Len(g)) = rec.entropy_pos
<1>1. PICK g \in Seq(Record) : g = Append(h, rec)
  BY AppendProperties
<1>2. /\ Len(h) \in Nat /\ Len(g) = Len(h) + 1 /\ g[Len(h) + 1] = rec
      /\ \A i \in 1 .. Len(h) : g[i] = h[i]
  BY <1>1, LenProperties, AppendProperties
<1>5. PICK before \in Seq(Event) :
        /\ before = StateAt(h, Len(h)) /\ Len(before) = Len(h)
        /\ \A i \in 1 .. Len(h) : before[i] = h[i].events
  <2>1. Len(h) \in 0 .. Len(h)
    BY <1>2
  <2>. QED BY <2>1, StateAtType
<1>6. PICK after \in Seq(Event) :
        /\ after = StateAt(g, Len(g)) /\ Len(after) = Len(g)
        /\ \A i \in 1 .. Len(g) : after[i] = g[i].events
  <2>1. Len(g) \in 0 .. Len(g)
    BY <1>2
  <2>. QED BY <2>1, StateAtType
<1>7. rec.events \in Event
  BY DEF Record
<1>8. /\ Append(before, rec.events) \in Seq(Event)
      /\ Len(Append(before, rec.events)) = Len(before) + 1
      /\ \A i \in 1 .. Len(before) : Append(before, rec.events)[i] = before[i]
      /\ Append(before, rec.events)[Len(before) + 1] = rec.events
  BY <1>7, AppendProperties
<1>9. ASSUME NEW i \in 1 .. Len(g)
      PROVE  after[i] = Append(before, rec.events)[i]
  <2>1. CASE i = Len(h) + 1
    BY <2>1, <1>2, <1>5, <1>6, <1>8
  <2>2. CASE i # Len(h) + 1
    <3>1. i \in 1 .. Len(h)
      BY <2>2, <1>2
    <3>. QED BY <3>1, <1>2, <1>5, <1>6, <1>8
  <2>. QED BY <2>1, <2>2
<1>10. after = Append(before, rec.events)
  BY <1>2, <1>5, <1>6, <1>8, <1>9, SeqEqual
<1>11. PosAt(g, Len(g)) = rec.entropy_pos
  BY <1>2 DEF PosAt
<1>. QED BY <1>1, <1>5, <1>6, <1>10, <1>11

LEMMA PastOfPrefix ==
  ASSUME NEW h \in Seq(Record), NEW at \in 0 .. Len(h)
  PROVE  LET g == SubSeq(h, 1, at)
         IN /\ StateAt(g, Len(g)) = SubSeq(StateAt(h, Len(h)), 1, at)
            /\ PosAt(g, Len(g)) = PosAt(h, at)
            /\ at <= Len(StateAt(h, Len(h)))
            /\ PosAt(h, at) \in DrawPos
<1>1. Len(h) \in Nat /\ at \in Nat
  BY LenProperties
<1>2. PICK g \in Seq(Record) : g = SubSeq(h, 1, at)
  <2>1. SubSeq(h, 1, at) \in Seq(Record)
    BY <1>1
  <2>. QED BY <2>1
<1>3. Len(g) = at /\ \A i \in 1 .. at : g[i] = h[i]
  BY <1>1, <1>2
<1>5. PICK before \in Seq(Event) :
        /\ before = StateAt(h, Len(h)) /\ Len(before) = Len(h)
        /\ \A i \in 1 .. Len(h) : before[i] = h[i].events
  <2>1. Len(h) \in 0 .. Len(h)
    BY <1>1
  <2>. QED BY <2>1, StateAtType
<1>6. PICK after \in Seq(Event) :
        /\ after = StateAt(g, Len(g)) /\ Len(after) = at
        /\ \A i \in 1 .. at : after[i] = h[i].events
  <2>1. at \in 0 .. Len(g)
    BY <1>1, <1>3
  <2>. QED BY <1>3, <2>1, StateAtType
<1>7. PICK cut \in Seq(Event) :
        /\ cut = SubSeq(before, 1, at) /\ Len(cut) = at
        /\ \A i \in 1 .. at : cut[i] = before[i]
  <2>1. /\ SubSeq(before, 1, at) \in Seq(Event)
        /\ Len(SubSeq(before, 1, at)) = at
        /\ \A i \in 1 .. at : SubSeq(before, 1, at)[i] = before[i]
    BY <1>1, <1>5
  <2>. QED BY <2>1
<1>8. after = cut
  <2>1. \A i \in 1 .. at : after[i] = cut[i]
    BY <1>1, <1>5, <1>6, <1>7
  <2>. QED BY <1>6, <1>7, <2>1, SeqEqual
<1>9. PosAt(g, at) = PosAt(h, at)
  BY <1>1, <1>3 DEF PosAt
<1>10. PosAt(h, at) \in DrawPos
  BY <1>1, RecordsType, DrawPosAssumption DEF PosAt
<1>. QED BY <1>2, <1>3, <1>5, <1>6, <1>7, <1>8, <1>9, <1>10

\* The refinement mapping, in terms of the histories.
LEMMA MappingIsPast ==
  Inv => \A j \in JournalId, s \in StreamId :
           /\ ResumedState(journal[j][s]) = StateAt(history[j][s], Len(history[j][s]))
           /\ ResumedPos(journal[j][s]) = PosAt(history[j][s], Len(history[j][s]))
BY StreamType, FaithfulResumes DEF Inv, AlwaysFaithful

LEMMA TableUpdateOne ==
  ASSUME NEW f, NEW g,
         f = [k \in JournalId |-> [t \in StreamId |-> f[k][t]]],
         g = [k \in JournalId |-> [t \in StreamId |-> g[k][t]]],
         NEW j \in JournalId, NEW s \in StreamId, NEW v,
         \A k \in JournalId, t \in StreamId :
           g[k][t] = IF k = j /\ t = s THEN v ELSE f[k][t]
  PROVE  g = [f EXCEPT ![j][s] = v]
OBVIOUS

LEMMA TableUpdateAll ==
  ASSUME NEW f, NEW g,
         f = [k \in JournalId |-> [t \in StreamId |-> f[k][t]]],
         g = [k \in JournalId |-> [t \in StreamId |-> g[k][t]]],
         NEW b \in JournalId, NEW row, row = [t \in StreamId |-> row[t]],
         \A k \in JournalId, t \in StreamId :
           g[k][t] = IF k = b THEN row[t] ELSE f[k][t]
  PROVE  g = [f EXCEPT ![b] = row]
OBVIOUS

StatesTold ==
  \A j \in JournalId, s \in StreamId :
    /\ States[j][s] = StateAt(history[j][s], Len(history[j][s]))
    /\ Positions[j][s] = PosAt(history[j][s], Len(history[j][s]))

LEMMA StatesArePasts == Inv => StatesTold
BY MappingIsPast DEF States, Positions, StatesTold

LEMMA StatesArePastsNext == Inv' => StatesTold'
BY StatesArePasts, PTL

LEMMA Tables ==
  /\ States = [j \in JournalId |-> [s \in StreamId |-> States[j][s]]]
  /\ Positions = [j \in JournalId |-> [s \in StreamId |-> Positions[j][s]]]
  /\ States' = [j \in JournalId |-> [s \in StreamId |-> States'[j][s]]]
  /\ Positions' = [j \in JournalId |-> [s \in StreamId |-> Positions'[j][s]]]
BY DEF States, Positions

\* A step that writes no history changes nothing abstract.
LEMMA SilentStep ==
  ASSUME Inv, Inv', history' = history
  PROVE  States' = States /\ Positions' = Positions
<1>1. \A j \in JournalId, s \in StreamId :
        States'[j][s] = States[j][s] /\ Positions'[j][s] = Positions[j][s]
  BY StatesArePasts, StatesArePastsNext DEF StatesTold
<1>. QED BY <1>1, Tables

LEMMA AppendStep ==
  ASSUME Inv, Inv', NEW j \in opened, NEW s \in StreamId,
         NEW events \in Event, NEW pos \in DrawPos, AppendIn(j, s, events, pos)
  PROVE  /\ States' = [States EXCEPT ![j][s] = Append(@, events)]
         /\ Positions' = [Positions EXCEPT ![j][s] = pos]
<1> DEFINE rec == [events |-> events, entropy_pos |-> pos]
<1>1. j \in JournalId /\ TypeInv /\ rec \in Record /\ history[j][s] \in Seq(Record)
  BY OpenedFaithful DEF Inv, Record
<1>2. \A k \in JournalId, t \in StreamId :
        /\ States'[k][t] = StateAt(history'[k][t], Len(history'[k][t]))
        /\ Positions'[k][t] = PosAt(history'[k][t], Len(history'[k][t]))
  BY StatesArePastsNext DEF StatesTold
<1>3. \A k \in JournalId, t \in StreamId :
        history'[k][t] = IF k = j /\ t = s THEN Append(history[j][s], rec)
                                           ELSE history[k][t]
  BY <1>1, AppendInShape
<1>4. LET g == Append(history[j][s], rec)
      IN /\ StateAt(g, Len(g)) = Append(States[j][s], events)
         /\ PosAt(g, Len(g)) = pos
  <2>1. rec.events = events /\ rec.entropy_pos = pos
    OBVIOUS
  <2> HIDE DEF rec
  <2>2. States[j][s] = StateAt(history[j][s], Len(history[j][s]))
    BY <1>1, StatesArePasts DEF StatesTold
  <2>. QED BY <1>1, <2>1, <2>2, PastOfAppend
<1> HIDE DEF rec
<1>5. \A k \in JournalId, t \in StreamId :
        /\ States'[k][t] = IF k = j /\ t = s THEN Append(States[j][s], events)
                                             ELSE States[k][t]
        /\ Positions'[k][t] = IF k = j /\ t = s THEN pos ELSE Positions[k][t]
  <2> SUFFICES ASSUME NEW k \in JournalId, NEW t \in StreamId
               PROVE  /\ States'[k][t] = IF k = j /\ t = s
                                         THEN Append(States[j][s], events)
                                         ELSE States[k][t]
                      /\ Positions'[k][t] = IF k = j /\ t = s
                                            THEN pos ELSE Positions[k][t]
    OBVIOUS
  <2>1. CASE k = j /\ t = s
    <3>1. history'[k][t] = Append(history[j][s], rec)
      BY <1>3, <2>1
    <3>. QED BY <1>2, <1>4, <2>1, <3>1
  <2>2. CASE ~ (k = j /\ t = s)
    <3>1. history'[k][t] = history[k][t]
      BY <1>3, <2>2
    <3>. QED BY <1>2, <2>2, <3>1, StatesArePasts DEF StatesTold
  <2>. QED BY <2>1, <2>2
<1>7. States' = [States EXCEPT ![j][s] = Append(States[j][s], events)]
  <2>1. PICK v : v = Append(States[j][s], events)
    OBVIOUS
  <2>2. PICK f, g : f = States /\ g = States'
    OBVIOUS
  <2>3. \A k \in JournalId, t \in StreamId :
          g[k][t] = IF k = j /\ t = s THEN v ELSE f[k][t]
    BY <1>5, <2>1, <2>2
  <2>4. g = [f EXCEPT ![j][s] = v]
    BY <1>1, <2>2, <2>3, Tables, TableUpdateOne
  <2>. QED BY <2>1, <2>2, <2>4
<1>8. Positions' = [Positions EXCEPT ![j][s] = pos]
  BY <1>1, <1>5, Tables, TableUpdateOne
<1>. QED BY <1>7, <1>8

LEMMA ForkStep ==
  ASSUME Inv, Inv', NEW j \in opened, NEW s \in StreamId,
         NEW at \in Nat, NEW b \in JournalId, ForkInto(j, s, at, b)
  PROVE  \E p \in DrawPos :
           /\ at <= Len(States[j][s])
           /\ at = Len(States[j][s]) => p = Positions[j][s]
           /\ at = 0 => p = 0
           /\ States' = [States EXCEPT ![b] =
                [t \in StreamId |-> IF t = s THEN SubSeq(States[j][s], 1, at)
                                             ELSE <<>>]]
           /\ Positions' = [Positions EXCEPT ![b] =
                [t \in StreamId |-> IF t = s THEN p ELSE 0]]
<1>1. /\ j \in JournalId /\ TypeInv /\ history[j][s] \in Seq(Record)
      /\ Len(history[j][s]) \in Nat
  BY OpenedFaithful DEF Inv
<1>2. \A k \in JournalId, t \in StreamId :
        /\ States'[k][t] = StateAt(history'[k][t], Len(history'[k][t]))
        /\ Positions'[k][t] = PosAt(history'[k][t], Len(history'[k][t]))
  BY StatesArePastsNext DEF StatesTold
<1>3. /\ history'[b][s] = SubSeq(history[j][s], 1, at)
      /\ \A t \in StreamId \ {s} : history'[b][t] = <<>>
      /\ \A k \in JournalId \ {b}, t \in StreamId : history'[k][t] = history[k][t]
  BY <1>1, ForkIntoShape
<1>4. at \in 0 .. Len(history[j][s])
  BY <1>1, ForkIntoShape
<1>5. PICK p \in DrawPos : p = PosAt(history[j][s], at)
  BY <1>1, <1>4, PastOfPrefix
<1>6. LET g == SubSeq(history[j][s], 1, at)
      IN /\ StateAt(g, Len(g)) = SubSeq(States[j][s], 1, at)
         /\ PosAt(g, Len(g)) = p
         /\ at <= Len(States[j][s])
  <2>1. States[j][s] = StateAt(history[j][s], Len(history[j][s]))
    BY <1>1, StatesArePasts DEF StatesTold
  <2>. QED BY <1>1, <1>4, <1>5, <2>1, PastOfPrefix
<1>7. Len(States[j][s]) = Len(history[j][s])
  <2>1. Len(history[j][s]) \in 0 .. Len(history[j][s])
    BY <1>1
  <2>. QED BY <1>1, <2>1, StatesArePasts, StateAtType DEF StatesTold
<1>8. at = Len(States[j][s]) => p = Positions[j][s]
  BY <1>1, <1>5, <1>7, StatesArePasts DEF StatesTold
<1>9. at = 0 => p = 0
  BY <1>5 DEF PosAt
<1>10. StateAt(<<>>, Len(<<>>)) = <<>> /\ PosAt(<<>>, Len(<<>>)) = 0
  <2>1. TrueSnapshot(<<>>, 0) = Genesis
    BY NewStreamFaithful DEF Faithful, NewStream, Genesis
  <2>. QED BY <2>1 DEF TrueSnapshot, Genesis
<1> DEFINE newStates == [t \in StreamId |->
                           IF t = s THEN SubSeq(States[j][s], 1, at) ELSE <<>>]
           newPositions == [t \in StreamId |-> IF t = s THEN p ELSE 0]
<1>11. \A k \in JournalId, t \in StreamId :
         /\ States'[k][t] = IF k = b THEN newStates[t] ELSE States[k][t]
         /\ Positions'[k][t] = IF k = b THEN newPositions[t] ELSE Positions[k][t]
  <2> SUFFICES ASSUME NEW k \in JournalId, NEW t \in StreamId
               PROVE  /\ States'[k][t] = IF k = b THEN newStates[t] ELSE States[k][t]
                      /\ Positions'[k][t] =
                           IF k = b THEN newPositions[t] ELSE Positions[k][t]
    OBVIOUS
  <2>0. /\ newStates[t] = IF t = s THEN SubSeq(States[j][s], 1, at) ELSE <<>>
        /\ newPositions[t] = IF t = s THEN p ELSE 0
    OBVIOUS
  <2> HIDE DEF newStates, newPositions
  <2>1. CASE k = b /\ t = s
    <3>1. history'[k][t] = SubSeq(history[j][s], 1, at)
      BY <1>3, <2>1
    <3>. QED BY <1>2, <1>6, <2>0, <2>1, <3>1
  <2>2. CASE k = b /\ t # s
    <3>1. history'[k][t] = <<>>
      BY <1>3, <2>2
    <3>. QED BY <1>2, <1>10, <2>0, <2>2, <3>1
  <2>3. CASE k # b
    <3>1. history'[k][t] = history[k][t]
      BY <1>3, <2>3
    <3>. QED BY <1>2, <2>3, <3>1, StatesArePasts DEF StatesTold
  <2>. QED BY <2>1, <2>2, <2>3
<1>12. /\ newStates = [t \in StreamId |-> newStates[t]]
       /\ newPositions = [t \in StreamId |-> newPositions[t]]
  OBVIOUS
<1>14. States' = [States EXCEPT ![b] = newStates]
  <2> HIDE DEF newStates, newPositions
  <2>. QED BY <1>11, <1>12, Tables, TableUpdateAll
<1>15. Positions' = [Positions EXCEPT ![b] = newPositions]
  <2> HIDE DEF newStates, newPositions
  <2>. QED BY <1>11, <1>12, Tables, TableUpdateAll
<1>. QED BY <1>6, <1>8, <1>9, <1>14, <1>15

LEMMA InitImplements == Init => Durable!Init
<1> SUFFICES ASSUME Init PROVE Durable!Init
  OBVIOUS
<1>1. Inv
  BY InitFaithful
<1>2. StateAt(<<>>, Len(<<>>)) = <<>> /\ PosAt(<<>>, Len(<<>>)) = 0
  <2>1. TrueSnapshot(<<>>, 0) = Genesis
    BY NewStreamFaithful DEF Faithful, NewStream, Genesis
  <2>. QED BY <2>1 DEF TrueSnapshot, Genesis
<1>3. \A j \in JournalId, s \in StreamId :
        ResumedState(journal[j][s]) = <<>> /\ ResumedPos(journal[j][s]) = 0
  BY <1>1, <1>2, MappingIsPast DEF Init
<1>. QED BY <1>3 DEF Durable!Init, Init, States, Positions

LEMMA NextImplements ==
  ASSUME Callers = {}, Inv, Inv', [Next]_vars
  PROVE  [Durable!Next]_(Durable!abstractVars)
<1>1. ASSUME NEW j \in opened, NEW s \in StreamId,
             NEW events \in Event, NEW pos \in DrawPos, AppendIn(j, s, events, pos)
      PROVE  Durable!Next
  <2>1. Durable!Evolve(j, s, events, pos)
    <3>1. /\ States' = [States EXCEPT ![j][s] = Append(@, events)]
          /\ Positions' = [Positions EXCEPT ![j][s] = pos]
      BY <1>1, AppendStep
    <3>2. UNCHANGED opened
      BY <1>1 DEF AppendIn
    <3>. QED BY <3>1, <3>2, Zenon DEF Durable!Evolve
  <2>. QED BY <2>1 DEF Durable!Next
<1>2. ASSUME NEW j \in opened, NEW s \in StreamId,
             NEW at \in 0 .. MaxHead, NEW b \in JournalId, ForkInto(j, s, at, b)
      PROVE  Durable!Next
  <2>0. at \in Nat /\ j \in JournalId
    BY MaxHeadAssumption, OpenedFaithful
  <2>1. PICK p \in DrawPos : Durable!Branch(j, s, at, p, b)
    <3>1. PICK p \in DrawPos :
            /\ at <= Len(States[j][s])
            /\ at = Len(States[j][s]) => p = Positions[j][s]
            /\ at = 0 => p = 0
            /\ States' = [States EXCEPT ![b] =
                 [t \in StreamId |-> IF t = s THEN SubSeq(States[j][s], 1, at)
                                              ELSE <<>>]]
            /\ Positions' = [Positions EXCEPT ![b] =
                 [t \in StreamId |-> IF t = s THEN p ELSE 0]]
      BY <1>2, <2>0, ForkStep
    <3>2. b \notin opened /\ opened' = opened \union {b}
      BY <1>2 DEF ForkInto
    <3>3. Durable!Branch(j, s, at, p, b)
      BY <3>1, <3>2, Zenon DEF Durable!Branch
    <3>. QED BY <3>3
  <2>2. at \in 0 .. Len(States[j][s])
    <3>1. PICK n \in Nat : n = Len(history[j][s])
      BY OpenedFaithful
    <3>2. n \in 0 .. Len(history[j][s])
      BY <3>1
    <3>3. Len(States[j][s]) = n
      BY <2>0, <3>1, <3>2, StatesArePasts, OpenedFaithful, StateAtType DEF StatesTold
    <3>4. at <= n
      BY <1>2, <2>0, <3>1, ForkIntoShape DEF Inv
    <3>. QED BY <2>0, <3>3, <3>4
  <2>. QED BY <2>0, <2>1, <2>2 DEF Durable!Next
<1>3. ASSUME history' = history, opened' = opened
      PROVE  UNCHANGED Durable!abstractVars
  BY <1>3, SilentStep DEF Durable!abstractVars
<1>4. CASE UNCHANGED vars
  BY <1>3, <1>4 DEF vars
<1>5. ASSUME NEW j \in opened, NEW s \in StreamId, NEW at, SnapshotIn(j, s, at)
      PROVE  UNCHANGED Durable!abstractVars
  BY <1>3, <1>5 DEF SnapshotIn, PushIn
<1>6. ASSUME NEW j \in opened, NEW s \in StreamId, NEW at, Truncate(j, s, at)
      PROVE  UNCHANGED Durable!abstractVars
  BY <1>3, <1>6 DEF Truncate
<1>. QED BY <1>1, <1>2, <1>4, <1>5, <1>6 DEF Next, SnapshotAhead

\* Retention is invisible: to a reader that resumes, a journal that appends,
\* snapshots, truncates and forks is one that keeps everything.
THEOREM RetentionIsInvisible ==
  ASSUME Callers = {} PROVE Spec => ImplementsDurableStreams
<1>1. Inv /\ Inv' /\ [Next]_vars => [Durable!Next]_(Durable!abstractVars)
  BY NextImplements
<1>. QED BY <1>1, InitImplements, AlwaysInv, PTL
         DEF Spec, ImplementsDurableStreams, Durable!Spec
-----------------------------------------------------------------------------
(* The advice of a refusal.                                                *)

\* A fork refused for want of a base is granted at the newest base and above.
LEMMA ForkAdvice ==
  ASSUME NEW st \in Stream, Anchored(st), NEW at \in Nat,
         ForkPoint(st, at), ~ForkOk(st, at),
         NEW above \in LatestSnapshot(st).at .. HeadSeq(st)
  PROVE  ForkOk(st, above)
<1> DEFINE base == LatestSnapshot(st)
<1>1. base \in Bases(st)
  BY ResumeIsGranted
<1>2. base \in st.snapshots /\ base.at \in Nat /\ base.at <= HeadSeq(st)
  BY <1>1 DEF Bases, Stream, Snapshot
<1>3. st.truncated \in Nat /\ HeadSeq(st) \in Nat
  BY HeadIsNatural
<1>4. above \in Nat /\ base.at <= above /\ above <= HeadSeq(st)
  BY <1>2, <1>3
<1>5. base.at > at
  BY <1>2 DEF ForkOk, ForkBases
<1>6. ForkPoint(st, above)
  BY <1>2, <1>3, <1>4, <1>5 DEF ForkPoint
<1>7. base \in ForkBases(st, above)
  BY <1>2, <1>4 DEF ForkBases
<1>. QED BY <1>6, <1>7 DEF ForkOk

\* A truncation refused for want of a snapshot is granted after one.
LEMMA TruncationAdvice ==
  ASSUME NEW st \in Stream, NEW at \in Nat, st.truncated < at, at <= HeadSeq(st) + 1,
         NEW snap \in Snapshot, at - 1 <= snap.at, snap.at <= HeadSeq(st)
  PROVE  TruncateOk(PushSnapshot(st, snap), at)
<1>1. PICK next \in Stream : next = PushSnapshot(st, snap)
  BY PushSnapshotType
<1>2. /\ next.truncated = st.truncated /\ next.records = st.records
      /\ snap \in next.snapshots
  BY <1>1 DEF PushSnapshot, Stream
<1>3. HeadSeq(next) = HeadSeq(st)
  BY <1>2 DEF HeadSeq
<1>4. snap \in Bases(next)
  BY <1>2, <1>3 DEF Bases
<1>5. LatestSnapshot(next) \in Bases(next) /\ snap.at <= LatestSnapshot(next).at
  BY <1>4, LatestIsNewest
<1>6. LatestSnapshot(next).at \in Nat /\ snap.at \in Nat
  BY <1>5 DEF Bases, Stream, Snapshot
<1>7. LatestSnapshot(next).at >= at - 1
  BY <1>5, <1>6
<1>. QED BY <1>1, <1>2, <1>3, <1>4, <1>7 DEF TruncateOk

\* The way out each refusal names is open.
THEOREM AdviceCorrect ==
  ASSUME "late" \notin Callers \/ JournalId = {Main}
  PROVE  Spec => []AdviceWorks
<1>1. TypeInv /\ AlwaysKeepsBase => AdviceWorks
  <2> SUFFICES ASSUME TypeInv, AlwaysKeepsBase, NEW j \in opened, NEW s \in StreamId,
                      NEW at \in 0 .. MaxHead + 1
               PROVE  LET st == journal[j][s]
                          h == history[j][s]
                      IN /\ ForkPoint(st, at) /\ ~ForkOk(st, at) =>
                              \A above \in LatestSnapshot(st).at .. HeadSeq(st) :
                                ForkOk(st, above)
                         /\ st.truncated < at /\ at <= HeadSeq(st) /\ ~TruncateOk(st, at) =>
                              \A up \in at - 1 .. HeadSeq(st) :
                                TruncateOk(PushSnapshot(st, TrueSnapshot(h, up)), at)
    BY DEF AdviceWorks
  <2>1. PICK st \in Stream, h \in Seq(Record) :
          /\ st = journal[j][s] /\ h = history[j][s]
          /\ HeadSeq(st) = Len(h) /\ Anchored(st)
    BY OpenedAligned DEF AlwaysKeepsBase, KeepsBase
  <2>2. at \in Nat /\ HeadSeq(st) \in Nat /\ st.truncated \in Nat
    BY MaxHeadAssumption, HeadIsNatural
  <2>3. ASSUME ForkPoint(st, at), ~ForkOk(st, at),
               NEW above \in LatestSnapshot(st).at .. HeadSeq(st)
        PROVE  ForkOk(st, above)
    BY <2>1, <2>2, <2>3, ForkAdvice
  <2>4. ASSUME st.truncated < at, at <= HeadSeq(st), NEW up \in at - 1 .. HeadSeq(st)
        PROVE  TruncateOk(PushSnapshot(st, TrueSnapshot(h, up)), at)
    <3>1. up \in 0 .. Len(h) /\ at <= HeadSeq(st) + 1
      BY <2>1, <2>2, <2>4
    <3>2. PICK snap \in Snapshot : snap = TrueSnapshot(h, up)
      BY <3>1, TrueSnapshotType
    <3>3. snap.at = up
      BY <3>2 DEF TrueSnapshot
    <3>4. at - 1 <= snap.at /\ snap.at <= HeadSeq(st)
      BY <2>2, <2>4, <3>3
    <3>. QED BY <2>2, <2>4, <3>1, <3>2, <3>4, TruncationAdvice
  <2>. QED BY <2>1, <2>3, <2>4
<1>. QED BY <1>1, AlwaysKeeps, AlwaysTypeInv, PTL

-----------------------------------------------------------------------------
(* Answers over time.                                                      *)

\* What a stream answers after a step that it does not take back.
Stable(st, next) ==
  /\ HeadSeq(next) >= HeadSeq(st)
  /\ RetainedFrom(next) >= RetainedFrom(st)
  /\ \A at \in 0 .. HeadSeq(st) :
       PosKnown(next, at) =>
         IF PosKnown(st, at)
         THEN EntropyPos(next, at) = EntropyPos(st, at)
         ELSE at = st.truncated

\* The histories settle what a known position is; whether it is known remains.
LEMMA StableIfFaithful ==
  ASSUME NEW st \in Stream, NEW h \in Seq(Record), Faithful(st, h),
         NEW next \in Stream, NEW g \in Seq(Record), Faithful(next, g),
         Len(h) <= Len(g), \A i \in 1 .. Len(h) : g[i] = h[i],
         st.truncated <= next.truncated,
         \A at \in 0 .. HeadSeq(st) :
           PosKnown(next, at) => PosKnown(st, at) \/ at = st.truncated
  PROVE  Stable(st, next)
<1>1. /\ HeadSeq(st) = Len(h) /\ HeadSeq(next) = Len(g)
      /\ Len(h) \in Nat /\ Len(g) \in Nat
      /\ st.truncated \in Nat /\ next.truncated \in Nat
  BY LenProperties, HeadIsNatural DEF Faithful
<1>2. HeadSeq(next) >= HeadSeq(st) /\ RetainedFrom(next) >= RetainedFrom(st)
  BY <1>1 DEF RetainedFrom
<1>3. ASSUME NEW at \in 0 .. HeadSeq(st), PosKnown(next, at), PosKnown(st, at)
      PROVE  EntropyPos(next, at) = EntropyPos(st, at)
  <2>1. at \in 0 .. Len(h) /\ at \in 0 .. Len(g)
    BY <1>1
  <2>2. EntropyPos(st, at) = PosAt(h, at)
    BY <1>3, <2>1, FaithfulIsSound, PositionIsTrue
  <2>3. EntropyPos(next, at) = PosAt(g, at)
    BY <1>3, <2>1, FaithfulIsSound, PositionIsTrue
  <2>4. PosAt(g, at) = PosAt(h, at)
    BY <2>1 DEF PosAt
  <2>. QED BY <2>2, <2>3, <2>4
<1>. QED BY <1>2, <1>3 DEF Stable

LEMMA StableWhenStill ==
  ASSUME NEW st \in Stream
  PROVE  Stable(st, st)
<1>1. HeadSeq(st) \in Nat /\ RetainedFrom(st) \in Nat
  BY HeadIsNatural DEF RetainedFrom
<1>. QED BY <1>1 DEF Stable

LEMMA AppendStable ==
  ASSUME NEW st \in Stream, NEW h \in Seq(Record), Faithful(st, h),
         NEW events \in Event, NEW pos \in DrawPos
  PROVE  Stable(st, AppendRecord(st, events, pos))
<1>1. PICK rec \in Record : rec = [events |-> events, entropy_pos |-> pos]
  BY DEF Record
<1>2. PICK next \in Stream : next = AppendRecord(st, events, pos)
  BY AppendRecordType
<1>3. PICK g \in Seq(Record) :
        /\ g = Append(h, rec) /\ Len(g) = Len(h) + 1
        /\ \A i \in 1 .. Len(h) : g[i] = h[i]
  <2> DEFINE longer == Append(h, rec)
  <2>1. longer \in Seq(Record) /\ Len(longer) = Len(h) + 1
    BY AppendProperties
  <2>2. ASSUME NEW i \in 1 .. Len(h) PROVE longer[i] = h[i]
    BY <2>2, AppendProperties
  <2>. QED BY <2>1, <2>2
<1>4. Faithful(next, g)
  BY <1>1, <1>2, <1>3, AppendFaithful
<1>5. next.snapshots = st.snapshots /\ next.truncated = st.truncated
  BY <1>2 DEF AppendRecord, Stream
<1>6. ASSUME NEW at \in 0 .. HeadSeq(st), PosKnown(next, at)
      PROVE  PosKnown(st, at)
  BY <1>5, <1>6, HeadIsNatural DEF PosKnown, SnapshotsAt, Retained
<1>7. Len(h) <= Len(g) /\ st.truncated <= next.truncated
  BY <1>3, <1>5, LenProperties, HeadIsNatural
<1>8. Stable(st, next)
  BY <1>3, <1>4, <1>6, <1>7, StableIfFaithful
<1>. QED BY <1>2, <1>8

LEMMA SnapshotStable ==
  ASSUME NEW st \in Stream, NEW h \in Seq(Record), Faithful(st, h),
         NEW at \in Nat, st.truncated <= at, at <= HeadSeq(st)
  PROVE  Stable(st, PushSnapshot(st, TrueSnapshot(h, at)))
<1>1. at \in 0 .. Len(h)
  BY HeadIsNatural DEF Faithful
<1>2. PICK snap \in Snapshot : snap = TrueSnapshot(h, at) /\ snap.at = at
  BY <1>1, TrueSnapshotType DEF TrueSnapshot
<1>3. PICK next \in Stream : next = PushSnapshot(st, snap)
  BY PushSnapshotType
<1>4. /\ next.records = st.records /\ next.truncated = st.truncated
      /\ next.snapshots = st.snapshots \union {snap}
  BY <1>3 DEF PushSnapshot, Stream
<1>5. Faithful(next, h)
  BY <1>2, <1>3, SnapshotFaithful
<1>6. HeadSeq(next) = HeadSeq(st)
  BY <1>4 DEF HeadSeq
<1>7. ASSUME NEW n \in 0 .. HeadSeq(st), PosKnown(next, n), ~PosKnown(st, n)
      PROVE  n = st.truncated
  <2>1. n = at
    BY <1>2, <1>4, <1>6, <1>7 DEF PosKnown, SnapshotsAt, Retained
  <2>. QED BY <2>1, <1>7, HeadIsNatural DEF PosKnown, Retained
<1>8. Len(h) <= Len(h) /\ st.truncated <= next.truncated
  BY <1>4, LenProperties, HeadIsNatural
<1>9. Stable(st, next)
  BY <1>5, <1>7, <1>8, StableIfFaithful
<1>. QED BY <1>2, <1>3, <1>9

LEMMA TruncateStable ==
  ASSUME NEW st \in Stream, NEW h \in Seq(Record), Faithful(st, h),
         NEW at \in Nat, TruncateOk(st, at)
  PROVE  Stable(st, TruncateBefore(st, at))
<1>1. PICK next \in Stream : next = TruncateBefore(st, at)
  BY TruncateBeforeType
<1>2. Faithful(next, h)
  BY <1>1, TruncateFaithful
<1>3. /\ next.snapshots \subseteq st.snapshots /\ next.truncated = at - 1
      /\ st.truncated <= next.truncated
  BY <1>1, HeadIsNatural DEF TruncateBefore, TruncateOk
<1>4. HeadSeq(next) = HeadSeq(st)
  BY <1>2 DEF Faithful
<1>5. ASSUME NEW n \in 0 .. HeadSeq(st), PosKnown(next, n)
      PROVE  PosKnown(st, n)
  BY <1>3, <1>4, <1>5, HeadIsNatural DEF PosKnown, SnapshotsAt, Retained
<1>6. Len(h) <= Len(h)
  BY LenProperties
<1>7. Stable(st, next)
  BY <1>2, <1>3, <1>5, <1>6, StableIfFaithful
<1>. QED BY <1>1, <1>7

AllStable ==
  \A j \in opened, s \in StreamId : Stable(journal[j][s], journal'[j][s])

LEMMA NextStable ==
  ASSUME Callers = {}, Inv, [Next]_vars
  PROVE  AllStable
<1>0. /\ TypeInv
      /\ \A j \in opened, s \in StreamId :
           /\ j \in JournalId
           /\ journal[j][s] \in Stream /\ history[j][s] \in Seq(Record)
           /\ Faithful(journal[j][s], history[j][s])
           /\ Stable(journal[j][s], journal[j][s])
  BY OpenedFaithful, StableWhenStill DEF Inv
<1>1. ASSUME NEW j \in opened, NEW s \in StreamId,
             NEW events \in Event, NEW pos \in DrawPos, AppendIn(j, s, events, pos)
      PROVE  AllStable
  <2>1. Stable(journal[j][s], AppendRecord(journal[j][s], events, pos))
    BY <1>0, AppendStable
  <2>2. ASSUME NEW k \in opened, NEW t \in StreamId
        PROVE  Stable(journal[k][t], journal'[k][t])
    <3>1. /\ journal'[k][t] = IF k = j /\ t = s
                              THEN AppendRecord(journal[j][s], events, pos)
                              ELSE journal[k][t]
          /\ history'[k][t] =
               IF k = j /\ t = s
               THEN Append(history[j][s], [events |-> events, entropy_pos |-> pos])
               ELSE history[k][t]
      BY <1>0, <1>1, AppendInShape
    <3>2. CASE k = j /\ t = s
      BY <2>1, <3>1, <3>2
    <3>3. CASE ~ (k = j /\ t = s)
      BY <1>0, <3>1, <3>3
    <3>. QED BY <3>2, <3>3
  <2>. QED BY <2>2 DEF AllStable
<1>2. ASSUME NEW j \in opened, NEW s \in StreamId, NEW at \in Nat,
             SnapshotIn(j, s, at)
      PROVE  AllStable
  <2>1. Stable(journal[j][s], PushSnapshot(journal[j][s], TrueSnapshot(history[j][s], at)))
    <3>1. journal[j][s].truncated <= at /\ at <= HeadSeq(journal[j][s])
      BY <1>0, <1>2, HeadIsNatural DEF SnapshotIn
    <3>. QED BY <1>0, <3>1, SnapshotStable
  <2>2. /\ TrueSnapshot(history[j][s], at) \in Snapshot
        /\ PushIn(j, s, TrueSnapshot(history[j][s], at))
    BY <1>0, <1>2, SnapshotInType DEF SnapshotIn
  <2>. QED BY <1>0, <2>1, <2>2, PushInShape DEF AllStable
<1>3. ASSUME NEW j \in opened, NEW s \in StreamId,
             NEW at \in Nat, Truncate(j, s, at)
      PROVE  AllStable
  <2>1. Stable(journal[j][s], TruncateBefore(journal[j][s], at))
    BY <1>0, <1>3, TruncateShape, TruncateStable
  <2>. QED BY <1>0, <1>3, <2>1, TruncateShape DEF AllStable
<1>4. ASSUME NEW j \in opened, NEW s \in StreamId,
             NEW at \in Nat, NEW b \in JournalId, ForkInto(j, s, at, b)
      PROVE  AllStable
  <2>1. ASSUME NEW k \in opened, NEW t \in StreamId
        PROVE  Stable(journal[k][t], journal'[k][t])
    <3>1. k \in JournalId \ {b}
      BY <1>0, <1>4 DEF ForkInto
    <3>2. journal'[k][t] = journal[k][t]
      BY <1>0, <1>4, <3>1, ForkIntoShape
    <3>. QED BY <1>0, <3>2
  <2>. QED BY <2>1 DEF AllStable
<1>5. CASE UNCHANGED vars
  BY <1>0, <1>5 DEF vars, AllStable
<1>6. 0 .. MaxHead \subseteq Nat /\ 0 .. MaxHead + 1 \subseteq Nat
  BY MaxHeadAssumption
<1>. QED BY <1>1, <1>2, <1>3, <1>4, <1>5, <1>6 DEF Next, SnapshotAhead

\* An answer is never taken back: heads and horizons only advance, a known
\* position keeps its value, and one refused once stays refused but for the one
\* right before the first retained record.
THEOREM AnswersNeverChange ==
  ASSUME Callers = {} PROVE Spec => AnswersAreStable
<1>1. Inv /\ [Next]_vars => AllStable
  BY NextStable
<1>2. AllStable => \A j \in opened, s \in StreamId :
        LET st == journal[j][s]
            next == journal'[j][s]
        IN /\ HeadSeq(next) >= HeadSeq(st)
           /\ RetainedFrom(next) >= RetainedFrom(st)
           /\ \A at \in 0 .. HeadSeq(st) :
                PosKnown(next, at) =>
                  IF PosKnown(st, at)
                  THEN EntropyPos(next, at) = EntropyPos(st, at)
                  ELSE at = st.truncated
  BY DEF AllStable, Stable
<1>. QED BY <1>1, <1>2, AlwaysInv, PTL DEF Spec, AnswersAreStable
=============================================================================
