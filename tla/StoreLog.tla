------------------------------ MODULE StoreLog ------------------------------
(***************************************************************************)
(* The log of the async-store example, as a value: one stream's records    *)
(* and snapshots.  It is the table an adapter author would write, and      *)
(* simpler than the in-memory journal of JournalStream: nothing is ever    *)
(* truncated, and the snapshots are empty until the first explicit one,    *)
(* which brings the genesis along.                                         *)
(*                                                                         *)
(* An operation that can fail is a predicate, true where the code returns  *)
(* Ok, and an operator giving the value of Ok.                             *)
(***************************************************************************)
EXTENDS Integers, Sequences

GenesisSnapshot(genesis) == [at |-> 0, state |-> genesis, entropy_pos |-> 0]

NewLog == [records |-> <<>>, snapshots |-> <<>>]

\* Zero stands for the None of a log that has no head yet.
LogHead(log) == Len(log.records)

RecordKnown(log, at) == 0 < at /\ at <= LogHead(log)

LogPosKnown(log, at) == at = 0 \/ RecordKnown(log, at)

LogEntropyPos(log, at) ==
  LET based == {i \in DOMAIN log.snapshots : log.snapshots[i].at = 0}
  IN IF at > 0 THEN log.records[at].entropy_pos
     ELSE IF based = {} THEN 0
     ELSE log.snapshots[CHOOSE i \in based : \A j \in based : i <= j].entropy_pos

\* The records after a sequence.  Never refused: past the head there are none.
LogEventsSince(log, after) == SubSeq(log.records, after + 1, Len(log.records))

\* Of two snapshots at one sequence the later is the latest.
LogLatestSnapshot(log, genesis) ==
  IF log.snapshots = <<>> THEN GenesisSnapshot(genesis)
  ELSE log.snapshots[CHOOSE i \in DOMAIN log.snapshots :
         \A j \in DOMAIN log.snapshots :
           \/ log.snapshots[j].at < log.snapshots[i].at
           \/ log.snapshots[j].at = log.snapshots[i].at /\ j <= i]

LogAppend(log, events, pos) ==
  [log EXCEPT !.records = Append(@, [events |-> events, entropy_pos |-> pos])]

LogSnapshot(log, snap, genesis) ==
  [log EXCEPT !.snapshots =
     Append(IF @ = <<>> THEN <<GenesisSnapshot(genesis)>> ELSE @, snap)]

LogForkOk(log, at) == at <= LogHead(log)

LogFork(log, at) ==
  [records   |-> SubSeq(log.records, 1, at),
   snapshots |-> SelectSeq(log.snapshots, LAMBDA snap : snap.at <= at)]
=============================================================================
