--------------------------- MODULE UnitOfWorkProofs ---------------------------
(***************************************************************************)
(* Wherever a unit of work is interrupted: the aggregate is what the log   *)
(* says or lags by exactly the events it holds, and the loop handles       *)
(* commands one at a time.                                                 *)
(*                                                                         *)
(* The invariant says what a worker knows of its stream in each phase      *)
(* (Knows).  It is stated of values, so that what a step makes of it is a  *)
(* lemma about one worker and one stream; Frame adds that nobody else      *)
(* serves that stream.  So OneWriter is a hypothesis of every theorem, and *)
(* UnitOfWorkShared shows a run without it.  What is needed of a stream is *)
(* that it is sound: faithful to some history (JournalStreamProofs).       *)
(***************************************************************************)
EXTENDS UnitOfWork, InductionLemmas

J == INSTANCE JournalStreamProofs WITH DrawPos <- Nat

Sound(st) == J!SoundStream(st)

-----------------------------------------------------------------------------
(* The streams of this module are those of the lemmas.                     *)

LEMMA SameTypes == Record = J!Record /\ Stream = J!Stream /\ NewStream = J!NewStream
BY DEF Record, J!Record, Stream, J!Stream, Snapshot, J!Snapshot,
       AggregateState, J!AggregateState, NewStream, J!NewStream, Genesis, J!Genesis

LEMMA SameReads ==
  ASSUME NEW st
  PROVE  /\ HeadSeq(st) = J!HeadSeq(st)
         /\ ResumedState(st) = J!ResumedState(st)
         /\ ResumedPos(st) = J!ResumedPos(st)
         /\ Resumable(st) = J!Resumable(st)
         /\ \A at : Retained(st, at) = J!Retained(st, at)
         /\ \A at : RecordAt(st, at) = J!RecordAt(st, at)
<1>1. HeadSeq(st) = J!HeadSeq(st)
  BY DEF HeadSeq, J!HeadSeq
<1>2. Bases(st) = J!Bases(st)
  BY DEF Bases, J!Bases, HeadSeq, J!HeadSeq
<1>3. LatestSnapshot(st) = J!LatestSnapshot(st)
  BY DEF LatestSnapshot, J!LatestSnapshot, Bases, J!Bases, HeadSeq, J!HeadSeq
<1>4. \A at : RecordAt(st, at) = J!RecordAt(st, at)
  BY DEF RecordAt, J!RecordAt
<1>5. \A at : Retained(st, at) = J!Retained(st, at)
  BY DEF Retained, J!Retained, HeadSeq, J!HeadSeq
<1>6. \A at : EntropyPos(st, at) = J!EntropyPos(st, at)
  BY DEF EntropyPos, J!EntropyPos, SnapshotsAt, J!SnapshotsAt, RecordAt, J!RecordAt
<1>7. \A at : PosKnown(st, at) = J!PosKnown(st, at)
  BY DEF PosKnown, J!PosKnown, SnapshotsAt, J!SnapshotsAt, Retained, J!Retained,
         HeadSeq, J!HeadSeq
<1>8. ResumedState(st) = J!ResumedState(st)
  BY <1>3 DEF ResumedState, J!ResumedState, Replay, J!Replay, EventsSince, J!EventsSince
<1>9. ResumedPos(st) = J!ResumedPos(st)
  BY <1>1, <1>3, <1>6 DEF ResumedPos, J!ResumedPos
<1>10. Resumable(st) = J!Resumable(st)
  BY <1>1, <1>2, <1>3, <1>7 DEF Resumable, J!Resumable, EventsKnown, J!EventsKnown
<1>. QED BY <1>1, <1>4, <1>5, <1>8, <1>9, <1>10

LEMMA SameWrites ==
  ASSUME NEW st
  PROVE  /\ \A e, p : AppendRecord(st, e, p) = J!AppendRecord(st, e, p)
         /\ \A snap : PushSnapshot(st, snap) = J!PushSnapshot(st, snap)
         /\ \A at : TruncateOk(st, at) = J!TruncateOk(st, at)
         /\ \A at : TruncateBefore(st, at) = J!TruncateBefore(st, at)
<1>1. Bases(st) = J!Bases(st)
  BY DEF Bases, J!Bases, HeadSeq, J!HeadSeq
<1>2. LatestSnapshot(st) = J!LatestSnapshot(st)
  BY DEF LatestSnapshot, J!LatestSnapshot, Bases, J!Bases, HeadSeq, J!HeadSeq
<1>3. HeadSeq(st) = J!HeadSeq(st)
  BY DEF HeadSeq, J!HeadSeq
<1>4. \A e, p : AppendRecord(st, e, p) = J!AppendRecord(st, e, p)
  BY DEF AppendRecord, J!AppendRecord
<1>5. \A snap : PushSnapshot(st, snap) = J!PushSnapshot(st, snap)
  BY DEF PushSnapshot, J!PushSnapshot
<1>6. \A at : TruncateOk(st, at) = J!TruncateOk(st, at)
  BY <1>1, <1>2, <1>3 DEF TruncateOk, J!TruncateOk
<1>7. \A at : TruncateBefore(st, at) = J!TruncateBefore(st, at)
  BY DEF TruncateBefore, J!TruncateBefore
<1>. QED BY <1>4, <1>5, <1>6, <1>7

-----------------------------------------------------------------------------
(* What a sound stream resumes to, across the writes of the loop.          *)

LEMMA SoundResumes ==
  ASSUME NEW st, Sound(st)
  PROVE  /\ st \in Stream /\ Resumable(st)
         /\ HeadSeq(st) \in Nat
         /\ ResumedState(st) \in Seq(Event)
         /\ Len(ResumedState(st)) = HeadSeq(st)
         /\ ResumedPos(st) \in Nat
         /\ HeadPos(st) = ResumedPos(st)
<1>1. /\ J!Resumable(st)
      /\ J!HeadSeq(st) \in Nat
      /\ J!ResumedState(st) \in Seq(Event)
      /\ Len(J!ResumedState(st)) = J!HeadSeq(st)
      /\ J!ResumedPos(st) \in Nat
      /\ J!HeadSeq(st) = 0 => J!ResumedPos(st) = 0
  BY J!SoundResumes DEF Sound
<1>2. /\ HeadSeq(st) \in Nat
      /\ HeadSeq(st) = 0 => ResumedPos(st) = 0
  BY <1>1, SameReads
<1>3. HeadPos(st) = ResumedPos(st)
  BY <1>2 DEF HeadPos, ResumedPos
<1>4. st \in Stream
  BY SameTypes DEF Sound, J!SoundStream
<1>. QED BY <1>1, <1>2, <1>3, <1>4, SameReads

LEMMA SoundNew ==
  /\ Sound(NewStream) /\ HeadSeq(NewStream) = 0
  /\ ResumedState(NewStream) = <<>> /\ ResumedPos(NewStream) = 0
BY J!SoundNew, SameTypes, SameReads DEF Sound

LEMMA SoundAppend ==
  ASSUME NEW st, Sound(st), NEW e \in Event, NEW p \in Nat
  PROVE  LET next == AppendRecord(st, e, p)
         IN /\ Sound(next)
            /\ HeadSeq(next) = HeadSeq(st) + 1
            /\ ResumedState(next) = Append(ResumedState(st), e)
            /\ ResumedPos(next) = p
            /\ Retained(next, HeadSeq(st) + 1)
            /\ RecordAt(next, HeadSeq(st) + 1).events = e
<1>1. PICK next : next = AppendRecord(st, e, p)
  OBVIOUS
<1>2. next = J!AppendRecord(st, e, p)
  BY <1>1, SameWrites
<1>3. /\ J!SoundStream(next)
      /\ J!HeadSeq(next) = J!HeadSeq(st) + 1
      /\ J!ResumedState(next) = Append(J!ResumedState(st), e)
      /\ J!ResumedPos(next) = p
      /\ J!Retained(next, J!HeadSeq(st) + 1)
      /\ J!RecordAt(next, J!HeadSeq(st) + 1).events = e
  BY <1>2, J!SoundAppend DEF Sound
<1>. QED BY <1>1, <1>3, SameReads DEF Sound

LEMMA SoundSnapshot ==
  ASSUME NEW st, Sound(st)
  PROVE  LET next == PushSnapshot(st, [at          |-> HeadSeq(st),
                                       state       |-> ResumedState(st),
                                       entropy_pos |-> ResumedPos(st)])
         IN /\ Sound(next)
            /\ ResumedState(next) = ResumedState(st)
            /\ ResumedPos(next) = ResumedPos(st)
<1>1. PICK snap : snap = [at |-> HeadSeq(st), state |-> ResumedState(st),
                          entropy_pos |-> ResumedPos(st)]
  OBVIOUS
<1>2. snap = [at |-> J!HeadSeq(st), state |-> J!ResumedState(st),
              entropy_pos |-> J!ResumedPos(st)]
  BY <1>1, SameReads
<1>3. PICK next : next = PushSnapshot(st, snap)
  OBVIOUS
<1>4. next = J!PushSnapshot(st, snap)
  BY <1>3, SameWrites
<1>5. /\ J!SoundStream(next)
      /\ J!ResumedState(next) = J!ResumedState(st)
      /\ J!ResumedPos(next) = J!ResumedPos(st)
  BY <1>2, <1>4, J!SoundSnapshot DEF Sound
<1>. QED BY <1>1, <1>3, <1>5, SameReads DEF Sound

LEMMA SoundTruncate ==
  ASSUME NEW st, Sound(st), NEW at \in Nat, TruncateOk(st, at)
  PROVE  LET next == TruncateBefore(st, at)
         IN /\ Sound(next)
            /\ ResumedState(next) = ResumedState(st)
            /\ ResumedPos(next) = ResumedPos(st)
<1>1. PICK next : next = TruncateBefore(st, at)
  OBVIOUS
<1>2. next = J!TruncateBefore(st, at) /\ J!TruncateOk(st, at)
  BY <1>1, SameWrites
<1>3. /\ J!SoundStream(next)
      /\ J!ResumedState(next) = J!ResumedState(st)
      /\ J!ResumedPos(next) = J!ResumedPos(st)
  BY <1>2, J!SoundTruncate DEF Sound
<1>. QED BY <1>1, <1>3, SameReads DEF Sound

-----------------------------------------------------------------------------
(* What a worker knows of its stream, in each phase.                       *)

Knows(p, u, m, x, st) ==
  /\ p \in {"idle", "down"} => u = NoUnit
  /\ p = "idle" => m = ResumedState(st) /\ x = ResumedPos(st)
  /\ p \in {"prepared", "staged"} =>
       /\ u \in Unit
       /\ m = ResumedState(st)
       /\ u.event = [cmd |-> u.event.cmd, base |-> Len(m), drawn |-> ResumedPos(st)]
       /\ u.entropy_pos = ResumedPos(st) + Draws[u.event.cmd]
       /\ u.head_pos = ResumedPos(st)
       /\ x = u.entropy_pos
  /\ p = "staged" => u.seq = HeadSeq(st) + 1
  /\ p = "committed" =>
       /\ u \in Unit
       /\ Append(m, u.event) = ResumedState(st)
       /\ x = ResumedPos(st)
       /\ Retained(st, u.seq) /\ RecordAt(st, u.seq).events = u.event

LEMMA KnowsIdle ==
  ASSUME NEW st
  PROVE  Knows("idle", NoUnit, ResumedState(st), ResumedPos(st), st)
BY DEF Knows

LEMMA KnowsDown ==
  ASSUME NEW st, NEW m, NEW x
  PROVE  Knows("down", NoUnit, m, x, st)
BY DEF Knows

LEMMA KnowsPrepared ==
  ASSUME NEW st, Sound(st), NEW u, NEW m, NEW x, Knows("idle", u, m, x, st),
         NEW c \in Command
  PROVE  Knows("prepared",
               [event       |-> [cmd |-> c, base |-> Len(m), drawn |-> x],
                entropy_pos |-> x + Draws[c],
                head_pos    |-> HeadPos(st),
                seq         |-> 0],
               m, x + Draws[c], st)
<1>1. m = ResumedState(st) /\ x = ResumedPos(st) /\ HeadPos(st) = ResumedPos(st)
  BY SoundResumes DEF Knows
<1>2. Len(m) \in Nat /\ x \in Nat /\ Draws[c] \in Nat /\ x + Draws[c] \in Nat
  BY <1>1, SoundResumes, DrawsAssumption
<1>3. [cmd |-> c, base |-> Len(m), drawn |-> x] \in Event
  BY <1>2 DEF Event
<1>4. PICK u2 : u2 = [event       |-> [cmd |-> c, base |-> Len(m), drawn |-> x],
                      entropy_pos |-> x + Draws[c],
                      head_pos    |-> HeadPos(st),
                      seq         |-> 0]
  OBVIOUS
<1>5. u2 \in Unit
  BY <1>1, <1>2, <1>3, <1>4 DEF Unit
<1>6. u2.event.cmd = c
  BY <1>4
<1>7. /\ u2.event = [cmd |-> c, base |-> Len(m), drawn |-> x]
      /\ u2.entropy_pos = x + Draws[c] /\ u2.head_pos = HeadPos(st)
  BY <1>4
<1>8. Knows("prepared", u2, m, x + Draws[c], st)
  BY <1>1, <1>5, <1>6, <1>7 DEF Knows
<1>. QED BY <1>4, <1>8

LEMMA KnowsStaged ==
  ASSUME NEW st, Sound(st), NEW u, NEW m, NEW x, Knows("prepared", u, m, x, st)
  PROVE  Knows("staged", [u EXCEPT !.seq = HeadSeq(st) + 1], m, x, st)
<1>1. u \in Unit /\ HeadSeq(st) + 1 \in Nat
  BY SoundResumes DEF Knows
<1>2. PICK u2 : u2 = [u EXCEPT !.seq = HeadSeq(st) + 1]
  OBVIOUS
<1>3. /\ u2 \in Unit /\ u2.event = u.event /\ u2.entropy_pos = u.entropy_pos
      /\ u2.head_pos = u.head_pos /\ u2.seq = HeadSeq(st) + 1
  BY <1>1, <1>2 DEF Unit
<1>4. Knows("staged", u2, m, x, st)
  BY <1>3 DEF Knows
<1>. QED BY <1>2, <1>4

LEMMA KnowsCommitted ==
  ASSUME NEW st, Sound(st), NEW u, NEW m, NEW x, Knows("staged", u, m, x, st)
  PROVE  LET next == AppendRecord(st, u.event, u.entropy_pos)
         IN /\ Sound(next)
            /\ Knows("committed", u, m, x, next)
            /\ u.event = [cmd   |-> u.event.cmd, base |-> Len(ResumedState(st)),
                          drawn |-> ResumedPos(st)]
            /\ u.event.cmd \in Command
            /\ ResumedState(next) = Append(ResumedState(st), u.event)
            /\ ResumedPos(next) = ResumedPos(st) + Draws[u.event.cmd]
<1>1. /\ u \in Unit /\ m = ResumedState(st) /\ x = u.entropy_pos
      /\ u.event = [cmd |-> u.event.cmd, base |-> Len(m), drawn |-> ResumedPos(st)]
      /\ u.entropy_pos = ResumedPos(st) + Draws[u.event.cmd]
      /\ u.seq = HeadSeq(st) + 1
  BY DEF Knows
<1>2. u.event \in Event /\ u.entropy_pos \in Nat /\ u.event.cmd \in Command
  BY <1>1 DEF Unit, Event
<1>3. PICK next : next = AppendRecord(st, u.event, u.entropy_pos)
  OBVIOUS
<1>4. /\ Sound(next)
      /\ ResumedState(next) = Append(ResumedState(st), u.event)
      /\ ResumedPos(next) = u.entropy_pos
      /\ Retained(next, HeadSeq(st) + 1)
      /\ RecordAt(next, HeadSeq(st) + 1).events = u.event
  BY <1>2, <1>3, SoundAppend
<1>5. Knows("committed", u, m, x, next)
  BY <1>1, <1>4 DEF Knows
<1>. QED BY <1>1, <1>2, <1>3, <1>4, <1>5

LEMMA KnowsEvolved ==
  ASSUME NEW st, NEW u, NEW m, NEW x, Knows("committed", u, m, x, st)
  PROVE  Knows("idle", NoUnit, Append(m, u.event), x, st)
BY DEF Knows

LEMMA KnowsSnapshot ==
  ASSUME NEW st, Sound(st), NEW u, NEW m, NEW x, Knows("idle", u, m, x, st)
  PROVE  LET next == PushSnapshot(st, [at |-> HeadSeq(st), state |-> m, entropy_pos |-> x])
         IN /\ Sound(next) /\ Knows("idle", u, m, x, next)
            /\ ResumedState(next) = ResumedState(st)
            /\ ResumedPos(next) = ResumedPos(st)
<1>1. m = ResumedState(st) /\ x = ResumedPos(st) /\ u = NoUnit
  BY DEF Knows
<1>2. PICK next : next = PushSnapshot(st, [at |-> HeadSeq(st), state |-> m, entropy_pos |-> x])
  OBVIOUS
<1>3. /\ Sound(next) /\ ResumedState(next) = ResumedState(st)
      /\ ResumedPos(next) = ResumedPos(st)
  BY <1>1, <1>2, SoundSnapshot
<1>4. Knows("idle", u, m, x, next)
  BY <1>1, <1>3 DEF Knows
<1>. QED BY <1>2, <1>3, <1>4

LEMMA KnowsTruncated ==
  ASSUME NEW st, Sound(st), NEW u, NEW m, NEW x, Knows("idle", u, m, x, st),
         NEW at \in Nat, TruncateOk(st, at)
  PROVE  LET next == TruncateBefore(st, at)
         IN /\ Sound(next) /\ Knows("idle", u, m, x, next)
            /\ ResumedState(next) = ResumedState(st)
            /\ ResumedPos(next) = ResumedPos(st)
<1>1. PICK next : next = TruncateBefore(st, at)
  OBVIOUS
<1>2. /\ Sound(next) /\ ResumedState(next) = ResumedState(st)
      /\ ResumedPos(next) = ResumedPos(st)
  BY <1>1, SoundTruncate
<1>3. Knows("idle", u, m, x, next)
  BY <1>2 DEF Knows
<1>. QED BY <1>1, <1>2, <1>3

-----------------------------------------------------------------------------
(* The invariant.                                                          *)

WorkerOK(w) ==
  /\ phase[w] \in Phase
  /\ memory[w] \in Seq(Event) /\ ctx[w] \in Nat
  /\ Knows(phase[w], unit[w], memory[w], ctx[w], store[Serves[w]])

\* Which worker and which stream have an entry in each variable.
Domains ==
  /\ store = [s \in StreamId |-> store[s]]
  /\ phase = [w \in Worker |-> phase[w]]
  /\ unit = [w \in Worker |-> unit[w]]
  /\ memory = [w \in Worker |-> memory[w]]
  /\ ctx = [w \in Worker |-> ctx[w]]

TablesType ==
  /\ readModel \in [StreamId -> SUBSET Command]
  /\ outbox \in Seq(StreamId \X Command)

IInv ==
  /\ OneWriter
  /\ Domains
  /\ TablesType
  /\ \A s \in StreamId : Sound(store[s])
  /\ \A w \in Worker : WorkerOK(w)

LEMMA InitInv == OneWriter /\ Init => IInv
<1> SUFFICES ASSUME OneWriter, Init PROVE IInv
  OBVIOUS
<1>1. Domains /\ TablesType
  BY DEF Init, Domains, TablesType
<1>2. \A s \in StreamId : store[s] = NewStream
  BY DEF Init
<1>3. ASSUME NEW w \in Worker PROVE WorkerOK(w)
  <2>1. store[Serves[w]] = NewStream
    BY <1>2, ServesAssumption
  <2>2. phase[w] = "idle" /\ unit[w] = NoUnit /\ memory[w] = <<>> /\ ctx[w] = 0
    BY DEF Init
  <2>3. Knows("idle", NoUnit, <<>>, 0, NewStream)
    BY SoundNew DEF Knows
  <2>. QED BY <2>1, <2>2, <2>3 DEF WorkerOK, Phase
<1>. QED BY <1>1, <1>2, <1>3, SoundNew DEF IInv

\* A step of one worker that leaves the streams it does not serve alone.
Own(w) ==
  /\ \A s \in StreamId : s # Serves[w] => store'[s] = store[s]
  /\ \A v \in Worker : v # w =>
       /\ phase'[v] = phase[v] /\ unit'[v] = unit[v]
       /\ memory'[v] = memory[v] /\ ctx'[v] = ctx[v]

LEMMA Frame ==
  ASSUME IInv, NEW w \in Worker, Own(w), Domains', TablesType',
         Sound(store'[Serves[w]]), WorkerOK(w)'
  PROVE  IInv'
<1>1. \A s \in StreamId : Sound(store'[s])
  BY DEF IInv, Own
<1>2. ASSUME NEW v \in Worker, v # w PROVE WorkerOK(v)'
  <2>1. Serves[v] \in StreamId /\ Serves[v] # Serves[w]
    BY <1>2, ServesAssumption DEF IInv, OneWriter
  <2>2. /\ phase'[v] = phase[v] /\ unit'[v] = unit[v] /\ memory'[v] = memory[v]
        /\ ctx'[v] = ctx[v] /\ store'[Serves[v]] = store[Serves[v]]
    BY <1>2, <2>1 DEF Own
  <2>3. WorkerOK(v)
    BY DEF IInv
  <2>. QED BY <2>2, <2>3 DEF WorkerOK
<1>. QED BY <1>1, <1>2 DEF IInv

\* What is left to show of a step that leaves the database alone.
LEMMA FrameMemory ==
  ASSUME IInv, NEW w \in Worker, UNCHANGED database,
         NEW p \in Phase, NEW u, NEW m \in Seq(Event), NEW x \in Nat,
         phase' = [phase EXCEPT ![w] = p],
         unit' = [unit EXCEPT ![w] = u],
         memory' = [memory EXCEPT ![w] = m],
         ctx' = [ctx EXCEPT ![w] = x],
         Knows(p, u, m, x, store[Serves[w]])
  PROVE  IInv'
<1>1. /\ phase'[w] = p /\ unit'[w] = u /\ memory'[w] = m /\ ctx'[w] = x
      /\ Own(w) /\ Domains'
  BY DEF IInv, Domains, Own, database
<1>2. store' = store /\ TablesType'
  BY DEF IInv, TablesType, database
<1>3. WorkerOK(w)'
  BY <1>1, <1>2 DEF WorkerOK
<1>4. Sound(store'[Serves[w]])
  BY <1>2, ServesAssumption DEF IInv
<1>. QED BY <1>1, <1>2, <1>3, <1>4, Frame

\* What is left to show of a step that changes the store only.
LEMMA FrameStore ==
  ASSUME IInv, NEW w \in Worker, UNCHANGED <<readModel, outbox, worker>>,
         NEW st, store' = [store EXCEPT ![Serves[w]] = st],
         Sound(st), Knows(phase[w], unit[w], memory[w], ctx[w], st)
  PROVE  IInv'
<1>1. Serves[w] \in StreamId
  BY ServesAssumption
<1>2. store'[Serves[w]] = st
  BY <1>1 DEF IInv, Domains
<1>3. /\ phase' = phase /\ unit' = unit /\ memory' = memory /\ ctx' = ctx
      /\ readModel' = readModel /\ outbox' = outbox
  BY DEF worker
<1>4. Own(w) /\ Domains' /\ TablesType'
  BY <1>3 DEF IInv, Domains, Own, TablesType
<1>5. WorkerOK(w)'
  BY <1>2, <1>3 DEF IInv, WorkerOK
<1>. QED BY <1>2, <1>4, <1>5, Frame

\* What a worker knows, and of what type.
LEMMA WorkerKnows ==
  ASSUME IInv, NEW w \in Worker
  PROVE  /\ Serves[w] \in StreamId /\ Sound(Log(w))
         /\ Knows(phase[w], unit[w], memory[w], ctx[w], Log(w))
         /\ memory[w] \in Seq(Event) /\ ctx[w] \in Nat
         /\ memory = [memory EXCEPT ![w] = memory[w]]
         /\ ctx = [ctx EXCEPT ![w] = ctx[w]]
<1>1. Serves[w] \in StreamId
  BY ServesAssumption
<1>. QED BY <1>1 DEF IInv, WorkerOK, Domains, Log

-----------------------------------------------------------------------------
(* Every step keeps the invariant.                                         *)

\* Back between commands, with the entropy at the head.
LEMMA SettleInv ==
  ASSUME IInv, NEW w \in Worker, Settle(w, ResumedPos(Log(w))), UNCHANGED database,
         NEW m \in Seq(Event), memory' = [memory EXCEPT ![w] = m],
         m = ResumedState(Log(w))
  PROVE  IInv'
<1>1. ResumedPos(Log(w)) \in Nat
  BY WorkerKnows, SoundResumes
<1>2. Knows("idle", NoUnit, m, ResumedPos(Log(w)), Log(w))
  BY KnowsIdle
<1>. QED BY <1>1, <1>2, FrameMemory DEF Settle, Phase, Log

LEMMA RejectInv ==
  ASSUME IInv, NEW w \in Worker, Reject(w)
  PROVE  IInv'
<1>1. HeadPos(Log(w)) = ResumedPos(Log(w)) /\ memory[w] = ResumedState(Log(w))
  BY WorkerKnows, SoundResumes DEF Knows, Reject
<1>. QED BY <1>1, WorkerKnows, SettleInv DEF Reject

LEMMA PrepareInv ==
  ASSUME IInv, NEW w \in Worker, NEW c \in Command, Prepare(w, c)
  PROVE  IInv'
<1> DEFINE u == [event       |-> [cmd |-> c, base |-> Len(memory[w]), drawn |-> ctx[w]],
                 entropy_pos |-> ctx[w] + Draws[c],
                 head_pos    |-> HeadPos(Log(w)),
                 seq         |-> 0]
<1>1. Knows("prepared", u, memory[w], ctx[w] + Draws[c], Log(w))
  BY WorkerKnows, KnowsPrepared DEF Prepare
<1>2. /\ phase' = [phase EXCEPT ![w] = "prepared"]
      /\ unit' = [unit EXCEPT ![w] = u]
      /\ ctx' = [ctx EXCEPT ![w] = ctx[w] + Draws[c]]
      /\ memory' = [memory EXCEPT ![w] = memory[w]]
      /\ UNCHANGED database
  BY WorkerKnows DEF Prepare
<1> HIDE DEF u
<1>3. ctx[w] + Draws[c] \in Nat
  BY WorkerKnows, DrawsAssumption
<1>. QED BY <1>1, <1>2, <1>3, WorkerKnows, FrameMemory DEF Phase, Log

LEMMA StageInv ==
  ASSUME IInv, NEW w \in Worker, Stage(w)
  PROVE  IInv'
<1> DEFINE u == [unit[w] EXCEPT !.seq = HeadSeq(Log(w)) + 1]
<1>1. Knows("staged", u, memory[w], ctx[w], Log(w))
  BY WorkerKnows, KnowsStaged DEF Stage
<1>2. /\ phase' = [phase EXCEPT ![w] = "staged"]
      /\ unit' = [unit EXCEPT ![w] = u]
      /\ ctx' = [ctx EXCEPT ![w] = ctx[w]]
      /\ memory' = [memory EXCEPT ![w] = memory[w]]
      /\ UNCHANGED database
  BY WorkerKnows DEF Stage
<1> HIDE DEF u
<1>. QED BY <1>1, <1>2, WorkerKnows, FrameMemory DEF Phase, Log

\* The append failed, or the transaction was dropped.
LEMMA AbortInv ==
  ASSUME IInv, NEW w \in Worker, phase[w] \in {"prepared", "staged"},
         Settle(w, unit[w].head_pos), UNCHANGED <<database, memory>>
  PROVE  IInv'
<1>1. unit[w].head_pos = ResumedPos(Log(w)) /\ memory[w] = ResumedState(Log(w))
  BY WorkerKnows DEF Knows
<1>2. memory' = [memory EXCEPT ![w] = memory[w]]
  BY WorkerKnows
<1>. QED BY <1>1, <1>2, WorkerKnows, SettleInv

\* The one step that changes what the log says.
LEMMA CommitInv ==
  ASSUME IInv, NEW w \in Worker, Commit(w)
  PROVE  /\ IInv'
         /\ unit[w].event.cmd \in Command
         /\ unit[w].event = [cmd   |-> unit[w].event.cmd,
                             base  |-> Len(ResumedState(Log(w))),
                             drawn |-> ResumedPos(Log(w))]
         /\ store' = [store EXCEPT ![Serves[w]] = store'[Serves[w]]]
         /\ ResumedState(store'[Serves[w]]) = Append(ResumedState(Log(w)), unit[w].event)
         /\ ResumedPos(store'[Serves[w]]) =
              ResumedPos(Log(w)) + Draws[unit[w].event.cmd]
<1>1. Serves[w] \in StreamId /\ Sound(Log(w))
  BY WorkerKnows
<1>2. Knows("staged", unit[w], memory[w], ctx[w], Log(w))
  BY WorkerKnows DEF Commit
<1>3. PICK st : st = AppendRecord(Log(w), unit[w].event, unit[w].entropy_pos)
  OBVIOUS
<1>4. /\ Sound(st)
      /\ Knows("committed", unit[w], memory[w], ctx[w], st)
      /\ unit[w].event = [cmd   |-> unit[w].event.cmd,
                          base  |-> Len(ResumedState(Log(w))),
                          drawn |-> ResumedPos(Log(w))]
      /\ unit[w].event.cmd \in Command
      /\ ResumedState(st) = Append(ResumedState(Log(w)), unit[w].event)
      /\ ResumedPos(st) = ResumedPos(Log(w)) + Draws[unit[w].event.cmd]
  BY <1>1, <1>2, <1>3, KnowsCommitted
<1>5. store' = [store EXCEPT ![Serves[w]] = st] /\ store'[Serves[w]] = st
  BY <1>1, <1>3 DEF Commit, Log, IInv, Domains
<1>6. /\ phase' = [phase EXCEPT ![w] = "committed"]
      /\ unit' = unit /\ memory' = memory /\ ctx' = ctx
  BY DEF Commit
<1>7. Own(w) /\ Domains' /\ phase'[w] = "committed"
  BY <1>5, <1>6 DEF Own, IInv, Domains
<1>8. TablesType'
  <2>1. readModel' \in [StreamId -> SUBSET Command]
    BY <1>1, <1>4 DEF Commit, IInv, TablesType
  <2>2. <<Serves[w], unit[w].event.cmd>> \in StreamId \X Command
    BY <1>1, <1>4
  <2>3. outbox' = Append(outbox, <<Serves[w], unit[w].event.cmd>>)
    BY DEF Commit
  <2>4. outbox' \in Seq(StreamId \X Command)
    BY <2>2, <2>3 DEF IInv, TablesType
  <2>. QED BY <2>1, <2>4 DEF TablesType
<1>9. WorkerOK(w)'
  BY <1>4, <1>5, <1>6, <1>7, WorkerKnows DEF WorkerOK, Phase
<1>10. IInv'
  BY <1>4, <1>5, <1>7, <1>8, <1>9, Frame
<1>. QED BY <1>4, <1>5, <1>10

LEMMA EvolveInv ==
  ASSUME IInv, NEW w \in Worker, Evolve(w)
  PROVE  IInv'
<1>1. Knows("committed", unit[w], memory[w], ctx[w], Log(w))
  BY WorkerKnows DEF Evolve
<1>2. /\ Append(memory[w], unit[w].event) = ResumedState(Log(w))
      /\ ctx[w] = ResumedPos(Log(w))
  BY <1>1 DEF Knows
<1>3. ResumedState(Log(w)) \in Seq(Event)
  BY WorkerKnows, SoundResumes
<1>. QED BY <1>2, <1>3, SettleInv DEF Evolve

LEMMA CrashInv ==
  ASSUME IInv, NEW w \in Worker, Crash(w)
  PROVE  IInv'
<1>1. Knows("down", NoUnit, <<>>, 0, Log(w))
  BY KnowsDown
<1>2. <<>> \in Seq(Event) /\ "down" \in Phase /\ UNCHANGED database
  BY DEF Crash, Phase
<1>. QED BY <1>1, <1>2, FrameMemory DEF Crash, Log

LEMMA ResumeInv ==
  ASSUME IInv, NEW w \in Worker, Resume(w)
  PROVE  IInv'
<1>1. ResumedState(Log(w)) \in Seq(Event)
  BY WorkerKnows, SoundResumes
<1>. QED BY <1>1, SettleInv DEF Resume

\* A snapshot and a truncation change the store, and not what it resumes to.
SameAnswers ==
  \A s \in StreamId : /\ ResumedState(store'[s]) = ResumedState(store[s])
                      /\ ResumedPos(store'[s]) = ResumedPos(store[s])

LEMMA TakeSnapshotInv ==
  ASSUME IInv, NEW w \in Worker, TakeSnapshot(w)
  PROVE  IInv' /\ SameAnswers
<1>1. PICK st : st = PushSnapshot(Log(w), [at |-> HeadSeq(Log(w)), state |-> memory[w],
                                           entropy_pos |-> ctx[w]])
  OBVIOUS
<1>2. phase[w] = "idle" /\ UNCHANGED <<readModel, outbox, worker>>
  BY DEF TakeSnapshot
<1>3. /\ Sound(st) /\ Knows(phase[w], unit[w], memory[w], ctx[w], st)
      /\ ResumedState(st) = ResumedState(Log(w))
      /\ ResumedPos(st) = ResumedPos(Log(w))
  BY <1>1, <1>2, WorkerKnows, KnowsSnapshot
<1>4. store' = [store EXCEPT ![Serves[w]] = st]
  BY <1>1 DEF TakeSnapshot, Log
<1>5. SameAnswers
  BY <1>3, <1>4 DEF SameAnswers, Log, IInv, Domains
<1>. QED BY <1>2, <1>3, <1>4, <1>5, FrameStore

LEMMA TruncateInv ==
  ASSUME IInv, NEW w \in Worker, NEW at \in 1 .. MaxLog[Serves[w]] + 1, Truncate(w, at)
  PROVE  IInv' /\ SameAnswers
<1>1. PICK st : st = TruncateBefore(Log(w), at)
  OBVIOUS
<1>2. /\ phase[w] = "idle" /\ UNCHANGED <<readModel, outbox, worker>>
      /\ TruncateOk(Log(w), at) /\ at \in Nat
  BY DEF Truncate
<1>3. /\ Sound(st) /\ Knows(phase[w], unit[w], memory[w], ctx[w], st)
      /\ ResumedState(st) = ResumedState(Log(w))
      /\ ResumedPos(st) = ResumedPos(Log(w))
  BY <1>1, <1>2, WorkerKnows, KnowsTruncated
<1>4. store' = [store EXCEPT ![Serves[w]] = st]
  BY <1>1 DEF Truncate, Log
<1>5. SameAnswers
  BY <1>3, <1>4 DEF SameAnswers, Log, IInv, Domains
<1>. QED BY <1>2, <1>3, <1>4, <1>5, FrameStore

LEMMA StutterInv ==
  ASSUME IInv, UNCHANGED vars
  PROVE  IInv'
BY DEF IInv, vars, Domains, TablesType, WorkerOK

THEOREM StepInv == IInv /\ [Next]_vars => IInv'
<1> SUFFICES ASSUME IInv, [Next]_vars PROVE IInv'
  OBVIOUS
<1>1. CASE UNCHANGED vars
  BY <1>1, StutterInv
<1>2. ASSUME NEW w \in Worker, Reject(w) PROVE IInv'
  BY <1>2, RejectInv
<1>3. ASSUME NEW w \in Worker, NEW c \in Command, Prepare(w, c) PROVE IInv'
  BY <1>3, PrepareInv
<1>4. ASSUME NEW w \in Worker, Stage(w) PROVE IInv'
  BY <1>4, StageInv
<1>5. ASSUME NEW w \in Worker, FailAppend(w) \/ RollBack(w) PROVE IInv'
  BY <1>5, AbortInv DEF FailAppend, RollBack
<1>6. ASSUME NEW w \in Worker, Commit(w) PROVE IInv'
  BY <1>6, CommitInv
<1>7. ASSUME NEW w \in Worker, Evolve(w) PROVE IInv'
  BY <1>7, EvolveInv
<1>8. ASSUME NEW w \in Worker, Resume(w) PROVE IInv'
  BY <1>8, ResumeInv
<1>9. ASSUME NEW w \in Worker, Crash(w) PROVE IInv'
  BY <1>9, CrashInv
<1>10. ASSUME NEW w \in Worker, TakeSnapshot(w) PROVE IInv'
  BY <1>10, TakeSnapshotInv
<1>11. ASSUME NEW w \in Worker, NEW at \in 1 .. MaxLog[Serves[w]] + 1, Truncate(w, at)
       PROVE  IInv'
  BY <1>11, TruncateInv
<1>. QED BY <1>1, <1>2, <1>3, <1>4, <1>5, <1>6, <1>7, <1>8, <1>9, <1>10, <1>11
     DEF Next, Proceed

THEOREM SpecInv == OneWriter => (Spec => []IInv)
<1> SUFFICES ASSUME OneWriter PROVE Spec => []IInv
  OBVIOUS
<1>1. Init => IInv
  BY InitInv
<1>. QED BY <1>1, StepInv, PTL DEF Spec

-----------------------------------------------------------------------------
(* What it says.                                                           *)

\* Type correctness of the loop, its store and the other tables.
THEOREM TypeCorrect == OneWriter => (Spec => []TypeOK)
<1> SUFFICES ASSUME OneWriter PROVE Spec => []TypeOK
  OBVIOUS
<1>1. ASSUME IInv PROVE TypeOK
  <2>1. \A s \in StreamId : store[s] \in Stream
    BY <1>1, SoundResumes DEF IInv
  <2>2. store \in [StreamId -> Stream]
    BY <1>1, <2>1 DEF IInv, Domains
  <2>3. /\ phase \in [Worker -> Phase] /\ memory \in [Worker -> AggregateState]
        /\ ctx \in [Worker -> Nat]
    BY <1>1 DEF IInv, Domains, WorkerOK, AggregateState
  <2>4. ASSUME NEW w \in Worker
        PROVE  IF phase[w] \in {"idle", "down"} THEN unit[w] = NoUnit ELSE unit[w] \in Unit
    <3>1. phase[w] \in Phase /\ Knows(phase[w], unit[w], memory[w], ctx[w], Log(w))
      BY <1>1, <2>3, WorkerKnows
    <3>. QED BY <3>1 DEF Knows, Phase
  <2>. QED BY <1>1, <2>2, <2>3, <2>4 DEF TypeOK, IInv, TablesType
<1>. QED BY <1>1, SpecInv, PTL

\* Between commands memory and log agree, in state and in entropy, whatever
\* was refused, failed, rolled back or cut short before.
THEOREM MemoryIsDurable == OneWriter => (Spec => []LogAndMemoryAgree)
<1> SUFFICES ASSUME OneWriter PROVE Spec => []LogAndMemoryAgree
  OBVIOUS
<1>1. ASSUME IInv PROVE LogAndMemoryAgree
  <2>1. ASSUME NEW w \in Worker, phase[w] = "idle"
        PROVE  /\ Resumable(Log(w))
               /\ memory[w] = ResumedState(Log(w)) /\ ctx[w] = ResumedPos(Log(w))
    BY <1>1, <2>1, WorkerKnows, SoundResumes DEF Knows
  <2>. QED BY <2>1 DEF LogAndMemoryAgree
<1>. QED BY <1>1, SpecInv, PTL

\* The aggregate is never ahead of what is durable, and behind it by what the
\* pending append holds.
THEOREM NeverAhead == OneWriter => (Spec => []AggregateNeverAhead)
<1> SUFFICES ASSUME OneWriter PROVE Spec => []AggregateNeverAhead
  OBVIOUS
<1>1. ASSUME IInv PROVE AggregateNeverAhead
  <2>1. ASSUME NEW w \in Worker
        PROVE  /\ phase[w] \in {"prepared", "staged"} => memory[w] = ResumedState(Log(w))
               /\ phase[w] = "committed" =>
                    Append(memory[w], unit[w].event) = ResumedState(Log(w))
    BY <1>1, WorkerKnows DEF Knows
  <2>. QED BY <2>1 DEF AggregateNeverAhead
<1>. QED BY <1>1, SpecInv, PTL

\* The sequence a caller was told before its transaction resolved is the one
\* the events landed at.
THEOREM SeqIsKept == OneWriter => (Spec => []SeqIsWhereItLanded)
<1> SUFFICES ASSUME OneWriter PROVE Spec => []SeqIsWhereItLanded
  OBVIOUS
<1>1. ASSUME IInv PROVE SeqIsWhereItLanded
  <2>1. ASSUME NEW w \in Worker, phase[w] = "committed"
        PROVE  /\ Retained(Log(w), unit[w].seq)
               /\ RecordAt(Log(w), unit[w].seq).events = unit[w].event
    BY <1>1, <2>1, WorkerKnows DEF Knows
  <2>. QED BY <2>1 DEF SeqIsWhereItLanded
<1>. QED BY <1>1, SpecInv, PTL

-----------------------------------------------------------------------------
(* The refinement.                                                         *)

LEMMA RefinesInit == Init => Atomic!Init
<1> SUFFICES ASSUME Init PROVE Atomic!Init
  OBVIOUS
<1>1. \A s \in StreamId : store[s] = NewStream
  BY DEF Init
<1>2. States = [s \in StreamId |-> <<>>] /\ Positions = [s \in StreamId |-> 0]
  BY <1>1, SoundNew DEF States, Positions
<1>. QED BY <1>2 DEF Init, Atomic!Init

LEMMA CommitRefines ==
  ASSUME IInv, NEW w \in Worker, Commit(w)
  PROVE  Atomic!Handle(Serves[w], unit[w].event.cmd)
<1> DEFINE s == Serves[w]
           c == unit[w].event.cmd
<1>1. s \in StreamId /\ Log(w) = store[s]
  BY WorkerKnows DEF Log
<1>2. \A r \in StreamId : r # s => store'[r] = store[r]
  BY <1>1 DEF Commit, IInv, Domains
<1>3. /\ ResumedState(store'[s]) = Append(ResumedState(store[s]), unit[w].event)
      /\ ResumedPos(store'[s]) = ResumedPos(store[s]) + Draws[c]
      /\ unit[w].event = [cmd |-> c, base |-> Len(ResumedState(store[s])),
                          drawn |-> ResumedPos(store[s])]
  BY <1>1, CommitInv
<1>4. States[s] = ResumedState(store[s]) /\ Positions[s] = ResumedPos(store[s])
  BY <1>1 DEF States, Positions
<1>5. Atomic!Decided(c, States[s], Positions[s]) = unit[w].event
  BY <1>3, <1>4 DEF Atomic!Decided
<1>6. States' = [States EXCEPT ![s] = Append(States[s], unit[w].event)]
  BY <1>1, <1>2, <1>3, <1>4 DEF States
<1>7. Positions' = [Positions EXCEPT ![s] = Positions[s] + Draws[c]]
  BY <1>1, <1>2, <1>3, <1>4 DEF Positions
<1>8. readModel' = [readModel EXCEPT ![s] = {c}] /\ outbox' = Append(outbox, <<s, c>>)
  BY DEF Commit
<1>. QED BY <1>5, <1>6, <1>7, <1>8 DEF Atomic!Handle

LEMMA StutterRefines ==
  ASSUME UNCHANGED <<readModel, outbox>>, SameAnswers
  PROVE  UNCHANGED Atomic!abstractVars
<1>1. States' = States /\ Positions' = Positions
  BY DEF States, Positions, SameAnswers
<1>. QED BY <1>1 DEF Atomic!abstractVars

LEMMA RefinesStep == IInv /\ [Next]_vars => [Atomic!Next]_Atomic!abstractVars
<1> SUFFICES ASSUME IInv, [Next]_vars PROVE [Atomic!Next]_Atomic!abstractVars
  OBVIOUS
<1>1. ASSUME UNCHANGED database PROVE UNCHANGED Atomic!abstractVars
  BY <1>1, StutterRefines DEF database, SameAnswers
<1>2. ASSUME NEW w \in Worker, Commit(w) PROVE Atomic!Next
  BY <1>2, CommitInv, CommitRefines, WorkerKnows DEF Atomic!Next
<1>3. ASSUME NEW w \in Worker, TakeSnapshot(w) PROVE UNCHANGED Atomic!abstractVars
  BY <1>3, TakeSnapshotInv, StutterRefines DEF TakeSnapshot
<1>4. ASSUME NEW w \in Worker, NEW at \in 1 .. MaxLog[Serves[w]] + 1, Truncate(w, at)
      PROVE  UNCHANGED Atomic!abstractVars
  BY <1>4, TruncateInv, StutterRefines DEF Truncate
<1>5. CASE UNCHANGED vars
  BY <1>1, <1>5 DEF vars, database
<1>6. ASSUME NEW w \in Worker,
             \/ Reject(w) \/ \E c \in Command : Prepare(w, c)
             \/ Stage(w) \/ FailAppend(w) \/ RollBack(w) \/ Evolve(w) \/ Resume(w)
             \/ Crash(w)
      PROVE  UNCHANGED database
  BY <1>6 DEF Reject, Prepare, Stage, FailAppend, RollBack, Evolve, Resume, Crash, database
<1>. QED BY <1>1, <1>2, <1>3, <1>4, <1>5, <1>6 DEF Next, Proceed

\* The loop implements atomic commands, for any workers, streams, commands and
\* draws: Commit is the one step that handles a command.
THEOREM Refinement == OneWriter => (Spec => ImplementsAtomicCommands)
<1> SUFFICES ASSUME OneWriter PROVE Spec => ImplementsAtomicCommands
  OBVIOUS
<1>. QED BY RefinesInit, RefinesStep, SpecInv, PTL
     DEF Spec, ImplementsAtomicCommands, Atomic!Spec

-----------------------------------------------------------------------------
(* The other tables.                                                       *)

\* What a queue held for a stream, after each of its jobs.
Jobs(queue, s) ==
  CHOOSE jobs : jobs =
    [n \in 0 .. Len(queue) |->
       IF n = 0 THEN <<>>
       ELSE IF queue[n][1] = s THEN Append(jobs[n - 1], queue[n][2]) ELSE jobs[n - 1]]

LEMMA JobsUnfold ==
  ASSUME NEW queue \in Seq(StreamId \X Command), NEW s
  PROVE  /\ JobsOf(queue, s) = Jobs(queue, s)[Len(queue)]
         /\ \A n \in 0 .. Len(queue) : Jobs(queue, s)[n] =
              IF n = 0 THEN <<>>
              ELSE IF queue[n][1] = s THEN Append(Jobs(queue, s)[n - 1], queue[n][2])
                   ELSE Jobs(queue, s)[n - 1]
<1> DEFINE N == Len(queue)
           D(g) == [n \in 0 .. N |->
                      IF n = 0 THEN <<>>
                      ELSE IF queue[n][1] = s THEN Append(g[n - 1], queue[n][2]) ELSE g[n - 1]]
           step == [i \in Int |-> [x \in Seq(Command) |->
                      IF i \in 1 .. N /\ queue[i][1] = s THEN Append(x, queue[i][2]) ELSE x]]
           jobs == CHOOSE g : g = D(g)
<1>1. N \in Nat /\ N \in Int /\ 0 \in Int /\ <<>> \in Seq(Command)
  OBVIOUS
<1>2. \A i \in 1 .. N : queue[i][2] \in Command
  <2>1. \A i \in 1 .. N : queue[i] \in StreamId \X Command
    OBVIOUS
  <2>. QED BY <2>1
<1>3. step \in [Int -> [Seq(Command) -> Seq(Command)]]
  BY <1>2
<1>4. PICK f \in [0 .. N -> Seq(Command)] : StepsFrom(f, <<>>, step, 0, N)
  <2> HIDE DEF N, step
  <2>. QED BY <1>1, <1>3, IntervalRecursion
<1>5. \A n \in 0 .. N : n # 0 => n - 1 \in 0 .. N /\ n \in Int /\ n \in 1 .. N
  BY <1>1
<1>6. \A n \in 0 .. N : D(f)[n] = f[n]
  <2>1. \A n \in 0 .. N : f[n] = IF n = 0 THEN <<>> ELSE step[n][f[n - 1]]
    <3> HIDE DEF N, step
    <3>. QED BY <1>4 DEF StepsFrom
  <2>2. \A n \in 0 .. N : f[n] \in Seq(Command)
    <3> HIDE DEF N
    <3>. QED BY <1>4
  <2>3. \A n \in 0 .. N : n # 0 => step[n][f[n - 1]] =
          IF queue[n][1] = s THEN Append(f[n - 1], queue[n][2]) ELSE f[n - 1]
    <3> HIDE DEF N
    <3>. QED BY <1>5, <2>2
  <2> HIDE DEF N, step
  <2>. QED BY <2>1, <2>3
<1>7. D(f) = D(D(f))
  <2> HIDE DEF N
  <2>. QED BY <1>5, <1>6
<1>8. jobs = D(jobs)
  <2> HIDE DEF D
  <2>. QED BY <1>7
<1>9. jobs = Jobs(queue, s)
  BY DEF Jobs
<1>10. JobsOf(queue, s) = jobs[N]
  BY DEF JobsOf
<1>11. \A n \in 0 .. N : jobs[n] =
         IF n = 0 THEN <<>>
         ELSE IF queue[n][1] = s THEN Append(jobs[n - 1], queue[n][2]) ELSE jobs[n - 1]
  <2> HIDE DEF jobs, N
  <2>. QED BY <1>8
<1> HIDE DEF jobs
<1>. QED BY <1>9, <1>10, <1>11

\* An empty queue holds no jobs.
LEMMA NoJobs ==
  ASSUME NEW queue \in Seq(StreamId \X Command), NEW s
  PROVE  Len(queue) = 0 => JobsOf(queue, s) = <<>>
<1>1. PICK N, jobs : N = Len(queue) /\ jobs = Jobs(queue, s)
  OBVIOUS
<1>2. /\ JobsOf(queue, s) = jobs[N]
      /\ \A n \in 0 .. N : jobs[n] =
           IF n = 0 THEN <<>>
           ELSE IF queue[n][1] = s THEN Append(jobs[n - 1], queue[n][2]) ELSE jobs[n - 1]
  BY <1>1, JobsUnfold
<1>3. N = 0 => jobs[N] = <<>>
  <2>1. 0 \in 0 .. 0
    OBVIOUS
  <2>. QED BY <1>2, <2>1
<1>. QED BY <1>1, <1>2, <1>3

\* A job enqueued is the last of its stream, and none of another.
LEMMA JobsAppend ==
  ASSUME NEW queue \in Seq(StreamId \X Command), NEW r \in StreamId, NEW c \in Command,
         NEW s
  PROVE  JobsOf(Append(queue, <<r, c>>), s) =
           IF r = s THEN Append(JobsOf(queue, s), c) ELSE JobsOf(queue, s)
<1>1. PICK N, more : N = Len(queue) /\ more = Append(queue, <<r, c>>)
  OBVIOUS
<1>2. /\ more \in Seq(StreamId \X Command) /\ Len(more) = N + 1 /\ N \in Nat
      /\ more[N + 1] = <<r, c>> /\ \A i \in 1 .. N : more[i] = queue[i]
  BY <1>1
<1>3. PICK a, b : a = Jobs(queue, s) /\ b = Jobs(more, s)
  OBVIOUS
<1>4. /\ JobsOf(queue, s) = a[N]
      /\ \A n \in 0 .. N : a[n] =
           IF n = 0 THEN <<>>
           ELSE IF queue[n][1] = s THEN Append(a[n - 1], queue[n][2]) ELSE a[n - 1]
  BY <1>1, <1>3, JobsUnfold
<1>5. /\ JobsOf(more, s) = b[N + 1]
      /\ \A n \in 0 .. N + 1 : b[n] =
           IF n = 0 THEN <<>>
           ELSE IF more[n][1] = s THEN Append(b[n - 1], more[n][2]) ELSE b[n - 1]
  BY <1>2, <1>3, JobsUnfold
<1> DEFINE T == {n \in 0 .. N : a[n] = b[n]}
<1>6. 0 \in T
  BY <1>2, <1>4, <1>5
<1>7. ASSUME NEW n \in 0 .. N - 1, n \in T PROVE n + 1 \in T
  <2>1. /\ n + 1 \in 0 .. N /\ n + 1 \in 0 .. N + 1 /\ n + 1 # 0 /\ n + 1 \in 1 .. N
        /\ (n + 1) - 1 = n
    BY <1>2
  <2>2. more[n + 1] = queue[n + 1] /\ a[n] = b[n]
    BY <1>2, <1>7, <2>1
  <2>3. a[n + 1] = b[n + 1]
    BY <1>4, <1>5, <2>1, <2>2
  <2>. QED BY <2>1, <2>3
<1>8. N \in T
  <2>1. N \in Int /\ 0 \in Int /\ N \in 0 .. N
    BY <1>2
  <2>2. \A n \in 0 .. N : n \in T
    <3> HIDE DEF T
    <3>. QED BY <1>6, <1>7, <2>1, IntervalInduction
  <2>. QED BY <2>1, <2>2
<1>9. b[N + 1] = IF r = s THEN Append(b[N], c) ELSE b[N]
  <2>1. N + 1 \in 0 .. N + 1 /\ N + 1 # 0 /\ (N + 1) - 1 = N
    BY <1>2
  <2>. QED BY <1>2, <1>5, <2>1
<1>. QED BY <1>1, <1>4, <1>5, <1>8, <1>9

\* Each table beside what a stream resumes to.
TableOf(s, events) ==
  /\ JobsOf(outbox, s) = [i \in 1 .. Len(events) |-> events[i].cmd]
  /\ readModel[s] = IF events = <<>> THEN {} ELSE {events[Len(events)].cmd}

LEMMA InitTables == Init => TablesAgree
<1> SUFFICES ASSUME Init, NEW s \in StreamId PROVE TableOf(s, ResumedState(store[s]))
  BY DEF TablesAgree, TableOf
<1>1. ResumedState(store[s]) = <<>>
  BY SoundNew DEF Init
<1>2. outbox = <<>> /\ readModel[s] = {}
  BY DEF Init
<1>3. JobsOf(<<>>, s) = <<>>
  <2>1. PICK queue : queue = <<>>
    OBVIOUS
  <2>2. queue \in Seq(StreamId \X Command) /\ Len(queue) = 0
    BY <2>1
  <2>3. JobsOf(queue, s) = <<>>
    BY <2>2, NoJobs
  <2>. QED BY <2>1, <2>3
<1>4. [i \in 1 .. Len(<<>>) |-> <<>>[i].cmd] = <<>>
  OBVIOUS
<1>5. /\ JobsOf(outbox, s) = [i \in 1 .. Len(ResumedState(store[s])) |->
                               ResumedState(store[s])[i].cmd]
      /\ readModel[s] = {}
  BY <1>1, <1>2, <1>3, <1>4, Zenon
<1>. QED BY <1>1, <1>5 DEF TableOf

LEMMA StepTables ==
  ASSUME IInv, TablesAgree, [Next]_vars
  PROVE  TablesAgree'
<1>1. [Atomic!Next]_Atomic!abstractVars
  BY RefinesStep
<1>2. ASSUME UNCHANGED Atomic!abstractVars PROVE TablesAgree'
  <2>1. UNCHANGED <<States, readModel, outbox>>
    BY <1>2 DEF Atomic!abstractVars
  <2>2. \A s \in StreamId : ResumedState(store'[s]) = ResumedState(store[s])
    BY <2>1 DEF States
  <2>. QED BY <2>1, <2>2 DEF TablesAgree
<1>3. ASSUME NEW r \in StreamId, NEW c \in Command, Atomic!Handle(r, c) PROVE TablesAgree'
  <2>1. PICK e : e = Atomic!Decided(c, States[r], Positions[r])
    OBVIOUS
  <2>2. e.cmd = c
    BY <2>1 DEF Atomic!Decided
  <2>3. /\ States' = [States EXCEPT ![r] = Append(States[r], e)]
        /\ readModel' = [readModel EXCEPT ![r] = {c}] /\ outbox' = Append(outbox, <<r, c>>)
    BY <1>3, <2>1 DEF Atomic!Handle
  <2>4. ASSUME NEW s \in StreamId PROVE TableOf(s, ResumedState(store[s]))'
    <3>1. PICK events, next : events = ResumedState(store[s]) /\ next = ResumedState(store'[s])
      OBVIOUS
    <3>2. /\ JobsOf(outbox, s) = [i \in 1 .. Len(events) |-> events[i].cmd]
          /\ readModel[s] = IF events = <<>> THEN {} ELSE {events[Len(events)].cmd}
          /\ events \in Seq(Event)
      BY <3>1, SoundResumes DEF IInv, TablesAgree
    <3>3. JobsOf(outbox', s) = IF r = s THEN Append(JobsOf(outbox, s), c) ELSE JobsOf(outbox, s)
      <4>1. PICK queue : queue = outbox
        OBVIOUS
      <4>2. queue \in Seq(StreamId \X Command) /\ outbox' = Append(queue, <<r, c>>)
        BY <2>3, <4>1 DEF IInv, TablesType
      <4>. QED BY <4>1, <4>2, JobsAppend
    <3>4. next = IF r = s THEN Append(events, e) ELSE events
      BY <2>3, <3>1 DEF States
    <3>5. CASE r # s
      <4>1. readModel'[s] = readModel[s]
        BY <2>3, <3>5 DEF IInv, TablesType
      <4>. QED BY <3>1, <3>2, <3>3, <3>4, <3>5, <4>1 DEF TableOf
    <3>6. CASE r = s
      <4>1. readModel'[s] = {c}
        BY <2>3, <3>6 DEF IInv, TablesType
      <4>2. e \in Event
        BY <2>1, SoundResumes DEF Atomic!Decided, States, Positions, IInv, Event
      <4>3. /\ Len(next) = Len(events) + 1 /\ next[Len(events) + 1] = e /\ next # <<>>
            /\ Len(events) \in Nat /\ \A i \in 1 .. Len(events) : next[i] = events[i]
        BY <3>2, <3>4, <3>6, <4>2
      <4>4. PICK cmds, more : /\ cmds = [i \in 1 .. Len(events) |-> events[i].cmd]
                              /\ more = [i \in 1 .. Len(next) |-> next[i].cmd]
        OBVIOUS
      <4>5. cmds \in Seq(Command) /\ Len(cmds) = Len(events)
        <5>1. \A i \in 1 .. Len(events) : events[i] \in Event
          BY <3>2
        <5>. QED BY <4>3, <4>4, <5>1 DEF Event
      <4>6. Append(cmds, c) = more
        BY <2>2, <4>3, <4>4, <4>5
      <4>. QED BY <2>2, <3>1, <3>2, <3>3, <3>6, <4>1, <4>3, <4>4, <4>6 DEF TableOf
    <3>. QED BY <3>5, <3>6
  <2>. QED BY <2>4 DEF TablesAgree, TableOf
<1>. QED BY <1>1, <1>2, <1>3 DEF Atomic!Next

\* The read model and the outbox say what the log says, whatever is interrupted: the
\* caller's writes share the transaction of the append.
THEOREM TablesKeepUp == OneWriter => (Spec => []TablesAgree)
<1> SUFFICES ASSUME OneWriter PROVE Spec => []TablesAgree
  OBVIOUS
<1>. QED BY InitTables, StepTables, SpecInv, PTL DEF Spec
=============================================================================
