------------------------------ MODULE UnitOfWork ------------------------------
(***************************************************************************)
(* The persistent loop (ironstate-journal/src/replay.rs) around a journal  *)
(* that enlists in the caller's transaction, as the outbox example drives  *)
(* it: decide, append, write the read model and the outbox in the same     *)
(* transaction, and evolve the aggregate only once it has committed.       *)
(*                                                                         *)
(* A worker is a process that holds one aggregate in memory, with the      *)
(* context its commands draw entropy from.  It may crash between any two   *)
(* steps and resumes from the store.  Between commands it may snapshot and *)
(* truncate its stream.                                                    *)
(*                                                                         *)
(* `execute` is the loop with the transaction resolved at once.            *)
(* A definition introduced as a slip is used by nothing, see JournalStream.*)
(***************************************************************************)
EXTENDS Integers, Sequences

CONSTANTS
  StreamId,
  Worker,
  Serves,    (* The stream each worker's aggregate is an instance of.      *)
  Command,
  Draws,     (* How many entropy words a command consumes.                 *)
  MaxLog     (* Bound on the length of each stream.                        *)

ASSUME ServesAssumption == Serves \in [Worker -> StreamId]
ASSUME DrawsAssumption == Draws \in [Command -> Nat]
ASSUME MaxLogAssumption == MaxLog \in [StreamId -> Nat]

\* What a command decides depends on the command, on the state it is decided on
\* and on the words it draws, which the position they start at stands for.
Event == [cmd : Command, base : Nat, drawn : Nat]

INSTANCE JournalStream WITH DrawPos <- Nat

VARIABLES
  store,         (* The committed streams.                                 *)
  readModel,     (* The rest of the database: the last command each stream *)
  outbox,        (* was projected with, and the jobs that were enqueued.   *)
  phase,         (* How far each worker's unit of work has come.           *)
  unit,          (* What it holds of it: the Prepared and the Pending.     *)
  memory,        (* Its aggregate.                                         *)
  ctx            (* The position of its entropy.                           *)

database == <<store, readModel, outbox>>
worker == <<phase, unit, memory, ctx>>
vars == <<store, readModel, outbox, phase, unit, memory, ctx>>

Phase == {"idle", "prepared", "staged", "committed", "down"}

Unit == [event : Event, entropy_pos : Nat, head_pos : Nat, seq : Nat]

NoUnit == [event |-> <<>>, entropy_pos |-> 0, head_pos |-> 0, seq |-> 0]

TypeOK ==
  /\ store \in [StreamId -> Stream]
  /\ readModel \in [StreamId -> SUBSET Command]
  /\ outbox \in Seq(StreamId \X Command)
  /\ phase \in [Worker -> Phase]
  /\ \A w \in Worker :
       IF phase[w] \in {"idle", "down"} THEN unit[w] = NoUnit ELSE unit[w] \in Unit
  /\ memory \in [Worker -> AggregateState]
  /\ ctx \in [Worker -> Nat]

Init ==
  /\ store = [s \in StreamId |-> NewStream]
  /\ readModel = [s \in StreamId |-> {}]
  /\ outbox = <<>>
  /\ phase = [w \in Worker |-> "idle"]
  /\ unit = [w \in Worker |-> NoUnit]
  /\ memory = [w \in Worker |-> <<>>]
  /\ ctx = [w \in Worker |-> 0]

-----------------------------------------------------------------------------

\* No two workers serve the same stream.  The loop is written for that, and
\* nothing in it enforces it: an append carries no expected head.
OneWriter == \A w, v \in Worker : Serves[w] = Serves[v] => w = v

Log(w) == store[Serves[w]]

\* Slip: the position of the latest snapshot, not of the head.
HeadPosOfSnapshot(st) == LatestSnapshot(st).entropy_pos

\* The position recorded at the head, as committed: an open transaction's own
\* appends are not seen.
HeadPos(st) == IF HeadSeq(st) = 0 THEN 0 ELSE EntropyPos(st, HeadSeq(st))

\* Slip: the prepared command is not let go of.
SettleKeepingUnit(w, p) ==
  /\ phase' = [phase EXCEPT ![w] = "idle"]
  /\ ctx' = [ctx EXCEPT ![w] = p]
  /\ UNCHANGED unit

\* The worker is back between commands, its entropy at p.
Settle(w, p) ==
  /\ phase' = [phase EXCEPT ![w] = "idle"]
  /\ unit' = [unit EXCEPT ![w] = NoUnit]
  /\ ctx' = [ctx EXCEPT ![w] = p]

\* The command draws and is then refused, by the aggregate's structure or by
\* `decide`.
Reject(w) ==
  /\ phase[w] = "idle"
  /\ Settle(w, HeadPos(Log(w)))
  /\ UNCHANGED <<database, memory>>

\* The command draws and decides.  The aggregate is not evolved.
Prepare(w, c) ==
  /\ phase[w] = "idle"
  /\ phase' = [phase EXCEPT ![w] = "prepared"]
  /\ unit' = [unit EXCEPT ![w] =
       [event       |-> [cmd |-> c, base |-> Len(memory[w]), drawn |-> ctx[w]],
        entropy_pos |-> ctx[w] + Draws[c],
        head_pos    |-> HeadPos(Log(w)),
        seq         |-> 0]]
  /\ ctx' = [ctx EXCEPT ![w] = @ + Draws[c]]
  /\ UNCHANGED <<database, memory>>

\* Slip: the aggregate is evolved before the transaction resolves.
StageEvolving(w) ==
  /\ phase[w] = "prepared"
  /\ HeadSeq(Log(w)) < MaxLog[Serves[w]]
  /\ phase' = [phase EXCEPT ![w] = "staged"]
  /\ unit' = [unit EXCEPT ![w].seq = HeadSeq(Log(w)) + 1]
  /\ memory' = [memory EXCEPT ![w] = Append(@, unit[w].event)]
  /\ UNCHANGED <<database, ctx>>

\* Slip: the job is published and not enlisted in the transaction.
StagePublishing(w) ==
  /\ phase[w] = "prepared"
  /\ HeadSeq(Log(w)) < MaxLog[Serves[w]]
  /\ phase' = [phase EXCEPT ![w] = "staged"]
  /\ unit' = [unit EXCEPT ![w].seq = HeadSeq(Log(w)) + 1]
  /\ outbox' = Append(outbox, <<Serves[w], unit[w].event.cmd>>)
  /\ UNCHANGED <<store, readModel, memory, ctx>>

\* Slip: the record being staged is not counted.
StageAtHead(w) ==
  /\ phase[w] = "prepared"
  /\ HeadSeq(Log(w)) < MaxLog[Serves[w]]
  /\ phase' = [phase EXCEPT ![w] = "staged"]
  /\ unit' = [unit EXCEPT ![w].seq = HeadSeq(Log(w))]
  /\ UNCHANGED <<database, memory, ctx>>

\* The append joins the transaction, and so do the caller's other writes.
Stage(w) ==
  /\ phase[w] = "prepared"
  /\ HeadSeq(Log(w)) < MaxLog[Serves[w]]
  /\ phase' = [phase EXCEPT ![w] = "staged"]
  /\ unit' = [unit EXCEPT ![w].seq = HeadSeq(Log(w)) + 1]
  /\ UNCHANGED <<database, memory, ctx>>

\* The append fails.
FailAppend(w) ==
  /\ phase[w] = "prepared"
  /\ Settle(w, unit[w].head_pos)
  /\ UNCHANGED <<database, memory>>

\* The transaction commits: everything it staged becomes visible at once.
Commit(w) ==
  LET s == Serves[w]
      c == unit[w].event.cmd
  IN /\ phase[w] = "staged"
     /\ phase' = [phase EXCEPT ![w] = "committed"]
     /\ store' = [store EXCEPT ![s] =
                    AppendRecord(@, unit[w].event, unit[w].entropy_pos)]
     /\ readModel' = [readModel EXCEPT ![s] = {c}]
     /\ outbox' = Append(outbox, <<s, c>>)
     /\ UNCHANGED <<unit, memory, ctx>>

\* Slip: the transaction is dropped and the pending append forgotten.
RollBackOnly(w) ==
  /\ phase[w] = "staged"
  /\ Settle(w, ctx[w])
  /\ UNCHANGED <<database, memory>>

\* The transaction is dropped and the pending append aborted.
RollBack(w) ==
  /\ phase[w] = "staged"
  /\ Settle(w, unit[w].head_pos)
  /\ UNCHANGED <<database, memory>>

\* Slip: the pending append is forgotten.
EvolveNothing(w) ==
  /\ phase[w] = "committed"
  /\ Settle(w, ctx[w])
  /\ UNCHANGED <<database, memory>>

\* The pending append is committed to the aggregate.
Evolve(w) ==
  /\ phase[w] = "committed"
  /\ Settle(w, ctx[w])
  /\ memory' = [memory EXCEPT ![w] = Append(@, unit[w].event)]
  /\ UNCHANGED database

\* What the process held is gone, and so is its open transaction.
Crash(w) ==
  /\ phase[w] # "down"
  /\ phase' = [phase EXCEPT ![w] = "down"]
  /\ unit' = [unit EXCEPT ![w] = NoUnit]
  /\ memory' = [memory EXCEPT ![w] = <<>>]
  /\ ctx' = [ctx EXCEPT ![w] = 0]
  /\ UNCHANGED database

Resume(w) ==
  /\ phase[w] = "down"
  /\ Resumable(Log(w))
  /\ Settle(w, ResumedPos(Log(w)))
  /\ memory' = [memory EXCEPT ![w] = ResumedState(Log(w))]
  /\ UNCHANGED database

\* The worker snapshots what it holds, at the head.
TakeSnapshot(w) ==
  /\ phase[w] = "idle"
  /\ store' = [store EXCEPT ![Serves[w]] =
       PushSnapshot(@, [at |-> HeadSeq(@), state |-> memory[w],
                        entropy_pos |-> ctx[w]])]
  /\ UNCHANGED <<readModel, outbox, worker>>

Truncate(w, at) ==
  /\ phase[w] = "idle"
  /\ HeadSeq(Log(w)) > 0
  /\ TruncateOk(Log(w), at)
  /\ store' = [store EXCEPT ![Serves[w]] = TruncateBefore(@, at)]
  /\ UNCHANGED <<readModel, outbox, worker>>

\* The steps of a unit of work that was begun, and of a restart.
Proceed(w) ==
  \/ Stage(w) \/ FailAppend(w)
  \/ Commit(w) \/ RollBack(w)
  \/ Evolve(w)
  \/ Resume(w)

Next ==
  \E w \in Worker :
    \/ Reject(w)
    \/ \E c \in Command : Prepare(w, c)
    \/ Proceed(w)
    \/ Crash(w)
    \/ TakeSnapshot(w)
    \/ \E at \in 1 .. MaxLog[Serves[w]] + 1 : Truncate(w, at)

Spec == Init /\ [][Next]_vars

\* A process goes on with what it began, and is restarted after a crash.  No
\* command need ever be issued, accepted or committed.
FairSpec == Spec /\ \A w \in Worker : WF_vars(Proceed(w))

-----------------------------------------------------------------------------
(* Safety.                                                                 *)

\* Between commands the aggregate is what the log says, and its entropy stands
\* where the log left it: after a command, a refusal, a failed append, a
\* rollback, or a crash at any step of any of these.  (docs/guide.md: "so the
\* log and memory never disagree, even if the process dies mid-step".)
LogAndMemoryAgree ==
  \A w \in Worker :
    phase[w] = "idle" =>
      /\ Resumable(Log(w))
      /\ memory[w] = ResumedState(Log(w))
      /\ ctx[w] = ResumedPos(Log(w))

\* Until the transaction commits the aggregate is level with the log, and from
\* then until `Pending::commit` it lags by exactly the events it holds: it is
\* never ahead of what is durable.  (replay.rs, execute_in.)
AggregateNeverAhead ==
  \A w \in Worker :
    LET durable == ResumedState(Log(w))
    IN CASE phase[w] \in {"prepared", "staged"} -> memory[w] = durable
         [] phase[w] = "committed" -> Append(memory[w], unit[w].event) = durable
         [] OTHER -> TRUE

\* The sequence `execute_in` answered with, before the transaction resolved, is
\* the one its events landed at.
SeqIsWhereItLanded ==
  \A w \in Worker :
    phase[w] = "committed" =>
      /\ Retained(Log(w), unit[w].seq)
      /\ RecordAt(Log(w), unit[w].seq).events = unit[w].event

\* The commands a queue holds jobs of, for one stream, in order.
JobsOf(queue, s) ==
  LET jobs[n \in 0 .. Len(queue)] ==
        IF n = 0 THEN <<>>
        ELSE IF queue[n][1] = s THEN Append(jobs[n - 1], queue[n][2]) ELSE jobs[n - 1]
  IN jobs[Len(queue)]

\* The database agrees with itself: the read model shows the last command of
\* the log, and the outbox holds one job for each record.
TablesAgree ==
  \A s \in StreamId :
    LET events == ResumedState(store[s])
    IN /\ JobsOf(outbox, s) = [i \in 1 .. Len(events) |-> events[i].cmd]
       /\ readModel[s] = IF events = <<>> THEN {} ELSE {events[Len(events)].cmd}

-----------------------------------------------------------------------------
(* Liveness.                                                               *)

\* What is committed reaches the aggregate in the end, whenever the process
\* crashes.
AggregateCatchesUp ==
  \A w \in Worker : \A n \in 1 .. MaxLog[Serves[w]] :
    HeadSeq(Log(w)) >= n ~> Len(memory[w]) >= n

-----------------------------------------------------------------------------
(* Refinement.                                                             *)

States == [s \in StreamId |-> ResumedState(store[s])]

Positions == [s \in StreamId |-> ResumedPos(store[s])]

Atomic == INSTANCE AtomicCommands WITH state <- States, pos <- Positions

\* However it is interrupted, the loop handles commands one at a time, each
\* decided on the state the ones before it left and with the entropy that
\* follows theirs, and its caller's writes move with it.
ImplementsAtomicCommands == Atomic!Spec

-----------------------------------------------------------------------------
(* What the documentation says and the runs refute.                        *)

\* replay.rs: the sequence a Pending holds is "the sequence the append landed at,
\* valid once the transaction commits": no other unit of work is found there.
\* Said of all workers, those of one stream included.
SeqIsNobodyElses ==
  \A w \in Worker :
    phase[w] = "committed" /\ Retained(Log(w), unit[w].seq) =>
      RecordAt(Log(w), unit[w].seq).events = unit[w].event
=============================================================================
