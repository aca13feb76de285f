----------------------------- MODULE AsyncStore -----------------------------
(***************************************************************************)
(* The async-store example: the persistent loop written by hand around a   *)
(* store whose every operation is awaited, and the runtime that polls it.  *)
(*                                                                         *)
(* Each task is a thread in `block_on`.  An operation of the store first   *)
(* suspends (yield_now): the poll that reaches it asks to be woken and     *)
(* gives up, the thread parks, and the next poll does the access and runs  *)
(* on to the next await.  So the calls proceed by one access a step, and   *)
(* between two steps anything else may happen: another task's step, the    *)
(* future being dropped, the process dying.                                *)
(*                                                                         *)
(* The owner executes commands; the other tasks only resume, as a process  *)
(* that takes over or a reader would.  What keeps the accesses of a call   *)
(* together is its borrow of the store, held until it returns or is        *)
(* dropped: `&` for resume_async and ctx_at_head, `&mut` for               *)
(* execute_async.                                                          *)
(* A definition introduced as a slip is used by nothing, see JournalStream.*)
(***************************************************************************)
EXTENDS StoreLog, FiniteSets

CONSTANTS
  Reader,     (* Tasks that only resume.                                   *)
  owner,      (* The task that executes commands.                          *)
  stream,     (* The stream the store serves.                              *)
  Command,
  seal,       (* The command that ends the tally.                          *)
  Draws,      (* How many entropy words a command consumes.                *)
  MaxLog      (* Bound on the length of the log.                           *)

ASSUME OwnerAssumption == owner \notin Reader
ASSUME CommandAssumption == seal \in Command /\ Draws \in [Command -> Nat]
ASSUME MaxLogAssumption == MaxLog \in Nat

Task == Reader \union {owner}

VARIABLES
  log,         (* The authoritative store.                                 *)
  fail_next_append,
  at,          (* The await each task is at, or "idle", or "down".         *)
  thread,      (* Whether its thread polls or is parked, its unpark token, *)
               (* and whether the await it is at has yielded already.      *)
  local,       (* What its call has read so far.                           *)
  tally,       (* The owner's aggregate.                                   *)
  ctx,         (* The owner's context: a sequence of at most one position. *)
  resumed      (* What each reader's last resume returned, <<>> or one.    *)

vars == <<log, fail_next_append, at, thread, local, tally, ctx, resumed>>

\* The accesses of each call, in the order they are awaited.
CtxCall == {"ctx.head", "ctx.pos"}
ExecCall == {"exec.head", "exec.pos", "exec.append"}
ResumeCall == {"resume.snapshot", "resume.events", "resume.head", "resume.pos"}

Await == CtxCall \union ExecCall \union ResumeCall

Event == [cmd : Command, base : Nat, drawn : Nat]

TypeOK ==
  /\ log.records \in Seq([events : Event, entropy_pos : Nat])
  /\ fail_next_append \in BOOLEAN
  /\ at \in [Task -> Await \union {"idle", "down"}]
  /\ \A t \in Reader : at[t] \in ResumeCall \union {"idle"}
  /\ thread \in [Task -> [polling : BOOLEAN, token : BOOLEAN, yielded : BOOLEAN]]
  /\ tally \in Seq(Event)
  /\ Len(ctx) <= 1

NoThread == [polling |-> TRUE, token |-> FALSE, yielded |-> FALSE]

Init ==
  /\ log = NewLog
  /\ fail_next_append = FALSE
  /\ at = [t \in Task |-> "idle"]
  /\ thread = [t \in Task |-> NoThread]
  /\ local = [t \in Task |-> <<>>]
  /\ tally = <<>>
  /\ ctx = <<>>
  /\ resumed = [t \in Reader |-> <<>>]

-----------------------------------------------------------------------------
(* The runtime.                                                            *)

\* Slip: the await gives up without asking to be woken.
YieldWithoutWake(t) ==
  /\ at[t] \in Await
  /\ thread[t].polling /\ ~thread[t].yielded
  /\ thread' = [thread EXCEPT ![t] =
                  [polling |-> FALSE, token |-> @.token, yielded |-> TRUE]]
  /\ UNCHANGED <<log, fail_next_append, at, local, tally, ctx, resumed>>

\* The first poll of an await: the waker is called before Pending is returned,
\* so its token is there when the thread parks.
Yield(t) ==
  /\ at[t] \in Await
  /\ thread[t].polling /\ ~thread[t].yielded
  /\ thread' = [thread EXCEPT ![t] = [polling |-> FALSE, token |-> TRUE, yielded |-> TRUE]]
  /\ UNCHANGED <<log, fail_next_append, at, local, tally, ctx, resumed>>

\* park returns at once when there is a token, and takes it.
Unpark(t) ==
  /\ ~thread[t].polling /\ thread[t].token
  /\ thread' = [thread EXCEPT ![t].polling = TRUE, ![t].token = FALSE]
  /\ UNCHANGED <<log, fail_next_append, at, local, tally, ctx, resumed>>

\* The poll that finds the await ready, on to the next one.
Ready(t, here, there) ==
  /\ at[t] = here
  /\ thread[t].polling /\ thread[t].yielded
  /\ at' = [at EXCEPT ![t] = there]
  /\ thread' = [thread EXCEPT ![t].yielded = FALSE]

\* A call is made, where the borrows that are out allow it.
Begin(t, first) ==
  /\ at[t] = "idle"
  /\ at' = [at EXCEPT ![t] = first]
  /\ UNCHANGED <<log, fail_next_append, thread, local, tally, ctx, resumed>>

-----------------------------------------------------------------------------
(* ctx_at_head.                                                            *)

BeginCtx == Begin(owner, "ctx.head")

\* The position of an empty log is zero and needs no second access.
CtxHead ==
  LET head == LogHead(log)
  IN /\ Ready(owner, "ctx.head", IF head = 0 THEN "idle" ELSE "ctx.pos")
     /\ local' = [local EXCEPT ![owner] = IF head = 0 THEN <<>> ELSE <<head>>]
     /\ ctx' = IF head = 0 THEN <<0>> ELSE ctx
     /\ UNCHANGED <<log, fail_next_append, tally, resumed>>

CtxPos ==
  /\ Ready(owner, "ctx.pos", "idle")
  /\ ctx' = <<LogEntropyPos(log, local[owner][1])>>
  /\ local' = [local EXCEPT ![owner] = <<>>]
  /\ UNCHANGED <<log, fail_next_append, tally, resumed>>

-----------------------------------------------------------------------------
(* execute_async.                                                          *)

Sealed(state) == \E i \in DOMAIN state : state[i].cmd = seal

Borrowed == \E t \in Reader : at[t] \in Await

\* Slip: the store is not borrowed mutably.
BeginExecShared(c) ==
  /\ ctx # <<>>
  /\ Len(log.records) < MaxLog
  /\ at[owner] = "idle"
  /\ at' = [at EXCEPT ![owner] = "exec.head"]
  /\ local' = [local EXCEPT ![owner] = <<c>>]
  /\ UNCHANGED <<log, fail_next_append, thread, tally, ctx, resumed>>

BeginExec(c) ==
  /\ ctx # <<>>
  /\ Len(log.records) < MaxLog
  /\ ~Borrowed
  /\ at[owner] = "idle"
  /\ at' = [at EXCEPT ![owner] = "exec.head"]
  /\ local' = [local EXCEPT ![owner] = <<c>>]
  /\ UNCHANGED <<log, fail_next_append, thread, tally, ctx, resumed>>

\* What decide makes of a command, on the aggregate and with the context.
Decided(c) == [cmd |-> c, base |-> Len(tally), drawn |-> ctx[1]]

\* `prepare`, once the head's position is known: the command is refused, with
\* the entropy back at the head, or draws and goes on to the append.
PreparedFrom(here, head) ==
  LET c == local[owner][1]
  IN \/ /\ Ready(owner, here, "idle")
        /\ ctx' = <<head>>
        /\ local' = [local EXCEPT ![owner] = <<>>]
     \/ /\ ~Sealed(tally)
        /\ Ready(owner, here, "exec.append")
        /\ ctx' = <<ctx[1] + Draws[c]>>
        /\ local' = [local EXCEPT ![owner] =
                       <<[event |-> Decided(c), entropy_pos |-> ctx[1] + Draws[c],
                          head_pos |-> head]>>]

ExecHead ==
  LET head == LogHead(log)
  IN /\ IF head = 0
        THEN PreparedFrom("exec.head", 0)
        ELSE /\ Ready(owner, "exec.head", "exec.pos")
             /\ local' = [local EXCEPT ![owner] = Append(@, head)]
             /\ UNCHANGED ctx
     /\ UNCHANGED <<log, fail_next_append, tally, resumed>>

ExecPos ==
  /\ PreparedFrom("exec.pos", LogEntropyPos(log, local[owner][2]))
  /\ UNCHANGED <<log, fail_next_append, tally, resumed>>

\* Durable: the record is written and the aggregate evolves, in one poll.
ExecAppended ==
  LET prepared == local[owner][1]
  IN /\ ~fail_next_append
     /\ Ready(owner, "exec.append", "idle")
     /\ log' = LogAppend(log, prepared.event, prepared.entropy_pos)
     /\ tally' = Append(tally, prepared.event)
     /\ local' = [local EXCEPT ![owner] = <<>>]
     /\ UNCHANGED <<fail_next_append, ctx, resumed>>

\* Slip: the write failed and the prepared command is not aborted.
ExecFailedNoAbort ==
  /\ fail_next_append
  /\ Ready(owner, "exec.append", "idle")
  /\ fail_next_append' = FALSE
  /\ local' = [local EXCEPT ![owner] = <<>>]
  /\ UNCHANGED <<log, tally, ctx, resumed>>

\* Slip: the write failed and the prepared command is committed.
ExecFailedCommitting ==
  /\ fail_next_append
  /\ Ready(owner, "exec.append", "idle")
  /\ fail_next_append' = FALSE
  /\ tally' = Append(tally, local[owner][1].event)
  /\ local' = [local EXCEPT ![owner] = <<>>]
  /\ UNCHANGED <<log, ctx, resumed>>

\* The write failed: the entropy goes back to the head.
ExecFailed ==
  /\ fail_next_append
  /\ Ready(owner, "exec.append", "idle")
  /\ fail_next_append' = FALSE
  /\ ctx' = <<local[owner][1].head_pos>>
  /\ local' = [local EXCEPT ![owner] = <<>>]
  /\ UNCHANGED <<log, tally, resumed>>

ArmAppendFailure ==
  /\ at[owner] = "idle"
  /\ ~Borrowed
  /\ fail_next_append' = TRUE
  /\ UNCHANGED <<log, at, thread, local, tally, ctx, resumed>>

-----------------------------------------------------------------------------
(* resume_async.                                                           *)

BeginResume(t) ==
  /\ t = owner \/ at[owner] \notin ExecCall
  /\ \/ t \in Reader /\ at[t] = "idle"
     \/ t = owner /\ at[t] = "down"
  /\ at' = [at EXCEPT ![t] = "resume.snapshot"]
  /\ UNCHANGED <<log, fail_next_append, thread, local, tally, ctx, resumed>>

ResumeSnapshot(t) ==
  /\ Ready(t, "resume.snapshot", "resume.events")
  /\ local' = [local EXCEPT ![t] = <<LogLatestSnapshot(log, <<>>)>>]
  /\ UNCHANGED <<log, fail_next_append, tally, ctx, resumed>>

ReplayOf(base, records) ==
  base.state \o [i \in 1 .. Len(records) |-> records[i].events]

ResumeEvents(t) ==
  LET base == local[t][1]
  IN /\ Ready(t, "resume.events", "resume.head")
     /\ local' = [local EXCEPT ![t] =
          <<[state |-> ReplayOf(base, LogEventsSince(log, base.at)),
             pos   |-> base.entropy_pos]>>]
     /\ UNCHANGED <<log, fail_next_append, tally, ctx, resumed>>

\* The owner goes on with what it resumed; a reader only has it.
Resumed(t, here, state, pos) ==
  /\ Ready(t, here, "idle")
  /\ local' = [local EXCEPT ![t] = <<>>]
  /\ IF t = owner
     THEN tally' = state /\ ctx' = <<pos>> /\ UNCHANGED resumed
     ELSE /\ resumed' = [resumed EXCEPT ![t] =
               <<[state |-> state, pos |-> pos, head |-> LogHead(log)]>>]
          /\ UNCHANGED <<tally, ctx>>

ResumeHead(t) ==
  LET head == LogHead(log)
  IN /\ IF head = 0
        THEN Resumed(t, "resume.head", local[t][1].state, local[t][1].pos)
        ELSE /\ Ready(t, "resume.head", "resume.pos")
             /\ local' = [local EXCEPT ![t] = Append(@, head)]
             /\ UNCHANGED <<tally, ctx, resumed>>
     /\ UNCHANGED <<log, fail_next_append>>

ResumePos(t) ==
  /\ Resumed(t, "resume.pos", local[t][1].state, LogEntropyPos(log, local[t][2]))
  /\ UNCHANGED <<log, fail_next_append>>

-----------------------------------------------------------------------------
(* Faults.                                                                 *)

\* Slip: the caller goes on with the context a dropped call had drawn from.
DropKeepingCtx(t) ==
  /\ at[t] \in Await
  /\ at' = [at EXCEPT ![t] = IF t = owner /\ at[t] \in ResumeCall THEN "down" ELSE "idle"]
  /\ thread' = [thread EXCEPT ![t] = NoThread]
  /\ local' = [local EXCEPT ![t] = <<>>]
  /\ UNCHANGED <<log, fail_next_append, tally, ctx, resumed>>

\* Slip: whoever was resuming is taken to be without an aggregate.
DropAnyResume(t) ==
  /\ at[t] \in Await
  /\ at' = [at EXCEPT ![t] = IF at[t] \in ResumeCall THEN "down" ELSE "idle"]
  /\ thread' = [thread EXCEPT ![t] = NoThread]
  /\ local' = [local EXCEPT ![t] = <<>>]
  /\ ctx' = IF t = owner THEN <<>> ELSE ctx
  /\ UNCHANGED <<log, fail_next_append, tally, resumed>>

\* The future is dropped at an await, as a timeout does it.  Neither commit nor
\* abort runs.  The caller lets go of the context too: what the call drew from
\* it was not given back, and ctx_at_head makes another.
DropFuture(t) ==
  /\ at[t] \in Await
  /\ at' = [at EXCEPT ![t] = IF t = owner /\ at[t] \in ResumeCall THEN "down" ELSE "idle"]
  /\ thread' = [thread EXCEPT ![t] = NoThread]
  /\ local' = [local EXCEPT ![t] = <<>>]
  /\ ctx' = IF t = owner THEN <<>> ELSE ctx
  /\ UNCHANGED <<log, fail_next_append, tally, resumed>>

\* The process dies, at an await or between calls, and the store's connection
\* with it.
Crash ==
  /\ at' = [t \in Task |-> IF t = owner THEN "down" ELSE "idle"]
  /\ thread' = [t \in Task |-> NoThread]
  /\ local' = [t \in Task |-> <<>>]
  /\ fail_next_append' = FALSE
  /\ tally' = <<>>
  /\ ctx' = <<>>
  /\ resumed' = [t \in Reader |-> <<>>]
  /\ UNCHANGED log

-----------------------------------------------------------------------------

\* What a thread does of its own accord.
Proceed(t) ==
  \/ Yield(t)
  \/ Unpark(t)
  \/ t = owner /\ (CtxHead \/ CtxPos \/ ExecHead \/ ExecPos \/ ExecAppended \/ ExecFailed)
  \/ ResumeSnapshot(t) \/ ResumeEvents(t) \/ ResumeHead(t) \/ ResumePos(t)

Next ==
  \/ BeginCtx
  \/ \E c \in Command : BeginExec(c)
  \/ ArmAppendFailure
  \/ Crash
  \/ \E t \in Task : BeginResume(t) \/ Proceed(t) \/ DropFuture(t)

Spec == Init /\ [][Next]_vars

\* The operating system runs every thread that is not parked, and one that is
\* parked with a token is unparked.  No call need ever be made.
FairSpec == Spec /\ \A t \in Task : WF_vars(Proceed(t))

-----------------------------------------------------------------------------
(* Properties.                                                             *)

Events(records) == [i \in 1 .. Len(records) |-> records[i].events]

HeadPos == IF LogHead(log) = 0 THEN 0 ELSE LogEntropyPos(log, LogHead(log))

\* At every await, and so wherever a call can be dropped or the process can
\* die, the owner's aggregate is what the log says: no await lies between the
\* write and `commit`.
LogAndTallyAgree ==
  at[owner] \notin ResumeCall \union {"down"} => tally = Events(log.records)

\* Between calls a context stands at the head of the log, so a failed write or
\* a refusal has given back what it drew, as the demo asserts of the store, the
\* state and the entropy.  (async-store/src/main.rs:599-609.)
ContextStandsAtHead == at[owner] \in {"idle"} \union CtxCall /\ ctx # <<>> => ctx[1] = HeadPos

\* A resume that returned gave the state and the position of one and the same
\* head, although it read them in four accesses.
ResumeReadsOneLog ==
  \A t \in Reader : resumed[t] # <<>> =>
    LET r == resumed[t][1]
    IN /\ r.state = Events(SubSeq(log.records, 1, r.head))
       /\ r.pos = IF r.head = 0 THEN 0 ELSE log.records[r.head].entropy_pos

\* Every call returns, unless it is dropped or the process dies: no thread is
\* parked for ever.
EveryCallReturns ==
  \A t \in Task : at[t] \in Await ~> at[t] \notin Await

-----------------------------------------------------------------------------
(* Refinement: the commands happen one at a time or not at all.            *)

States == [s \in {stream} |-> Events(log.records)]

Positions == [s \in {stream} |-> HeadPos]

Commands == [i \in 1 .. LogHead(log) |-> <<stream, log.records[i].events.cmd>>]

LastCommand ==
  [s \in {stream} |-> IF Commands = <<>> THEN {} ELSE {Commands[Len(Commands)][2]}]

Atomic == INSTANCE AtomicCommands WITH
  StreamId <- {stream}, state <- States, pos <- Positions,
  readModel <- LastCommand, outbox <- Commands

\* However calls are dropped and processes die, each record was decided on the
\* state all the ones before it left, with the words that follow theirs: none is
\* drawn twice by what is durable and none is skipped.
ImplementsAtomicCommands == Atomic!Spec
=============================================================================
