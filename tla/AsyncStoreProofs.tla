-------------------------- MODULE AsyncStoreProofs --------------------------
(***************************************************************************)
(* Whatever is dropped and whatever dies, at whichever await: the owner's  *)
(* aggregate is what the log says, a context stands at its head, every     *)
(* resume reads one log, and the store handles commands one at a time.     *)
(*                                                                         *)
(* The invariant says what each call has read when it is at each of its    *)
(* awaits.  It is kept because the log only ever changes in ExecAppended,  *)
(* and a call that has read something then holds a borrow that excludes    *)
(* execute_async (NobodyElseReads).                                        *)
(***************************************************************************)
EXTENDS AsyncStore, TLAPS

LogRecord == [events : Event, entropy_pos : Nat]

\* The log of a store that is never given a snapshot.
LogOK == log \in [records : Seq(LogRecord), snapshots : {<<>>}]

LocalOK == local = [t \in Task |-> local[t]]

\* What a call of the owner has read when it is at an await.
OwnerReads ==
  /\ at[owner] = "ctx.pos" => LogHead(log) > 0 /\ local[owner] = <<LogHead(log)>>
  /\ at[owner] = "exec.head" => \E c \in Command : local[owner] = <<c>>
  /\ at[owner] = "exec.pos" =>
       LogHead(log) > 0 /\ \E c \in Command : local[owner] = <<c, LogHead(log)>>
  /\ at[owner] = "exec.append" =>
       \E c \in Command : local[owner] =
         <<[event |-> [cmd |-> c, base |-> Len(tally), drawn |-> HeadPos],
            entropy_pos |-> HeadPos + Draws[c], head_pos |-> HeadPos]>>

\* What a resume has read when it is at an await.
ResumeReads(t) ==
  /\ at[t] = "resume.events" => local[t] = <<GenesisSnapshot(<<>>)>>
  /\ at[t] = "resume.head" => local[t] = <<[state |-> Events(log.records), pos |-> 0]>>
  /\ at[t] = "resume.pos" =>
       /\ LogHead(log) > 0
       /\ local[t] = <<[state |-> Events(log.records), pos |-> 0], LogHead(log)>>

NobodyElseReads ==
  at[owner] \in ExecCall => \A t \in Reader : at[t] = "idle"

\* The context a command draws from stands at the head until it has drawn, and
\* then where its record will say.
ContextOK ==
  /\ ctx \in Seq(Nat)
  /\ at[owner] \in ExecCall => ctx # <<>>
  /\ at[owner] \in {"idle", "exec.head", "exec.pos"} \union CtxCall /\ ctx # <<>> =>
       ctx[1] = HeadPos
  /\ at[owner] = "exec.append" => ctx[1] = local[owner][1].entropy_pos

ResumedOK ==
  /\ resumed = [t \in Reader |-> resumed[t]]
  /\ \A t \in Reader : resumed[t] # <<>> => resumed[t][1].head \in 0 .. LogHead(log)

IInv ==
  /\ TypeOK
  /\ LogOK /\ LocalOK
  /\ OwnerReads
  /\ \A t \in Task : ResumeReads(t)
  /\ NobodyElseReads
  /\ LogAndTallyAgree
  /\ ContextOK
  /\ ResumedOK /\ ResumeReadsOneLog

\* Two sequences with the same elements are the same.
LEMMA SeqEqual ==
  ASSUME NEW S, NEW f \in Seq(S), NEW g \in Seq(S), Len(f) = Len(g),
         \A i \in 1 .. Len(f) : f[i] = g[i]
  PROVE  f = g
OBVIOUS

LEMMA OneNat ==
  ASSUME NEW f \in Seq(Nat), f # <<>>, Len(f) <= 1
  PROVE  f = <<f[1]>>
<1>1. Len(f) \in Nat /\ Len(f) # 0
  OBVIOUS
<1>2. Len(f) = 1
  <2>1. \A n \in Nat : n # 0 /\ n <= 1 => n = 1
    OBVIOUS
  <2>. QED BY <1>1, <2>1
<1>3. f[1] \in Nat
  BY <1>2
<1>4. <<f[1]>> \in Seq(Nat) /\ Len(<<f[1]>>) = 1 /\ <<f[1]>>[1] = f[1]
  BY <1>3
<1>. QED BY <1>2, <1>4, SeqEqual

LEMMA AppendToOne ==
  ASSUME NEW a, NEW b
  PROVE  Append(<<a>>, b) = <<a, b>>
<1> DEFINE S == {a, b}
           f == Append(<<a>>, b)
           g == <<a, b>>
<1>1. <<a>> \in Seq(S) /\ Len(<<a>>) = 1 /\ b \in S
  OBVIOUS
<1>2. f \in Seq(S) /\ Len(f) = 2 /\ f[1] = a /\ f[2] = b
  BY <1>1
<1>3. g \in Seq(S) /\ Len(g) = 2 /\ g[1] = a /\ g[2] = b
  OBVIOUS
<1>4. \A i \in 1 .. Len(f) : f[i] = g[i]
  BY <1>2, <1>3
<1>. QED BY <1>2, <1>3, <1>4, SeqEqual

\* What a sequence is.
LEMMA SeqDef ==
  ASSUME NEW S, NEW n \in Nat, NEW f \in [1 .. n -> S]
  PROVE  f \in Seq(S) /\ Len(f) = n
OBVIOUS

-----------------------------------------------------------------------------
(* The log.                                                                *)

LEMMA EventsType ==
  ASSUME NEW R \in Seq(LogRecord)
  PROVE  /\ Events(R) \in Seq(Event)
         /\ Len(Events(R)) = Len(R)
         /\ \A i \in 1 .. Len(R) : Events(R)[i] = R[i].events
<1>1. ASSUME NEW i \in 1 .. Len(R) PROVE R[i].events \in Event
  <2>1. R[i] \in LogRecord
    OBVIOUS
  <2>. QED BY <2>1 DEF LogRecord
<1>2. Events(R) \in [1 .. Len(R) -> Event]
  BY <1>1 DEF Events
<1>3. Len(R) \in Nat
  OBVIOUS
<1>4. Events(R) \in Seq(Event)
  BY <1>2, <1>3, SeqDef, SMT
<1>. QED BY <1>2, <1>3, <1>4 DEF Events

LEMMA EventsAppend ==
  ASSUME NEW R \in Seq(LogRecord), NEW r \in LogRecord
  PROVE  Events(Append(R, r)) = Append(Events(R), r.events)
<1> DEFINE S == Append(R, r)
           E == Events(R)
<1>1. S \in Seq(LogRecord) /\ Len(S) = Len(R) + 1
  OBVIOUS
<1>2. Events(S) \in Seq(Event) /\ Len(Events(S)) = Len(R) + 1
  BY <1>1, EventsType
<1>3. E \in Seq(Event) /\ Len(E) = Len(R)
  BY EventsType
<1>4. r.events \in Event
  BY DEF LogRecord
<1>5. ASSUME NEW i \in 1 .. Len(R) + 1
      PROVE  Events(S)[i] = Append(E, r.events)[i]
  <2>1. Events(S)[i] = S[i].events
    BY <1>1, EventsType
  <2>2. S[i] = IF i = Len(R) + 1 THEN r ELSE R[i]
    OBVIOUS
  <2>3. i # Len(R) + 1 => E[i] = R[i].events
    BY EventsType
  <2>4. Append(E, r.events)[i] = IF i = Len(R) + 1 THEN r.events ELSE E[i]
    BY <1>3, <1>4
  <2>. QED BY <2>1, <2>2, <2>3, <2>4
<1>6. Append(E, r.events) \in Seq(Event) /\ Len(Append(E, r.events)) = Len(R) + 1
  BY <1>3, <1>4
<1>. HIDE DEF S, E
<1>. QED BY <1>2, <1>5, <1>6, SeqEqual DEF S, E

\* What a log says is what replay makes of it from the genesis.
LEMMA ReplayAll ==
  ASSUME LogOK
  PROVE  ReplayOf(GenesisSnapshot(<<>>), LogEventsSince(log, 0)) = Events(log.records)
<1>1. log.records \in Seq(LogRecord)
  BY DEF LogOK
<1>2. LogEventsSince(log, 0) = log.records
  BY <1>1 DEF LogEventsSince
<1>3. <<>> \o Events(log.records) = Events(log.records)
  BY <1>1, EventsType
<1>. QED BY <1>2, <1>3 DEF ReplayOf, GenesisSnapshot, Events

LEMMA HeadType ==
  ASSUME LogOK
  PROVE  /\ LogHead(log) \in Nat /\ HeadPos \in Nat
         /\ LogHead(log) = Len(log.records)
         /\ LogHead(log) > 0 =>
              /\ LogEntropyPos(log, LogHead(log)) = log.records[LogHead(log)].entropy_pos
              /\ HeadPos = log.records[LogHead(log)].entropy_pos
         /\ LogHead(log) = 0 => HeadPos = 0
<1>1. log.records \in Seq(LogRecord) /\ LogHead(log) = Len(log.records)
  BY DEF LogOK, LogHead
<1>2. LogHead(log) > 0 =>
        LogEntropyPos(log, LogHead(log)) = log.records[LogHead(log)].entropy_pos
  BY DEF LogEntropyPos
<1>3. LogHead(log) > 0 => log.records[LogHead(log)].entropy_pos \in Nat
  <2>1. LogHead(log) > 0 => log.records[LogHead(log)] \in LogRecord
    BY <1>1
  <2>. QED BY <2>1 DEF LogRecord
<1>. QED BY <1>1, <1>2, <1>3 DEF HeadPos

LEMMA AppendType ==
  ASSUME LogOK, NEW e \in Event, NEW p \in Nat, log' = LogAppend(log, e, p)
  PROVE  /\ LogOK'
         /\ LogHead(log)' = LogHead(log) + 1
         /\ log'.records = Append(log.records, [events |-> e, entropy_pos |-> p])
         /\ HeadPos' = p
         /\ Events(log.records)' = Append(Events(log.records), e)
         /\ \A n \in 0 .. LogHead(log) :
              SubSeq(log'.records, 1, n) = SubSeq(log.records, 1, n)
<1> DEFINE R == log.records
           r == [events |-> e, entropy_pos |-> p]
<1>. HIDE DEF r
<1>0. r \in LogRecord /\ r.events = e /\ r.entropy_pos = p
  BY DEF r, LogRecord
<1>1. R \in Seq(LogRecord) /\ r \in LogRecord /\ log.snapshots = <<>>
  BY <1>0 DEF LogOK
<1>2. log'.records = Append(R, r) /\ log'.snapshots = <<>>
  BY <1>1 DEF LogAppend, LogOK, r
<1>3. LogOK'
  <2>1. log' = [records |-> Append(R, r), snapshots |-> <<>>]
    BY <1>1 DEF LogAppend, LogOK, r
  <2>. QED BY <1>1, <2>1 DEF LogOK
<1>4. LogHead(log)' = LogHead(log) + 1 /\ LogHead(log) \in Nat
  BY <1>1, <1>2 DEF LogHead
<1>5. HeadPos' = p
  <2>1. LogHead(log)' > 0 /\ log'.records[LogHead(log)'] = r
    BY <1>1, <1>2, <1>4 DEF LogHead
  <2>2. HeadPos' = log'.records[LogHead(log)'].entropy_pos
    BY <2>1 DEF HeadPos, LogEntropyPos
  <2>. QED BY <1>0, <2>1, <2>2
<1>6. Events(log'.records) = Append(Events(R), e)
  BY <1>0, <1>1, <1>2, EventsAppend
<1>7. \A n \in 0 .. LogHead(log) : SubSeq(log'.records, 1, n) = SubSeq(R, 1, n)
  <2> SUFFICES ASSUME NEW n \in 0 .. Len(R)
               PROVE  SubSeq(Append(R, r), 1, n) = SubSeq(R, 1, n)
    BY <1>2 DEF LogHead
  <2>. QED BY <1>1
<1>. QED BY <1>2, <1>3, <1>4, <1>5, <1>6, <1>7 DEF r

LEMMA LogSame ==
  ASSUME log' = log
  PROVE  /\ LogOK' <=> LogOK
         /\ LogHead(log)' = LogHead(log) /\ LogHead(log') = LogHead(log)
         /\ HeadPos' = HeadPos
         /\ Events(log.records)' = Events(log.records)
BY DEF LogOK, LogHead, HeadPos, LogEntropyPos, Events

-----------------------------------------------------------------------------
(* The initial states.                                                     *)

LEMMA InitInv == Init => IInv
<1> SUFFICES ASSUME Init PROVE IInv
  OBVIOUS
<1>1. log = [records |-> <<>>, snapshots |-> <<>>] /\ LogHead(log) = 0 /\ HeadPos = 0
  BY DEF Init, NewLog, LogHead, HeadPos
<1>2. LogOK /\ Events(log.records) = <<>>
  BY <1>1 DEF LogOK, Events
<1>3. TypeOK
  <2>1. log.records \in Seq([events : Event, entropy_pos : Nat]) /\ tally \in Seq(Event)
    BY <1>1 DEF Init
  <2>2. /\ fail_next_append \in BOOLEAN
        /\ at \in [Task -> Await \union {"idle", "down"}]
        /\ \A t \in Reader : at[t] \in ResumeCall \union {"idle"}
    BY DEF Init, Task
  <2>3. thread \in [Task -> [polling : BOOLEAN, token : BOOLEAN, yielded : BOOLEAN]]
    BY DEF Init, NoThread
  <2>4. Len(ctx) <= 1
    BY DEF Init
  <2>. QED BY <2>1, <2>2, <2>3, <2>4 DEF TypeOK
<1>4. LocalOK /\ OwnerReads /\ NobodyElseReads
  BY DEF Init, LocalOK, OwnerReads, NobodyElseReads, ExecCall, Task
<1>5. \A t \in Task : ResumeReads(t)
  BY DEF Init, ResumeReads
<1>6. LogAndTallyAgree /\ ContextOK
  BY <1>2 DEF Init, LogAndTallyAgree, ContextOK, ExecCall, Task
<1>7. ResumedOK /\ ResumeReadsOneLog
  BY DEF Init, ResumedOK, ResumeReadsOneLog
<1>. QED BY <1>2, <1>3, <1>4, <1>5, <1>6, <1>7 DEF IInv

-----------------------------------------------------------------------------
(* The steps that leave the log alone.                                     *)

\* Such a step keeps what the other tasks have read, when they stay where they
\* are.
LEMMA OthersKept ==
  ASSUME IInv, log' = log, NEW t \in Task,
         \A u \in Task \ {t} : at'[u] = at[u] /\ local'[u] = local[u]
  PROVE  \A u \in Task \ {t} : ResumeReads(u)'
BY LogSame DEF IInv, ResumeReads

LEMMA ResumedKept ==
  ASSUME IInv, log' = log, resumed' = resumed
  PROVE  ResumedOK' /\ ResumeReadsOneLog'
BY LogSame DEF IInv, ResumedOK, ResumeReadsOneLog

\* The owner keeps what it has, when nothing of it changes.
LEMMA OwnerKept ==
  ASSUME IInv, log' = log, tally' = tally, ctx' = ctx,
         at'[owner] = at[owner], local'[owner] = local[owner]
  PROVE  OwnerReads' /\ LogAndTallyAgree' /\ ContextOK'
<1>1. OwnerReads /\ LogAndTallyAgree /\ ContextOK
  BY DEF IInv
<1>2. OwnerReads'
  BY <1>1, LogSame DEF OwnerReads
<1>3. LogAndTallyAgree'
  BY <1>1, LogSame DEF LogAndTallyAgree
<1>4. ContextOK'
  BY <1>1, LogSame DEF ContextOK
<1>. QED BY <1>2, <1>3, <1>4

\* What a thread does between two accesses is invisible to all but itself.
LEMMA RuntimeStep ==
  ASSUME IInv, NEW t \in Task, Yield(t) \/ Unpark(t)
  PROVE  IInv'
<1>1. UNCHANGED <<log, fail_next_append, at, local, tally, ctx, resumed>>
  BY DEF Yield, Unpark
<1>2. thread' \in [Task -> [polling : BOOLEAN, token : BOOLEAN, yielded : BOOLEAN]]
  <2>1. /\ thread \in [Task -> [polling : BOOLEAN, token : BOOLEAN, yielded : BOOLEAN]]
        /\ thread[t] \in [polling : BOOLEAN, token : BOOLEAN, yielded : BOOLEAN]
    BY DEF IInv, TypeOK
  <2>2. CASE Yield(t)
    BY <2>1, <2>2 DEF Yield
  <2>3. CASE Unpark(t)
    BY <2>1, <2>3 DEF Unpark
  <2>. QED BY <2>2, <2>3
<1>3. TypeOK'
  BY <1>1, <1>2 DEF IInv, TypeOK
<1>4. LogOK' /\ LocalOK' /\ NobodyElseReads'
  BY <1>1, LogSame DEF IInv, LocalOK, NobodyElseReads
<1>5. \A u \in Task : ResumeReads(u)'
  BY <1>1, LogSame DEF IInv, ResumeReads
<1>. QED BY <1>1, <1>3, <1>4, <1>5, OwnerKept, ResumedKept DEF IInv

\* What going on to another await changes.
LEMMA ReadyStep ==
  ASSUME TypeOK, NEW t \in Task, NEW here,
         NEW there \in Await \union {"idle", "down"},
         t \in Reader => there \in ResumeCall \union {"idle"},
         Ready(t, here, there)
  PROVE  /\ at[t] = here /\ at'[t] = there
         /\ \A u \in Task \ {t} : at'[u] = at[u]
         /\ at' \in [Task -> Await \union {"idle", "down"}]
         /\ \A u \in Reader : at'[u] \in ResumeCall \union {"idle"}
         /\ thread' \in [Task -> [polling : BOOLEAN, token : BOOLEAN, yielded : BOOLEAN]]
<1>1. /\ thread \in [Task -> [polling : BOOLEAN, token : BOOLEAN, yielded : BOOLEAN]]
      /\ thread[t] \in [polling : BOOLEAN, token : BOOLEAN, yielded : BOOLEAN]
      /\ at \in [Task -> Await \union {"idle", "down"}]
      /\ \A u \in Reader : at[u] \in ResumeCall \union {"idle"}
      /\ Reader \subseteq Task
  BY DEF TypeOK, Task
<1>2. at[t] = here /\ at' = [at EXCEPT ![t] = there]
  BY DEF Ready
<1>3. thread' \in [Task -> [polling : BOOLEAN, token : BOOLEAN, yielded : BOOLEAN]]
  BY <1>1 DEF Ready
<1>. QED BY <1>1, <1>2, <1>3

\* What reading something changes.
LEMMA LocalStep ==
  ASSUME LocalOK, NEW t \in Task, NEW v, local' = [local EXCEPT ![t] = v]
  PROVE  /\ LocalOK' /\ local'[t] = v
         /\ \A u \in Task \ {t} : local'[u] = local[u]
BY DEF LocalOK

\* A step of the owner that leaves the log alone and keeps the borrows.
LEMMA OwnerStep ==
  ASSUME IInv, log' = log, resumed' = resumed, TypeOK', LocalOK',
         \A u \in Task \ {owner} : at'[u] = at[u] /\ local'[u] = local[u],
         at'[owner] \in ExecCall => at[owner] \in ExecCall \/ ~Borrowed,
         ResumeReads(owner)', OwnerReads', LogAndTallyAgree', ContextOK'
  PROVE  IInv'
<1>1. Reader \subseteq Task \ {owner} /\ owner \in Task
  BY OwnerAssumption DEF Task
<1>2. NobodyElseReads'
  <2>1. ASSUME ~Borrowed, NEW t \in Reader PROVE at[t] = "idle"
    BY <2>1 DEF IInv, TypeOK, Borrowed, Await
  <2>. QED BY <1>1, <2>1 DEF IInv, NobodyElseReads
<1>3. \A u \in Task : ResumeReads(u)'
  BY <1>1, OthersKept
<1>. QED BY <1>2, <1>3, LogSame, ResumedKept DEF IInv

LEMMA BeginCtxStep == IInv /\ BeginCtx => IInv'
<1> SUFFICES ASSUME IInv, BeginCtx PROVE IInv'
  OBVIOUS
<1>1. /\ owner \in Task /\ at[owner] = "idle"
      /\ at' = [at EXCEPT ![owner] = "ctx.head"]
      /\ UNCHANGED <<log, fail_next_append, thread, local, tally, ctx, resumed>>
  BY DEF BeginCtx, Begin, Task
<1>2. /\ at' \in [Task -> Await \union {"idle", "down"}]
      /\ at'[owner] = "ctx.head"
      /\ \A u \in Task \ {owner} : at'[u] = at[u]
  BY <1>1 DEF IInv, TypeOK, Await, CtxCall
<1>3. TypeOK' /\ LocalOK'
  BY <1>1, <1>2, OwnerAssumption DEF IInv, TypeOK, LocalOK, Task
<1>4. ResumeReads(owner)' /\ OwnerReads'
  BY <1>2 DEF ResumeReads, OwnerReads
<1>5. LogAndTallyAgree' /\ ContextOK'
  BY <1>1, <1>2, LogSame DEF IInv, LogAndTallyAgree, ContextOK, CtxCall, ExecCall, ResumeCall
<1>. QED BY <1>1, <1>2, <1>3, <1>4, <1>5, OwnerStep DEF ExecCall

LEMMA CtxHeadStep == IInv /\ CtxHead => IInv'
<1> SUFFICES ASSUME IInv, CtxHead PROVE IInv'
  OBVIOUS
<1> DEFINE there == IF LogHead(log) = 0 THEN "idle" ELSE "ctx.pos"
<1>1. /\ owner \in Task /\ owner \notin Reader
      /\ Ready(owner, "ctx.head", there)
      /\ local' = [local EXCEPT ![owner] = IF LogHead(log) = 0 THEN <<>> ELSE <<LogHead(log)>>]
      /\ ctx' = IF LogHead(log) = 0 THEN <<0>> ELSE ctx
      /\ UNCHANGED <<log, fail_next_append, tally, resumed>>
  BY OwnerAssumption DEF CtxHead, Task
<1>2. TypeOK /\ LocalOK /\ there \in Await \union {"idle", "down"}
  BY DEF IInv, Await, CtxCall
<1>3. /\ at[owner] = "ctx.head" /\ at'[owner] = there
      /\ \A u \in Task \ {owner} : at'[u] = at[u]
      /\ at' \in [Task -> Await \union {"idle", "down"}]
      /\ \A u \in Reader : at'[u] \in ResumeCall \union {"idle"}
      /\ thread' \in [Task -> [polling : BOOLEAN, token : BOOLEAN, yielded : BOOLEAN]]
  <2>. HIDE DEF there
  <2>. QED BY <1>1, <1>2, ReadyStep
<1>4. /\ LocalOK' /\ local'[owner] = IF LogHead(log) = 0 THEN <<>> ELSE <<LogHead(log)>>
      /\ \A u \in Task \ {owner} : local'[u] = local[u]
  BY <1>1, <1>2, LocalStep
<1>5. Len(ctx') <= 1
  BY <1>1, <1>2 DEF TypeOK
<1>6. TypeOK'
  BY <1>1, <1>2, <1>3, <1>5 DEF TypeOK
<1>7. LogHead(log) \in Nat /\ (LogHead(log) = 0 => HeadPos = 0)
  BY HeadType DEF IInv
<1>8. ResumeReads(owner)' /\ OwnerReads'
  BY <1>1, <1>3, <1>4, <1>7, LogSame DEF ResumeReads, OwnerReads
<1>9. LogAndTallyAgree'
  BY <1>1, <1>3, LogSame DEF IInv, LogAndTallyAgree, ResumeCall
<1>10. ContextOK'
  BY <1>1, <1>3, <1>7, LogSame DEF IInv, ContextOK, CtxCall, ExecCall
<1>. QED BY <1>1, <1>3, <1>4, <1>6, <1>8, <1>9, <1>10, OwnerStep DEF ExecCall

LEMMA CtxPosStep == IInv /\ CtxPos => IInv'
<1> SUFFICES ASSUME IInv, CtxPos PROVE IInv'
  OBVIOUS
<1>1. /\ owner \in Task /\ owner \notin Reader
      /\ Ready(owner, "ctx.pos", "idle")
      /\ local' = [local EXCEPT ![owner] = <<>>]
      /\ ctx' = <<LogEntropyPos(log, local[owner][1])>>
      /\ UNCHANGED <<log, fail_next_append, tally, resumed>>
  BY OwnerAssumption DEF CtxPos, Task
<1>2. TypeOK /\ LocalOK /\ OwnerReads
  BY DEF IInv
<1>3. /\ at[owner] = "ctx.pos" /\ at'[owner] = "idle"
      /\ \A u \in Task \ {owner} : at'[u] = at[u]
      /\ at' \in [Task -> Await \union {"idle", "down"}]
      /\ \A u \in Reader : at'[u] \in ResumeCall \union {"idle"}
      /\ thread' \in [Task -> [polling : BOOLEAN, token : BOOLEAN, yielded : BOOLEAN]]
  BY <1>1, <1>2, ReadyStep
<1>4. /\ LocalOK' /\ local'[owner] = <<>>
      /\ \A u \in Task \ {owner} : local'[u] = local[u]
  BY <1>1, <1>2, LocalStep
<1>5. ctx' = <<HeadPos>> /\ HeadPos \in Nat
  BY <1>1, <1>2, <1>3, HeadType DEF OwnerReads, IInv
<1>6. TypeOK'
  BY <1>1, <1>2, <1>3, <1>5 DEF TypeOK
<1>7. ResumeReads(owner)' /\ OwnerReads'
  BY <1>3 DEF ResumeReads, OwnerReads
<1>8. LogAndTallyAgree' /\ ContextOK'
  BY <1>1, <1>3, <1>5, LogSame
     DEF IInv, LogAndTallyAgree, ContextOK, ResumeCall, CtxCall, ExecCall
<1>. QED BY <1>1, <1>3, <1>4, <1>6, <1>7, <1>8, OwnerStep DEF ExecCall

-----------------------------------------------------------------------------
(* Commands.                                                               *)

LEMMA BeginExecStep == \A c \in Command : IInv /\ BeginExec(c) => IInv'
<1> SUFFICES ASSUME IInv, NEW c \in Command, BeginExec(c) PROVE IInv'
  OBVIOUS
<1>1. /\ owner \in Task /\ owner \notin Reader
      /\ ctx # <<>> /\ ~Borrowed
      /\ at[owner] = "idle" /\ at' = [at EXCEPT ![owner] = "exec.head"]
      /\ local' = [local EXCEPT ![owner] = <<c>>]
      /\ UNCHANGED <<log, fail_next_append, thread, tally, ctx, resumed>>
  BY OwnerAssumption DEF BeginExec, Task
<1>2. /\ at' \in [Task -> Await \union {"idle", "down"}]
      /\ at'[owner] = "exec.head"
      /\ \A u \in Task \ {owner} : at'[u] = at[u]
  BY <1>1 DEF IInv, TypeOK, Await, ExecCall
<1>3. /\ LocalOK' /\ local'[owner] = <<c>>
      /\ \A u \in Task \ {owner} : local'[u] = local[u]
  BY <1>1, LocalStep DEF IInv
<1>4. TypeOK'
  BY <1>1, <1>2 DEF IInv, TypeOK, Task
<1>5. ResumeReads(owner)' /\ OwnerReads'
  BY <1>2, <1>3 DEF ResumeReads, OwnerReads
<1>6. LogAndTallyAgree' /\ ContextOK'
  BY <1>1, <1>2, LogSame DEF IInv, LogAndTallyAgree, ContextOK, CtxCall, ExecCall, ResumeCall
<1>. QED BY <1>1, <1>2, <1>3, <1>4, <1>5, <1>6, OwnerStep

\* `prepare`, at whichever await the head's position became known.
LEMMA PreparedStep ==
  ASSUME IInv, NEW here \in {"exec.head", "exec.pos"}, PreparedFrom(here, HeadPos),
         UNCHANGED <<log, fail_next_append, tally, resumed>>
  PROVE  IInv'
<1>1. owner \in Task /\ owner \notin Reader /\ TypeOK /\ LocalOK
  BY OwnerAssumption DEF IInv, Task
<1>2. at[owner] = here
  BY DEF PreparedFrom, Ready
<1>3. PICK c \in Command : local[owner][1] = c
  BY <1>2 DEF IInv, OwnerReads
<1>4. ctx = <<HeadPos>> /\ HeadPos \in Nat
  <2>1. ctx \in Seq(Nat) /\ ctx # <<>> /\ ctx[1] = HeadPos
    BY <1>2 DEF IInv, ContextOK, ExecCall
  <2>2. Len(ctx) <= 1
    BY <1>1 DEF TypeOK
  <2>. QED BY <2>1, <2>2, OneNat, HeadType DEF IInv
<1>5. Draws[c] \in Nat
  BY CommandAssumption
<1>6. CASE /\ Ready(owner, here, "idle")
           /\ ctx' = <<HeadPos>>
           /\ local' = [local EXCEPT ![owner] = <<>>]
  <2>1. /\ at'[owner] = "idle" /\ \A u \in Task \ {owner} : at'[u] = at[u]
        /\ at' \in [Task -> Await \union {"idle", "down"}]
        /\ \A u \in Reader : at'[u] \in ResumeCall \union {"idle"}
        /\ thread' \in [Task -> [polling : BOOLEAN, token : BOOLEAN, yielded : BOOLEAN]]
    BY <1>1, <1>6, ReadyStep
  <2>2. /\ LocalOK' /\ local'[owner] = <<>>
        /\ \A u \in Task \ {owner} : local'[u] = local[u]
    BY <1>1, <1>6, LocalStep
  <2>3. TypeOK'
    BY <1>1, <1>6, <2>1 DEF TypeOK
  <2>4. ResumeReads(owner)' /\ OwnerReads'
    BY <2>1 DEF ResumeReads, OwnerReads
  <2>5. LogAndTallyAgree' /\ ContextOK'
    BY <1>2, <1>4, <1>6, <2>1, LogSame
       DEF IInv, LogAndTallyAgree, ContextOK, ResumeCall, CtxCall, ExecCall
  <2>. QED BY <2>1, <2>2, <2>3, <2>4, <2>5, OwnerStep DEF ExecCall
<1>7. CASE /\ Ready(owner, here, "exec.append")
           /\ ctx' = <<ctx[1] + Draws[c]>>
           /\ local' = [local EXCEPT ![owner] =
                 <<[event |-> Decided(c), entropy_pos |-> ctx[1] + Draws[c],
                    head_pos |-> HeadPos]>>]
  <2>0. "exec.append" \in Await \union {"idle", "down"}
    BY DEF Await, ExecCall
  <2>1. /\ at'[owner] = "exec.append" /\ \A u \in Task \ {owner} : at'[u] = at[u]
        /\ at' \in [Task -> Await \union {"idle", "down"}]
        /\ \A u \in Reader : at'[u] \in ResumeCall \union {"idle"}
        /\ thread' \in [Task -> [polling : BOOLEAN, token : BOOLEAN, yielded : BOOLEAN]]
    BY <1>1, <1>7, <2>0, ReadyStep
  <2>2. /\ LocalOK'
        /\ local'[owner] =
             <<[event |-> [cmd |-> c, base |-> Len(tally), drawn |-> HeadPos],
                entropy_pos |-> HeadPos + Draws[c], head_pos |-> HeadPos]>>
        /\ \A u \in Task \ {owner} : local'[u] = local[u]
    BY <1>1, <1>4, <1>7, LocalStep DEF Decided
  <2>3. TypeOK'
    BY <1>1, <1>7, <2>1 DEF TypeOK
  <2>4. ResumeReads(owner)'
    BY <2>1 DEF ResumeReads
  <2>5. OwnerReads'
    BY <2>1, <2>2, LogSame DEF OwnerReads
  <2>6. LogAndTallyAgree'
    BY <1>2, <2>1, LogSame DEF IInv, LogAndTallyAgree, ResumeCall
  <2>7. ContextOK'
    <3>1. ctx' = <<HeadPos + Draws[c]>> /\ HeadPos + Draws[c] \in Nat
      BY <1>4, <1>5, <1>7
    <3>2. local'[owner][1].entropy_pos = HeadPos + Draws[c]
      BY <2>2
    <3>. QED BY <2>1, <3>1, <3>2 DEF ContextOK, CtxCall
  <2>. QED BY <1>2, <2>1, <2>2, <2>3, <2>4, <2>5, <2>6, <2>7, OwnerStep DEF ExecCall
<1>. QED BY <1>3, <1>6, <1>7 DEF PreparedFrom

LEMMA ExecHeadStep == IInv /\ ExecHead => IInv'
<1> SUFFICES ASSUME IInv, ExecHead PROVE IInv'
  OBVIOUS
<1>1. LogHead(log) = 0 => HeadPos = 0
  BY HeadType DEF IInv
<1>2. CASE LogHead(log) = 0
  BY <1>1, <1>2, PreparedStep DEF ExecHead
<1>3. CASE LogHead(log) # 0
  <2>1. /\ owner \in Task /\ owner \notin Reader
        /\ Ready(owner, "exec.head", "exec.pos")
        /\ local' = [local EXCEPT ![owner] = Append(local[owner], LogHead(log))]
        /\ UNCHANGED <<log, fail_next_append, tally, ctx, resumed>>
    BY <1>3, OwnerAssumption DEF ExecHead, Task
  <2>2. TypeOK /\ LocalOK /\ "exec.pos" \in Await \union {"idle", "down"}
    BY DEF IInv, Await, ExecCall
  <2>3. /\ at[owner] = "exec.head" /\ at'[owner] = "exec.pos"
        /\ \A u \in Task \ {owner} : at'[u] = at[u]
        /\ at' \in [Task -> Await \union {"idle", "down"}]
        /\ \A u \in Reader : at'[u] \in ResumeCall \union {"idle"}
        /\ thread' \in [Task -> [polling : BOOLEAN, token : BOOLEAN, yielded : BOOLEAN]]
    BY <2>1, <2>2, ReadyStep
  <2>4. PICK c \in Command : local[owner] = <<c>>
    BY <2>3 DEF IInv, OwnerReads
  <2>5. /\ LocalOK' /\ local'[owner] = <<c, LogHead(log)>>
        /\ \A u \in Task \ {owner} : local'[u] = local[u]
    <3>1. Append(local[owner], LogHead(log)) = <<c, LogHead(log)>>
      BY <2>4, AppendToOne
    <3>. QED BY <2>1, <2>2, <3>1, LocalStep
  <2>6. TypeOK'
    BY <2>1, <2>2, <2>3 DEF TypeOK
  <2>7. LogHead(log) > 0
    BY <1>3, HeadType DEF IInv
  <2>8. ResumeReads(owner)' /\ OwnerReads'
    BY <2>1, <2>3, <2>5, <2>7, LogSame DEF ResumeReads, OwnerReads
  <2>9. LogAndTallyAgree' /\ ContextOK'
    BY <2>1, <2>3, LogSame DEF IInv, LogAndTallyAgree, ContextOK, ResumeCall, CtxCall, ExecCall
  <2>. QED BY <2>1, <2>3, <2>5, <2>6, <2>8, <2>9, OwnerStep DEF ExecCall
<1>. QED BY <1>2, <1>3

LEMMA ExecPosStep == IInv /\ ExecPos => IInv'
<1> SUFFICES ASSUME IInv, ExecPos PROVE IInv'
  OBVIOUS
<1>1. at[owner] = "exec.pos"
  BY DEF ExecPos, PreparedFrom, Ready
<1>2. LogHead(log) > 0 /\ local[owner][2] = LogHead(log)
  BY <1>1 DEF IInv, OwnerReads
<1>3. LogEntropyPos(log, local[owner][2]) = HeadPos
  BY <1>2, HeadType DEF IInv
<1>. QED BY <1>3, PreparedStep DEF ExecPos

LEMMA ExecFailedStep == IInv /\ ExecFailed => IInv'
<1> SUFFICES ASSUME IInv, ExecFailed PROVE IInv'
  OBVIOUS
<1>1. /\ owner \in Task /\ owner \notin Reader
      /\ Ready(owner, "exec.append", "idle")
      /\ fail_next_append' = FALSE
      /\ ctx' = <<local[owner][1].head_pos>>
      /\ local' = [local EXCEPT ![owner] = <<>>]
      /\ UNCHANGED <<log, tally, resumed>>
  BY OwnerAssumption DEF ExecFailed, Task
<1>2. TypeOK /\ LocalOK
  BY DEF IInv
<1>3. /\ at[owner] = "exec.append" /\ at'[owner] = "idle"
      /\ \A u \in Task \ {owner} : at'[u] = at[u]
      /\ at' \in [Task -> Await \union {"idle", "down"}]
      /\ \A u \in Reader : at'[u] \in ResumeCall \union {"idle"}
      /\ thread' \in [Task -> [polling : BOOLEAN, token : BOOLEAN, yielded : BOOLEAN]]
  BY <1>1, <1>2, ReadyStep
<1>4. /\ LocalOK' /\ local'[owner] = <<>>
      /\ \A u \in Task \ {owner} : local'[u] = local[u]
  BY <1>1, <1>2, LocalStep
<1>5. ctx' = <<HeadPos>> /\ HeadPos \in Nat
  <2>1. PICK c \in Command : local[owner] =
          <<[event |-> [cmd |-> c, base |-> Len(tally), drawn |-> HeadPos],
             entropy_pos |-> HeadPos + Draws[c], head_pos |-> HeadPos]>>
    BY <1>3 DEF IInv, OwnerReads
  <2>2. local[owner][1].head_pos = HeadPos
    BY <2>1
  <2>. QED BY <1>1, <2>2, HeadType DEF IInv
<1>6. TypeOK'
  <2>1. Len(ctx') <= 1
    BY <1>5
  <2>. QED BY <1>1, <1>2, <1>3, <2>1 DEF TypeOK
<1>7. ResumeReads(owner)' /\ OwnerReads'
  BY <1>3 DEF ResumeReads, OwnerReads
<1>8. LogAndTallyAgree' /\ ContextOK'
  BY <1>1, <1>3, <1>5, LogSame
     DEF IInv, LogAndTallyAgree, ContextOK, ResumeCall, CtxCall, ExecCall
<1>. QED BY <1>1, <1>3, <1>4, <1>6, <1>7, <1>8, OwnerStep DEF ExecCall

\* The one step that writes: nobody else has read anything.
LEMMA ExecAppendedStep ==
  ASSUME IInv, ExecAppended
  PROVE  /\ IInv'
         /\ \E c \in Command :
              LET e == [cmd |-> c, base |-> Len(Events(log.records)), drawn |-> HeadPos]
              IN /\ log' = LogAppend(log, e, HeadPos + Draws[c])
                 /\ e \in Event /\ HeadPos + Draws[c] \in Nat
<1>1. /\ owner \in Task /\ owner \notin Reader
      /\ Ready(owner, "exec.append", "idle")
      /\ log' = LogAppend(log, local[owner][1].event, local[owner][1].entropy_pos)
      /\ tally' = Append(tally, local[owner][1].event)
      /\ local' = [local EXCEPT ![owner] = <<>>]
      /\ UNCHANGED <<fail_next_append, ctx, resumed>>
  BY OwnerAssumption DEF ExecAppended, Task
<1>2. TypeOK /\ LocalOK /\ LogOK
  BY DEF IInv
<1>3. /\ at[owner] = "exec.append" /\ at'[owner] = "idle"
      /\ \A u \in Task \ {owner} : at'[u] = at[u]
      /\ at' \in [Task -> Await \union {"idle", "down"}]
      /\ \A u \in Reader : at'[u] \in ResumeCall \union {"idle"}
      /\ thread' \in [Task -> [polling : BOOLEAN, token : BOOLEAN, yielded : BOOLEAN]]
  BY <1>1, <1>2, ReadyStep
<1>4. /\ LocalOK' /\ local'[owner] = <<>>
      /\ \A u \in Task \ {owner} : local'[u] = local[u]
  BY <1>1, <1>2, LocalStep
<1>5. tally = Events(log.records) /\ tally \in Seq(Event)
  BY <1>2, <1>3 DEF IInv, LogAndTallyAgree, ResumeCall, TypeOK
<1>6. PICK c \in Command : local[owner] =
        <<[event |-> [cmd |-> c, base |-> Len(tally), drawn |-> HeadPos],
           entropy_pos |-> HeadPos + Draws[c], head_pos |-> HeadPos]>>
  BY <1>3 DEF IInv, OwnerReads
<1> DEFINE e == [cmd |-> c, base |-> Len(tally), drawn |-> HeadPos]
           p == HeadPos + Draws[c]
<1>7. HeadPos \in Nat /\ Draws[c] \in Nat /\ Len(tally) \in Nat
  BY <1>2, <1>5, HeadType, CommandAssumption
<1>8. e \in Event /\ p \in Nat
  BY <1>7 DEF Event
<1>9. local[owner][1].event = e /\ local[owner][1].entropy_pos = p
  BY <1>6
<1>. HIDE DEF e, p
<1>10. log' = LogAppend(log, e, p) /\ tally' = Append(tally, e)
  BY <1>1, <1>9
<1>11. /\ LogOK'
       /\ LogHead(log)' = LogHead(log) + 1
       /\ Events(log.records)' = Append(Events(log.records), e)
       /\ \A n \in 0 .. LogHead(log) : SubSeq(log'.records, 1, n) = SubSeq(log.records, 1, n)
       /\ log'.records = Append(log.records, [events |-> e, entropy_pos |-> p])
  BY <1>2, <1>8, <1>10, AppendType
<1>12. TypeOK'
  <2>1. log'.records \in Seq([events : Event, entropy_pos : Nat])
    BY <1>11 DEF LogOK, LogRecord
  <2>2. tally' \in Seq(Event)
    BY <1>5, <1>8, <1>10
  <2>. QED BY <1>1, <1>2, <1>3, <2>1, <2>2 DEF TypeOK
<1>13. \A u \in Reader : at'[u] = "idle"
  BY <1>1, <1>3 DEF IInv, NobodyElseReads, ExecCall, Task
<1>14. NobodyElseReads' /\ OwnerReads' /\ \A u \in Task : ResumeReads(u)'
  BY <1>3, <1>13 DEF NobodyElseReads, OwnerReads, ResumeReads, Task
<1>15. LogAndTallyAgree'
  BY <1>5, <1>10, <1>11 DEF LogAndTallyAgree
<1>16. ContextOK'
  <2>1. local[owner][1].entropy_pos = ctx[1]
    BY <1>3, <1>6, <1>9 DEF IInv, ContextOK, p
  <2>2. HeadPos' = p
    BY <1>2, <1>8, <1>10, AppendType
  <2>. QED BY <1>1, <1>3, <1>9, <2>1, <2>2 DEF IInv, ContextOK, ExecCall
<1>17. ResumedOK'
  <2>1. LogHead(log) \in Nat
    BY <1>2, HeadType
  <2>. QED BY <1>1, <1>11, <2>1 DEF IInv, ResumedOK
<1>18. ResumeReadsOneLog'
  <2> SUFFICES ASSUME NEW u \in Reader, resumed[u] # <<>>
               PROVE  LET r == resumed[u][1]
                      IN /\ r.state = Events(SubSeq(log'.records, 1, r.head))
                         /\ r.pos = IF r.head = 0 THEN 0 ELSE log'.records[r.head].entropy_pos
    BY <1>1 DEF ResumeReadsOneLog, Events
  <2> DEFINE r == resumed[u][1]
  <2>1. r.head \in 0 .. LogHead(log)
    BY DEF IInv, ResumedOK
  <2>2. /\ r.state = Events(SubSeq(log.records, 1, r.head))
        /\ r.pos = IF r.head = 0 THEN 0 ELSE log.records[r.head].entropy_pos
    BY DEF IInv, ResumeReadsOneLog
  <2>3. r.head # 0 => log'.records[r.head] = log.records[r.head]
    <3>1. log.records \in Seq(LogRecord) /\ LogHead(log) = Len(log.records)
      BY <1>2 DEF LogOK, LogHead
    <3>2. [events |-> e, entropy_pos |-> p] \in LogRecord
      BY <1>8 DEF LogRecord
    <3>. QED BY <1>11, <2>1, <3>1, <3>2
  <2>4. SubSeq(log'.records, 1, r.head) = SubSeq(log.records, 1, r.head)
    BY <1>11, <2>1
  <2>. QED BY <2>2, <2>3, <2>4
<1>19. IInv'
  BY <1>4, <1>11, <1>12, <1>14, <1>15, <1>16, <1>17, <1>18 DEF IInv
<1>. QED BY <1>5, <1>8, <1>10, <1>19 DEF e, p

LEMMA ArmStep == IInv /\ ArmAppendFailure => IInv'
<1> SUFFICES ASSUME IInv, ArmAppendFailure PROVE IInv'
  OBVIOUS
<1>1. /\ fail_next_append' \in BOOLEAN
      /\ UNCHANGED <<log, at, thread, local, tally, ctx, resumed>>
  BY DEF ArmAppendFailure
<1>2. TypeOK'
  BY <1>1 DEF IInv, TypeOK
<1>3. LogOK' /\ LocalOK' /\ NobodyElseReads'
  BY <1>1, LogSame DEF IInv, LocalOK, NobodyElseReads
<1>4. \A u \in Task : ResumeReads(u)'
  BY <1>1, LogSame DEF IInv, ResumeReads
<1>. QED BY <1>1, <1>2, <1>3, <1>4, OwnerKept, ResumedKept DEF IInv

-----------------------------------------------------------------------------
(* Resuming.                                                               *)

\* A step of a task that resumes, which returns nothing yet.
LEMMA ResumeStep ==
  ASSUME IInv, NEW t \in Task, UNCHANGED <<log, tally, ctx, resumed>>, TypeOK', LocalOK',
         \A u \in Task \ {t} : at'[u] = at[u] /\ local'[u] = local[u],
         at'[t] \in ResumeCall, at[t] \in ResumeCall \/ t = owner \/ at[owner] \notin ExecCall,
         ResumeReads(t)'
  PROVE  IInv'
<1>1. OwnerReads' /\ LogAndTallyAgree' /\ ContextOK'
  <2>1. CASE t = owner
    <3>1. OwnerReads' /\ LogAndTallyAgree'
      BY <2>1 DEF OwnerReads, LogAndTallyAgree, ResumeCall
    <3>2. ContextOK'
      BY <2>1 DEF IInv, ContextOK, ExecCall, ResumeCall, CtxCall
    <3>. QED BY <3>1, <3>2
  <2>2. CASE t # owner
    BY <2>2, OwnerKept DEF Task
  <2>. QED BY <2>1, <2>2
<1>2. NobodyElseReads'
  <2>1. CASE t = owner
    BY <2>1 DEF NobodyElseReads, ExecCall, ResumeCall
  <2>2. CASE t # owner
    <3>1. t \in Reader /\ at'[owner] = at[owner]
      BY <2>2 DEF Task
    <3>2. at[owner] \notin ExecCall
      BY <2>2, <3>1 DEF IInv, NobodyElseReads, ResumeCall
    <3>. QED BY <3>1, <3>2 DEF NobodyElseReads
  <2>. QED BY <2>1, <2>2
<1>3. \A u \in Task : ResumeReads(u)'
  BY OthersKept
<1>4. ResumedOK' /\ ResumeReadsOneLog' /\ LogOK'
  BY ResumedKept, LogSame DEF IInv
<1>. QED BY <1>1, <1>2, <1>3, <1>4 DEF IInv

LEMMA BeginResumeStep == \A t \in Task : IInv /\ BeginResume(t) => IInv'
<1> SUFFICES ASSUME IInv, NEW t \in Task, BeginResume(t) PROVE IInv'
  OBVIOUS
<1>1. /\ t = owner \/ at[owner] \notin ExecCall
      /\ at' = [at EXCEPT ![t] = "resume.snapshot"]
      /\ UNCHANGED <<log, fail_next_append, thread, local, tally, ctx, resumed>>
  BY DEF BeginResume
<1>2. /\ at' \in [Task -> Await \union {"idle", "down"}]
      /\ at'[t] = "resume.snapshot"
      /\ \A u \in Task \ {t} : at'[u] = at[u]
  BY <1>1 DEF IInv, TypeOK, Await, ResumeCall
<1>3. \A u \in Reader : at'[u] \in ResumeCall \union {"idle"}
  BY <1>2 DEF IInv, TypeOK, Task, ResumeCall
<1>4. TypeOK' /\ LocalOK'
  BY <1>1, <1>2, <1>3 DEF IInv, TypeOK, LocalOK
<1>5. ResumeReads(t)'
  BY <1>2 DEF ResumeReads
<1>6. at'[t] \in ResumeCall
  BY <1>2 DEF ResumeCall
<1>. QED BY <1>1, <1>2, <1>4, <1>5, <1>6, ResumeStep

LEMMA ResumeSnapshotStep == \A t \in Task : IInv /\ ResumeSnapshot(t) => IInv'
<1> SUFFICES ASSUME IInv, NEW t \in Task, ResumeSnapshot(t) PROVE IInv'
  OBVIOUS
<1>1. /\ Ready(t, "resume.snapshot", "resume.events")
      /\ local' = [local EXCEPT ![t] = <<LogLatestSnapshot(log, <<>>)>>]
      /\ UNCHANGED <<log, fail_next_append, tally, ctx, resumed>>
  BY DEF ResumeSnapshot
<1>2. /\ TypeOK /\ LocalOK
      /\ "resume.events" \in ResumeCall /\ ResumeCall \subseteq Await
  BY DEF IInv, Await, ResumeCall
<1>3. /\ at[t] = "resume.snapshot" /\ at'[t] = "resume.events"
      /\ \A u \in Task \ {t} : at'[u] = at[u]
      /\ at' \in [Task -> Await \union {"idle", "down"}]
      /\ \A u \in Reader : at'[u] \in ResumeCall \union {"idle"}
      /\ thread' \in [Task -> [polling : BOOLEAN, token : BOOLEAN, yielded : BOOLEAN]]
  BY <1>1, <1>2, ReadyStep
<1>4. LogLatestSnapshot(log, <<>>) = GenesisSnapshot(<<>>)
  BY DEF IInv, LogOK, LogLatestSnapshot
<1>5. /\ LocalOK' /\ local'[t] = <<GenesisSnapshot(<<>>)>>
      /\ \A u \in Task \ {t} : local'[u] = local[u]
  BY <1>1, <1>2, <1>4, LocalStep
<1>6. TypeOK'
  BY <1>1, <1>2, <1>3 DEF TypeOK
<1>7. ResumeReads(t)' /\ at[t] \in ResumeCall
  BY <1>3, <1>5 DEF ResumeReads, ResumeCall
<1>. QED BY <1>1, <1>2, <1>3, <1>5, <1>6, <1>7, ResumeStep

LEMMA ResumeEventsStep == \A t \in Task : IInv /\ ResumeEvents(t) => IInv'
<1> SUFFICES ASSUME IInv, NEW t \in Task, ResumeEvents(t) PROVE IInv'
  OBVIOUS
<1> DEFINE base == local[t][1]
<1>1. /\ Ready(t, "resume.events", "resume.head")
      /\ local' = [local EXCEPT ![t] =
           <<[state |-> ReplayOf(base, LogEventsSince(log, base.at)),
              pos   |-> base.entropy_pos]>>]
      /\ UNCHANGED <<log, fail_next_append, tally, ctx, resumed>>
  BY DEF ResumeEvents
<1>2. /\ TypeOK /\ LocalOK
      /\ "resume.head" \in ResumeCall /\ ResumeCall \subseteq Await
  BY DEF IInv, Await, ResumeCall
<1>3. /\ at[t] = "resume.events" /\ at'[t] = "resume.head"
      /\ \A u \in Task \ {t} : at'[u] = at[u]
      /\ at' \in [Task -> Await \union {"idle", "down"}]
      /\ \A u \in Reader : at'[u] \in ResumeCall \union {"idle"}
      /\ thread' \in [Task -> [polling : BOOLEAN, token : BOOLEAN, yielded : BOOLEAN]]
  BY <1>1, <1>2, ReadyStep
<1>4. base = GenesisSnapshot(<<>>)
  BY <1>3 DEF IInv, ResumeReads
<1>5. base.at = 0 /\ base.entropy_pos = 0
  BY <1>4 DEF GenesisSnapshot
<1>6. ReplayOf(base, LogEventsSince(log, base.at)) = Events(log.records)
  BY <1>4, <1>5, ReplayAll DEF IInv
<1>7. /\ LocalOK' /\ local'[t] = <<[state |-> Events(log.records), pos |-> 0]>>
      /\ \A u \in Task \ {t} : local'[u] = local[u]
  BY <1>1, <1>2, <1>5, <1>6, LocalStep
<1>8. TypeOK'
  BY <1>1, <1>2, <1>3 DEF TypeOK
<1>9. ResumeReads(t)' /\ at[t] \in ResumeCall
  BY <1>1, <1>3, <1>7, LogSame DEF ResumeReads, ResumeCall
<1>. QED BY <1>1, <1>2, <1>3, <1>7, <1>8, <1>9, ResumeStep

\* The answer of a resume, at whichever await it became known.
LEMMA ReturnStep ==
  ASSUME IInv, NEW t \in Task, NEW here \in {"resume.head", "resume.pos"},
         Resumed(t, here, Events(log.records), HeadPos),
         UNCHANGED <<log, fail_next_append>>
  PROVE  IInv'
<1>1. TypeOK /\ LocalOK /\ LogOK /\ owner \in Task /\ owner \notin Reader
  BY OwnerAssumption DEF IInv, Task
<1>2. Ready(t, here, "idle") /\ local' = [local EXCEPT ![t] = <<>>]
  BY DEF Resumed
<1>3. /\ at[t] = here /\ at'[t] = "idle"
      /\ \A u \in Task \ {t} : at'[u] = at[u]
      /\ at' \in [Task -> Await \union {"idle", "down"}]
      /\ \A u \in Reader : at'[u] \in ResumeCall \union {"idle"}
      /\ thread' \in [Task -> [polling : BOOLEAN, token : BOOLEAN, yielded : BOOLEAN]]
  BY <1>1, <1>2, ReadyStep
<1>4. /\ LocalOK' /\ local'[t] = <<>>
      /\ \A u \in Task \ {t} : local'[u] = local[u]
  BY <1>1, <1>2, LocalStep
<1>5. HeadPos \in Nat /\ Events(log.records) \in Seq(Event)
  <2>1. log.records \in Seq(LogRecord)
    BY <1>1 DEF LogOK
  <2>. QED BY <1>1, <2>1, HeadType, EventsType
<1>6. ResumeReads(t)'
  BY <1>3 DEF ResumeReads
<1>7. CASE t = owner
  <2>1. tally' = Events(log.records) /\ ctx' = <<HeadPos>> /\ resumed' = resumed
    BY <1>7 DEF Resumed
  <2>2. TypeOK'
    <3>1. Len(ctx') <= 1 /\ tally' \in Seq(Event)
      BY <1>5, <2>1
    <3>. QED BY <1>1, <1>3, <3>1 DEF TypeOK
  <2>3. OwnerReads'
    BY <1>3, <1>7 DEF OwnerReads
  <2>4. LogAndTallyAgree'
    BY <2>1, LogSame DEF LogAndTallyAgree
  <2>5. ContextOK'
    BY <1>3, <1>5, <1>7, <2>1, LogSame DEF ContextOK, ExecCall
  <2>. QED BY <1>3, <1>4, <1>6, <1>7, <2>1, <2>2, <2>3, <2>4, <2>5, OwnerStep DEF ExecCall
<1>8. CASE t # owner
  <2>1. /\ resumed' = [resumed EXCEPT ![t] =
             <<[state |-> Events(log.records), pos |-> HeadPos, head |-> LogHead(log)]>>]
        /\ UNCHANGED <<tally, ctx>>
        /\ t \in Reader
    BY <1>8 DEF Resumed, Task
  <2>2. TypeOK'
    BY <1>1, <1>3, <2>1 DEF TypeOK
  <2>3. OwnerReads' /\ LogAndTallyAgree' /\ ContextOK'
    BY <1>1, <1>3, <1>4, <1>8, <2>1, OwnerKept
  <2>4. NobodyElseReads'
    BY <1>1, <1>3, <1>8 DEF IInv, NobodyElseReads, Task
  <2>5. \A u \in Task : ResumeReads(u)'
    BY <1>3, <1>4, <1>6, OthersKept
  <2> DEFINE answer == [state |-> Events(log.records), pos |-> HeadPos, head |-> LogHead(log)]
  <2>6. /\ resumed'[t] = <<answer>>
        /\ \A u \in Reader \ {t} : resumed'[u] = resumed[u]
        /\ resumed' = [u \in Reader |-> resumed'[u]]
    BY <2>1 DEF IInv, ResumedOK
  <2>7. LogHead(log) \in Nat
    BY <1>1, HeadType
  <2>8. ResumedOK'
    <3>1. ASSUME NEW u \in Reader, resumed'[u] # <<>>
          PROVE  resumed'[u][1].head \in 0 .. LogHead(log)
      <4>1. CASE u = t
        BY <2>6, <2>7, <4>1
      <4>2. CASE u # t
        BY <2>6, <3>1, <4>2 DEF IInv, ResumedOK
      <4>. QED BY <4>1, <4>2
    <3>. QED BY <2>6, <3>1, LogSame DEF ResumedOK
  <2>9. ResumeReadsOneLog'
    <3> SUFFICES ASSUME NEW u \in Reader, resumed'[u] # <<>>
                 PROVE  LET r == resumed'[u][1]
                        IN /\ r.state = Events(SubSeq(log.records, 1, r.head))
                           /\ r.pos = IF r.head = 0 THEN 0 ELSE log.records[r.head].entropy_pos
      BY DEF ResumeReadsOneLog, Events
    <3>1. CASE u = t
      <4>1. resumed'[u][1] = answer
        BY <2>6, <3>1
      <4>2. SubSeq(log.records, 1, LogHead(log)) = log.records
        BY <1>1 DEF LogOK, LogHead
      <4>3. HeadPos = IF LogHead(log) = 0 THEN 0 ELSE log.records[LogHead(log)].entropy_pos
        BY <1>1, <2>7, HeadType
      <4>4. /\ answer.state = Events(log.records) /\ answer.pos = HeadPos
            /\ answer.head = LogHead(log)
        OBVIOUS
      <4>. HIDE DEF answer
      <4>. QED BY <4>1, <4>2, <4>3, <4>4
    <3>2. CASE u # t
      BY <2>6, <3>2 DEF IInv, ResumeReadsOneLog
    <3>. QED BY <3>1, <3>2
  <2>. QED BY <1>1, <1>4, <2>2, <2>3, <2>4, <2>5, <2>8, <2>9, LogSame DEF IInv
<1>. QED BY <1>7, <1>8

LEMMA ResumeHeadStep == \A t \in Task : IInv /\ ResumeHead(t) => IInv'
<1> SUFFICES ASSUME IInv, NEW t \in Task, ResumeHead(t) PROVE IInv'
  OBVIOUS
<1>1. at[t] = "resume.head"
  BY DEF ResumeHead, Resumed, Ready
<1>2. local[t] = <<[state |-> Events(log.records), pos |-> 0]>>
  BY <1>1 DEF IInv, ResumeReads
<1>3. /\ local[t][1].state = Events(log.records) /\ local[t][1].pos = 0
      /\ LogHead(log) \in Nat /\ (LogHead(log) = 0 => HeadPos = 0)
  BY <1>2, HeadType DEF IInv
<1>4. CASE LogHead(log) = 0
  BY <1>3, <1>4, ReturnStep DEF ResumeHead
<1>5. CASE LogHead(log) # 0
  <2>1. /\ Ready(t, "resume.head", "resume.pos")
        /\ local' = [local EXCEPT ![t] = Append(local[t], LogHead(log))]
        /\ UNCHANGED <<log, fail_next_append, tally, ctx, resumed>>
    BY <1>5 DEF ResumeHead
  <2>2. /\ TypeOK /\ LocalOK
        /\ "resume.pos" \in ResumeCall /\ ResumeCall \subseteq Await
    BY DEF IInv, Await, ResumeCall
  <2>3. /\ at'[t] = "resume.pos"
        /\ \A u \in Task \ {t} : at'[u] = at[u]
        /\ at' \in [Task -> Await \union {"idle", "down"}]
        /\ \A u \in Reader : at'[u] \in ResumeCall \union {"idle"}
        /\ thread' \in [Task -> [polling : BOOLEAN, token : BOOLEAN, yielded : BOOLEAN]]
    BY <2>1, <2>2, ReadyStep
  <2>4. Append(local[t], LogHead(log)) =
          <<[state |-> Events(log.records), pos |-> 0], LogHead(log)>>
    <3> DEFINE read == [state |-> Events(log.records), pos |-> 0]
    <3>1. local[t] = <<read>>
      BY <1>2
    <3>. HIDE DEF read
    <3>2. Append(local[t], LogHead(log)) = <<read, LogHead(log)>>
      BY <3>1, AppendToOne
    <3>. QED BY <3>2 DEF read
  <2>5. /\ LocalOK'
        /\ local'[t] = <<[state |-> Events(log.records), pos |-> 0], LogHead(log)>>
        /\ \A u \in Task \ {t} : local'[u] = local[u]
    BY <2>1, <2>2, <2>4, LocalStep
  <2>6. TypeOK'
    BY <2>1, <2>2, <2>3 DEF TypeOK
  <2>7. ResumeReads(t)' /\ at[t] \in ResumeCall
    BY <1>1, <1>3, <1>5, <2>1, <2>3, <2>5, LogSame DEF ResumeReads, ResumeCall
  <2>. QED BY <2>1, <2>2, <2>3, <2>5, <2>6, <2>7, ResumeStep
<1>. QED BY <1>4, <1>5

LEMMA ResumePosStep == \A t \in Task : IInv /\ ResumePos(t) => IInv'
<1> SUFFICES ASSUME IInv, NEW t \in Task, ResumePos(t) PROVE IInv'
  OBVIOUS
<1>1. at[t] = "resume.pos"
  BY DEF ResumePos, Resumed, Ready
<1>2. /\ LogHead(log) > 0
      /\ local[t] = <<[state |-> Events(log.records), pos |-> 0], LogHead(log)>>
  BY <1>1 DEF IInv, ResumeReads
<1>3. local[t][1].state = Events(log.records) /\ local[t][2] = LogHead(log)
  BY <1>2
<1>4. LogEntropyPos(log, local[t][2]) = HeadPos
  BY <1>2, <1>3, HeadType DEF IInv
<1>. QED BY <1>3, <1>4, ReturnStep DEF ResumePos

-----------------------------------------------------------------------------
(* Faults.                                                                 *)

LEMMA DropStep == \A t \in Task : IInv /\ DropFuture(t) => IInv'
<1> SUFFICES ASSUME IInv, NEW t \in Task, DropFuture(t) PROVE IInv'
  OBVIOUS
<1> DEFINE there == IF t = owner /\ at[t] \in ResumeCall THEN "down" ELSE "idle"
<1>1. /\ at[t] \in Await
      /\ at' = [at EXCEPT ![t] = there]
      /\ thread' = [thread EXCEPT ![t] = NoThread]
      /\ local' = [local EXCEPT ![t] = <<>>]
      /\ ctx' = IF t = owner THEN <<>> ELSE ctx
      /\ UNCHANGED <<log, fail_next_append, tally, resumed>>
  BY DEF DropFuture
<1>2. TypeOK /\ LocalOK /\ owner \in Task /\ owner \notin Reader
  BY OwnerAssumption DEF IInv, Task
<1>3. /\ at'[t] = there /\ there \in {"idle", "down"}
      /\ \A u \in Task \ {t} : at'[u] = at[u]
      /\ at' \in [Task -> Await \union {"idle", "down"}]
  BY <1>1, <1>2 DEF TypeOK
<1>4. /\ LocalOK' /\ \A u \in Task \ {t} : local'[u] = local[u]
  BY <1>1, <1>2, LocalStep
<1>5. TypeOK'
  <2>1. \A u \in Reader : at'[u] \in ResumeCall \union {"idle"}
    BY <1>2, <1>3 DEF TypeOK, Task
  <2>2. thread' \in [Task -> [polling : BOOLEAN, token : BOOLEAN, yielded : BOOLEAN]]
    BY <1>1, <1>2 DEF TypeOK, NoThread
  <2>3. Len(ctx') <= 1
    BY <1>1, <1>2 DEF TypeOK
  <2>. QED BY <1>1, <1>2, <1>3, <2>1, <2>2, <2>3 DEF TypeOK
<1>6. ResumeReads(t)'
  BY <1>3 DEF ResumeReads
<1>7. CASE t = owner
  <2>1. OwnerReads'
    BY <1>3, <1>7 DEF OwnerReads
  <2>2. LogAndTallyAgree'
    BY <1>1, <1>3, <1>7, LogSame DEF IInv, LogAndTallyAgree, ResumeCall, ExecCall, CtxCall, Await
  <2>3. ContextOK'
    BY <1>1, <1>3, <1>7 DEF ContextOK, ExecCall
  <2>. QED BY <1>1, <1>3, <1>4, <1>5, <1>6, <1>7, <2>1, <2>2, <2>3, OwnerStep DEF ExecCall
<1>8. CASE t # owner
  <2>1. OwnerReads' /\ LogAndTallyAgree' /\ ContextOK'
    BY <1>1, <1>2, <1>3, <1>4, <1>8, OwnerKept
  <2>2. NobodyElseReads'
    BY <1>2, <1>3, <1>8 DEF IInv, NobodyElseReads, Task
  <2>3. \A u \in Task : ResumeReads(u)'
    BY <1>1, <1>3, <1>4, <1>6, OthersKept
  <2>4. LogOK' /\ ResumedOK' /\ ResumeReadsOneLog'
    BY <1>1, LogSame, ResumedKept DEF IInv
  <2>. QED BY <1>4, <1>5, <2>1, <2>2, <2>3, <2>4 DEF IInv
<1>. QED BY <1>7, <1>8

LEMMA CrashStep == IInv /\ Crash => IInv'
<1> SUFFICES ASSUME IInv, Crash PROVE IInv'
  OBVIOUS
<1>1. owner \in Task /\ owner \notin Reader /\ Reader \subseteq Task
  BY OwnerAssumption DEF Task
<1>2. /\ at' = [t \in Task |-> IF t = owner THEN "down" ELSE "idle"]
      /\ thread' = [t \in Task |-> NoThread]
      /\ local' = [t \in Task |-> <<>>]
      /\ tally' = <<>> /\ ctx' = <<>>
      /\ resumed' = [t \in Reader |-> <<>>]
      /\ fail_next_append' = FALSE /\ log' = log
  BY DEF Crash
<1>3. at'[owner] = "down" /\ \A t \in Reader : at'[t] = "idle"
  BY <1>1, <1>2
<1>4. TypeOK'
  <2>1. /\ at' \in [Task -> Await \union {"idle", "down"}]
        /\ \A t \in Reader : at'[t] \in ResumeCall \union {"idle"}
    BY <1>2, <1>3
  <2>2. thread' \in [Task -> [polling : BOOLEAN, token : BOOLEAN, yielded : BOOLEAN]]
    BY <1>2 DEF NoThread
  <2>3. tally' \in Seq(Event) /\ Len(ctx') <= 1
    BY <1>2
  <2>4. log'.records \in Seq([events : Event, entropy_pos : Nat])
    BY <1>2 DEF IInv, TypeOK
  <2>. QED BY <1>2, <2>1, <2>2, <2>3, <2>4 DEF TypeOK
<1>5. LogOK' /\ LocalOK'
  BY <1>2, LogSame DEF IInv, LocalOK
<1>6. OwnerReads' /\ NobodyElseReads' /\ LogAndTallyAgree'
  BY <1>3 DEF OwnerReads, NobodyElseReads, LogAndTallyAgree, ExecCall
<1>7. \A t \in Task : ResumeReads(t)'
  BY <1>3 DEF ResumeReads, Task
<1>8. ContextOK'
  BY <1>2, <1>3 DEF ContextOK, ExecCall, CtxCall
<1>9. ResumedOK' /\ ResumeReadsOneLog'
  BY <1>2 DEF ResumedOK, ResumeReadsOneLog
<1>. QED BY <1>4, <1>5, <1>6, <1>7, <1>8, <1>9 DEF IInv

LEMMA StutterStep == IInv /\ UNCHANGED vars => IInv'
<1> SUFFICES ASSUME IInv, UNCHANGED vars PROVE IInv'
  OBVIOUS
<1>1. UNCHANGED <<log, fail_next_append, at, thread, local, tally, ctx, resumed>>
  BY DEF vars
<1>2. TypeOK'
  BY <1>1 DEF IInv, TypeOK
<1>3. LogOK' /\ LocalOK' /\ NobodyElseReads'
  BY <1>1, LogSame DEF IInv, LocalOK, NobodyElseReads
<1>4. \A u \in Task : ResumeReads(u)'
  BY <1>1, LogSame DEF IInv, ResumeReads
<1>. QED BY <1>1, <1>2, <1>3, <1>4, OwnerKept, ResumedKept DEF IInv

-----------------------------------------------------------------------------
(* The theorems.                                                           *)

\* Every step of every task, drops and crashes included, keeps the invariant.
THEOREM StepInv == IInv /\ [Next]_vars => IInv'
<1> SUFFICES ASSUME IInv, Next PROVE IInv'
  BY StutterStep
<1>1. CASE BeginCtx \/ ArmAppendFailure \/ Crash
  BY <1>1, BeginCtxStep, ArmStep, CrashStep
<1>2. CASE \E c \in Command : BeginExec(c)
  BY <1>2, BeginExecStep
<1>3. ASSUME NEW t \in Task, BeginResume(t) \/ DropFuture(t) PROVE IInv'
  BY <1>3, BeginResumeStep, DropStep
<1>4. ASSUME NEW t \in Task, Proceed(t) PROVE IInv'
  <2>1. CASE Yield(t) \/ Unpark(t)
    BY <2>1, RuntimeStep
  <2>2. CASE CtxHead \/ CtxPos \/ ExecHead \/ ExecPos
    BY <2>2, CtxHeadStep, CtxPosStep, ExecHeadStep, ExecPosStep
  <2>3. CASE ExecAppended
    BY <2>3, ExecAppendedStep
  <2>4. CASE ExecFailed
    BY <2>4, ExecFailedStep
  <2>5. CASE ResumeSnapshot(t) \/ ResumeEvents(t) \/ ResumeHead(t) \/ ResumePos(t)
    BY <2>5, ResumeSnapshotStep, ResumeEventsStep, ResumeHeadStep, ResumePosStep
  <2>. QED BY <1>4, <2>1, <2>2, <2>3, <2>4, <2>5 DEF Proceed
<1>. QED BY <1>1, <1>2, <1>3, <1>4 DEF Next

\* The invariant holds in every state the store and its callers reach.
THEOREM SpecInv == Spec => []IInv
BY InitInv, StepInv, PTL DEF Spec

\* Whatever is dropped and whatever dies, every variable keeps its type.
THEOREM TypeCorrect == Spec => []TypeOK
<1>1. IInv => TypeOK
  BY DEF IInv
<1>. QED BY <1>1, SpecInv, PTL

\* At every await the owner's aggregate is what the log says.
THEOREM TallyIsDurable == Spec => []LogAndTallyAgree
<1>1. IInv => LogAndTallyAgree
  BY DEF IInv
<1>. QED BY <1>1, SpecInv, PTL

\* Between calls a context stands at the head of the log.
THEOREM ContextIsAtHead == Spec => []ContextStandsAtHead
<1>1. IInv => ContextStandsAtHead
  BY DEF IInv, ContextOK, ContextStandsAtHead
<1>. QED BY <1>1, SpecInv, PTL

\* Every resume read one log, in four accesses.
THEOREM ResumeIsOneRead == Spec => []ResumeReadsOneLog
<1>1. IInv => ResumeReadsOneLog
  BY DEF IInv
<1>. QED BY <1>1, SpecInv, PTL

-----------------------------------------------------------------------------
(* The refinement.                                                         *)

\* What a log of one more record holds.
LEMMA CommandsAppend ==
  ASSUME LogOK, NEW e \in Event, NEW p \in Nat, log' = LogAppend(log, e, p)
  PROVE  /\ Commands' = Append(Commands, <<stream, e.cmd>>)
         /\ LastCommand' = [s \in {stream} |-> {e.cmd}]
<1> DEFINE R == log.records
           Pairs(r) == [i \in 1 .. Len(r) |-> <<stream, r[i].events.cmd>>]
           r1 == [events |-> e, entropy_pos |-> p]
           Pair == {stream} \X Command
<1>1. /\ R \in Seq(LogRecord) /\ r1 \in LogRecord /\ r1.events.cmd = e.cmd
      /\ LogHead(log) = Len(R)
  BY DEF LogOK, LogRecord, LogHead
<1>2. log'.records = Append(R, r1) /\ LogHead(log)' = Len(R) + 1
  <2>1. LogHead(log)' = LogHead(log) + 1 /\ log'.records = Append(R, r1)
    BY AppendType
  <2>. QED BY <1>1, <2>1
<1>3. Commands = Pairs(R) /\ Commands' = [i \in 1 .. Len(R) + 1 |-> <<stream, log'.records[i].events.cmd>>]
  BY <1>1, <1>2 DEF Commands
<1>4. \A i \in 1 .. Len(R) : R[i].events.cmd \in Command
  <2>1. \A i \in 1 .. Len(R) : R[i] \in LogRecord
    BY <1>1
  <2>2. \A r \in LogRecord : r.events.cmd \in Command
    BY DEF LogRecord, Event
  <2>. QED BY <2>1, <2>2
<1>5. e.cmd \in Command
  BY DEF Event
<1>6. Pairs(R) \in Seq(Pair) /\ Len(Pairs(R)) = Len(R) /\ Len(R) \in Nat
  <2>1. Len(R) \in Nat /\ Pairs(R) \in [1 .. Len(R) -> Pair]
    BY <1>1, <1>4
  <2>. HIDE DEF Pairs, Pair
  <2>. QED BY <2>1, SeqDef
<1>7. /\ Append(Pairs(R), <<stream, e.cmd>>) \in Seq(Pair)
      /\ Len(Append(Pairs(R), <<stream, e.cmd>>)) = Len(R) + 1
  BY <1>5, <1>6
<1>8. Commands' \in Seq(Pair) /\ Len(Commands') = Len(R) + 1
  <2>1. \A i \in 1 .. Len(R) + 1 : log'.records[i] = IF i = Len(R) + 1 THEN r1 ELSE R[i]
    BY <1>1, <1>2
  <2>2. Commands' \in [1 .. Len(R) + 1 -> Pair]
    BY <1>1, <1>3, <1>4, <1>5, <2>1, SMTT(30)
  <2>. HIDE DEF Pair
  <2>. QED BY <1>6, <2>2, SeqDef
<1>9. ASSUME NEW i \in 1 .. Len(R) + 1
      PROVE  Commands'[i] = Append(Pairs(R), <<stream, e.cmd>>)[i]
  <2>1. log'.records[i] = IF i = Len(R) + 1 THEN r1 ELSE R[i]
    BY <1>1, <1>2
  <2>2. Commands'[i] = <<stream, IF i = Len(R) + 1 THEN e.cmd ELSE R[i].events.cmd>>
    BY <1>1, <1>3, <2>1
  <2>3. Append(Pairs(R), <<stream, e.cmd>>)[i] =
          IF i = Len(R) + 1 THEN <<stream, e.cmd>> ELSE Pairs(R)[i]
    BY <1>5, <1>6
  <2>4. i # Len(R) + 1 => Pairs(R)[i] = <<stream, R[i].events.cmd>>
    BY <1>1
  <2>. HIDE DEF Pairs
  <2>. QED BY <2>2, <2>3, <2>4
<1>10. Commands' = Append(Pairs(R), <<stream, e.cmd>>)
  <2>. HIDE DEF Pair, Pairs
  <2>. QED BY <1>7, <1>8, <1>9, SeqEqual
<1>11. Commands' # <<>> /\ Commands'[Len(Commands')][2] = e.cmd
  <2>1. Commands'[Len(R) + 1] = <<stream, e.cmd>>
    BY <1>5, <1>6, <1>10
  <2>. QED BY <1>6, <1>8, <2>1
<1>. QED BY <1>3, <1>10, <1>11 DEF LastCommand

LEMMA OnlyAppendWrites == Next => ExecAppended \/ log' = log
BY DEF Next, BeginCtx, BeginExec, ArmAppendFailure, Crash, BeginResume, Proceed, DropFuture,
       Begin, Yield, Unpark, CtxHead, CtxPos, ExecHead, ExecPos, ExecFailed,
       ResumeSnapshot, ResumeEvents, ResumeHead, ResumePos

\* However calls are dropped and processes die, the store handles commands one
\* at a time, each on the state and with the entropy the ones before it left.
THEOREM Refinement == Spec => ImplementsAtomicCommands
<1>1. Init => Atomic!Init
  <2> SUFFICES ASSUME Init PROVE Atomic!Init
    OBVIOUS
  <2>1. log.records = <<>> /\ LogHead(log) = 0
    BY DEF Init, NewLog, LogHead
  <2>2. States = [s \in {stream} |-> <<>>] /\ Positions = [s \in {stream} |-> 0]
    BY <2>1 DEF States, Positions, HeadPos, Events
  <2>3. Commands = <<>>
    BY <2>1 DEF Commands
  <2>. QED BY <2>2, <2>3 DEF Atomic!Init, LastCommand
<1>2. IInv /\ [Next]_vars => [Atomic!Next]_(Atomic!abstractVars)
  <2> SUFFICES ASSUME IInv, [Next]_vars
               PROVE  [Atomic!Next]_(Atomic!abstractVars)
    OBVIOUS
  <2>1. CASE log' = log
    <3>1. States' = States /\ Positions' = Positions
      BY <2>1, LogSame DEF States, Positions
    <3>2. Commands' = Commands /\ LastCommand' = LastCommand
      BY <2>1 DEF Commands, LastCommand, LogHead
    <3>. QED BY <3>1, <3>2 DEF Atomic!abstractVars
  <2>2. CASE ExecAppended
    <3>1. LogOK
      BY DEF IInv
    <3>2. PICK c \in Command :
            LET e == [cmd |-> c, base |-> Len(Events(log.records)), drawn |-> HeadPos]
            IN /\ log' = LogAppend(log, e, HeadPos + Draws[c])
               /\ e \in Event /\ HeadPos + Draws[c] \in Nat
      BY <2>2, ExecAppendedStep
    <3> DEFINE e == [cmd |-> c, base |-> Len(Events(log.records)), drawn |-> HeadPos]
               p == HeadPos + Draws[c]
    <3>3. e.cmd = c /\ e = Atomic!Decided(c, States[stream], Positions[stream])
      BY DEF Atomic!Decided, States, Positions
    <3>4. e \in Event /\ p \in Nat /\ log' = LogAppend(log, e, p)
      BY <3>2
    <3>. HIDE DEF e
    <3>5. HeadPos' = p /\ Events(log.records)' = Append(Events(log.records), e)
      <4>. HIDE DEF p
      <4>. QED BY <3>1, <3>4, AppendType
    <3>6. /\ Commands' = Append(Commands, <<stream, c>>)
          /\ LastCommand' = [s \in {stream} |-> {c}]
      <4>. HIDE DEF p
      <4>. QED BY <3>1, <3>3, <3>4, CommandsAppend
    <3>7. States' = [States EXCEPT ![stream] = Append(States[stream], e)]
      BY <3>5 DEF States
    <3>8. Positions' = [Positions EXCEPT ![stream] = Positions[stream] + Draws[c]]
      BY <3>5 DEF Positions
    <3>9. LastCommand' = [LastCommand EXCEPT ![stream] = {c}]
      BY <3>6 DEF LastCommand
    <3>10. Atomic!Handle(stream, c)
      BY <3>3, <3>6, <3>7, <3>8, <3>9 DEF Atomic!Handle
    <3>. QED BY <3>10 DEF Atomic!Next
  <2>3. UNCHANGED vars => log' = log
    BY DEF vars
  <2>. QED BY <2>1, <2>2, <2>3, OnlyAppendWrites
<1>. QED BY <1>1, <1>2, SpecInv, PTL DEF Spec, ImplementsAtomicCommands, Atomic!Spec

=============================================================================
