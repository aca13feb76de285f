-------------------------- MODULE SubscriptionProofs --------------------------
(***************************************************************************)
(* What a subscription promises, for any number of streams, records and    *)
(* commands.  In whatever order the transport offers the events, none is   *)
(* reacted to again while the subscription lives, none after a later one   *)
(* of its stream, and only late ones are dropped without a reaction.       *)
(* Of a stream that the transport keeps in order and whose records hold    *)
(* one event each, none is skipped, and the commands keep its order,       *)
(* whatever is delivered of the other streams.  SubscriptionBatch shows    *)
(* that this needs the second condition, and OnlyLateIsLost says what is   *)
(* left of it without the first.                                           *)
(*                                                                         *)
(* The invariant relates the mark of a stream to what was handled: all     *)
(* that is handled by this subscription is at or below the mark, and all   *)
(* that is recorded at or below the mark is handled.  The second holds     *)
(* because `deliver` is offered an event only once those before it are     *)
(* acknowledged, and because nothing is recorded below the head later.     *)
(***************************************************************************)
EXTENDS Subscription, TLAPS

\* All the events before one are acknowledged, if the transport keeps the order.
CaughtUpTo(e) ==
  e.stream \in InOrder => \A d \in Recorded : Precedes(d, e) => d \in acknowledged

MarksWithinHead == \A s \in SourceStream : marks[s] <= Len(source[s])

HandledIsMarked ==
  \A e \in SourceEvent : handled[e] = "yes" => e.at <= marks[e.stream]

\* The event that is being reacted to is above the mark, and what precedes it
\* is acknowledged.
DeliveryOK ==
  delivery # None =>
    LET e == delivery.event
    IN /\ e \in Recorded /\ CaughtUpTo(e)
       /\ e.at > marks[e.stream]
       /\ delivery.next > 1 =>
            last[e.stream] = [event |-> e, command |-> delivery.next - 1]

\* Of the last command executed for a stream.
LastOK ==
  \A s \in SourceStream : last[s] # None =>
    /\ last[s].event.stream = s
    /\ last[s].event \in Recorded /\ CaughtUpTo(last[s].event)

\* What holds however many events a record has.
AnyBatchInv == TypeOK /\ MarksWithinHead /\ HandledIsMarked /\ DeliveryOK /\ LastOK

\* All that is recorded at or below a mark is handled.
MarkedIsHandled ==
  \A e \in Recorded :
    e.stream \in InOrder /\ e.at <= marks[e.stream] => handled[e] # "no"

\* The records of a stream that does not batch hold one event at most.
OneEventEach == \A e \in Recorded : e.stream \notin Batching => e.index = 1

OneEventInv == AnyBatchInv /\ OneEventEach /\ NothingIsSkipped /\ MarkedIsHandled

-----------------------------------------------------------------------------
(* Types.                                                                  *)

LEMMA Bounds ==
  /\ MaxHead \in Nat /\ MaxBatch \in Nat \ {0} /\ MaxCommands \in Nat
  /\ InOrder \subseteq SourceStream
BY BoundsAssumption

LEMMA AppendOne ==
  ASSUME NEW S, NEW q \in Seq(S), NEW n \in S
  PROVE  /\ Append(q, n) \in Seq(S) /\ Len(Append(q, n)) = Len(q) + 1
         /\ \A i \in 1 .. Len(q) : Append(q, n)[i] = q[i]
         /\ Append(q, n)[Len(q) + 1] = n
OBVIOUS

LEMMA InitAnyBatch == Init => AnyBatchInv
<1> SUFFICES ASSUME Init PROVE AnyBatchInv
  OBVIOUS
<1>1. TypeOK
  BY Bounds DEF Init, TypeOK
<1>2. MarksWithinHead
  <2>1. SUFFICES ASSUME NEW s \in SourceStream PROVE marks[s] <= Len(source[s])
    BY DEF MarksWithinHead
  <2>2. source[s] = <<>> /\ marks[s] = 0
    BY DEF Init
  <2>3. source[s] \in Seq(0 .. MaxBatch)
    BY <1>1 DEF TypeOK
  <2>4. Len(source[s]) \in Nat
    BY <2>3
  <2>. QED BY <2>2, <2>4
<1>3. HandledIsMarked /\ DeliveryOK /\ LastOK
  BY DEF Init, HandledIsMarked, DeliveryOK, LastOK
<1>. QED BY <1>1, <1>2, <1>3 DEF AnyBatchInv

LEMMA RecordedType ==
  ASSUME TypeOK, NEW e \in Recorded
  PROVE  /\ e \in SourceEvent /\ e.stream \in SourceStream
         /\ e.at \in 1 .. MaxHead /\ e.index \in 1 .. MaxBatch
         /\ e.at <= Len(source[e.stream]) /\ marks[e.stream] \in 0 .. MaxHead
BY DEF Recorded, SourceEvent, TypeOK

\* Appending a record adds events above the head and changes none below it.
LEMMA AppendKeepsRecorded ==
  ASSUME TypeOK, NEW s \in SourceStream, NEW n \in 0 .. MaxBatch, AppendSource(s, n)
  PROVE  /\ source' \in [SourceStream -> Seq(0 .. MaxBatch)]
         /\ \A r \in SourceStream : Len(source[r]) <= Len(source'[r])
         /\ Recorded \subseteq Recorded'
         /\ \A e \in Recorded' : e \in Recorded \/ e.at > Len(source[e.stream])
         /\ \A e \in Recorded' : e \in Recorded \/ e.stream \in Batching \/ e.index = 1
<1>1. /\ source[s] \in Seq(0 .. MaxBatch) /\ Len(source[s]) \in Nat
      /\ source' = [source EXCEPT ![s] = Append(source[s], n)]
  BY DEF TypeOK, AppendSource
<1>2. PICK q \in Seq(0 .. MaxBatch) : q = Append(source[s], n)
  BY <1>1, AppendOne
<1>3. /\ Len(q) = Len(source[s]) + 1
      /\ \A i \in 1 .. Len(source[s]) : q[i] = source[s][i]
      /\ q[Len(source[s]) + 1] = n
  BY <1>1, <1>2, AppendOne
<1>4. /\ source' \in [SourceStream -> Seq(0 .. MaxBatch)]
      /\ source'[s] = q /\ \A r \in SourceStream : r # s => source'[r] = source[r]
  BY <1>1, <1>2 DEF TypeOK
<1>5. \A r \in SourceStream : Len(source[r]) \in Nat /\ Len(source[r]) <= Len(source'[r])
  BY <1>1, <1>3, <1>4 DEF TypeOK
<1>6. ASSUME NEW e \in SourceEvent, e.at <= Len(source[e.stream])
      PROVE  e.at <= Len(source'[e.stream]) /\ source'[e.stream][e.at] = source[e.stream][e.at]
  <2>1. e.stream \in SourceStream /\ e.at \in 1 .. MaxHead
    BY DEF SourceEvent
  <2>2. CASE e.stream = s
    <3>1. e.at \in 1 .. Len(source[s])
      BY <1>6, <2>1, <2>2, <1>1
    <3>. QED BY <3>1, <1>1, <1>3, <1>4, <2>2
  <2>3. CASE e.stream # s
    BY <1>4, <1>6, <2>1, <2>3
  <2>. QED BY <2>2, <2>3
<1>7. Recorded \subseteq Recorded'
  BY <1>6 DEF Recorded
<1>8. ASSUME NEW e \in Recorded', e \notin Recorded
      PROVE  e.at > Len(source[e.stream]) /\ (e.stream \in Batching \/ e.index = 1)
  <2>1. /\ e \in SourceEvent /\ e.index <= source'[e.stream][e.at]
        /\ e.at <= Len(source'[e.stream])
    BY DEF Recorded
  <2>2. /\ e.stream \in SourceStream /\ e.at \in Nat /\ Len(source[e.stream]) \in Nat
        /\ e.index \in Nat \ {0}
    BY <2>1, <1>5, Bounds DEF SourceEvent
  <2>3. e.at > Len(source[e.stream])
    <3>1. CASE e.at <= Len(source[e.stream])
      BY <1>6, <1>8, <2>1, <3>1 DEF Recorded
    <3>. QED BY <2>2, <3>1
  <2>4. e.stream = s
    <3>1. CASE e.stream # s
      BY <1>4, <2>1, <2>2, <2>3, <3>1
    <3>. QED BY <3>1
  <2>5. e.at = Len(source[s]) + 1
    BY <1>3, <1>4, <2>1, <2>2, <2>3, <2>4
  <2>6. e.index <= n
    BY <1>3, <1>4, <2>1, <2>4, <2>5
  <2>7. n > 1 => s \in Batching
    BY DEF AppendSource
  <2>8. n \in Nat
    BY Bounds
  <2>. QED BY <2>2, <2>3, <2>4, <2>6, <2>7, <2>8
<1>. QED BY <1>4, <1>5, <1>7, <1>8

\* Two events of one stream are ordered.
LEMMA EventsAreOrdered ==
  ASSUME NEW d \in SourceEvent, NEW e \in SourceEvent, d.stream = e.stream
  PROVE  Precedes(d, e) \/ d = e \/ Precedes(e, d)
<1>1. /\ d.at \in Nat /\ d.index \in Nat /\ e.at \in Nat /\ e.index \in Nat
      /\ d = [stream |-> d.stream, at |-> d.at, index |-> d.index]
      /\ e = [stream |-> e.stream, at |-> e.at, index |-> e.index]
  BY Bounds DEF SourceEvent
<1>2. CASE d.at = e.at /\ d.index = e.index
  BY <1>1, <1>2
<1>3. CASE d.at # e.at \/ d.index # e.index
  BY <1>1, <1>3 DEF Precedes
<1>. QED BY <1>2, <1>3

\* Where records hold one event, those of a stream are ordered by their records.
LEMMA OneEventPerRecord ==
  ASSUME NEW d \in SourceEvent, NEW e \in SourceEvent, d.index = 1, e.index = 1,
         d.stream = e.stream, d.at <= e.at
  PROVE  Precedes(d, e) \/ d = e
<1>1. /\ d.at \in Nat /\ e.at \in Nat /\ d.index = 1 /\ e.index = 1
      /\ d = [stream |-> d.stream, at |-> d.at, index |-> d.index]
      /\ e = [stream |-> e.stream, at |-> e.at, index |-> e.index]
  BY Bounds DEF SourceEvent
<1>2. CASE d.at = e.at
  BY <1>1, <1>2
<1>3. CASE d.at # e.at
  BY <1>1, <1>3 DEF Precedes
<1>. QED BY <1>2, <1>3

-----------------------------------------------------------------------------
(* Every step keeps what holds however many events a record has.           *)

LEMMA AppendAnyBatch ==
  ASSUME AnyBatchInv, NEW s \in SourceStream, NEW n \in 0 .. MaxBatch, AppendSource(s, n)
  PROVE  AnyBatchInv'
<1>1. /\ TypeOK /\ source' \in [SourceStream -> Seq(0 .. MaxBatch)]
      /\ \A r \in SourceStream : Len(source[r]) <= Len(source'[r])
      /\ Recorded \subseteq Recorded'
      /\ \A e \in Recorded' : e \in Recorded \/ e.at > Len(source[e.stream])
  BY AppendKeepsRecorded DEF AnyBatchInv
<1>2. /\ marks' = marks /\ delivery' = delivery /\ acknowledged' = acknowledged
      /\ handled' = handled /\ last' = last
  BY DEF AppendSource
<1>3. TypeOK'
  BY <1>1, <1>2 DEF TypeOK
<1>4. MarksWithinHead'
  <2>1. ASSUME NEW r \in SourceStream PROVE marks[r] <= Len(source'[r])
    <3>1. marks[r] \in Nat /\ Len(source[r]) \in Nat /\ Len(source'[r]) \in Nat
      BY <1>1 DEF TypeOK
    <3>. QED BY <3>1, <1>1 DEF AnyBatchInv, MarksWithinHead
  <2>. QED BY <2>1, <1>2 DEF MarksWithinHead
<1>5. HandledIsMarked'
  BY <1>2 DEF AnyBatchInv, HandledIsMarked
<1>6. ASSUME NEW e \in Recorded, CaughtUpTo(e) PROVE CaughtUpTo(e)'
  <2>1. ASSUME NEW d \in Recorded', Precedes(d, e) PROVE d \in Recorded
    <3>1. d.stream = e.stream /\ d.at <= e.at
      <4>1. d \in SourceEvent /\ e \in SourceEvent
        BY DEF Recorded
      <4>. QED BY <2>1, <4>1, Bounds DEF Precedes, SourceEvent
    <3>2. e.at <= Len(source[e.stream]) /\ Len(source[e.stream]) \in Nat
      BY <1>1, RecordedType DEF TypeOK
    <3>3. d.at \in Nat /\ e.at \in Nat
      BY Bounds DEF Recorded, SourceEvent
    <3>. QED BY <1>1, <3>1, <3>2, <3>3
  <2>. QED BY <1>2, <1>6, <2>1 DEF CaughtUpTo
<1>7. DeliveryOK'
  <2>1. ASSUME delivery # None
        PROVE  /\ delivery.event \in Recorded' /\ CaughtUpTo(delivery.event)'
               /\ delivery.event.at > marks[delivery.event.stream]
               /\ delivery.next > 1 =>
                    last[delivery.event.stream] =
                      [event |-> delivery.event, command |-> delivery.next - 1]
    <3>1. delivery.event \in Recorded /\ CaughtUpTo(delivery.event)
      BY <2>1 DEF AnyBatchInv, DeliveryOK
    <3>2. CaughtUpTo(delivery.event)'
      BY <1>6, <3>1, <1>2 DEF CaughtUpTo
    <3>. QED BY <1>1, <2>1, <3>1, <3>2 DEF AnyBatchInv, DeliveryOK
  <2>. QED BY <1>2, <2>1 DEF DeliveryOK, CaughtUpTo
<1>8. LastOK'
  <2>1. ASSUME NEW r \in SourceStream, last[r] # None
        PROVE  /\ last[r].event.stream = r
               /\ last[r].event \in Recorded' /\ CaughtUpTo(last[r].event)'
    <3>1. /\ last[r].event.stream = r
          /\ last[r].event \in Recorded /\ CaughtUpTo(last[r].event)
      BY <2>1 DEF AnyBatchInv, LastOK
    <3>. QED BY <1>1, <1>2, <1>6, <3>1 DEF CaughtUpTo
  <2>. QED BY <1>2, <2>1 DEF LastOK, CaughtUpTo
<1>. QED BY <1>3, <1>4, <1>5, <1>7, <1>8 DEF AnyBatchInv

\* Of a step that records nothing, the parts that only need more acknowledged.
LEMMA SameRecorded ==
  ASSUME source' = source, acknowledged \subseteq acknowledged'
  PROVE  Recorded' = Recorded /\ \A e : CaughtUpTo(e) => CaughtUpTo(e)'
<1>1. Recorded' = Recorded
  BY DEF Recorded
<1>. QED BY <1>1 DEF CaughtUpTo

LEMMA DropAnyBatch ==
  ASSUME AnyBatchInv, NEW e \in SourceEvent, Drop(e)
  PROVE  AnyBatchInv'
<1>1. /\ source' = source /\ marks' = marks /\ delivery' = None /\ delivery = None
      /\ handled' = handled /\ last' = last
      /\ acknowledged' = acknowledged \union {e}
  BY DEF Drop, Deliverable
<1>2. Recorded' = Recorded /\ \A d : CaughtUpTo(d) => CaughtUpTo(d)'
  BY <1>1, SameRecorded
<1>3. TypeOK'
  BY <1>1 DEF AnyBatchInv, TypeOK
<1>4. MarksWithinHead' /\ HandledIsMarked' /\ DeliveryOK'
  BY <1>1 DEF AnyBatchInv, MarksWithinHead, HandledIsMarked, DeliveryOK
<1>5. LastOK'
  BY <1>1, <1>2 DEF AnyBatchInv, LastOK
<1>. QED BY <1>3, <1>4, <1>5 DEF AnyBatchInv

LEMMA ReactAnyBatch ==
  ASSUME AnyBatchInv, NEW e \in SourceEvent, NEW n \in 0 .. MaxCommands, React(e, n)
  PROVE  AnyBatchInv'
<1>1. /\ source' = source /\ marks' = marks /\ handled' = handled /\ last' = last
      /\ acknowledged' = acknowledged
      /\ delivery' = [event |-> e, next |-> 1, commands |-> n]
  BY DEF React
<1>2. Recorded' = Recorded /\ \A d : CaughtUpTo(d) => CaughtUpTo(d)'
  BY <1>1, SameRecorded
<1>3. /\ delivery' \in Delivery /\ delivery'.event = e /\ delivery'.next = 1
  BY <1>1, Bounds DEF Delivery
<1>4. TypeOK'
  BY <1>1, <1>3 DEF AnyBatchInv, TypeOK
<1>5. e \in Recorded /\ CaughtUpTo(e)
  BY DEF React, Deliverable, CaughtUpTo
<1>6. e.at > marks[e.stream]
  <2>1. e.at \in Nat /\ marks[e.stream] \in Nat
    BY <1>5, RecordedType, Bounds DEF AnyBatchInv
  <2>. QED BY <2>1 DEF React, AtOrBelowMark
<1>7. DeliveryOK'
  BY <1>1, <1>2, <1>3, <1>5, <1>6 DEF DeliveryOK
<1>8. MarksWithinHead' /\ HandledIsMarked'
  BY <1>1 DEF AnyBatchInv, MarksWithinHead, HandledIsMarked
<1>9. LastOK'
  BY <1>1, <1>2 DEF AnyBatchInv, LastOK
<1>. QED BY <1>4, <1>7, <1>8, <1>9 DEF AnyBatchInv

\* What the running `deliver` is at.
LEMMA DeliveryType ==
  ASSUME AnyBatchInv, delivery # None
  PROVE  /\ delivery \in Delivery /\ delivery.event \in Recorded
         /\ delivery.event \in SourceEvent /\ delivery.event.stream \in SourceStream
         /\ CaughtUpTo(delivery.event)
         /\ delivery.event.at \in 1 .. MaxHead
         /\ delivery.event.at > marks[delivery.event.stream]
<1>1. delivery \in Delivery /\ delivery.event \in Recorded /\ CaughtUpTo(delivery.event)
  BY DEF AnyBatchInv, DeliveryOK, TypeOK
<1>. QED BY <1>1, RecordedType DEF AnyBatchInv, DeliveryOK

LEMMA ExecuteAnyBatch ==
  ASSUME AnyBatchInv, ExecuteNext
  PROVE  AnyBatchInv'
<1>1. PICK e, n, m : /\ delivery.event = e /\ delivery.next = n /\ delivery.commands = m
  OBVIOUS
<1>2. /\ e \in Recorded /\ e \in SourceEvent /\ e.stream \in SourceStream
      /\ CaughtUpTo(e) /\ e.at > marks[e.stream]
      /\ n \in 1 .. MaxCommands + 1 /\ m \in 0 .. MaxCommands /\ n <= m
      /\ delivery \in Delivery
  BY <1>1, DeliveryType DEF ExecuteNext, Reacting, Delivery
<1>3. n \in 1 .. MaxCommands /\ n + 1 \in 1 .. MaxCommands + 1 /\ n + 1 > 1 /\ (n + 1) - 1 = n
  BY <1>2, Bounds
<1>4. /\ delivery' \in Delivery /\ delivery'.event = e /\ delivery'.next = n + 1
  BY <1>1, <1>2, <1>3 DEF ExecuteNext, Delivery
<1>5. PICK act : act = [event |-> e, command |-> n]
  OBVIOUS
<1>6. act \in Action /\ act.event = e
  BY <1>2, <1>3, <1>5 DEF Action
<1>7. /\ source' = source /\ marks' = marks /\ handled' = handled
      /\ acknowledged' = acknowledged /\ last' = [last EXCEPT ![e.stream] = act]
  BY <1>1, <1>5 DEF ExecuteNext
<1>8. Recorded' = Recorded /\ \A d : CaughtUpTo(d) => CaughtUpTo(d)'
  BY <1>7, SameRecorded
<1>9. /\ last' \in [SourceStream -> Action \union {None}] /\ last'[e.stream] = act
      /\ \A r \in SourceStream : r # e.stream => last'[r] = last[r]
  BY <1>2, <1>6, <1>7 DEF AnyBatchInv, TypeOK
<1>10. TypeOK'
  BY <1>4, <1>7, <1>9 DEF AnyBatchInv, TypeOK
<1>11. DeliveryOK'
  BY <1>2, <1>3, <1>4, <1>5, <1>7, <1>8, <1>9 DEF DeliveryOK
<1>12. MarksWithinHead' /\ HandledIsMarked'
  BY <1>7 DEF AnyBatchInv, MarksWithinHead, HandledIsMarked
<1>13. LastOK'
  BY <1>2, <1>6, <1>8, <1>9 DEF AnyBatchInv, LastOK
<1>. QED BY <1>10, <1>11, <1>12, <1>13 DEF AnyBatchInv

LEMMA FailAnyBatch ==
  ASSUME AnyBatchInv, Fail
  PROVE  AnyBatchInv'
<1>1. /\ source' = source /\ marks' = marks /\ handled' = handled /\ last' = last
      /\ acknowledged' = acknowledged /\ delivery' = None
  BY DEF Fail
<1>2. Recorded' = Recorded /\ \A d : CaughtUpTo(d) => CaughtUpTo(d)'
  BY <1>1, SameRecorded
<1>3. TypeOK'
  BY <1>1 DEF AnyBatchInv, TypeOK
<1>4. MarksWithinHead' /\ HandledIsMarked' /\ DeliveryOK'
  BY <1>1 DEF AnyBatchInv, MarksWithinHead, HandledIsMarked, DeliveryOK
<1>5. LastOK'
  BY <1>1, <1>2 DEF AnyBatchInv, LastOK
<1>. QED BY <1>3, <1>4, <1>5 DEF AnyBatchInv

LEMMA AdvanceAnyBatch ==
  ASSUME AnyBatchInv, Advance
  PROVE  AnyBatchInv'
<1>1. PICK e : e = delivery.event
  OBVIOUS
<1>2. /\ e \in Recorded /\ e \in SourceEvent /\ e.stream \in SourceStream
      /\ e.at \in 1 .. MaxHead /\ e.at > marks[e.stream]
  BY <1>1, DeliveryType DEF Advance, Reacted
<1>3. /\ source' = source /\ last' = last /\ delivery' = None
      /\ marks' = [marks EXCEPT ![e.stream] = e.at]
      /\ acknowledged' = acknowledged \union {e}
      /\ handled' = [handled EXCEPT ![e] = "yes"]
  BY <1>1 DEF Advance
<1>4. Recorded' = Recorded /\ \A d : CaughtUpTo(d) => CaughtUpTo(d)'
  BY <1>3, SameRecorded
<1>5. /\ marks' \in [SourceStream -> 0 .. MaxHead] /\ marks'[e.stream] = e.at
      /\ \A r \in SourceStream : r # e.stream => marks'[r] = marks[r]
  BY <1>2, <1>3, Bounds DEF AnyBatchInv, TypeOK
<1>6. /\ handled' \in [SourceEvent -> {"no", "yes", "forgotten"}]
      /\ \A d \in SourceEvent : d # e => handled'[d] = handled[d]
  BY <1>2, <1>3 DEF AnyBatchInv, TypeOK
<1>7. TypeOK'
  BY <1>2, <1>3, <1>5, <1>6 DEF AnyBatchInv, TypeOK
<1>8. MarksWithinHead'
  <2>1. e.at <= Len(source[e.stream])
    BY <1>2, RecordedType DEF AnyBatchInv
  <2>. QED BY <1>3, <1>5, <2>1 DEF AnyBatchInv, MarksWithinHead
<1>9. HandledIsMarked'
  <2>1. ASSUME NEW d \in SourceEvent, handled'[d] = "yes" PROVE d.at <= marks'[d.stream]
    <3>1. d.stream \in SourceStream /\ d.at \in Nat /\ marks[d.stream] \in Nat
      BY Bounds DEF SourceEvent, AnyBatchInv, TypeOK
    <3>2. CASE d = e
      BY <1>5, <3>1, <3>2
    <3>3. CASE d # e
      <4>1. d.at <= marks[d.stream]
        BY <1>6, <2>1, <3>3 DEF AnyBatchInv, HandledIsMarked
      <4>2. CASE d.stream = e.stream
        BY <1>2, <1>5, <3>1, <4>1, <4>2, Bounds
      <4>3. CASE d.stream # e.stream
        BY <1>5, <3>1, <4>1, <4>3
      <4>. QED BY <4>2, <4>3
    <3>. QED BY <3>2, <3>3
  <2>. QED BY <2>1 DEF HandledIsMarked
<1>10. DeliveryOK' /\ LastOK'
  BY <1>3, <1>4 DEF AnyBatchInv, LastOK, DeliveryOK
<1>. QED BY <1>7, <1>8, <1>9, <1>10 DEF AnyBatchInv

LEMMA CrashAnyBatch ==
  ASSUME AnyBatchInv, Crash
  PROVE  AnyBatchInv'
<1>1. /\ source' = source /\ acknowledged' = acknowledged /\ delivery' = None
      /\ marks' = [s \in SourceStream |-> 0]
      /\ last' = [s \in SourceStream |-> None]
      /\ handled' = [e \in SourceEvent |->
                       IF handled[e] = "yes" THEN "forgotten" ELSE handled[e]]
  BY DEF Crash
<1>2. TypeOK'
  BY <1>1, Bounds DEF AnyBatchInv, TypeOK
<1>3. MarksWithinHead'
  <2>1. \A s \in SourceStream : Len(source[s]) \in Nat /\ marks'[s] = 0
    BY <1>1 DEF AnyBatchInv, TypeOK
  <2>. QED BY <1>1, <2>1 DEF MarksWithinHead
<1>4. HandledIsMarked' /\ DeliveryOK' /\ LastOK'
  BY <1>1 DEF HandledIsMarked, DeliveryOK, LastOK
<1>. QED BY <1>2, <1>3, <1>4 DEF AnyBatchInv

LEMMA StutterAnyBatch ==
  ASSUME AnyBatchInv, UNCHANGED vars
  PROVE  AnyBatchInv'
<1>1. /\ source' = source /\ marks' = marks /\ handled' = handled /\ last' = last
      /\ acknowledged' = acknowledged /\ delivery' = delivery
  BY DEF vars
<1>2. Recorded' = Recorded /\ \A d : CaughtUpTo(d) => CaughtUpTo(d)'
  BY <1>1, SameRecorded
<1>3. TypeOK' /\ MarksWithinHead' /\ HandledIsMarked'
  BY <1>1 DEF AnyBatchInv, TypeOK, MarksWithinHead, HandledIsMarked
<1>4. DeliveryOK'
  BY <1>1, <1>2 DEF AnyBatchInv, DeliveryOK
<1>5. LastOK'
  BY <1>1, <1>2 DEF AnyBatchInv, LastOK
<1>. QED BY <1>3, <1>4, <1>5 DEF AnyBatchInv

LEMMA StepAnyBatch == AnyBatchInv /\ [Next]_vars => AnyBatchInv'
<1> SUFFICES ASSUME AnyBatchInv, [Next]_vars PROVE AnyBatchInv'
  OBVIOUS
<1>1. CASE \E s \in SourceStream, n \in 0 .. MaxBatch : AppendSource(s, n)
  BY <1>1, AppendAnyBatch
<1>2. CASE \E e \in SourceEvent : Drop(e) \/ \E n \in 0 .. MaxCommands : React(e, n)
  BY <1>2, DropAnyBatch, ReactAnyBatch
<1>3. CASE ExecuteNext \/ Fail \/ Advance \/ Crash
  BY <1>3, ExecuteAnyBatch, FailAnyBatch, AdvanceAnyBatch, CrashAnyBatch
<1>4. CASE UNCHANGED vars
  BY <1>4, StutterAnyBatch
<1>. QED BY <1>1, <1>2, <1>3, <1>4 DEF Next

LEMMA SpecAnyBatch == Spec => []AnyBatchInv
BY InitAnyBatch, StepAnyBatch, PTL DEF Spec

\* Every variable has its type.
THEOREM TypeCorrect == Spec => []TypeOK
<1>1. AnyBatchInv => TypeOK
  BY DEF AnyBatchInv
<1>. QED BY <1>1, SpecAnyBatch, PTL

\* In whatever order and however often the transport offers the events, whatever
\* fails and however many of them a record holds, what a subscription has handled of a
\* stream comes before what it reacts to, which is therefore not handled yet: the mark
\* is at or above the one and below the other.
THEOREM HandledComesBefore == Spec => []HandledIsEarlier
<1>1. AnyBatchInv => HandledIsEarlier
  <2> SUFFICES ASSUME AnyBatchInv, delivery # None, NEW d \in SourceEvent,
                      d.stream = delivery.event.stream, handled[d] = "yes"
               PROVE  d.at < delivery.event.at
    BY DEF HandledIsEarlier
  <2>1. PICK e : e = delivery.event
    OBVIOUS
  <2>2. /\ e.at > marks[e.stream] /\ e.at \in Nat /\ marks[e.stream] \in Nat
    BY <2>1, DeliveryType, RecordedType, Bounds DEF AnyBatchInv
  <2>3. d.at <= marks[e.stream] /\ d.at \in Nat
    BY <2>1, Bounds DEF AnyBatchInv, HandledIsMarked, SourceEvent
  <2>. QED BY <2>1, <2>2, <2>3
<1>. QED BY <1>1, SpecAnyBatch, PTL

-----------------------------------------------------------------------------
(* What is dropped without a reaction.                                     *)

\* A mark is where an event was handled.
MarksAreHandled ==
  \A s \in SourceStream : marks[s] # 0 =>
    \E d \in SourceEvent : d.stream = s /\ d.at = marks[s] /\ handled[d] = "yes"

LateInv == AnyBatchInv /\ MarksAreHandled /\ OnlyLateIsLost

\* A step that acknowledges nothing and leaves the marks alone.
LEMMA QuietLate ==
  ASSUME LateInv, marks' = marks, acknowledged' = acknowledged, handled' = handled
  PROVE  MarksAreHandled' /\ OnlyLateIsLost'
BY DEF LateInv, MarksAreHandled, OnlyLateIsLost

LEMMA DropLate ==
  ASSUME LateInv, NEW e \in SourceEvent, Drop(e)
  PROVE  MarksAreHandled' /\ OnlyLateIsLost'
<1>1. /\ AnyBatchInv /\ MarksAreHandled /\ OnlyLateIsLost
      /\ e \in Recorded /\ e.at <= marks[e.stream]
      /\ marks' = marks /\ handled' = handled
      /\ acknowledged' = acknowledged \union {e}
  BY DEF LateInv, Drop, Deliverable, AtOrBelowMark
<1>2. e.stream \in SourceStream /\ e.at \in 1 .. MaxHead /\ marks[e.stream] \in 0 .. MaxHead
  BY <1>1, RecordedType DEF AnyBatchInv
<1>3. marks[e.stream] # 0
  BY <1>1, <1>2, Bounds
<1>4. PICK d \in SourceEvent :
        d.stream = e.stream /\ d.at = marks[e.stream] /\ handled[d] = "yes"
  BY <1>1, <1>2, <1>3 DEF MarksAreHandled
<1>5. d.at >= e.at /\ handled[d] # "no"
  BY <1>1, <1>2, <1>4, Bounds
<1>6. OnlyLateIsLost'
  BY <1>1, <1>4, <1>5 DEF OnlyLateIsLost
<1>. QED BY <1>1, <1>6 DEF MarksAreHandled

LEMMA AdvanceLate ==
  ASSUME LateInv, Advance
  PROVE  MarksAreHandled' /\ OnlyLateIsLost'
<1>1. AnyBatchInv /\ TypeOK /\ MarksAreHandled /\ OnlyLateIsLost
  BY DEF LateInv, AnyBatchInv
<1>2. PICK e : e = delivery.event
  OBVIOUS
<1>3. e \in SourceEvent /\ e.stream \in SourceStream
  BY <1>1, <1>2, DeliveryType DEF Advance, Reacted
<1>4. /\ marks' = [marks EXCEPT ![e.stream] = e.at]
      /\ acknowledged' = acknowledged \union {e}
      /\ handled' = [handled EXCEPT ![e] = "yes"]
  BY <1>2 DEF Advance
<1>5. /\ handled'[e] = "yes"
      /\ \A d \in SourceEvent : d # e => handled'[d] = handled[d]
  BY <1>1, <1>3, <1>4 DEF TypeOK
<1>6. /\ marks'[e.stream] = e.at
      /\ \A r \in SourceStream : r # e.stream => marks'[r] = marks[r]
  BY <1>1, <1>3, <1>4 DEF TypeOK
<1>7. MarksAreHandled'
  <2>1. ASSUME NEW s \in SourceStream, marks'[s] # 0
        PROVE  \E d \in SourceEvent :
                 d.stream = s /\ d.at = marks'[s] /\ handled'[d] = "yes"
    <3>1. CASE s = e.stream
      BY <1>3, <1>5, <1>6, <3>1
    <3>2. CASE s # e.stream
      BY <1>1, <1>5, <1>6, <2>1, <3>2 DEF MarksAreHandled
    <3>. QED BY <3>1, <3>2
  <2>. QED BY <2>1 DEF MarksAreHandled
<1>8. OnlyLateIsLost'
  <2>1. ASSUME NEW c \in acknowledged', handled'[c] = "no"
        PROVE  \E d \in SourceEvent :
                 d.stream = c.stream /\ d.at >= c.at /\ handled'[d] # "no"
    <3>1. c \in acknowledged /\ c \in SourceEvent /\ handled[c] = "no"
      BY <1>1, <1>3, <1>4, <1>5, <2>1 DEF TypeOK
    <3>2. PICK d \in SourceEvent : d.stream = c.stream /\ d.at >= c.at /\ handled[d] # "no"
      BY <1>1, <3>1 DEF OnlyLateIsLost
    <3>3. handled'[d] # "no"
      BY <1>5, <3>2
    <3>. QED BY <3>2, <3>3
  <2>. QED BY <2>1 DEF OnlyLateIsLost
<1>. QED BY <1>7, <1>8

LEMMA CrashLate ==
  ASSUME LateInv, Crash
  PROVE  MarksAreHandled' /\ OnlyLateIsLost'
<1>1. TypeOK /\ OnlyLateIsLost
  BY DEF LateInv, AnyBatchInv
<1>2. /\ acknowledged' = acknowledged /\ marks' = [s \in SourceStream |-> 0]
      /\ handled' = [e \in SourceEvent |->
                       IF handled[e] = "yes" THEN "forgotten" ELSE handled[e]]
  BY DEF Crash
<1>3. MarksAreHandled'
  BY <1>2 DEF MarksAreHandled
<1>4. \A e \in SourceEvent : handled'[e] = "no" <=> handled[e] = "no"
  BY <1>2
<1>5. acknowledged \subseteq SourceEvent
  BY <1>1 DEF TypeOK
<1>6. OnlyLateIsLost'
  BY <1>1, <1>2, <1>4, <1>5 DEF OnlyLateIsLost
<1>. QED BY <1>3, <1>6

LEMMA StepLate == LateInv /\ [Next]_vars => LateInv'
<1> SUFFICES ASSUME LateInv, [Next]_vars PROVE LateInv'
  OBVIOUS
<1>1. AnyBatchInv'
  BY StepAnyBatch DEF LateInv
<1>2. CASE \E s \in SourceStream, n \in 0 .. MaxBatch : AppendSource(s, n)
  BY <1>1, <1>2, QuietLate DEF AppendSource, LateInv
<1>3. CASE \E e \in SourceEvent : Drop(e)
  BY <1>1, <1>3, DropLate DEF LateInv
<1>4. CASE \E e \in SourceEvent, n \in 0 .. MaxCommands : React(e, n)
  BY <1>1, <1>4, QuietLate DEF React, LateInv
<1>5. CASE ExecuteNext \/ Fail
  BY <1>1, <1>5, QuietLate DEF ExecuteNext, Fail, LateInv
<1>6. CASE Advance
  BY <1>1, <1>6, AdvanceLate DEF LateInv
<1>7. CASE Crash
  BY <1>1, <1>7, CrashLate DEF LateInv
<1>8. CASE UNCHANGED vars
  BY <1>1, <1>8, QuietLate DEF vars, LateInv
<1>. QED BY <1>2, <1>3, <1>4, <1>5, <1>6, <1>7, <1>8 DEF Next

\* In whatever order the transport offers the events, one that `deliver` returned
\* Ok for without a reaction came after one of its own or of a later record.
THEOREM OnlyLateLost == Spec => []OnlyLateIsLost
<1>1. Init => LateInv
  BY InitAnyBatch DEF Init, LateInv, MarksAreHandled, OnlyLateIsLost
<1>2. LateInv => OnlyLateIsLost
  BY DEF LateInv
<1>. QED BY <1>1, <1>2, StepLate, PTL DEF Spec

-----------------------------------------------------------------------------
(* Where a record holds one event, what is acknowledged has been handled.  *)

LEMMA AppendOneEvent ==
  ASSUME OneEventInv, NEW s \in SourceStream, NEW n \in 0 .. MaxBatch, AppendSource(s, n)
  PROVE  OneEventEach' /\ NothingIsSkipped' /\ MarkedIsHandled'
<1>1. /\ TypeOK /\ MarksWithinHead
      /\ OneEventEach /\ NothingIsSkipped /\ MarkedIsHandled
  BY DEF OneEventInv, AnyBatchInv
<1>2. marks' = marks /\ acknowledged' = acknowledged /\ handled' = handled
  BY DEF AppendSource
<1>3. ASSUME NEW e \in Recorded', e.at <= marks[e.stream] PROVE e \in Recorded
  <2>1. e \in Recorded \/ e.at > Len(source[e.stream])
    BY <1>1, AppendKeepsRecorded
  <2>2. e.stream \in SourceStream /\ e.at \in Nat
    BY Bounds DEF Recorded, SourceEvent
  <2>3. marks[e.stream] <= Len(source[e.stream]) /\ Len(source[e.stream]) \in Nat
        /\ marks[e.stream] \in Nat
    BY <1>1, <2>2, Bounds DEF MarksWithinHead, TypeOK
  <2>. QED BY <1>3, <2>1, <2>2, <2>3
<1>4. \A e \in Recorded' : e \in Recorded \/ e.stream \in Batching \/ e.index = 1
  BY <1>1, AppendKeepsRecorded
<1>5. OneEventEach'
  BY <1>1, <1>4 DEF OneEventEach
<1>. QED BY <1>1, <1>2, <1>3, <1>5 DEF NothingIsSkipped, MarkedIsHandled

LEMMA DropOneEvent ==
  ASSUME OneEventInv, NEW e \in SourceEvent, Drop(e)
  PROVE  OneEventEach' /\ NothingIsSkipped' /\ MarkedIsHandled'
<1>1. OneEventEach /\ NothingIsSkipped /\ MarkedIsHandled
  BY DEF OneEventInv
<1>2. /\ e \in Recorded /\ e.at <= marks[e.stream]
      /\ source' = source /\ marks' = marks /\ handled' = handled
      /\ acknowledged' = acknowledged \union {e}
  BY DEF Drop, Deliverable, AtOrBelowMark
<1>3. e.stream \in InOrder => handled[e] # "no"
  BY <1>1, <1>2 DEF MarkedIsHandled
<1>4. Recorded' = Recorded
  BY <1>2 DEF Recorded
<1>. QED BY <1>1, <1>2, <1>3, <1>4 DEF OneEventEach, NothingIsSkipped, MarkedIsHandled

LEMMA AdvanceOneEvent ==
  ASSUME InOrder \cap Batching = {}, OneEventInv, Advance
  PROVE  OneEventEach' /\ NothingIsSkipped' /\ MarkedIsHandled'
<1>1. AnyBatchInv /\ TypeOK /\ OneEventEach /\ NothingIsSkipped /\ MarkedIsHandled
  BY DEF OneEventInv, AnyBatchInv
<1>2. PICK e : e = delivery.event
  OBVIOUS
<1>3. /\ e \in Recorded /\ e \in SourceEvent /\ e.stream \in SourceStream
      /\ CaughtUpTo(e)
  BY <1>1, <1>2, DeliveryType DEF Advance, Reacted
<1>4. /\ source' = source /\ marks' = [marks EXCEPT ![e.stream] = e.at]
      /\ acknowledged' = acknowledged \union {e}
      /\ handled' = [handled EXCEPT ![e] = "yes"]
  BY <1>2 DEF Advance
<1>5. /\ handled'[e] = "yes"
      /\ \A d \in SourceEvent : d # e => handled'[d] = handled[d]
  BY <1>1, <1>3, <1>4 DEF TypeOK
<1>6. /\ marks'[e.stream] = e.at
      /\ \A r \in SourceStream : r # e.stream => marks'[r] = marks[r]
  BY <1>1, <1>3, <1>4 DEF TypeOK
<1>7. NothingIsSkipped'
  <2>1. acknowledged \subseteq SourceEvent
    BY <1>1 DEF TypeOK
  <2>. QED BY <1>1, <1>4, <1>5, <2>1 DEF NothingIsSkipped
<1>8. ASSUME NEW d \in Recorded, d.stream \in InOrder, d.at <= marks'[d.stream]
      PROVE  handled'[d] # "no"
  <2>1. d \in SourceEvent /\ d.stream \in SourceStream
    BY DEF Recorded, SourceEvent
  <2>2. CASE d.stream = e.stream
    <3>1. d.at <= e.at
      BY <1>6, <1>8, <2>2
    <3>2. Precedes(d, e) \/ d = e
      <4>1. d.index = 1 /\ e.index = 1
        BY <1>1, <1>3, <1>8, <2>2 DEF OneEventEach
      <4>. QED BY <1>3, <2>1, <2>2, <3>1, <4>1, OneEventPerRecord
    <3>3. CASE Precedes(d, e)
      BY <1>1, <1>3, <1>5, <1>8, <2>1, <2>2, <3>3 DEF CaughtUpTo, NothingIsSkipped
    <3>. QED BY <1>5, <3>2, <3>3
  <2>3. CASE d.stream # e.stream
    BY <1>1, <1>5, <1>6, <1>8, <2>1, <2>3 DEF MarkedIsHandled
  <2>. QED BY <2>2, <2>3
<1>9. OneEventEach' /\ MarkedIsHandled'
  <2>1. Recorded' = Recorded
    BY <1>4 DEF Recorded
  <2>. QED BY <1>1, <1>8, <2>1 DEF OneEventEach, MarkedIsHandled
<1>. QED BY <1>7, <1>9

LEMMA CrashOneEvent ==
  ASSUME OneEventInv, Crash
  PROVE  OneEventEach' /\ NothingIsSkipped' /\ MarkedIsHandled'
<1>1. TypeOK /\ OneEventEach /\ NothingIsSkipped
  BY DEF OneEventInv, AnyBatchInv
<1>2. /\ acknowledged' = acknowledged /\ source' = source
      /\ marks' = [s \in SourceStream |-> 0]
      /\ handled' = [e \in SourceEvent |->
                       IF handled[e] = "yes" THEN "forgotten" ELSE handled[e]]
  BY DEF Crash
<1>3. NothingIsSkipped'
  BY <1>1, <1>2 DEF NothingIsSkipped, TypeOK
<1>4. ASSUME NEW e \in Recorded PROVE ~(e.at <= marks'[e.stream])
  BY <1>2, Bounds DEF Recorded, SourceEvent
<1>5. OneEventEach' /\ MarkedIsHandled'
  <2>1. Recorded' = Recorded
    BY <1>2 DEF Recorded
  <2>. QED BY <1>1, <1>4, <2>1 DEF OneEventEach, MarkedIsHandled
<1>. QED BY <1>3, <1>5

LEMMA QuietOneEvent ==
  ASSUME OneEventInv, source' = source, marks' = marks,
         acknowledged' = acknowledged, handled' = handled
  PROVE  OneEventEach' /\ NothingIsSkipped' /\ MarkedIsHandled'
BY DEF OneEventInv, OneEventEach, NothingIsSkipped, MarkedIsHandled, Recorded

LEMMA InitOneEvent == Init => OneEventInv
<1> SUFFICES ASSUME Init PROVE OneEventInv
  OBVIOUS
<1>1. AnyBatchInv
  BY InitAnyBatch
<1>2. NothingIsSkipped
  BY DEF Init, NothingIsSkipped
<1>3. ASSUME NEW e \in Recorded PROVE ~(e.at <= marks[e.stream])
  BY Bounds DEF Init, Recorded, SourceEvent
<1>4. OneEventEach /\ MarkedIsHandled
  <2>1. ASSUME NEW e \in Recorded PROVE FALSE
    BY Bounds DEF Init, Recorded, SourceEvent
  <2>. QED BY <1>3, <2>1 DEF OneEventEach, MarkedIsHandled
<1>. QED BY <1>1, <1>2, <1>4 DEF OneEventInv

LEMMA StepOneEvent ==
  InOrder \cap Batching = {} => (OneEventInv /\ [Next]_vars => OneEventInv')
<1> SUFFICES ASSUME InOrder \cap Batching = {}, OneEventInv, [Next]_vars
               PROVE  OneEventInv'
  OBVIOUS
<1>1. AnyBatchInv'
  BY StepAnyBatch DEF OneEventInv
<1>2. CASE \E s \in SourceStream, n \in 0 .. MaxBatch : AppendSource(s, n)
  BY <1>1, <1>2, AppendOneEvent DEF OneEventInv
<1>3. CASE \E e \in SourceEvent : Drop(e)
  BY <1>1, <1>3, DropOneEvent DEF OneEventInv
<1>4. CASE \E e \in SourceEvent, n \in 0 .. MaxCommands : React(e, n)
  <2>1. OneEventEach' /\ NothingIsSkipped' /\ MarkedIsHandled'
    BY <1>4, QuietOneEvent DEF React
  <2>. QED BY <1>1, <2>1 DEF OneEventInv
<1>5. CASE ExecuteNext \/ Fail
  <2>1. OneEventEach' /\ NothingIsSkipped' /\ MarkedIsHandled'
    BY <1>5, QuietOneEvent DEF ExecuteNext, Fail
  <2>. QED BY <1>1, <2>1 DEF OneEventInv
<1>6. CASE Advance
  BY <1>1, <1>6, AdvanceOneEvent DEF OneEventInv
<1>7. CASE Crash
  BY <1>1, <1>7, CrashOneEvent DEF OneEventInv
<1>8. CASE UNCHANGED vars
  <2>1. OneEventEach' /\ NothingIsSkipped' /\ MarkedIsHandled'
    BY <1>8, QuietOneEvent DEF vars
  <2>. QED BY <1>1, <2>1 DEF OneEventInv
<1>. QED BY <1>2, <1>3, <1>4, <1>5, <1>6, <1>7, <1>8 DEF Next

LEMMA SpecOneEvent == InOrder \cap Batching = {} => (Spec => []OneEventInv)
<1> SUFFICES ASSUME InOrder \cap Batching = {} PROVE Spec => []OneEventInv
  OBVIOUS
<1>1. OneEventInv /\ [Next]_vars => OneEventInv'
  BY StepOneEvent
<1>. QED BY <1>1, InitOneEvent, PTL DEF Spec

\* Where the streams that the transport keeps in order hold one event in a record,
\* `deliver` returns Ok for an event of such a stream only once its whole reaction has
\* been executed, by this subscription or one before it.
THEOREM NothingSkipped == InOrder \cap Batching = {} => (Spec => []NothingIsSkipped)
<1> SUFFICES ASSUME InOrder \cap Batching = {} PROVE Spec => []NothingIsSkipped
  OBVIOUS
<1>1. OneEventInv => NothingIsSkipped
  BY DEF OneEventInv
<1>. QED BY <1>1, SpecOneEvent, PTL

-----------------------------------------------------------------------------
(* Order.                                                                  *)

\* The command that is executed next may come after the last one.
LEMMA ExecuteFollows ==
  ASSUME OneEventInv, ExecuteNext, NEW s \in InOrder,
         last'[s] # last[s], handled[last'[s].event] # "forgotten"
  PROVE  Follows(last'[s], last[s])
<1>1. AnyBatchInv /\ TypeOK /\ NothingIsSkipped /\ delivery # None
  BY DEF OneEventInv, AnyBatchInv, ExecuteNext, Reacting
<1>2. PICK e, n : e = delivery.event /\ n = delivery.next
  OBVIOUS
<1>3. /\ e \in Recorded /\ e \in SourceEvent /\ e.stream \in SourceStream
      /\ CaughtUpTo(e) /\ n \in 1 .. MaxCommands + 1
  BY <1>1, <1>2, DeliveryType DEF Delivery
<1>4. PICK act : act = [event |-> e, command |-> n]
  OBVIOUS
<1>5. last' = [last EXCEPT ![e.stream] = act]
  BY <1>2, <1>4 DEF ExecuteNext
<1>6. /\ s = e.stream /\ last'[s] = act /\ act.event = e /\ act.command = n
      /\ s \in SourceStream
  BY <1>1, <1>3, <1>4, <1>5, Bounds DEF TypeOK
<1>7. CASE n = 1 /\ last[s] # None
  <2>1. PICK d : d = last[s].event
    OBVIOUS
  <2>2. d \in Recorded /\ d \in SourceEvent /\ d.stream = s /\ CaughtUpTo(d)
    BY <1>1, <1>6, <1>7, <2>1 DEF AnyBatchInv, LastOK, Recorded
  <2>3. Precedes(d, e) \/ d = e \/ Precedes(e, d)
    BY <1>3, <1>6, <2>2, EventsAreOrdered
  <2>4. CASE Precedes(d, e)
    <3>1. handled[d] # "no"
      BY <1>1, <1>3, <1>6, <2>2, <2>4 DEF CaughtUpTo, NothingIsSkipped
    <3>. QED BY <1>6, <1>7, <2>1, <2>4, <3>1 DEF Follows
  <2>5. CASE Precedes(e, d)
    <3>1. handled[e] # "no"
      BY <1>1, <1>3, <1>6, <2>2, <2>5 DEF CaughtUpTo, NothingIsSkipped
    <3>2. handled[e] # "yes"
      <4>1. e.at > marks[e.stream] /\ e.at \in Nat /\ marks[e.stream] \in Nat
        BY <1>1, <1>2, <1>3, DeliveryType, RecordedType, Bounds
      <4>2. handled[e] = "yes" => e.at <= marks[e.stream]
        BY <1>1, <1>3 DEF AnyBatchInv, HandledIsMarked
      <4>. QED BY <4>1, <4>2
    <3>3. handled[e] # "forgotten"
      BY <1>6
    <3>4. handled[e] \in {"no", "yes", "forgotten"}
      BY <1>1, <1>3 DEF TypeOK
    <3>. QED BY <3>1, <3>2, <3>3, <3>4
  <2>. QED BY <1>6, <1>7, <2>1, <2>3, <2>4, <2>5 DEF Follows
<1>8. CASE n > 1
  <2>1. last[s] = [event |-> e, command |-> n - 1]
    BY <1>1, <1>2, <1>6, <1>8 DEF AnyBatchInv, DeliveryOK
  <2>2. last[s].event = e /\ last[s].command = n - 1
    BY <2>1
  <2>3. last[s] # None
    BY <2>1 DEF None
  <2>4. n = (n - 1) + 1
    BY <1>3, Bounds
  <2>. QED BY <1>6, <2>2, <2>3, <2>4 DEF Follows
<1>9. CASE n = 1 /\ last[s] = None
  BY <1>6, <1>9 DEF Follows
<1>. QED BY <1>3, <1>7, <1>8, <1>9, Bounds

\* Where the streams that the transport keeps in order hold one event in a record,
\* the reactions to such a stream are carried out in the order of the stream and each
\* in the order of its commands.
THEOREM OrderKept == InOrder \cap Batching = {} => (Spec => OrderIsKept)
<1> SUFFICES ASSUME InOrder \cap Batching = {} PROVE Spec => OrderIsKept
  OBVIOUS
<1>1. ASSUME OneEventInv, [Next]_vars
      PROVE  [\A s \in InOrder :
                /\ last'[s] # last[s]
                /\ last'[s] # None
                /\ handled[last'[s].event] # "forgotten"
                => Follows(last'[s], last[s])]_vars
  <2>1. CASE ExecuteNext
    BY <1>1, <2>1, ExecuteFollows
  <2>2. CASE \E s \in SourceStream, n \in 0 .. MaxBatch : AppendSource(s, n)
    BY <2>2 DEF AppendSource
  <2>3. CASE \E e \in SourceEvent : Drop(e) \/ \E n \in 0 .. MaxCommands : React(e, n)
    BY <2>3 DEF Drop, React
  <2>4. CASE Fail \/ Advance
    BY <2>4 DEF Fail, Advance
  <2>5. CASE Crash
    <3>1. \A s \in InOrder : last'[s] = None
      BY <2>5, Bounds DEF Crash
    <3>. QED BY <3>1
  <2>6. CASE UNCHANGED vars
    BY <2>6
  <2>. QED BY <1>1, <2>1, <2>2, <2>3, <2>4, <2>5, <2>6 DEF Next
<1>. QED BY <1>1, SpecOneEvent, PTL DEF Spec, OrderIsKept
=============================================================================
