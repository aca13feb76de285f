----------------------------- MODULE Subscription -----------------------------
(***************************************************************************)
(* A subscription (ironstate-journal/src/subscription.rs): the events of   *)
(* source streams are delivered to a target aggregate, which reacts to     *)
(* each with commands to itself, executed one after the other.  A mark for *)
(* each source stream says how far it has been read.                       *)
(*                                                                         *)
(* The transport that calls `deliver` is the consumer's: it may deliver an *)
(* event any number of times.  For a stream of InOrder it goes on to the   *)
(* next event only once `deliver` has returned Ok for the ones before it;  *)
(* it offers the events of any other stream in any order.  The process     *)
(* that holds the subscription may die; the target's journal survives it,  *)
(* and a new process starts with a subscription that has no marks, which   *)
(* is the only one there is a constructor for.                             *)
(* A definition introduced as a slip is used by nothing, see JournalStream.*)
(***************************************************************************)
EXTENDS Integers, Sequences

CONSTANTS
  SourceStream,
  MaxHead,       (* Bound on the records of a source stream.               *)
  MaxBatch,      (* Bound on the events of one record.                     *)
  MaxCommands,   (* Bound on the commands of one reaction.                 *)
  InOrder,       (* The streams whose order the transport keeps.           *)
  Batching       (* The streams whose records may hold several events.     *)

ASSUME BoundsAssumption ==
  /\ MaxHead \in Nat
  /\ MaxBatch \in Nat \ {0}
  /\ MaxCommands \in Nat
  /\ InOrder \subseteq SourceStream
  /\ Batching \subseteq SourceStream

\* An event of a source stream: its record, and its place in that record.
\* `deliver` is told the record only.
SourceEvent == [stream : SourceStream, at : 1 .. MaxHead, index : 1 .. MaxBatch]

\* A command of the reaction to an event.
Action == [event : SourceEvent, command : 1 .. MaxCommands]

VARIABLES
  source,        (* How many events each record of each stream holds.      *)
  marks,         (* The marks; 0 stands for no mark.                       *)
  delivery,      (* The `deliver` that is running, or none.                *)
  acknowledged,  (* The events `deliver` has returned Ok for.              *)
  handled,       (* History variable: which events had their whole         *)
                 (* reaction executed, and whether a subscription that     *)
                 (* is gone did it.                                        *)
  last           (* History variable: the last command this subscription   *)
                 (* executed for each stream, or none.                     *)

vars == <<source, marks, delivery, acknowledged, handled, last>>

None == <<>>

Delivery == [event : SourceEvent, next : 1 .. MaxCommands + 1, commands : 0 .. MaxCommands]

TypeOK ==
  /\ source \in [SourceStream -> Seq(0 .. MaxBatch)]
  /\ marks \in [SourceStream -> 0 .. MaxHead]
  /\ delivery \in Delivery \union {None}
  /\ acknowledged \subseteq SourceEvent
  /\ handled \in [SourceEvent -> {"no", "yes", "forgotten"}]
  /\ last \in [SourceStream -> Action \union {None}]

Init ==
  /\ source = [s \in SourceStream |-> <<>>]
  /\ marks = [s \in SourceStream |-> 0]
  /\ delivery = None
  /\ acknowledged = {}
  /\ handled = [e \in SourceEvent |-> "no"]
  /\ last = [s \in SourceStream |-> None]

-----------------------------------------------------------------------------

Recorded ==
  {e \in SourceEvent : /\ e.at <= Len(source[e.stream])
                       /\ e.index <= source[e.stream][e.at]}

Precedes(d, e) ==
  /\ d.stream = e.stream
  /\ d.at < e.at \/ (d.at = e.at /\ d.index < e.index)

\* The source aggregate commits a record, which may hold no event.
AppendSource(s, n) ==
  /\ Len(source[s]) < MaxHead
  /\ n > 1 => s \in Batching
  /\ source' = [source EXCEPT ![s] = Append(@, n)]
  /\ UNCHANGED <<marks, delivery, acknowledged, handled, last>>

Deliverable(e) ==
  /\ delivery = None
  /\ e \in Recorded
  /\ e.stream \in InOrder => \A d \in Recorded : Precedes(d, e) => d \in acknowledged

\* Slip: the event after the mark counts as read.
AtOrNextToMark(e) == e.at <= marks[e.stream] + 1

\* Slip: the event at the mark counts as new.
BelowMark(e) == e.at < marks[e.stream]

AtOrBelowMark(e) == e.at <= marks[e.stream]

\* `deliver` drops the event.
Drop(e) ==
  /\ Deliverable(e)
  /\ AtOrBelowMark(e)
  /\ acknowledged' = acknowledged \union {e}
  /\ UNCHANGED <<source, marks, delivery, handled, last>>

\* Slip: the mark moves before the commands have committed.
ReactMarking(e, n) ==
  /\ Deliverable(e)
  /\ ~AtOrBelowMark(e)
  /\ delivery' = [event |-> e, next |-> 1, commands |-> n]
  /\ marks' = [marks EXCEPT ![e.stream] = e.at]
  /\ UNCHANGED <<source, acknowledged, handled, last>>

\* `deliver` asks the target to react.
React(e, n) ==
  /\ Deliverable(e)
  /\ ~AtOrBelowMark(e)
  /\ delivery' = [event |-> e, next |-> 1, commands |-> n]
  /\ UNCHANGED <<source, marks, acknowledged, handled, last>>

Reacting == delivery # None /\ delivery.next <= delivery.commands

\* Slip: the reaction is executed from its last command to its first.
ExecuteBackwards ==
  /\ Reacting
  /\ last' = [last EXCEPT ![delivery.event.stream] =
       [event |-> delivery.event, command |-> delivery.commands - delivery.next + 1]]
  /\ delivery' = [delivery EXCEPT !.next = @ + 1]
  /\ UNCHANGED <<source, marks, acknowledged, handled>>

\* It executes the next command of the reaction, which is durable at once.
ExecuteNext ==
  /\ Reacting
  /\ last' = [last EXCEPT ![delivery.event.stream] =
       [event |-> delivery.event, command |-> delivery.next]]
  /\ delivery' = [delivery EXCEPT !.next = @ + 1]
  /\ UNCHANGED <<source, marks, acknowledged, handled>>

\* A command is refused or its append fails: `deliver` returns the error and
\* nothing of what it did is undone.
Fail ==
  /\ Reacting
  /\ delivery' = None
  /\ UNCHANGED <<source, marks, acknowledged, handled, last>>

Reacted == delivery # None /\ delivery.next > delivery.commands

\* Slip: the mark is where the next event is expected.
AdvancePast ==
  LET e == delivery.event
  IN /\ Reacted
     /\ marks' = [marks EXCEPT ![e.stream] = e.at + 1]
     /\ acknowledged' = acknowledged \union {e}
     /\ handled' = [handled EXCEPT ![e] = "yes"]
     /\ delivery' = None
     /\ UNCHANGED <<source, last>>

\* All commands are done: the mark moves, and `deliver` returns Ok.
Advance ==
  LET e == delivery.event
  IN /\ Reacted
     /\ marks' = [marks EXCEPT ![e.stream] = e.at]
     /\ acknowledged' = acknowledged \union {e}
     /\ handled' = [handled EXCEPT ![e] = "yes"]
     /\ delivery' = None
     /\ UNCHANGED <<source, last>>

\* The process dies, and the marks with it.
Crash ==
  /\ marks' = [s \in SourceStream |-> 0]
  /\ delivery' = None
  /\ handled' = [e \in SourceEvent |->
                   IF handled[e] = "yes" THEN "forgotten" ELSE handled[e]]
  /\ last' = [s \in SourceStream |-> None]
  /\ UNCHANGED <<source, acknowledged>>

Next ==
  \/ \E s \in SourceStream, n \in 0 .. MaxBatch : AppendSource(s, n)
  \/ \E e \in SourceEvent : Drop(e) \/ \E n \in 0 .. MaxCommands : React(e, n)
  \/ ExecuteNext \/ Fail \/ Advance \/ Crash

Spec == Init /\ [][Next]_vars

\* The transport delivers the first event of a stream in order that it has not been
\* acknowledged for, again if need be; `deliver` runs to its end; the target does
\* not fail a command for ever; and the process does not die for ever.
DeliverFrom(s) ==
  \E e \in SourceEvent \ acknowledged :
    /\ e.stream = s
    /\ Drop(e) \/ \E n \in 0 .. MaxCommands : React(e, n)

ExecuteFrom(s, n) ==
  /\ Reacting
  /\ delivery.event.stream = s /\ delivery.next = n
  /\ ExecuteNext

FairSpec ==
  /\ Spec
  /\ \A s \in InOrder : SF_vars(DeliverFrom(s))
  /\ \A s \in SourceStream, n \in 1 .. MaxCommands : SF_vars(ExecuteFrom(s, n))
  /\ WF_vars(Advance)
  /\ <>[][~Crash]_vars

-----------------------------------------------------------------------------
(* Safety.                                                                 *)

\* An event of a stream in order that `deliver` returned Ok for, Applied or
\* Duplicate, was reacted to in full at least once, crash or no crash: nothing is
\* dropped that was not done before.  The transport relies on it when it goes on to
\* the next event.  (subscription.rs: "exactly once".)
NothingIsSkipped ==
  \A e \in acknowledged : e.stream \in InOrder => handled[e] # "no"

\* Whatever the order of the deliveries, all that a subscription has handled of a
\* stream comes before what it reacts to: as long as it lives, it never acts on an
\* event again, however often it is delivered, nor after a later one of the stream.
\* (subscription.rs: "at or below the recorded mark".)
HandledIsEarlier ==
  delivery # None =>
    \A d \in SourceEvent :
      d.stream = delivery.event.stream /\ handled[d] = "yes" => d.at < delivery.event.at

\* Whatever the order of the deliveries, an event that `deliver` returned Ok for
\* without any reaction to it came late: an event of its own record, or of a later
\* record of the stream, had been reacted to in full.  So an event that is
\* delivered late, or after another one of its record, is all that is ever lost.
OnlyLateIsLost ==
  \A e \in acknowledged : handled[e] = "no" =>
    \E d \in SourceEvent : d.stream = e.stream /\ d.at >= e.at /\ handled[d] # "no"

\* Which command may come after which, in the reactions to one stream.
Follows(next, prev) ==
  \/ next.command = 1
       /\ \/ prev = None
          \/ prev.event = next.event
          \/ Precedes(prev.event, next.event) /\ handled[prev.event] # "no"
  \/ /\ prev # None
     /\ prev.event = next.event
     /\ next.command = prev.command + 1

\* The target acts on the events of a stream in order one after the other, each
\* only once the one before it has been reacted to in full, and on the commands
\* of a reaction in the order `react` gave them; starting an unfinished reaction
\* over from its first command is the one step back there is.  Only what a
\* subscription before this one had handled may turn up at any time.  Reactions
\* to different streams interleave freely.
OrderIsKept ==
  [][\A s \in InOrder :
       /\ last'[s] # last[s]
       /\ last'[s] # None
       /\ handled[last'[s].event] # "forgotten"
       => Follows(last'[s], last[s])]_vars

-----------------------------------------------------------------------------
(* Liveness.                                                               *)

\* Every event of a stream in order is reacted to in the end, whatever fails and is
\* delivered again on the way, and whatever is delivered of other streams.
EveryEventIsHandled ==
  \A e \in SourceEvent :
    e \in Recorded /\ e.stream \in InOrder ~> handled[e] # "no"

-----------------------------------------------------------------------------
(* What the documentation says and the runs refute.                        *)

\* docs/guide.md: a redelivery after a crash "is recognized and skipped rather
\* than acted on twice".
HandledOnceForEver == delivery # None => handled[delivery.event] = "no"
=============================================================================
