---------------------------- MODULE DurableStreams ----------------------------
(***************************************************************************)
(* What a journal promises, with no log, no snapshot and no truncation in  *)
(* sight: every stream is an aggregate and the position its entropy was    *)
(* left at.  A command's events and the position they consumed are taken   *)
(* together or not at all, and a branch starts as a prefix of the stream   *)
(* it was forked from.  Retention is invisible.                            *)
(***************************************************************************)
EXTENDS Integers, Sequences

CONSTANTS Event, DrawPos, JournalId, Main, StreamId

VARIABLES opened, state, pos

abstractVars == <<opened, state, pos>>

Init ==
  /\ opened = {Main}
  /\ state = [j \in JournalId |-> [s \in StreamId |-> <<>>]]
  /\ pos = [j \in JournalId |-> [s \in StreamId |-> 0]]

Evolve(j, s, events, p) ==
  /\ state' = [state EXCEPT ![j][s] = Append(@, events)]
  /\ pos' = [pos EXCEPT ![j][s] = p]
  /\ UNCHANGED opened

Branch(j, s, at, p, k) ==
  /\ k \notin opened
  /\ at <= Len(state[j][s])
  /\ at = Len(state[j][s]) => p = pos[j][s]
  /\ at = 0 => p = 0
  /\ opened' = opened \union {k}
  /\ state' = [state EXCEPT ![k] =
                 [t \in StreamId |->
                    IF t = s THEN SubSeq(state[j][s], 1, at) ELSE <<>>]]
  /\ pos' = [pos EXCEPT ![k] = [t \in StreamId |-> IF t = s THEN p ELSE 0]]

Next ==
  \E j \in opened, s \in StreamId :
    \/ \E events \in Event, p \in DrawPos : Evolve(j, s, events, p)
    \/ \E at \in 0 .. Len(state[j][s]), p \in DrawPos, k \in JournalId :
         Branch(j, s, at, p, k)

Spec == Init /\ [][Next]_abstractVars
=============================================================================
