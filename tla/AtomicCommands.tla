---------------------------- MODULE AtomicCommands ----------------------------
(***************************************************************************)
(* What a caller of the persistent loop is promised: a command happens in  *)
(* one step or not at all.  In that step its event is decided on the state *)
(* left by all the commands before it, with the entropy that follows       *)
(* theirs; and the read model and the outbox move with it.  There are no   *)
(* transactions, no crashes and no second copy of the state.               *)
(***************************************************************************)
EXTENDS Integers, Sequences

CONSTANTS StreamId, Command, Draws

VARIABLES state, pos, readModel, outbox

abstractVars == <<state, pos, readModel, outbox>>

Init ==
  /\ state = [s \in StreamId |-> <<>>]
  /\ pos = [s \in StreamId |-> 0]
  /\ readModel = [s \in StreamId |-> {}]
  /\ outbox = <<>>

\* What a command decides on a state, its entropy at a position.
Decided(c, st, p) == [cmd |-> c, base |-> Len(st), drawn |-> p]

Handle(s, c) ==
  /\ state' = [state EXCEPT ![s] = Append(@, Decided(c, @, pos[s]))]
  /\ pos' = [pos EXCEPT ![s] = @ + Draws[c]]
  /\ readModel' = [readModel EXCEPT ![s] = {c}]
  /\ outbox' = Append(outbox, <<s, c>>)

Next == \E s \in StreamId, c \in Command : Handle(s, c)

Spec == Init /\ [][Next]_abstractVars
=============================================================================
