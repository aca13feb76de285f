-------------------------------- MODULE Chest --------------------------------
(***************************************************************************)
(* The chest of the catalog-ctx example: commands draw from a weighted     *)
(* table that rides in the context, and a gamble draws before it knows     *)
(* whether it is accepted.                                                 *)
(*                                                                         *)
(* Bounds: Catalog, a sequence of items with their weights, and Capacity   *)
(* are smaller than the code's five items and eight draws.                 *)
(***************************************************************************)
EXTENDS Phases, Entropy, StableHash

CONSTANTS Catalog, Capacity

Command == [name : {"Open", "Draw", "Gamble", "Close"}]

\* The kinds of the commands that carry one.
CommandKinds == [Draw |-> {"loot"}, Gamble |-> {"loot"}, Close |-> {"loot"}]

Sealed == [phase |-> "Sealed", draws_left |-> 0, loot |-> <<>>]

-----------------------------------------------------------------------------

\* The weights up to and with the ith entry.
Cumulative(i) ==
  LET sum[k \in 0 .. i] == IF k = 0 THEN 0 ELSE sum[k - 1] + Catalog[k].weight
  IN sum[i]

TotalWeight == Cumulative(Len(Catalog))

\* The item whose bucket contains the pick.
ItemAt(pick) ==
  Catalog[CHOOSE i \in DOMAIN Catalog :
            Cumulative(i - 1) <= pick /\ pick < Cumulative(i)].item

IsJackpot(item) ==
  \E i \in DOMAIN Catalog : Catalog[i].item = item /\ Catalog[i].jackpot

DrawItem(tape, pos) ==
  LET drawn == DrawRange(tape, pos, 0, TotalWeight)
  IN [item |-> ItemAt(drawn.value), pos |-> drawn.pos]

\* Slip: a chest that was never opened can be closed.
AcceptsCloseSealed(s, cmd, drawn) ==
  /\ cmd.name = "Open" => s.phase = "Sealed"
  /\ cmd.name \in {"Draw", "Gamble"} => s.phase = "Open" /\ s.draws_left > 0
  /\ cmd.name = "Gamble" => IsJackpot(drawn.item)

\* Whether `decide` accepts the command, given what it draws.
Accepts(s, cmd, drawn) ==
  /\ cmd.name = "Open" => s.phase = "Sealed"
  /\ cmd.name \in {"Draw", "Gamble", "Close"} => s.phase = "Open"
  /\ cmd.name \in {"Draw", "Gamble"} => s.draws_left > 0
  /\ cmd.name = "Gamble" => IsJackpot(drawn.item)

\* Only an open chest with draws left draws, accepted or not.
PosAfter(s, cmd, pos, drawn) ==
  IF cmd.name \in {"Draw", "Gamble"} /\ s.phase = "Open" /\ s.draws_left > 0
  THEN drawn.pos ELSE pos

Decide(cmd, drawn) ==
  CASE cmd.name = "Open"  -> <<[name |-> "Opened"]>>
    [] cmd.name = "Close" -> <<[name |-> "Closed"]>>
    [] OTHER -> <<[name |-> "Dropped", item |-> drawn.item]>>

Evolve(s, event) ==
  CASE event.name = "Opened"  -> [s EXCEPT !.phase = "Open", !.draws_left = Capacity]
    [] event.name = "Dropped" -> [s EXCEPT !.loot = Append(@, event.item),
                                           !.draws_left = IF @ = 0 THEN 0 ELSE @ - 1]
    [] event.name = "Closed"  -> [s EXCEPT !.phase = "Spent"]

\* A drop adds one item and spends one draw.
DropsInLockstep(before, event, after) ==
  event.name = "Dropped" =>
    /\ Len(after.loot) = Len(before.loot) + 1
    /\ after.draws_left + 1 = before.draws_left

Encode(s) ==
  EncodeUnitVariant(<<"Sealed", "Open", "Spent">>, s.phase) \o
  EncodeUint(s.draws_left, 4) \o
  EncodeVec([i \in DOMAIN s.loot |-> EncodeUint(s.loot[i], 2)])
=============================================================================
