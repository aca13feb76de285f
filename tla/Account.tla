------------------------------ MODULE Account ------------------------------
(***************************************************************************)
(* The account of the ledger example.  It draws no entropy.  Bound: the    *)
(* amounts a command may carry, and with the length of a run the balance:  *)
(* the 64 bits of the code are not reached.                                *)
(***************************************************************************)
EXTENDS Phases, StableHash

CONSTANT Cents

Command ==
  [name : {"Deposit", "Withdraw"}, cents : Cents] \union
  [name : {"Freeze", "Unfreeze", "Close"}]

Open == [phase |-> "Open", balance_cents |-> 0]

\* Slip: the balance is not looked at before a withdrawal.
AcceptsOverdraft(s, cmd) ==
  /\ s.phase # "Closed"
  /\ cmd.name \in {"Deposit", "Withdraw", "Freeze"} => s.phase = "Open"
  /\ cmd.name = "Unfreeze" => s.phase = "Frozen"
  /\ cmd.name = "Close" => s.balance_cents = 0

\* Whether `decide` accepts the command.
Accepts(s, cmd) ==
  /\ s.phase # "Closed"
  /\ cmd.name \in {"Deposit", "Withdraw", "Freeze"} => s.phase = "Open"
  /\ cmd.name = "Withdraw" => cmd.cents <= s.balance_cents
  /\ cmd.name = "Unfreeze" => s.phase = "Frozen"
  /\ cmd.name = "Close" => s.balance_cents = 0

\* The one event of an accepted command, named like the command.
Decide(s, cmd) == <<cmd>>

Evolve(s, event) ==
  CASE event.name = "Deposit"  -> [s EXCEPT !.balance_cents = @ + event.cents]
    [] event.name = "Withdraw" -> [s EXCEPT !.balance_cents = @ - event.cents]
    [] event.name = "Freeze"   -> [s EXCEPT !.phase = "Frozen"]
    [] event.name = "Unfreeze" -> [s EXCEPT !.phase = "Open"]
    [] event.name = "Close"    -> [s EXCEPT !.phase = "Closed"]

\* A withdrawal is only ever applied when the funds are there.
NeverOverdraws(before, event) ==
  event.name = "Withdraw" => before.balance_cents >= event.cents

Encode(s) ==
  EncodeUnitVariant(<<"Open", "Frozen", "Closed">>, s.phase) \o
  EncodeUint(s.balance_cents, 8)
=============================================================================
