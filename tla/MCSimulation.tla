---------------------------- MODULE MCSimulation ----------------------------
(***************************************************************************)
(* An instance of Simulation: every command of the account's strategy with *)
(* two amounts, two weighted items of which one is the jackpot, three      *)
(* cards, and words of two bits.  The tapes make a draw be accepted at     *)
(* once, after a retry, and after two.                                     *)
(***************************************************************************)
EXTENDS Simulation

MCCatalog ==
  <<[item |-> 7, weight |-> 2, jackpot |-> FALSE],
    [item |-> 9, weight |-> 1, jackpot |-> TRUE]>>

Tapes == {<<2, 3, 0, 1>>, <<3, 3, 2, 1, 0>>}

MCWorlds ==
  [aggregate : {"Chest", "MatchState"}, tape : Tapes] \union
  [aggregate : {"Account"}, tape : {<<0>>}]

MCMaxSteps == [Account |-> 4, Chest |-> 5, MatchState |-> 5]

E == INSTANCE Entropy

\* `assert_entropy_contract` (entropy.rs) of every tape of three words that a
\* draw of three values does not refuse for ever.
ASSUME EntropyContractHolds ==
  \A a, b, c \in E!Word :
    E!AcceptedBy(<<a, b, c>>, 3) => E!EntropyContract(<<a, b, c>>)
=============================================================================
