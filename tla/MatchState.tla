----------------------------- MODULE MatchState -----------------------------
(***************************************************************************)
(* The match of the hidden-info example: two players take turns, what they *)
(* hold is hidden from each other, and the second to join starts the match *)
(* with a second event of the same command.                                *)
(*                                                                         *)
(* Bounds: Cards is how many different cards are drawn from, 52 in the     *)
(* code, and Tokens how many values a token has, 2^32 in the code; a deck  *)
(* has five cards, which nothing changes.                                  *)
(***************************************************************************)
EXTENDS Phases, Entropy, StableHash, Redaction

CONSTANTS Cards, Tokens

Participant == 0 .. 2

Command ==
  [name : {"Join", "Draw", "PlayCard", "EndTurn"}, who : Participant] \union
  [name : {"Timeout"}]

CommandKinds ==
  [Draw |-> {"play"}, PlayCard |-> {"play"}, EndTurn |-> {"play"}, Timeout |-> {"system"}]

NewMatch ==
  [phase |-> "Setup", board |-> <<>>, participants |-> <<>>, turn |-> 0,
   hands |-> [p \in {} |-> <<>>], fabrication |-> [owner |-> 0, value |-> 0],
   decks |-> [p \in {} |-> <<>>]]

Participants(s) == {s.participants[i] : i \in DOMAIN s.participants}

\* Whoever's turn it is, once somebody has joined.
Active(s) == s.participants[(s.turn % Len(s.participants)) + 1]

HasTurn(s, who) == s.phase = "Playing" /\ Active(s) = who

Accepts(s, cmd) ==
  CASE cmd.name = "Join" -> s.phase = "Setup" /\ cmd.who \notin Participants(s)
    [] cmd.name \in {"Draw", "EndTurn"} -> HasTurn(s, cmd.who)
    [] cmd.name = "PlayCard" -> HasTurn(s, cmd.who) /\ s.hands[cmd.who] # <<>>
    [] cmd.name = "Timeout" -> s.phase = "Playing"

\* An accepted command, given the card it draws.
Decide(s, cmd, drawn) ==
  CASE cmd.name = "Join" ->
         <<[name |-> "Joined", who |-> cmd.who]>> \o
         IF Len(s.participants) + 1 >= 2 THEN <<[name |-> "Started"]>> ELSE <<>>
    [] cmd.name = "Draw" ->
         <<[name |-> "Drew", who |-> cmd.who, card |-> drawn.value]>>
    [] cmd.name = "PlayCard" ->
         <<[name |-> "Played", who |-> cmd.who, card |-> Head(s.hands[cmd.who])]>>
    [] cmd.name = "EndTurn" -> <<[name |-> "TurnEnded"]>>
    [] cmd.name = "Timeout" -> <<[name |-> "Resolved"]>>

PosAfter(s, cmd, pos, drawn) ==
  IF cmd.name = "Draw" /\ HasTurn(s, cmd.who) THEN drawn.pos ELSE pos

\* The hand without the first card of that value.
Without(hand, card) ==
  LET held == {i \in DOMAIN hand : hand[i] = card}
      at == CHOOSE i \in held : \A j \in held : i <= j
  IN IF held = {} THEN hand
     ELSE SubSeq(hand, 1, at - 1) \o SubSeq(hand, at + 1, Len(hand))

Evolve(s, event) ==
  CASE event.name = "Joined" ->
         [s EXCEPT !.participants = Append(@, event.who),
                   !.hands = [p \in DOMAIN @ \union {event.who} |->
                                IF p = event.who THEN <<>> ELSE @[p]],
                   !.decks = [p \in DOMAIN @ \union {event.who} |-> <<0, 1, 2, 3, 4>>]]
    [] event.name = "Started"   -> [s EXCEPT !.phase = "Playing"]
    [] event.name = "Drew"      -> [s EXCEPT !.hands[event.who] = Append(@, event.card)]
    [] event.name = "Played"    -> [s EXCEPT !.hands[event.who] = Without(@, event.card),
                                             !.board = Append(@, event.card)]
    [] event.name = "TurnEnded" -> [s EXCEPT !.turn = (@ + 1) % Len(s.participants)]
    [] event.name = "Resolved"  -> [s EXCEPT !.phase = "Resolved"]

BoardOnlyGrows(before, after) == Len(after.board) >= Len(before.board)

\* The next command to try, given the state.
Strategy(s) ==
  IF s.phase = "Setup"
  THEN {[name |-> "Join", who |-> Len(s.participants)]}
  ELSE [name : {"Draw", "PlayCard", "EndTurn"}, who : {Active(s)}] \union [name : {"Timeout"}]

\* Participants join as 0, 1, ..., and a map is encoded in that order.
Encode(s) ==
  LET cards(cs) == EncodeVec([i \in DOMAIN cs |-> EncodeUint(cs[i], 1)])
      principal(p) == EncodeUint(p, 4)
      perPrincipal(values) ==
        EncodeMap([i \in DOMAIN s.participants |->
                     <<principal(i - 1), cards(values[i - 1])>>])
  IN EncodeUnitVariant(<<"Setup", "Playing", "Resolved">>, s.phase) \o
     cards(s.board) \o
     EncodeVec([i \in DOMAIN s.participants |-> principal(s.participants[i])]) \o
     EncodeUint(s.turn, 4) \o
     perPrincipal(s.hands) \o
     principal(s.fabrication.owner) \o EncodeUint(s.fabrication.value, 4) \o
     perPrincipal(s.decks)

-----------------------------------------------------------------------------
(* What is hidden.                                                         *)

\* The residue of a hand or a deck is its size, and a secret leaves none.
ConcealCards(values) == [p \in DOMAIN values |-> Len(values[p])]

ConcealSecret(secret) == {}

\* Slip: the hands are not marked as hidden.
ViewWithHands(s, viewer) ==
  [phase |-> s.phase, board |-> s.board, participants |-> s.participants,
   turn |-> s.turn,
   hands |-> s.hands,
   fabrication |-> RedactOwned(s.fabrication, ConcealSecret(s.fabrication), viewer),
   decks |-> ConcealCards(s.decks)]

ViewFor(s, viewer) ==
  [phase |-> s.phase, board |-> s.board, participants |-> s.participants,
   turn |-> s.turn,
   hands |-> RedactPerPrincipal(s.hands, ConcealCards(s.hands), viewer),
   fabrication |-> RedactOwned(s.fabrication, ConcealSecret(s.fabrication), viewer),
   decks |-> ConcealCards(s.decks)]

\* The state with other hidden values for p, and the same residue.
ResampleHidden(s, p, tape, pos) ==
  LET size == IF p \in DOMAIN s.hands THEN Len(s.hands[p]) ELSE 0
      drawn[i \in 0 .. size] ==
        IF i = 0 THEN [value |-> 0, pos |-> pos]
        ELSE DrawRange(tape, drawn[i - 1].pos, 0, Cards)
      token == DrawU64(tape, drawn[size].pos).value % Tokens
  IN [s EXCEPT !.hands = [q \in DOMAIN @ |->
                            IF q = p THEN [i \in 1 .. size |-> drawn[i].value] ELSE @[q]],
               !.fabrication = IF @.owner = p THEN [@ EXCEPT !.value = token] ELSE @]
=============================================================================
