------------------------------- MODULE Entropy -------------------------------
(***************************************************************************)
(* The entropy source (ironstate-aggregate/src/entropy.rs).                *)
(*                                                                         *)
(* A stream is a tape of words that repeats, and a position on it.  A      *)
(* position counts halves of a word: the generator is addressed in words   *)
(* of 32 bits and a draw takes two of them.  A draw gives back the value   *)
(* and where it leaves the stream; it depends on nothing else, which is    *)
(* what lets a position stand for a stream.                                *)
(*                                                                         *)
(* Bound: words are drawn from 0 .. 2^WordBits - 1, and no tape is refused *)
(* for ever by a range (AcceptedBy): the code retries without a limit.     *)
(***************************************************************************)
EXTENDS Integers, Sequences

CONSTANT WordBits

Word == 0 .. 2 ^ WordBits - 1

WordAt(tape, pos) == tape[((pos \div 2) % Len(tape)) + 1]

DrawU64(tape, pos) == [value |-> WordAt(tape, pos), pos |-> pos + 2]

-----------------------------------------------------------------------------
(* The derived draws, which every source shares.                           *)

\* The smallest power of two that covers the span, or all words: the mask plus
\* one.
Covering(span) ==
  LET doubled[bits \in 0 .. WordBits] ==
        IF bits = 0 THEN 1
        ELSE IF doubled[bits - 1] >= span THEN doubled[bits - 1] ELSE 2 * doubled[bits - 1]
  IN doubled[WordBits]

\* The candidate of the (n+1)th word from pos.
Candidate(tape, pos, n, span) == WordAt(tape, pos + 2 * n) % Covering(span)

AcceptedBy(tape, span) ==
  \E n \in 0 .. Len(tape) - 1 : Candidate(tape, 0, n, span) < span

\* A value of first .. last - 1: words are drawn until one falls into it.
DrawRange(tape, pos, first, last) ==
  LET span == last - first
      candidate(n) == Candidate(tape, pos, n, span)
      n == CHOOSE i \in 0 .. Len(tape) - 1 :
             candidate(i) < span /\ \A j \in 0 .. i - 1 : candidate(j) >= span
  IN [value |-> first + candidate(n), pos |-> pos + 2 * (n + 1)]

DrawBelow(tape, pos, num, den) ==
  LET drawn == DrawRange(tape, pos, 0, den)
  IN [value |-> drawn.value < num, pos |-> drawn.pos]

\* A permutation of 0 .. len - 1, one draw for each index but the first.
ShuffleLen(tape, pos, len) ==
  LET swapped[i \in 1 .. len] ==
        IF i = len THEN [value |-> [k \in 1 .. len |-> k - 1], pos |-> pos]
        ELSE LET s == swapped[i + 1]
                 drawn == DrawRange(tape, s.pos, 0, i + 1)
                 j == drawn.value + 1
             IN [value |-> [s.value EXCEPT ![i + 1] = s.value[j],
                                           ![j] = s.value[i + 1]],
                 pos |-> drawn.pos]
  IN IF len = 0 THEN [value |-> <<>>, pos |-> pos] ELSE swapped[1]

-----------------------------------------------------------------------------
(* What assert_entropy_contract checks of a source.  A source at a         *)
(* position, a seek to it, a rewind and a probe are the same value here.   *)

EntropyContract(tape) ==
  /\ \A pos \in {2 * i : i \in 0 .. Len(tape) - 1} :
       /\ \A first \in 0 .. 2, span \in 1 .. 2 ^ WordBits :
            AcceptedBy(tape, span) =>
              DrawRange(tape, pos, first, first + span).value
                \in first .. first + span - 1
       /\ DrawRange(tape, pos, 5, 6).value = 5
       /\ ~DrawBelow(tape, pos, 0, 3).value
       /\ DrawBelow(tape, pos, 3, 3).value
       /\ LET shuffled == ShuffleLen(tape, pos, 3).value
          IN {shuffled[k] : k \in 1 .. 3} = 0 .. 2
       /\ ShuffleLen(tape, pos, 1).pos = pos
  /\ 0 .. 2 \subseteq {tape[k] : k \in DOMAIN tape} =>
       {DrawRange(tape, 2 * i, 0, 3).value : i \in 0 .. Len(tape) - 1} = 0 .. 2
=============================================================================
