SPECIFICATION Spec
CONSTANTS
  roll = roll
  seal = seal
  s1 = s1
  s2 = s2
  w1 = w1
  w2 = w2
  StreamId = {s1, s2}
  Worker = {w1, w2}
  Serves <- MCShared
  Command = {roll, seal}
  Draws <- MCDraws
  MaxLog <- MCMaxLog
INVARIANTS SeqIsNobodyElses
