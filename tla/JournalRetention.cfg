SPECIFICATION Spec
CONSTANTS
  Event = {a, b}
  DrawPos <- MCDrawPos
  JournalId = {main}
  Main = main
  StreamId = {s1}
  Callers = {"late", "ahead"}
  MaxHead = 4
INVARIANTS ResumeFaithful PositionNeverWrong ReadsHaveNoGap
