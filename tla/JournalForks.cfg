SPECIFICATION Spec
CONSTANTS
  Event = {a}
  DrawPos <- MCDrawPos
  JournalId = {main, branch}
  Main = main
  StreamId = {s1}
  Callers = {}
  MaxHead = 3
INVARIANTS TypeOK AlwaysFaithful ForkFaithful AdviceWorks
PROPERTIES AnswersAreStable ImplementsDurableStreams
