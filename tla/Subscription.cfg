SPECIFICATION FairSpec
CONSTANTS
  SourceStream = {s1, s2}
  MaxHead = 2
  MaxBatch = 1
  MaxCommands = 2
  InOrder = {s1}
  Batching = {}
INVARIANTS TypeOK NothingIsSkipped HandledIsEarlier OnlyLateIsLost
PROPERTIES OrderIsKept EveryEventIsHandled
