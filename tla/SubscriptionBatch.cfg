SPECIFICATION Spec
CONSTANTS
  SourceStream = {s1}
  MaxHead = 2
  MaxBatch = 2
  MaxCommands = 1
  InOrder = {s1}
  Batching = {s1}
INVARIANTS NothingIsSkipped
