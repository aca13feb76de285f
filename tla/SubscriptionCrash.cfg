SPECIFICATION Spec
CONSTANTS
  SourceStream = {s1}
  MaxHead = 2
  MaxBatch = 1
  MaxCommands = 1
  InOrder = {s1}
  Batching = {}
INVARIANTS HandledOnceForEver
