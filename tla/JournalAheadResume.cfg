SPECIFICATION Spec
CONSTANTS
  Event = {a}
  DrawPos <- MCDrawPos
  JournalId = {main}
  Main = main
  StreamId = {s1}
  Callers = {"ahead"}
  MaxHead = 3
INVARIANTS ResumeIgnoresAheadSnapshots
