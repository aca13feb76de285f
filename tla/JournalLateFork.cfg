SPECIFICATION Spec
CONSTANTS
  Event = {a}
  DrawPos <- MCDrawPos
  JournalId = {main}
  Main = main
  StreamId = {s1}
  Callers = {"late"}
  MaxHead = 3
INVARIANTS GrantedForksResume
