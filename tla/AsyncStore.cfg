SPECIFICATION FairSpec
CONSTANTS
  owner = owner
  r1 = r1
  roll = roll
  seal = seal
  s1 = s1
  Reader = {r1}
  stream = s1
  Command = {roll, seal}
  Draws <- MCDraws
  MaxLog = 3
INVARIANTS TypeOK LogAndTallyAgree ContextStandsAtHead ResumeReadsOneLog
PROPERTIES EveryCallReturns ImplementsAtomicCommands
