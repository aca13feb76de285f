CONSTANTS
  WordBits = 2
  Cents = {1, 2}
  Capacity = 2
  Cards = 3
  Tokens = 2
  MaxLeakSteps = 3
  Catalog <- MCCatalog
  Worlds <- MCWorlds
  MaxSteps <- MCMaxSteps
SPECIFICATION Spec
INVARIANTS
  TypeOK
  FaultsAreInvisible
  PassesContract
  HandledStepsAreLegal
  DigestTellsStatesApart
  NoLeak
CHECK_DEADLOCK FALSE
