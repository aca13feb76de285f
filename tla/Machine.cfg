SPECIFICATION Spec
CONSTANTS
  Name <- MCName
  Lineages <- MCLineages
  MaxMoves <- MCMaxMoves
  MaxRefusals = 1
INVARIANTS TypeOK ListenersTellTheStory ReportComesTrue UpgradePathDoesNotMatter
PROPERTIES ProbesPredictApply ReportAgreesWithWalks
CHECK_DEADLOCK FALSE
