\* The diagrams with a timer.
SPECIFICATION CompilerSpec
CONSTANTS
  Diagrams <- TimerDocuments
  StageBudget = 4
  MaxPathDepth = 8
INVARIANT EveryTaskIsCompiled
CHECK_DEADLOCK FALSE
