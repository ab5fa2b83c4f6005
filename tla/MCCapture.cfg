CONSTANTS
  Controllers = {owner}
  MaxCaptures = 3
SPECIFICATION Spec
CHECK_DEADLOCK FALSE
INVARIANTS TypeOK StatisticsAreCurrent SavesDrained
PROPERTY TerminalIsFinal
