CONSTANTS
  Controllers = {first, second}
  MaxCaptures = 2
SPECIFICATION FairSpec
CHECK_DEADLOCK FALSE
INVARIANTS WorkerIsOwned SessionIsKept QuietIsSettled
PROPERTY CallsReturn
