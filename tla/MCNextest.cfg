CONSTANTS
  test = test
  Controllers = {test}
  MaxCaptures = 1
SPECIFICATION NextestFairSpec
INVARIANTS NextestTypeOK KeptAsAsked BodyIsCaptured
PROPERTY GuardReturns
