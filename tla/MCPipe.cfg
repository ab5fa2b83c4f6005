CONSTANTS
  Capacity = 3
  MaxSend = 4
  MaxRead = 2
  MaxBytes = 5
SPECIFICATION FairSpec
INVARIANTS TypeOK RingHoldsStream NoLostWakeup
PROPERTIES ImplementsStream BlockedCallsReturn PutBytesArrive
