CONSTANTS
  Capacity = 2
  MaxSend = 3
  MaxRead = 2
  MaxBytes = 4
SPECIFICATION FairSpec
PROPERTY WriterCloseReleasesWriter
