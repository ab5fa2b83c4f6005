CONSTANTS
  Events = {e1, e2}
  UpRoom = 1
  DownRoom = 3
SPECIFICATION FairSpec
INVARIANTS TypeOK CommittedArrive
PROPERTY StopEnds
