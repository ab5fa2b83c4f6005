CONSTANTS
  ChunkLimit = 2
  Limits <- SmallLimits
  MaxU64 = 1023
  MaxI64 = 511
  MaxScale = 100
  Units <- SmallUnits
  Multiplier <- SmallMultiplier
  Invocations <- SmallInvocations
SPECIFICATION ProgramSpec
INVARIANTS ProgramTypeOK FrontOfOrder AcceptedIsValid TimesAreTaken
INVARIANTS ListingAnswer CountAnswer PointAnswer SourcesAnswer
