SPECIFICATION BackfillFairSpec
CONSTANTS
  Null = Null
  MaxUid = 3
  Headed <- WithId
  OldMax = 2
  BatchSize = 1
  MaxFlips = 1
  Faults <- AllFaults
  MaxFaults = 1
INVARIANTS FlagsNotInvented BlankMeansNoHeader
PROPERTIES IdsAreKept FlagsArrive EnvelopesSettle
