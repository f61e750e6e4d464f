SPECIFICATION FairEmbedSpec
CONSTANTS
  MaxUnit = 4
  UnitsOf <- MCUnitsOf
  MaxSearch = 2
  MaxVersion = 2
  BatchSize = 2
  MaxFaults = 2
INVARIANTS
  ExactlyOnce
  ResumeDoesNotMix
PROPERTY
  EventuallyIndexed
