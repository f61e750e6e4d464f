SPECIFICATION FairSpec
CONSTANTS
  N = 2
  MaxGen = 2
  MaxFaults = 2
INVARIANTS
  CompletedMeansIndexed
  ClaimMeansCompleted
PROPERTIES
  CompletedIsFinal
  ResumeCompletes
