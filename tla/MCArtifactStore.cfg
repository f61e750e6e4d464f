SPECIFICATION FairSpec
CONSTANTS
  MaxGen = 2
  MaxBuilds = 5
  MaxCrashes = 1
INVARIANT
  PipelineConsistent
PROPERTIES
  RebuildHeals
  RefinesCatalog
CHECK_DEADLOCK FALSE
