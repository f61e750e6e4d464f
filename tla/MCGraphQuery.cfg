SPECIFICATION FairSpec
CONSTANTS
  N = 5
  EdgeType = {"CALLS", "READS"}
  Graphs <- MCGraphs
  Requests <- MCRequests
INVARIANTS
  PathsAreReal
  PathsAreShortest
  NoPathMissed
  NeighborsAreNearest
PROPERTY
  QueryAnswers
CHECK_DEADLOCK FALSE
