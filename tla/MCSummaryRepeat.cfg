SPECIFICATION Spec
CONSTANTS
  Symbol = {"s1", "s2"}
  File = {"f1", "f2"}
  Dir = {"d1"}
  Project = "project"
  Content <- MCContent
  MaxGen = 2
  MaxRuns = 5
PROPERTY
  Deterministic
CHECK_DEADLOCK FALSE
