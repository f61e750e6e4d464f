SPECIFICATION Spec
CONSTANTS
  N = 2
  Text = {"t1", "t2"}
  Crate = {"c1", "c2"}
  MaxEdits = 2
  MaxBuilds = 2
INVARIANTS
  CacheNeverLies
  SourceMatchesSymbols
  QuietBuildIsFresh
  ReuseWorks
CHECK_DEADLOCK FALSE
