SPECIFICATION Spec
CONSTANTS
  p1 = p1
  p2 = p2
  Proc = {p1, p2}
  Case = {"c1", "c2"}
  FirstCase = "c1"
  NoCase = "none"
  NextCase <- MCNextCase
  Limits = {1, 2}
  MaxGen = 2
  MaxStarts = 3
SYMMETRY Processes
INVARIANTS
  ScoreMatchesPrompt
  EntryNotOlder
CHECK_DEADLOCK FALSE
