SPECIFICATION MergeSpec
CONSTANTS
  Text = {"methods", "modules", "nested", "twins"}
  Form = {"nested", "flat"}
  ServerIds = {1, 2}
  InCap = 2
  OutCap = 1
  ErrCap = 1
  MaxNoise = 2
  MaxDeaths = 1
  Items <- MCItems
  ModulePath <- MCModulePath
  SitterThere = {0, 1}
INVARIANTS
  AnswerIsServers
  ParsedKept
  OneSymbolPerCallable
PROPERTY ProbeFinishes
CHECK_DEADLOCK FALSE
