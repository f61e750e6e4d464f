SPECIFICATION Spec
CONSTANTS
  Repos <- MCRepos
  Words <- MCWords
  Upper <- MCUpper
  Reserved <- MCReserved
  Dot <- MCDot
  TargetCap = 4
  FrontierCap = 4
  FieldCap = 6
  FlowCap = 6
INVARIANTS
  EdgesEndAtNodes
  ViewsAgree
  TransitiveIsReach
  FlowIsLastBinding
