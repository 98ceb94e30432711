SPECIFICATION Spec
CONSTANTS
  Nodes = {n1}
  StaleAfter = 1
  EscalateAfter = 2
  ProbeEvery = 1
  LostProbeEvery = 2
PROPERTIES CountDropsWithViews
