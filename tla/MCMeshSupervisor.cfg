SPECIFICATION FairSpec
CONSTANTS
  Nodes = {n1, n2}
  StaleAfter = 1
  EscalateAfter = 2
  ProbeEvery = 1
  LostProbeEvery = 2
PROPERTIES ConclusionsFit LostAndFound
