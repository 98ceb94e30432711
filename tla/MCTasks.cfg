CONSTANTS
  t1 = t1
  t2 = t2
  rover1 = rover1
  rover2 = rover2
  j1 = j1
  j2 = j2
  west = west
  None = None
  TaskIds = {t1}
  Kinds <- KindsMC
  MaxTime = 2
  MaxCreates = 2
  MaxFaults = 1
  Nodes = {rover1, rover2}
  Jobs = {j1, j2}
  NodeOrder <- NodeOrderMC
  Bids <- BidsMC
  Targets = {west}
  Near <- NearMC
  OutboxCap = 1
  MaxAdds = 2
  Missions <- MissionsMC
  Places = {"yard"}
  HasGrid = TRUE
  MaxStarts = 2
  MaxMeddling = 1
SPECIFICATION Spec
INVARIANTS RunsMatchMarks  
PROPERTIES DueIsServed MissionEnds
CHECK_DEADLOCK FALSE
