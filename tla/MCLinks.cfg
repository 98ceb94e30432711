SPECIFICATION LinksSpec
CONSTANTS
  gwA = gwA
  Station = {gwA}
  WINDOW = 3
  M = 2
  MaxCtr = 7
  CLEAR = 1
  CrashAt = {"mark"}
  srcA = srcA
  srcB = srcB
  srcC = srcC
  Claimed = {srcA, srcB, srcC}
  AIR_CAP = 2
  AIR_CLEAR = 2
  AirCrashes = TRUE
  call1 = call1
  call2 = call2
  Calls = {call1, call2}
  Slots = 1
  CallWindow = 1
  LastSecond = 2
  MaxCallCtr = 4
  MaxCopies = 1
  MaxEnds = 1
  cmd1 = cmd1
  cmd2 = cmd2
  Commands = {cmd1, cmd2}
  QueueCap = 1
  LineCap = 1
  MaxGen = 3
  MaxFailures = 1
  hostA = hostA
  hostB = hostB
  hostC = hostC
  Hosts = {hostA, hostB, hostC}
  Hears <- HearsMC
  RelayCap = 1
  Ttl = 1
  Ids = {1, 2}
  toolA = toolA
  toolB = toolB
  ToolCalls = {toolA, toolB}
  ServerKinds <- ServersMC
  FrameBound = 1
  MaxNoise = 2
  MaxDeaths = 2
  Fallbacks = 2
  MaxRetries = 2
  MaxPieces = 2
  Suites <- SuitesMC
  Debounce = 2
  StopInterval = 1
  MaxSafingFaults = 1
INVARIANTS ToldIsTrue NothingCrossesAnOutage ResultsAreTheirOwn ShownIsTheAnswer
PROPERTIES LinesTaken   LinkComesBack FloodIsFinite SafingFollows
CHECK_DEADLOCK FALSE
