SPECIFICATION BrainSpec
CONSTANTS
  Producers <- ProducersMC
  Agent = "agent"
  Liveness = "liveness"
  Claimable = {"level"}
  Withdrawable = {"mode", "node"}
  Torn = {"level", "node"}
  Stoppable = {"node", "liveness"}
  Expiring = {"level", "node"}
  MaxAge = 1
  StaleAfter = 1
  MaxRows = 4
  MaxTime = 1
  gpio = gpio
  relay = relay
  thread1 = thread1
  thread2 = thread2
  Tools = {gpio, relay}
  AlwaysAsk = {}
  AutoApprove = {relay}
  Callers = {thread1, thread2}
  Plan <- PlanMC
  MaxAnswers = 3
  MaxCalls = 3
  MaxCuts = 1
  MaxWrites = 4
  MaxBreaks = 2
  Watched = {"batt", "modem"}
  Rules <- RulesMC
  MaxInWindow = 1
  Window = 1
  LastTick = 3
  MaxFacts = 3
  MaxSinkFaults = 1
  peer1 = peer1
  peer2 = peer2
  x = x
  y = y
  None = None
  Peers = {peer1, peer2}
  Toolsets = {x, y}
  ChannelCap = 1
  Clocks = {1, 2}
  MaxPerBoot = 2
  MaxEpoch = 3
  MaxBrainStops = 1
  MaxRekeys = 1
  WarmupFrames = 1
  BlindRun = 2
  FailedRun = 2
  Sizes = {1, 2}
  LastCapture = 7
  NoticedCaptures = 4
  Gap = 2
  WarmupEpisodes = 1
  MaxTurns = 1
  MaxMisses = 1
  MaxEnds = 1
  Feed <- FeedMC
  NoEvent = 0
  Restricted = "human"
  Captured = {"wildlife", "human"}
  Until <- UntilMC
  WholeFrame = TRUE
  LastPoll = 3
  MaxBreakOffs = 1
INVARIANTS OneOpenInOrder SingleChainsWithdrawn MarkersStand ApprovalStands AckedRecordsVerify FiresWithinBudget  PerceptsFollow 
PROPERTIES HistoryKept CameraTold
CHECK_DEADLOCK FALSE
