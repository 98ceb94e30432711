SPECIFICATION PerceptSpec
CONSTANTS
  WarmupFrames = 1
  BlindRun = 2
  FailedRun = 2
  Sizes = {1}
  LastCapture = 4
  Gap = 2
  WarmupEpisodes = 1
  MaxTurns = 1
  MaxMisses = 1
  MaxEnds = 1
INVARIANT BodyIsReplay
CHECK_DEADLOCK FALSE
