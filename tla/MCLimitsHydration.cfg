SPECIFICATION FairSpec
CONSTANTS
  MaxBoots = 2
  MaxFlight = 2
  BeaconEvery = 3
  RetryAfter = 2
PROPERTIES LimitsSettle
