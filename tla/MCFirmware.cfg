SPECIFICATION FirmwareSpec
CONSTANTS
  node = node
  bridge = bridge
  base = base
  Station <- Pair
  Origin = node
  NoRelay = {}
  TTL = 2
  RESERVE = 2
  WIDTH = 2
  M = 2
  MaxCtr = 5
  NvsFault <- SurvivedFaults
  Pins <- AllPins
  SafePin = 1
  Policies <- Pushed
  HostRules <- Sets
  Messages <- Descents
  Slots = {0}
  Snapshots <- Readings
  Firmwares = {v1, v2}
  ReflexInterval = 1
  CutDebounce = 2
  NewsDebounce = 2
  LinkTimeout = 2
  AgeCap = 3
SYMMETRY Versions
INVARIANTS IssuedBehindCeiling GapsBounded DurableBeforeAccept AuthorityIsTold StandingFires
PROPERTIES ImplementsAtMostOnce  RulesRemembered
