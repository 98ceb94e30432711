SPECIFICATION Spec
CONSTANTS
  Producers <- Fused
  Agent = "agent"
  Liveness = "liveness"
  Claimable = {}
  Withdrawable = {}
  Torn = {}
  Stoppable = {}
  Expiring = {"level", "node"}
  MaxAge = 1
  StaleAfter = 1
  MaxRows = 4
  MaxTime = 1
INVARIANT RestedIsWithdrawn
CHECK_DEADLOCK FALSE
