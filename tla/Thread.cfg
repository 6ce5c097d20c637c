CONSTANTS
  MaxStarts = 4
  CreateMayFail = TRUE
  DetachMayFail = TRUE
  Nobody = Nobody
SPECIFICATION ThreadFairSpec
INVARIANT ReadyIsQuiet
INVARIANT OneThreadAlive
PROPERTY JoinReturns
