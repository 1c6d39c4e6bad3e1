SPECIFICATION BurstSpec
CONSTANTS
  RateLimitMax = 3
  RateLimitWindow = 4
  MaxPerTick = 6
INVARIANT BurstBound
PROPERTY NoFalseDrop
