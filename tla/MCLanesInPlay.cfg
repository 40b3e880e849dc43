\* The instance of MCSignalLanes.cfg, for the volume a name is in play by.
SPECIFICATION DaySpec
CONSTANTS
  OpenMinute = 1
  CloseMinute = 5
  MaxAttempts = 2
  LastMinute = 5
  MaxRaises = 1
  Tapes <- MCTapes
  Noise = 1
  Grid = 2
  RangeMinutes = 2
  RvolMin = 4
  Cooldown = 1
  Ttl = 1
  MeasureEnd = 3
  Blackouts = {4}
INVARIANT InPlayByTheTape
CHECK_DEADLOCK FALSE
