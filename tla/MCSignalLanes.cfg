\* A session of four minutes, any minute of start from one before the open on;
\* two attempts, one tick that raises.
SPECIFICATION FairDay
CONSTANTS
  OpenMinute = 1
  CloseMinute = 5
  MaxAttempts = 2
  LastMinute = 5
  MaxRaises = 1
  Tapes <- MCTapes
  Noise = 1
  Grid = 2
  RangeMinutes = 2
  RvolMin = 4
  Cooldown = 1
  Ttl = 1
  MeasureEnd = 3
  Blackouts = {4}
INVARIANTS ClosedOnly SaidOnce
PROPERTIES NotBurned BackfillSettles
CHECK_DEADLOCK FALSE
