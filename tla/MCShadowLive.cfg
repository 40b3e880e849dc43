\* One index, two lanes, room for two open positions: two days, the first to
\* its late close, two entry rows, two starts.
SPECIFICATION FairSpec
CONSTANTS
  index = index
  equity = equity
  call = call
  trend = trend
  macro = macro
  Underlying = {index}
  Side = {call}
  Lane = {trend, macro}
  Watches <- WatchesIndex
  Latching = {trend}
  Index = {index}
  Dtes = {0, 1}
  MaxConcurrent = 2
  Cooldown = 0
  Ttl = 0
  OpenMinute = 0
  CloseMinute = 2
  FlatMinute = 3
  OvernightDte = 1
  GrantDays = {1}
  Weekends = {}
  EndMinute = 3
  LastDay = 2
  LastMinute = 1
  MaxRows = 2
  MaxStarts = 2
  Faults = {}
INVARIANT OneExposure
PROPERTY ExpiredIsNoted
