\* Two days: one of four minutes (the close at 2, the late close at 3), and the
\* first two minutes of the next; an index and an equity, two lanes, two entry
\* rows, two starts, room for one open position.
SPECIFICATION Spec
CONSTANTS
  index = index
  equity = equity
  call = call
  trend = trend
  macro = macro
  Underlying = {index, equity}
  Side = {call}
  Lane = {trend, macro}
  Watches <- WatchesBoth
  Latching = {trend}
  Index = {index}
  Dtes = {0, 1}
  MaxConcurrent = 1
  Cooldown = 0
  Ttl = 0
  OpenMinute = 0
  CloseMinute = 2
  FlatMinute = 3
  OvernightDte = 1
  GrantDays = {1}
  Weekends = {}
  EndMinute = 3
  LastDay = 2
  LastMinute = 1
  MaxRows = 2
  MaxStarts = 2
  Faults = {}
INVARIANTS CapAcrossRestarts Accounted
PROPERTIES BookRefined OpenSurvivesRoll SweepFlattens
