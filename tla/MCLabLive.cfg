\* Liveness over two days of two slots: two entry rows, at most one open at a
\* time, two process starts, quarantine at the first error.
SPECIFICATION FairSpec
CONSTANTS
  s1 = s1
  s2 = s2
  None = None
  Strategy <- OneStrategy
  Rosters <- OneRoster
  RideToExpiry = {}
  MaxConcurrent <- CapOne
  LegShapes <- Shapes
  Quota = 1
  OpenMinute = 0
  BackstopMinute = 1
  LastMinute = 1
  EndMinute = 1
  LastDay = 2
  Holidays = {}
  MaxRows = 2
  MaxStarts = 2
  SameMinuteRespawn = FALSE
PROPERTIES DayLatches BackstopFires
