\* The books over two days of two slots: two entry rows open together, two
\* process starts, no two of them in a minute with an entry.
SPECIFICATION Spec
CONSTANTS
  s1 = s1
  s2 = s2
  None = None
  Strategy <- OneStrategy
  Rosters <- OneRoster
  RideToExpiry = {}
  MaxConcurrent <- CapTwo
  LegShapes <- Shapes
  Quota = 2
  OpenMinute = 0
  BackstopMinute = 1
  LastMinute = 1
  EndMinute = 1
  LastDay = 2
  Holidays = {}
  MaxRows = 2
  MaxStarts = 2
  SameMinuteRespawn = FALSE
INVARIANTS HeldRecoverable BooksComplete
PROPERTIES BookRefined SettlementPass ManageSweeps
