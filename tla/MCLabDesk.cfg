\* The hub: a cap of five requests per window of one tick (stamps of two
\* instants); the 80% line is at four. All twenty strategies over two months of
\* sessions, with expirations listed daily or weekly, to the horizon.
SPECIFICATION DeskSpec
CONSTANTS
  k1 = k1
  u1 = u1
  Never = Never
  Key <- OneKey
  Underlying <- OneUnderlying
  Cap = 5
  Window = 1
  ChainTTL = 1
  ExpirationTTL = 2
  MaxClock = 2
  MaxGrants = 6
  None = None
  Strategies <- Roster
  Ticks <- TickTable
  LastDay = 62
  Far = 155
  Holidays <- Closures
  HalfDays <- EarlyCloses
  MonthFirsts <- Months
  Reports <- ReportDays
  FileWindow = 7
  Decisions <- DecisionDays
  MaxStarts = 2
INVARIANTS CapHeld ScanNeverStale OwnExitFirst FiledReportsAvoided
 
CHECK_DEADLOCK FALSE
