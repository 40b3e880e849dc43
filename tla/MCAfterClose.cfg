\* A lab ledger of two strategies and two exit rows, two configurations and two
\* days, graded while it is written; a main ledger of two positions and three
\* exit rows over two days; two processes of the overnight lab over two days,
\* two name-days and two runs of the builder; or two events in a book of three
\* days, with two lapses.
SPECIFICATION AfterSpec
CONSTANTS
  Pilot = 12
  SizedLive = 15
  Sid <- MCSid
  Basis <- MCBasis
  Kind <- MCKind
  Hashes <- MCHashes
  Expected <- MCExpected
  Sessions = 2
  VerdictMin = 2
  Flag = 12
  LastDay = 2
  MaxRows = 2
  MaxReturns = 2
  ShadowKind <- MCShadowKind
  EntryKind <- MCEntryKind
  ShadowRows = 3
  ShadowEntries = 2
  LastNight = 2
  Key = {1, 2}
  MaxBuilds = 2
  Pid = {1, 2}
  Named <- MCNamed
  Lab_Days = 2
  Event = {1, 2}
  Ttl <- MCTtl
  SeenTtl = 2
  PerCycle = 1
  MaxActive = 2
  LastHour = 6
  MaxLapses = 2
INVARIANTS RescuedOnce EveryTradeOnce UnlockedByRealFills 
PROPERTIES LabBetIsFair SeriesIsTheBook VerdictEarned FinalStays
CHECK_DEADLOCK FALSE
