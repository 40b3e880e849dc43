\* Two days of a normal session, one respawn: a contract of the day, of the
\* next day and of three days; the catalyst comes after the first day.
SPECIFICATION Spec
CONSTANTS
  None = None
  Grid = {505, 580, 600, 900, 945, 955, 960, 970}
  OpenMinute = 570
  ReframeMinute = 600
  ZeroDteMinute = 900
  DeepMinute = 930
  EodMinute = 945
  PlannedMinute = 955
  CloseMinute = 960
  FlatMinute = 970
  Persist = 20
  Cycles = 2
  PrintLead = 10
  PostPrint = 15
  PrintMinute = 510
  OvernightDte = 3
  Positions <- Book
  PrintDays = {2}
  GrantDays = {1}
  LastDay = 2
  MaxDeaths = 1
PROPERTIES Patience EdgeOrSold TwoBadBars CarriesGranted
CHECK_DEADLOCK FALSE
CONSTRAINT Saved
