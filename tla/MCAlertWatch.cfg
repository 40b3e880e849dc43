\* A day of five minutes with a short fuse: one respawn, a start by hand, two
\* alerters. The day ends with the horizon. Two names in the halt feed, a
\* breaker of two failures; five headlines, the tap with Benzinga alone.
SPECIFICATION BesideSpec
CONSTANTS
  None = None
  Pids = {p1, p2}
  Taps = {"news_flag_tap"}
  MaxRespawns = 1
  Open = 1
  SettleEnd = 2
  Close = 4
  HoursEnd = 4
  Until = 4
  LastMinute = 5
  Stale = 1
  TickStale = 1
  Grace = 1
  MaxAlerters = 2
  MaxLosses = 1
  Name = {"x", "y"}
  MaxAge = 2
  Failures = 2
  Cooldown = 4
  LastTick = 8
  Headline = {1, 2, 3, 4, 5}
  Stamp <- MCStamp
  SourceOf <- OneSource
  Wires = {}
  Overlap = 1
  Limit = 2
  SinceHours = 2
  LastMoment = 5
SYMMETRY Alike
INVARIANTS  HaltIsFresh NoneBehindCursor
PROPERTIES OwnerKnows 
CHECK_DEADLOCK FALSE
