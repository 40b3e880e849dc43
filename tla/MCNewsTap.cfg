\* The tap as the launcher starts it: a wire beside Benzinga.
SPECIFICATION TapSpec
CONSTANTS
  Headline = {1, 2, 3, 4, 5}
  Stamp <- MCStamp
  SourceOf <- MCSource
  Wires = {"gdelt"}
  Overlap = 1
  Limit = 2
  SinceHours = 2
  LastMoment = 5
INVARIANT NoneBehindCursor
CHECK_DEADLOCK FALSE
