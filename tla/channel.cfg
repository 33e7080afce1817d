\* Five ticks in shards of two; slices begin with no allowance and are simulated again
\* as long as a journey asks.
SPECIFICATION Spec
CONSTANTS
  n1 = n1
  Nodes = {n1}
  Intensity = Intensity  None = None
  Levels = {0, 1}
  Nominal = 0
  Exposed = {n1, Intensity}
  NumTicks = 5
  ShardTicks = 2
  Scrape = 2
  Spill = 0
  Margin = 0
  MaxTries = 2
  LastTick = 5
  Moves <- StayOrFlip
  Days <- OneChange
  Faults <- Outages
INVARIANTS SlicesAgree ChangesAreTrue VisibleIsSampled TwinReplays
CHECK_DEADLOCK FALSE
