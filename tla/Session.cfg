SPECIFICATION Spec
CONSTANTS
  p1 = p1
  p2 = p2
  f = f
  Ops = {p1, p2, f}
  Kind <- KindOf
  Price <- PriceOf
  Threshold = 2
  Refresh = 1
  GhostLimit = 2
  MaxPushes = 2
  Used = {1}
  Rates <- RatesOf
  MaxCumulative = 2
  Channel = 2
  MaxProbes = 1
  MaxSessions = 2
CHECK_DEADLOCK FALSE
INVARIANTS
  ThresholdKept
  
PROPERTIES
  AllAnswered
