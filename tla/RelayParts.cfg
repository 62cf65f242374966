SPECIFICATION PartsSpec
CONSTANTS
  k1 = k1
  k2 = k2
  p1 = p1
  r1 = r1
  r2 = r2
  b1 = b1
  b2 = b2
  t1 = t1
  t2 = t2
  a1 = a1
  a2 = a2
  q1 = q1
  NoAccount = NoAccount
  Keys = {k1, k2}
  Cap = 1
  Rate = 1
  Burst = 4
  Cost = 2
  Peers = {p1}
  Emission = 2
  Tolerance = 4
  MaxWaits = {0, 3}
  MaxTime = 5
  MaxDials = 4
  Batches = {b1, b2}
  Reqs = {r1, r2}
  Frames <- MCFrames
  Lookups = 2
  OwnerCap = 1
  OkTTL = 2
  BadTTL = 1
  ChallengeTTL = 1
  RpcMax = 1
  MaxUnix = 4
  MaxReqs = 2
  MaxMoves = 1
  Tasks = {t1, t2}
  Addrs = {a1, a2}
  OwnedBatches = {b1, b2}
  Size <- MCSize
  Bodies <- MCBodies
  Challenges = {b1, "none"}
  RecentCap = 2
  AckTTL = 1
  RowCap = 1
  MaxConns = 1
  PoolTarget = 1
  MaxClock = 1
  MaxPosts = 2
SYMMETRY PartsAlike
CHECK_DEADLOCK FALSE
INVARIANTS
  LimitsHold
  
  ShadowTracksBill
  LedgersApart
PROPERTIES
  StandingIsRecent
