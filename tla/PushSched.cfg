SPECIFICATION Spec
CONSTANTS
  c1 = c1 c2 = c2 l1 = l1 l2 = l2 b1 = b1 b2 = b2 b3 = b3
  Chunks = {c1, c2}
  Lanes = {l1, l2}
  BatchIds = {b1, b2, b3}
  NoLane = NoLane
  Groups = {}
  NoGroup = NoGroup
  GroupOf <- Ungrouped
  Need <- NeedOne
  GroupPolicy = FALSE
  InflightMax <- TwoAndOne
  Batch = 2
  ProbeBatch = 1
  MaxAttempts = 2
  FailStreak = 2
  MaxBackoffExp = 1
  HedgeBudget = 1
  MaxRefusals = 2
SYMMETRY Alike
CHECK_DEADLOCK FALSE
INVARIANTS
  CountersExact
  NothingLost
  IdleMeansQueued
PROPERTIES
  ResolvedForGood
  DownStaysDown
