SPECIFICATION ContentSpec
CONSTANTS
  Off = Off
  f1 = f1
  f2 = f2
  n1 = n1
  n2 = n2
  u1 = u1
  u2 = u2
  u3 = u3
  Nil = Nil
  c1 = c1
  c2 = c2
  c3 = c3
  l1 = l1
  l2 = l2
  b1 = b1
  b2 = b2
  g1 = g1
  MaxRetries = 0
CHECK_DEADLOCK FALSE
INVARIANTS
  FetchSound
  RecoversExact
  TreeExact
  ResolvesHead
  
  
  SkippedOnlyWhenEnough
