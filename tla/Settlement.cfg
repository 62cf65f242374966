SPECIFICATION Spec
CONSTANTS
  l1 = l1 l2 = l2 p1 = p1 p2 = p2 b1 = b1 b2 = b2
  Price = 1
  MinCheque = 1
  SettleEvery = 2
  MaxOutstanding = 6
  CreditRatio = 1
  Lanes = {l1, l2}
  Payees = {b1, b2}
  Payee <- OwnPayee
  Posts = {p1, p2}
  MaxFrames = 1
  FrameLen = 1024
  Line = 2
  Balance = 4
  MaxBilled = 3
  MaxFaults = 1
SYMMETRY Alike
CHECK_DEADLOCK FALSE
INVARIANTS
  PaidForService
  RecordedWasAccepted
  CoveredByBalance
  RefusedForCause
