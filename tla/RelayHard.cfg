SPECIFICATION Spec
CONSTANTS
  a1 = a1 k1 = k1 p1 = p1 p2 = p2 q1 = q1 q2 = q2
  Price = 1
  MinCheque = 3
  SettleEvery = 3
  MaxOutstanding = 4
  CreditRatio = 1
  Accounts = {a1}
  Books = {k1}
  Issuer <- IssuerOf
  NoAccount = NoAccount
  Posts = {p1, p2}
  Pays = {q1, q2}
  Bodies = {0, 1024, 1025}
  Values = {2, 6}
  HardMode = TRUE
  MaxLive = 2
  MaxCumulative = 4
  MaxBilled = 5
SYMMETRY Alike
INVARIANTS
  CreditHeld
PROPERTIES
  RefusalIsPayable
  KeepsAccounts
