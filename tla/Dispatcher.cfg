SPECIFICATION Spec
CONSTANTS
  c1 = c1
  c2 = c2
  e1 = e1
  e2 = e2
  Chunks = {c1, c2}
  Entries = {e1, e2}
  Settings <- Calls
  MaxChunkRetries = 2
  Cap = 1
  DeadStrikes = 2
  Ghosts = {}
CHECK_DEADLOCK FALSE
INVARIANTS
  CountsHonest
  ChunksResolved
PROPERTIES
  PushEnds
