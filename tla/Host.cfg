SPECIFICATION HostSpec
CONSTANTS
  Off = Off
  r1 = r1
  r2 = r2
  r3 = r3
  p1 = p1
  p2 = p2
  p3 = p3
  b1 = b1
  b2 = b2
CHECK_DEADLOCK FALSE
INVARIANTS
  WaitsEnd
  PoolKept
  ProgressDelivered
  SuggestionImproves
  StreamsServed
  FillSound
  ExchangesAgree
  ConnectSound
  
