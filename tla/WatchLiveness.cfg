SPECIFICATION FairWatchSpec
CONSTANTS
  c1 = c1
  c2 = c2
  k1 = k1
  k2 = k2
  Client <- OnePage
  Key <- TwoKeys
  MaxVer = 2
  MaxPending = 1
  Cap = 2
PROPERTIES
  OnlyForward
  Converges
  StopsWhenIdle
