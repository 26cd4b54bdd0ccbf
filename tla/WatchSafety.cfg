SPECIFICATION WatchSpec
CONSTANTS
  c1 = c1
  c2 = c2
  k1 = k1
  k2 = k2
  Client <- TwoPages
  Key <- OneKey
  MaxVer = 3
  MaxPending = 2
  Cap = 2
SYMMETRY PageSymmetry
INVARIANTS
  WatchTypeOK
  NothingLost
  HandoffComplete
  SendsNeverBlock
  RefusalIsLast
