SPECIFICATION FairLogSpec
CONSTANTS
  p1 = p1
  p2 = p2
  s1 = s1
  s2 = s2
  NoStream = NoStream
  NoPod = NoPod
  Pod <- TwoPods
  Stream <- TwoStreams
  MaxPending = 1
  Cap = 1
INVARIANTS
  OneStreamPerPod
  FollowsCurrentPods
  CloseIsLast
PROPERTY
  EverythingEnds
