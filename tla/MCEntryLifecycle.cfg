SPECIFICATION FairLifeSpec
CONSTANTS
  c1 = c1
  c2 = c2
  s1 = s1
  s2 = s2
  t1 = t1
  t2 = t2
  t3 = t3
  NoTimer = NoTimer
  Client <- MCClient
  StopChan <- MCStopChan
  Timer <- MCTimer
INVARIANTS
  OneRun
  NeverStranded
  IdleRunHasTimer
PROPERTIES
  IdleEntryStops
  SubscribersServed
  KeepsPromise
