SPECIFICATION FairCacheSpec
CONSTANTS
  c1 = c1
  r1 = r1
  secrets = secrets
  configmaps = configmaps
  Client <- OneClient
  Release <- OneRelease
  Driver <- TwoDrivers
  Home <- InSecrets
  MaxVer = 2
VIEW SkipView
INVARIANTS
  RefreshNotLost
PROPERTIES
  CacheIsReplica
