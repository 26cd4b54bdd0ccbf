SPECIFICATION FairCacheSpec
CONSTANTS
  c1 = c1
  r1 = r1
  secrets = secrets
  configmaps = configmaps
  Client <- OneClient
  Release <- OneRelease
  Driver <- OneDriver
  Home <- InSecrets
  MaxVer = 3
PROPERTY
  GoroutinesEnd
