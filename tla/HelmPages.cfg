SPECIFICATION PagesSpec
CONSTANTS
  c1 = c1
  r1 = r1
  secrets = secrets
  Client <- OnePage
  Release <- OneRelease
  Driver <- OneDriver
  Home <- InSecrets
  MaxVer = 2
  Cap = 1
VIEW ItemsView
INVARIANTS
  PageShowsCache
