SPECIFICATION Spec
CONSTANTS
  Context = {"dev"}
  ShownResource = {"pods", "deployments"}
  FirstPath <- MCPaths
  MaxHistory = 3
  Object <- MCObject
  UsedFilters <- MCFilters
  NoKey = "none"
  FilterSize = 2
INVARIANTS
  HistoryIsTrail
  NothingLeaks
PROPERTIES
  NoGhostSelection
  FreshDetails
