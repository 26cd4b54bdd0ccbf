SPECIFICATION Spec
CONSTANTS
  Containers <- MCContainers
  Followed = {"app"}
  TailLines = 2
  MaxEntries = 4
  Cap = 1
  MaxLines <- MCMaxLines
  MaxConnections = 2
INVARIANTS
  OncePerConnection
  OnlyGapsAreMissing
  ReconnectErrorClears
