SPECIFICATION Spec
CONSTANTS
  Message = {"m1", "m2", "m3"}
  Logger = {"g1", "g2"}
  Chan = {"c1", "c2"}
  NoChan = "none"
  Cap = 1
  MaxToasts = 2
  MaxErrors = 4
PROPERTIES
  ToastsEnd
  LoggingEnds
