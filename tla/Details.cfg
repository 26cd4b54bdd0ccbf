SPECIFICATION Spec
CONSTANTS
  Key = {"old", "new"}
  NoKey = "none"
  Subject <- MCSubject
  Event <- MCEvent
  MaxVersion <- MCMaxVersion
  MaxDeleted = 1
  MaxQueue = 2
  DocLines = 5
  TextSize = 5
INVARIANTS
  TabsShowSelection
  TabsAreComplete
  RefusalIsShown
PROPERTIES
  TabsSettle
  EditorCatchesUp
