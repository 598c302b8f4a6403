CONSTANTS
  MaxPackages = 2
  MaxLost = 0
  NUM_WH = 1
  NoPackage = NoPackage
SPECIFICATION Spec
INVARIANTS
  TypeOK
  AckMeansReceived
  OneCommandPerStep
  AcknowledgedIsKept
PROPERTIES
  AsPromised
  CircularWaitIsForever
