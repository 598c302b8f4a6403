CONSTANTS
  MaxPackages = 1
  MaxLost = 0
  NUM_WH = 1
  NoPackage = NoPackage
SPECIFICATION Spec
PROPERTIES
  DeliveredIsFinal
