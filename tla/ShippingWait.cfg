CONSTANTS
  MaxPackages = 2
  MaxLost = 1
  NUM_WH = 1
  NoPackage = NoPackage
SPECIFICATION FairSpec
CONSTRAINTS BeforeLoss NewsOnly
PROPERTIES
  OrdersOnlyWaitLonger
