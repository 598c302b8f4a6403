CONSTANTS
  Worlds = {1, 2}
  NUM_WH = 2
  PRODUCT_INIT_NUM = 2
  Restock = 10
  Quantities = {2, 7}
  IntMax = 3
  MaxLines = 2
  MaxOrders = 2
  NoPurchase = NoPurchase
SPECIFICATION FairStartSpec
CONSTRAINT
  OrdersOfUPS
INVARIANTS
  TypeOK
  OneWorld
  Accounting
  PlacedUnlessLost
PROPERTIES
  AnsweredUnlessLost
  NamedSettles
