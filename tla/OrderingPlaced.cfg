CONSTANTS
  NUM_WH = 2
  PRODUCT_INIT_NUM = 3
  Restock = 10
  Quantities = {1, 2}
  IntMax = 15
  MaxLines = 2
  MaxOrders = 1
  NoPurchase = NoPurchase
SPECIFICATION Spec
INVARIANT
  PlacedMeansComplete
