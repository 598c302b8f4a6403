CONSTANTS
  NUM_WH = 1
  PRODUCT_INIT_NUM = 2
  Restock = 10
  Quantities = {1, 31}
  IntMax = 15
  MaxLines = 1
  MaxOrders = 1
  NoPurchase = NoPurchase
SPECIFICATION Spec
PROPERTY
  MatchedWasThere
