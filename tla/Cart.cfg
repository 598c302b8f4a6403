CONSTANTS
  t1 = t1
  t2 = t2
  Products = {1, 2}
  Forms <- MCForms
  Entries = {0, 2}
  Tabs = {t1, t2}
  NoItem = NoItem
  NoId = NoId
  NoTab = NoTab
  ReplySize = 3
  MaxPages = 3
  MaxFaults = 2
SPECIFICATION FairSpec
CONSTRAINT TwoPagesWithFaults
INVARIANTS
  TypeOK
  AddedIsKept
  OneRowUnlessOverlapped
  PlacedAsSubmitted
  ToldTheTruth
PROPERTIES
  ClearedWasOrdered
  PageAnswered
CHECK_DEADLOCK FALSE
