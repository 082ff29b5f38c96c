SPECIFICATION FairSpec
CONSTANTS
  v1 = v1  v2 = v2  w1 = w1  w2 = w2
  Visitors = {v1, v2}
  Writers = {w1, w2}
  MaxChanges = 3
  PageSize = 1
  StockPage = 1
  PollSize = 2
  MaxLosses = 1
CHECK_DEADLOCK FALSE
INVARIANTS CursorCoversStock
PROPERTIES StockConverges
