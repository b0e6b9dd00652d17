\* Two completions of one transaction.
CONSTANTS
  w1 = w1  w2 = w2  k1 = k1  k2 = k2  t1 = t1  t2 = t2  p1 = p1  p2 = p2
  NoWarehouse = NoWarehouse  NoTrans = NoTrans  NoLocation = NoLocation
  Warehouses = {w1}
  Deletable = {}
  Skus = {k1}
  LineNums = {1, 2}
  TransIds = {t1}
  Workers = {p1, p2}
  Documents <- OneReceipt
  ExtraLines <- NoLines
  Amounts = {}
  Adjustments = {}
  OpeningStock <- FullStock
  Faults = FALSE
  Disjoint = FALSE
  MaxRequests = 3
SPECIFICATION Spec
INVARIANTS CompletedOnce
