\* Two requests at a time that share no transaction and no stock row.
CONSTANTS
  w1 = w1  w2 = w2  k1 = k1  k2 = k2  t1 = t1  t2 = t2  p1 = p1  p2 = p2
  NoWarehouse = NoWarehouse  NoTrans = NoTrans  NoLocation = NoLocation
  Warehouses = {w1, w2}
  Deletable = {}
  Skus = {k1, k2}
  LineNums = {1, 2}
  TransIds = {t1, t2}
  Workers = {p1, p2}
  Documents <- TwoSkuDocs
  ExtraLines <- SecondLine
  Amounts = {}
  Adjustments = {}
  OpeningStock <- FullStock
  Faults = FALSE
  Disjoint = TRUE
  MaxRequests = 5
SPECIFICATION FairSpec
PROPERTIES ImplementsAtomicStock ClosedIsFinal RequestsAnswered
