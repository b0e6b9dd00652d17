\* Two overlapping requests, faults, a deleted warehouse, all endpoints.
CONSTANTS
  w1 = w1  w2 = w2  k1 = k1  k2 = k2  t1 = t1  t2 = t2  p1 = p1  p2 = p2
  NoWarehouse = NoWarehouse  NoTrans = NoTrans  NoLocation = NoLocation
  Warehouses = {w1, w2}
  Deletable = {w2}
  Skus = {k1}
  LineNums = {1, 2}
  TransIds = {t1, t2}
  Workers = {p1, p2}
  Documents <- Movements
  ExtraLines <- SecondLine
  Amounts = {1}
  Adjustments <- Decrease
  OpeningStock <- HalfStocked
  Faults = TRUE
  Disjoint = FALSE
  MaxRequests = 4
SPECIFICATION Spec
INVARIANTS TypeOK NonNegativeStock
