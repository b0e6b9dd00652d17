SPECIFICATION MCSpec
CONSTANTS
  RowIds = {1, 2, 3, 4}
  Keys = {1, 2}
  MaxLimit = 2
  MaxWrites = 1
  NoValue = NoValue
  OrderNos = {1, 2, 3}
  DetailNos = {1, 2, 3, 4, 5}
  SupplierNos = {1, 2}
  Places = {"w", "v"}
  Goods = {"x"}
  Amounts = {1, 2}
  Ratings = {0, 45, 50}
  Nothing = Nothing
  Grain = 10
  QtyGrain = 1
  PriceGrain = 2
  Fine = 2
  LineNums = {1, 2}
  Quantities = {3, 6}
  UnitPrices = {0, 74}
  Percents = {0, 9, 10}
  DiscountAmounts = {3}
  MaxChanges = 3
  NotGiven = NotGiven
  Units = {"p", "b"}
  Factors = {0, 3, 12}
  Precisions = {1}
  UnitCounts = {5}
  MaxUnitWrites = 3
  NoUnit = NoUnit
INVARIANTS
  PricesHold
  UnitsConvertAsListed
PROPERTIES
  WalksReturnEveryRow
  ReportsAddUp
CHECK_DEADLOCK FALSE
