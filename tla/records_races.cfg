SPECIFICATION MCSpec
CONSTANTS
  Clients = {c1, c2}
  MaxRequests = 2
  None = None
  Absent = Absent
  CustomerIds = {1, 2}
  AddressIds = {1, 2, 3}
  SupplierIds = {1, 2}
  PackagingIds = {1, 2, 3}
  PartnerCodes = {"p", "q"}
  AddressTypes = {"SHIPPING", "BILLING"}
  SupplierItems = {"i"}
  MaxLevel = 3
  Ratios = {1, 2}
  RefIds = {1, 2}
  RefCodes = {"r", "s"}
  Users = {u1, u2}
  ThemeIds = {1, 2}
  FileIds = {1, 2, 3}
  Paths = {"f1", "f2", "f3"}
  Base = 3
  MaxNumber = 10
  Months = 2
INVARIANTS
  TypeOK
PROPERTIES
  BlacklistIsFinal
  OneDefaultOfAType
  ActivityMovesAsAsked
  RecalculationSettles
  MaterialsInUseStay
  DeletionTakesTheFiles
  RefusedOnlyWhenOvertaken
CHECK_DEADLOCK FALSE
