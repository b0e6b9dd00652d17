SPECIFICATION MCSpec
CONSTANTS
  Clients = {c1, c2}
  Items = {1, 2}
  Models = {1, 2}
  Skus = {1, 2}
  Codes = {"k1", "k2"}
  SkuCodes = {"a", "A", "B"}
  Normal <- MCNormal
  Uoms = {"BOX", "CARTON-24X"}
  SkuBases = {"BOX"}
  FullLength = {"CARTON-24X"}
  MaxPrice = 1
  MaxRequests = 2
  None = None
  Absent = Absent
INVARIANTS
  TypeOK
  SkusStayWithTheirModel
PROPERTIES
  OrphansOnlyByItemDeletion
  StatusMovesAsAsked
  ModelsLeaveEmpty
  InactiveSkusStayAsTheyAre
CHECK_DEADLOCK FALSE
