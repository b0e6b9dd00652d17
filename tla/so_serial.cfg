\* One request at a time; lines are added, quantities raised, the order closed.
CONSTANTS
  k1 = k1  k2 = k2  i1 = i1  i2 = i2  i3 = i3  p1 = p1  p2 = p2
  NoIssue = NoIssue
  Skus = {k1, k2}
  OrderLines <- TwoSkus
  NewLines <- FirstFree
  Quantities = {3}
  PatchStatuses = {}
  IssueIds = {i1, i2, i3}
  IssueDocs <- Pieces
  ExtraLines <- NoLines
  Endpoints = {"hold", "release", "touch", "closeIssue", "divertIssue", "cancel", "complete", "remove"}
  Workers = {p1}
  OnePerIssue = TRUE
  Faults = FALSE
  MaxRequests = 7
SPECIFICATION Spec
INVARIANTS Allocated ShippedIsIssued RemainderIsIssuable
PROPERTIES FinalOrderIsFrozen
