\* Two requests at a time, all endpoints, faults.
CONSTANTS
  k1 = k1  k2 = k2  i1 = i1  i2 = i2  i3 = i3  p1 = p1  p2 = p2
  NoIssue = NoIssue
  Skus = {k1, k2}
  OrderLines <- OneLine
  NewLines <- OtherLines
  Quantities = {3}
  PatchStatuses = {"DRAFT", "OPEN"}
  IssueIds = {i1, i2}
  IssueDocs <- Any
  ExtraLines <- ExtraPiece
  Endpoints <- AllEndpoints
  Workers = {p1, p2}
  OnePerIssue = FALSE
  Faults = TRUE
  MaxRequests = 4
SPECIFICATION Spec
INVARIANTS TypeOK NeverOvershipped ShippedIsMoved
