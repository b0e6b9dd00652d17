\* An order is updated together with its lines.
CONSTANTS
  k1 = k1  k2 = k2  i1 = i1  i2 = i2  i3 = i3  p1 = p1  p2 = p2
  NoIssue = NoIssue
  Skus = {k1}
  OrderLines <- OneLine
  NewLines <- NoLines
  Quantities = {}
  PatchStatuses = {}
  IssueIds = {i1, i2}
  IssueDocs <- Units
  ExtraLines <- NoLines
  Endpoints = {"updateWithLines"}
  Workers = {p1}
  OnePerIssue = TRUE
  Faults = FALSE
  MaxRequests = 4
SPECIFICATION Spec
PROPERTIES SentLinesAreKept
