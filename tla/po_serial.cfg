\* One request at a time.
CONSTANTS
  o1 = o1  o2 = o2  s1 = s1  s2 = s2  k1 = k1  k2 = k2
  r1 = r1  r2 = r2  r3 = r3  p1 = p1  p2 = p2
  NoOrder = NoOrder  NoReceipt = NoReceipt  NoSoLine = NoSoLine  NoSku = NoSku
  Skus = {k1, k2}
  Orders = {o1}
  SoLines = {s1}
  OrderDocs <- TwoLines
  NewLines <- Unmapped
  LineEdits <- Reduce
  ReceiptIds = {r1, r2, r3}
  ReceiptDocs <- Single
  ExtraLines <- NoLines
  Endpoints = {"cancel", "touch", "remove", "divertReceipt"}
  Workers = {p1}
  Faults = FALSE
  MaxRequests = 7
SPECIFICATION Spec
INVARIANTS UnfinishedLinesAreCounted StatusFitsLines
PROPERTIES StatusFollowsTransitions
