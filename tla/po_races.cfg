\* Two requests at a time on two orders, all endpoints, faults.
CONSTANTS
  o1 = o1  o2 = o2  s1 = s1  s2 = s2  k1 = k1  k2 = k2
  r1 = r1  r2 = r2  r3 = r3  p1 = p1  p2 = p2
  NoOrder = NoOrder  NoReceipt = NoReceipt  NoSoLine = NoSoLine  NoSku = NoSku
  Skus = {k1, k2}
  Orders = {o1, o2}
  SoLines = {s1}
  OrderDocs <- MappedOrNot
  NewLines <- Mapping
  LineEdits <- Amend
  ReceiptIds = {r1}
  ReceiptDocs <- Piece
  ExtraLines <- Extra
  Endpoints <- AllEndpoints
  Workers = {p1, p2}
  Faults = TRUE
  MaxRequests = 5
SPECIFICATION Spec
INVARIANTS TypeOK ReceivedIsBrought MappedOnce
