SPECIFICATION Spec
CONSTANTS
  s1 = s1  s2 = s2  s3 = s3  c1 = c1  p1 = p1
  i1 = i1  i2 = i2  i3 = i3  i4 = i4  b1 = b1  b2 = b2  b3 = b3
  None = None
  Sessions = {s1, s2}
  Customers = {c1}
  Projects = {p1}
  CustomerOf <- OneProject
  Invoices = {i1, i2, i3, i4}
  Blobs = {b1, b2, b3}
  Years = {2026, 2027}
  Totals = {1}
  Requests <- BillingRequests
  MaxVersion = 1
  LastStatus = 3
  DueStatus = 1
SYMMETRY Interchangeable
INVARIANTS TypeOK GaplessNumbers StornoPairs PdfBacked FrozenNeverLost
PROPERTIES FrozenImmutable IssueBillsProject ArchivedStaysUnbilled KeepsBooks
CHECK_DEADLOCK FALSE
