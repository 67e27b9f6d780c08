SPECIFICATION Spec
CONSTANTS
  s1 = s1  s2 = s2  u1 = u1  u2 = u2  p1 = p1  p2 = p2  i1 = i1  n1 = n1
  None = None
  Sessions = {s1, s2}
  Users = {u1, u2}
  Projects = {p1, p2}
  NumberOf <- OneNumber
  Invoices = {i1}
SYMMETRY Interchangeable
INVARIANTS TypeOK
PROPERTIES RetryAnswered AuthorsKept
