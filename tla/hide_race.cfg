SPECIFICATION Spec
CONSTANTS
  s1 = s1  s2 = s2  p1 = p1  a1 = a1  a2 = a2
  None = None
  Sessions = {s1, s2}
  Projects = {p1}
  Attachments = {a1}
  ProjectOf <- InOneProject
  Photos = {a1}
  Pdfs = {}
  Requests <- TrashRequests
  MaxVersion = 2
INVARIANTS LostHideHarmless
CHECK_DEADLOCK FALSE
