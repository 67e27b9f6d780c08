SPECIFICATION FairSpec
CONSTANTS
  s1 = s1  s2 = s2  p1 = p1  a1 = a1  a2 = a2
  None = None
  Sessions = {s1, s2}
  Projects = {p1}
  Attachments = {a1, a2}
  ProjectOf <- InOneProject
  Photos = {}
  Pdfs = {a2}
  Requests <- BucketRequests
  MaxVersion = 1
PROPERTIES SweepSparesRows OrphansSwept
CHECK_DEADLOCK FALSE
