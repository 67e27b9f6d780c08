SPECIFICATION FairSpec
CONSTANTS
  i1 = i1  i2 = i2  e1 = e1  p1 = p1  h1 = h1  h2 = h2  a1 = a1  a2 = a2
  None = None
  Imports = {i1}
  Exports = {e1}
  Posters = {p1}
  Handlers = {h1}
  Atts = {a1, a2}
  Carried = {a1}
  CarriedInvs = {1}
  CarriedSeq = 1
  InitInvs = {}
  InitSeq = 0
  InitAtts = {a1, a2}
  Filled = {TRUE, FALSE}
  Len = 2
  MaxSeq = 1
  Sweeping = TRUE
INVARIANTS TypeOK ExportWhole StagedReachable AuditedOnce
PROPERTIES JobsEnd
CHECK_DEADLOCK FALSE
