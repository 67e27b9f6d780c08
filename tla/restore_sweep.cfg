SPECIFICATION Spec
CONSTANTS
  i1 = i1  i2 = i2  e1 = e1  p1 = p1  h1 = h1  h2 = h2  a1 = a1  a2 = a2
  None = None
  Imports = {i1}
  Exports = {}
  Posters = {p1}
  Handlers = {h1}
  Atts = {a1, a2}
  Carried = {a1, a2}
  CarriedInvs = {1}
  CarriedSeq = 1
  InitInvs = {1}
  InitSeq = 2
  InitAtts = {a1, a2}
  Filled = {TRUE}
  Len = 2
  MaxSeq = 3
  Sweeping = TRUE
INVARIANTS RowsReadable
CHECK_DEADLOCK FALSE
