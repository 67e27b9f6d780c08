SPECIFICATION Spec
CONSTANTS
  i1 = i1  i2 = i2  e1 = e1  p1 = p1  h1 = h1  h2 = h2  a1 = a1  a2 = a2
  None = None
  Imports = {i1, i2}
  Exports = {}
  Posters = {p1}
  Handlers = {h1, h2}
  Atts = {a1, a2}
  Carried = {a1, a2}
  CarriedInvs = {1}
  CarriedSeq = 1
  InitInvs = {1}
  InitSeq = 2
  InitAtts = {a1, a2}
  Filled = {TRUE}
  Len = 2
  MaxSeq = 3
  Sweeping = FALSE
INVARIANTS RowsReadable
PROPERTIES NumbersKept ReadyRestored 
SYMMETRY Interchangeable
CHECK_DEADLOCK FALSE
