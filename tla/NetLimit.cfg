CONSTANTS
  c1 = c1
  c2 = c2
  c3 = c3
  p = p
  q = q
  e1 = e1
  e2 = e2
  e3 = e3
  e4 = e4
  Conns = {c1, c2, c3}
  Sources = {p}
  Entries = {e1, e2, e3, e4}
  Caps = {0, 2}
  UnauthCaps = {0, 1}
  None = None
SPECIFICATION NetSpec
INVARIANT CountersExact
PROPERTY AdmittedWithinCaps
SYMMETRY Symmetry
