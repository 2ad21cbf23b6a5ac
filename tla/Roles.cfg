SPECIFICATION Spec
CONSTANTS
  s1 = s1
  s2 = s2
  x1 = x1
  x2 = x2
  b1 = b1
  b2 = b2
  l1 = l1
  v1 = v1
  q1 = q1
  o1 = o1
  p1 = p1
  NULL = NULL
  Surfaces = {s1, s2}
  Xdgs = {x1, x2}
  Subs = {b1, b2}
  Layers = {l1}
  Viewports = {v1}
  Positioners = {q1}
  Outputs = {o1}
  Pointers = {p1}
  Mixes <- MCMixes
  MaxKids = 1
  MaxCount = 4
SYMMETRY Symmetry
INVARIANTS
  HeapExact
  NamedBothWays
  CrashesOnly
CHECK_DEADLOCK FALSE
