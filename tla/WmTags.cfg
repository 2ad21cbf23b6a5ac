SPECIFICATION Spec
CONSTANTS
  w1 = w1  w2 = w2  w3 = w3  l1 = l1  l2 = l2  c1 = c1  c2 = c2
  Windows = {w1, w2, w3}
  Layers = {}
  Tags = {t1, t2}
  NoTag = NoTag
  LateBind = FALSE
  Layouts = {"tile", "zoom"}
  Floating = FALSE
  Drags = {}
  Conns = {c1}
  Devices = {}
  Client <- OneClient
  HasSub = {}
  None = None
SYMMETRY Symmetric
INVARIANTS
  FocusIsLive
  VisibleIffOnTag
PROPERTIES
  FocusKept
