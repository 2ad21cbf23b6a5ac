SPECIFICATION Spec
CONSTANTS
  w1 = w1  w2 = w2  w3 = w3  l1 = l1  l2 = l2  c1 = c1  c2 = c2
  Windows = {w1}
  Layers = {l1, l2}
  Tags = {t1, t2}
  NoTag = NoTag
  LateBind = FALSE
  Layouts = {"tile"}
  Floating = FALSE
  Drags = {}
  Conns = {c1, c2}
  Devices = {"keyboard", "pointer"}
  Client <- LayersApart
  HasSub = {}
  None = None
INVARIANT KeyboardHandedOver
