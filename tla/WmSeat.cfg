SPECIFICATION Spec
CONSTANTS
  w1 = w1  w2 = w2  w3 = w3  l1 = l1  l2 = l2  c1 = c1  c2 = c2
  Windows = {w1, w2}
  Layers = {}
  Tags = {t1, t2}
  NoTag = NoTag
  LateBind = FALSE
  Layouts = {"tile"}
  Floating = TRUE
  Drags = {"move", "resize"}
  Conns = {c1, c2}
  Devices = {"keyboard"}
  Client <- TwoClients
  HasSub = {}
  None = None
SYMMETRY TagsAlike
INVARIANTS
  ActivatedIsFocused
  KeyboardFollowsFocus
  EnterLeavePaired
  ToldItsSize
  NoOverlap
