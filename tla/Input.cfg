SPECIFICATION Spec
CONSTANTS
  w1 = w1  w2 = w2  c1 = c1  c2 = c2
  kbd = kbd  combined = combined
  logo = logo  key = key  left = left  right = right
  None = None
  Windows = {w1, w2}
  Conns = {c1, c2}
  Client <- MCClient
  Devices = {kbd, combined}
  Caps <- MCCaps
  Keys = {logo, key}
  Modifiers = {logo}
  Buttons = {left, right}
  combo_cb <- MCCombos
INVARIANTS
  BelievedIsHeld
  OnlyFocusHolds
  DragHasButton
