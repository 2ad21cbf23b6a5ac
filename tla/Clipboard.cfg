SPECIFICATION Spec
CONSTANTS
  A = A
  B = B
  a1 = a1
  a2 = a2
  b1 = b1
  text = text
  image = image
  NULL = NULL
  Conns = {A, B}
  Sources = {a1, a2, b1}
  Mimes = {text, image}
  Actions = {"copy"}
  OwnerOf <- MCOwnerOf
  KindsOf <- MCKindsOf
  MimesOf <- MCMimesOf
  Devices <- MCDevices
  MaxOffers = 2
  MaxBlame = 2
CONSTRAINT Bounded
SYMMETRY Symmetry
INVARIANTS
  SelectionOwned
  FocusedIsTold
  OneHolder
  PasteAsks
  EndsOnly
CHECK_DEADLOCK FALSE
