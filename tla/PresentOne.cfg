SPECIFICATION Spec
CONSTANTS
  s1 = s1
  s2 = s2
  a1 = a1
  a2 = a2
  b1 = b1
  NoBuffer = NoBuffer
  Surfaces = {s1}
  Buffers = {a1, a2}
  Owner <- OneOwner
  BindsOutput = {s1}
  Reattach = FALSE
  MaxFrames = 1
  MaxFeedbacks = 2
  Faults = TRUE
INVARIANTS
  TypeOK
  CountsExact
  CallbackList
  FlipPipeline
  QuadsAreCurrent
PROPERTIES
  DrawsOffScreen
  LoanRefinement
\* a failed commit ends the event loop
CHECK_DEADLOCK FALSE
