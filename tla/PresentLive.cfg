SPECIFICATION FairSpec
CONSTANTS
  s1 = s1
  s2 = s2
  a1 = a1
  a2 = a2
  b1 = b1
  NoBuffer = NoBuffer
  Surfaces = {s1}
  Buffers = {a1, a2}
  Owner <- OneOwner
  BindsOutput = {s1}
  Reattach = FALSE
  MaxFrames = 1
  MaxFeedbacks = 0
  Faults = FALSE
PROPERTIES
  FlipsAnswer
  RedrawHappens
