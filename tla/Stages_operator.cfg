SPECIFICATION Spec
CONSTANTS
  N = 3
  Callers = {c1}
  Below <- Nested
  ConfigSkip = {0}
  ConfigHuman = {}
  ConfigReview = {1}
  ForceIndex = 1
  OpSkip = {1, 2}
  OpHuman = {2}
  OpReview = {1}
PROPERTIES KeepsPromise
