SPECIFICATION Spec
CONSTANTS
  N = 2
  Callers = {c1, c2}
  Below <- Flat
  ConfigSkip = {}
  ConfigHuman = {}
  ConfigReview = {}
  ForceIndex = 0
  OpSkip = {}
  OpHuman = {}
  OpReview = {}
INVARIANTS OnlyCheckedIsCompleted
