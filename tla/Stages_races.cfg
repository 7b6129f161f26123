SPECIFICATION FairSpec
CONSTANTS
  N = 2
  Callers = {c1, c2}
  Below <- Flat
  ConfigSkip = {}
  ConfigHuman = {1}
  ConfigReview = {0}
  ForceIndex = 0
  OpSkip = {}
  OpHuman = {}
  OpReview = {}
INVARIANTS CompletedWasChecked NoStageJumped
PROPERTIES ExitIsEarned  CompletionGated KeepsPromise MissionFinishes
