SPECIFICATION FairSpec
CONSTANTS
  Tasks <- Two
  BatchSize = 1
  Kinds = {"marks", "templates", "mocks", "static", "files"}
  MiniInputs = 2
INVARIANTS PassMeansDone PassMeansChecked
PROPERTIES BatchIsFinished BatchesFinish
