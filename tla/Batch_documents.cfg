SPECIFICATION Spec
CONSTANTS
  Tasks <- Three
  BatchSize = 2
  Kinds = {"templates", "static"}
  MiniInputs = 0
PROPERTIES PassIsRepeated DoneIsPassed
