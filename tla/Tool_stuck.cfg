SPECIFICATION Spec
CONSTANTS
  Calls = {c1, c2}
  Direct = {d1}
  NoCall = none
  TimeOut = 2
INVARIANTS BusyMeansAtWork
