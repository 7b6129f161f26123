SPECIFICATION FairSpec
CONSTANTS
  Calls = {c1, c2, c3}
  Direct = {d1}
  NoCall = none
  TimeOut = 2
INVARIANTS OneAtATime ForcedOnTime
PROPERTIES EveryCallEnds LockComesBack TakesTurns
