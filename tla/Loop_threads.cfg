SPECIFICATION FairSpec
CONSTANTS
  MaxRetry = 2
  MaxQueue = 1
  MaxPresses = 1
INVARIANTS BreakStopsSoon WakeupIsSpent ExitIsUnderWay
PROPERTIES StopsForFailure StopsForHuman MessageIsKept ExitIsAutomatic BreakEndsLoop
CHECK_DEADLOCK FALSE
