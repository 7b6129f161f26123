SPECIFICATION FairSpec
CONSTANTS
  Prints = {p1, p2}
  NoPrint = NoPrint
  MaxThreads = 2
  MaxTurns = 2
INVARIANTS ReuseIsMatched TurnIsOfThread
PROPERTIES CompletedIsClean BreakReachesTurn
