SPECIFICATION Spec
CONSTANTS
  Callers = {t1, t2}
  Last = 2
  Nobody = nobody
SYMMETRY CallerSymmetry
INVARIANTS BusyMeansInside VerdictIsOwnIfAlone RunningIsFound
