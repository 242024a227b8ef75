CONSTANTS
  Callers = {c1, c2}
  Topics = {t1, t2}
  Objects = {o1, o2}
  None = None
  MaxDay = 1
  MonthOf <- MCMonthOf
  MaxFacts = 3
  Starts <- MCStarts
  Ends <- MCEnds

SPECIFICATION Spec
SYMMETRY Symmetry

INVARIANT TypeOK
INVARIANT OneCurrent

PROPERTY EndedStaysEnded
