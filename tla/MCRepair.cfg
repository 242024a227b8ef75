CONSTANTS
  Drawers = {d1, d2}
  Quiet = FALSE

SPECIFICATION Spec
SYMMETRY Symmetry

INVARIANT TypeOK
INVARIANT ServedAtRest
INVARIANT NothingLost
PROPERTY RestOutlivesFailures
