CONSTANTS
  Drawers = {d1, d2}
  Quiet = TRUE

SPECIFICATION Spec

PROPERTY FailurePreservesOriginal
