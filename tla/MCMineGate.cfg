CONSTANTS
  Procs = {p1, p2, p3}
  Direct = {p3}
  None = None

SPECIFICATION Spec
SYMMETRY Symmetry

INVARIANT TypeOK
INVARIANT MutualExclusion
INVARIANT NoLitter

PROPERTY RefusedOnlyForAReason

CHECK_DEADLOCK FALSE
