CONSTANTS
  Agents = {g1, g2}
  Actions = {a1, a2}
  LeaseIds = {l1, l2}
  None = None
  GivenStatus = {"pending", "done"}
  MaxTime = 1
  MaxTTL = 1

SPECIFICATION Spec
SYMMETRY Symmetry

INVARIANT TypeOK
INVARIANT LeaseExclusive
INVARIANT NoStandstill

PROPERTY OnlyHolderTouchesLease
PROPERTY HandedIsReady
