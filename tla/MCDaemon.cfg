CONSTANTS
  Clients = {c1, c2}
  Daemons = {i1, i2}
  Jobs = {j1, j2}
  Capacity = 1
  None = None

SPECIFICATION Spec

INVARIANT TypeOK
INVARIANT OneInCharge

PROPERTY BegunInOrder
PROPERTY AcceptedIsSettled
PROPERTY SubmittersAnswered
