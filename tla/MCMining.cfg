CONSTANTS
  v1 = v1
  v2 = v2
  v3 = v3
  r1 = r1
  r2 = r2
  Files = {f1}
  Versions = {v1, v2, v3}
  Rooms = {r1, r2}
  Absent = Absent
  Shape <- MCShape
  MaxEdits = 3
  MaxFaults = 1

SPECIFICATION MinerSpec

INVARIANT MinerTypeOK
INVARIANT PassedIsFiled
INVARIANT StampIsHonest

PROPERTY EventuallyFiled
