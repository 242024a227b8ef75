CONSTANTS
  Threads = {t1, t2}
  Hashes = {a, b, c}
  Window = 2
  ConfiguredCapacity = 2
  MaxStall = 1
  MaxClock = 5

SPECIFICATION Spec
SYMMETRY Symmetry

INVARIANT TypeOK
INVARIANT LogMatchesIndex

PROPERTY ReadmittedOnlyWhenDue
PROPERTY DuplicatesAreRecent
