CONSTANTS
  d1 = d1
  d2 = d2
  s1 = s1
  s2 = s2
  Handles = {h1, h2}
  Ids = {d1, d2}
  Sources = {s1, s2}
  SourceOf <- MCSourceOf
  BatchSize = 1

SPECIFICATION Spec
SYMMETRY Symmetry

INVARIANT TypeOK
INVARIANT TornOnlyByAccident
INVARIANT ViewsAgreeAtRest

PROPERTY AckedDrawersAreServed
PROPERTY MigrationIsLossless
