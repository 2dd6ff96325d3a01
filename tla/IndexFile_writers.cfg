SPECIFICATION Spec
CONSTANTS
  s1 = s1
  s2 = s2
  w1 = w1
  w2 = w2
  k1 = k1
  k2 = k2
  None = None
  Upstream = Upstream
  Source = {s1, s2}
  Writer = {w1, w2}
  Package = {k1, k2}
SYMMETRY Alike
INVARIANTS
  TypeOK
  StoredFirst
  BrokenOnlyByAccident
PROPERTIES
  PublishingKeepsOthers
CHECK_DEADLOCK FALSE
