CONSTANTS
  Keys = {k1, k2, k3, k4}
  Values = {v1, v2}
  CacheSize = 2
  MaxAdds = 6
SYMMETRY Symmetry
SPECIFICATION Spec
INVARIANTS
  MapMatchesList
  MostRecentAreKept
CHECK_DEADLOCK FALSE
