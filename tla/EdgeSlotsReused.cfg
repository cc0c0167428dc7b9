SPECIFICATION Spec
CONSTANTS
  Edges = {e1, e2, e3}
  Widths = 2
  Capacity = 2
  MaxSparks = 2
  MaxLife = 2
  None = none
SYMMETRY EdgeSymmetry
INVARIANTS PoolExact ArcsAreOwn
PROPERTY SparksAge
