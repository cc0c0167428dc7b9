SPECIFICATION Spec
CONSTANTS
  Namespaces = {n1, n2}
  Machines = {m1, m2}
SYMMETRY Symmetry
INVARIANTS ChipsTellFilters RedFollowsStatus
