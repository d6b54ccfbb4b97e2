SPECIFICATION Spec
CONSTANTS
  n1 = n1
  n2 = n2
  n3 = n3
  n4 = n4
  k1 = k1
  k2 = k2
  d1 = d1
  d2 = d2
  Names = {n1, n2, n3, n4}
  Locals = {l1}
  Domains = {d1, d2}
  Nodes = {x1, x2, x3, x4}
  Keys = {k1, k2}
  NULL = NULL
  calc_key <- Hash
SYMMETRY Interchangeable
INVARIANT StructuresIntact
PROPERTY ImplementsAddressBook
CHECK_DEADLOCK FALSE
