SPECIFICATION Spec
CONSTANTS
  n1 = n1
  n2 = n2
  n3 = n3
  n4 = n4
  a = a
  b = b
  NULL = NULL
  Node <- MCNode
  Item <- MCItem
  Key <- MCKey
INVARIANT WellLinked
PROPERTY RefinesList
SYMMETRY MCSymmetry
