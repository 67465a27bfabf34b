CONSTANTS
  Keys = {k1, k2, k3, k4, k5}
  NULL = NULL
  Hashes = {0, 1, 2, 3}
  InitLog2 = 0
  Thresh = 1
  MaxLog2 = 4
SYMMETRY Symm
SPECIFICATION Spec
INVARIANTS TypeOK Fsck
PROPERTY IsOrderedMap
