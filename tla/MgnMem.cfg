CONSTANTS
  Owners = {o1, o2, o3}
  Addrs = {a1, a2, a3}
  MaxSize = 2
SYMMETRY Symm
SPECIFICATION Spec
INVARIANTS TypeOK CountsOwners OwnedIsLive PoolIsComplete
PROPERTY AutoreleasedStays
CHECK_DEADLOCK FALSE
