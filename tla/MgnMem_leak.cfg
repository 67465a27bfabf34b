CONSTANTS
  Owners = {o1, o2}
  Addrs = {a1, a2}
  MaxSize = 2
SPECIFICATION Spec
INVARIANT AllReleased
CHECK_DEADLOCK FALSE
