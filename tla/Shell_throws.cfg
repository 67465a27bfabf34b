SPECIFICATION Spec
CONSTANTS
  MaxArgs = 1
  MaxText = 3
INVARIANT ErrorsAreThrown
CHECK_DEADLOCK FALSE
