\* A registration and four more calls of any kind, in any order.
CONSTANTS
  Calls = {k1, k2, k3, k4, k5}
  None = None
SPECIFICATION Spec
SYMMETRY MCSymmetry
CHECK_DEADLOCK FALSE
INVARIANTS
  TypeOK
  DeletedIsErased
  ResetOnce
  SessionsFollowPassword
PROPERTY
  StatusMovesForward
