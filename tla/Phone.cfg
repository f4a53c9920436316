\* Two numbers and three calls, with any changes of numbers in between.
CONSTANTS
  Calls = {k1, k2, k3}
  Numbers = {n1, n2}
  None = None
SPECIFICATION Spec
SYMMETRY MCSymmetry
CHECK_DEADLOCK FALSE
INVARIANTS
  VerifiedWasConfirmed
  OlderCodesAreVoid
