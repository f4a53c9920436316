\* Two users and four calls of any kind, overlapping and dying.
CONSTANTS
  Users = {u1, u2}
  Calls = {k1, k2, k3, k4}
SPECIFICATION Spec
SYMMETRY MCSymmetry
CHECK_DEADLOCK FALSE
INVARIANTS
  DocumentFollowsListing
