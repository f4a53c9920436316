\* Three calls of three users about three listings of one owner: each limit is
\* reached while the others admit one more.  Calls end before the notification,
\* which counts for no limit.
CONSTANTS
  Requests = {k1, k2, k3}
  Notes = {k1, k2, k3}
  Requesters = {r1, r2, r3}
  Listings = {l1, l2, l3}
  RequesterHourly = 1
  RequesterDaily = 2
  ListingDaily = 1
  OwnerHourly = 2
  Publishes = {}
  Connections = {}
  Sets = {}
  None = None
SPECIFICATION Spec
SYMMETRY MCSymmetry
CHECK_DEADLOCK FALSE
INVARIANTS
  LimitsHold
