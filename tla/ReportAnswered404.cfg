\* The first report on a listing is answered 404 although it was stored.
CONSTANTS
  Listings = {l1}
  Users = {owner, m1, m2}
  Moderators = {m1, m2}
  Requests = {q1, q2}
  MaxComments = 0
  Leavers = {owner}
  Owner <- MCOwner
  None = None
  owner = owner
  m1 = m1
  m2 = m2
SPECIFICATION Spec
SYMMETRY MCSymmetry
CHECK_DEADLOCK FALSE
INVARIANT NotFoundStoresNothing
