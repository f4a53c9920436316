\* One listing: two moderators and two reports race over its cases.
CONSTANTS
  Listings = {l1}
  Users = {owner, m1, m2}
  Moderators = {m1, m2}
  Requests = {q1, q2}
  MaxComments = 1
  Leavers = {owner}
  Owner <- MCOwner
  None = None
  owner = owner
  m1 = m1
  m2 = m2
SPECIFICATION Spec
SYMMETRY MCSymmetry
CHECK_DEADLOCK FALSE
INVARIANTS
  TypeOK
  LifecycleFollowsModeration
  PendingHasOneOpenCase
  VerdictRecorded
  AuditChain
  ReportsFollowVerdict
PROPERTIES
  ClaimIsExclusive
  ImplementsLifecycle
