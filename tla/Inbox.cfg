\* One contact request and one notification of another service, two events and
\* two connections at a time, any number of each.
CONSTANTS
  Requests = {k1}
  Notes = {k1, n1}
  Requesters = {r1}
  Listings = {l1}
  RequesterHourly = 1
  RequesterDaily = 1
  ListingDaily = 1
  OwnerHourly = 1
  Publishes = {p1, p2}
  Connections = {c1, c2}
  Sets = {s1, s2, s3}
  None = None
SPECIFICATION Spec
SYMMETRY MCSymmetry
CHECK_DEADLOCK FALSE
INVARIANTS
  TypeOK
  AnswerTellsOutcome
  OpenStreamsAreFound
  BadgeIsRight
