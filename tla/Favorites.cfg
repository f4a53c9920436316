\* The heart of a card and the heart of the listing's page, two requests at a
\* time, a limit of one request per window and one lost connection to Redis.
CONSTANTS
  Buttons = {card, page}
  Syncing = {page}
  Calls = {k1, k2}
  Limit = 1
  MaxFaults = 1
  None = None
SPECIFICATION Spec
CHECK_DEADLOCK FALSE
INVARIANTS
  TypeOK
  HeartsAgree
  HeartIsRight
PROPERTIES
  NobodyLockedOut
