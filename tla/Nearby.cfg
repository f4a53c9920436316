\* Three attempts at the position, six questions for recent listings before
\* the last click.
CONSTANTS
  MaxRecent = 6
  MaxNearby = 3
SPECIFICATION SectionSpec
CHECK_DEADLOCK FALSE
INVARIANTS
  SectionTypeOK
  SaysWhatItShows
  LastAttemptShown
PROPERTIES
  Settles
