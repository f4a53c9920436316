\* A first sheet and its successors: a rename, a merger, and one without a
\* date; one with conflicting lines.
CONSTANTS
  Regions = {r1, r2}
  Provinces = {p1, p2}
  Towns = {m1, m2}
  r1 = r1
  r2 = r2
  p1 = p1
  p2 = p2
  m1 = m1
  m2 = m2
  old = old
  new = new
  Names = {old, new}
  Blank = Blank
  Sheets <- MCSheets
  Dated <- MCDated
  MaxDate = 4
  None = None
SPECIFICATION Spec
CHECK_DEADLOCK FALSE
INVARIANTS
  TypeOK
  CurrentIsLastPromoted
  PlaceStaysWhole
PROPERTIES
  PlanIsApplied
  RepeatChangesNothing
