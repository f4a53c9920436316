\* Two callers whose calls may overlap.
CONSTANTS
  Callers = {k1, k2}
  MaxImages = 2
  MaxRows = 4
SPECIFICATION Spec
SYMMETRY MCSymmetry
CHECK_DEADLOCK FALSE
INVARIANTS
  GalleryInOrder
  ExcessIsBounded
