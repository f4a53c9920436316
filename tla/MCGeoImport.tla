---------------------------- MODULE MCGeoImport ----------------------------
(* Instances of GeoImport for TLC.                                         *)
EXTENDS GeoImport, TLC

CONSTANTS r1, r2, p1, p2, m1, m2, old, new

Line(r, rn, p, pn, m, mn) ==
  [region |-> r, regionName |-> rn, province |-> p, provinceName |-> pn,
   town |-> m, townName |-> mn]

\* Two regions, each with one province and one town.
First == <<Line(r1, old, p1, old, m1, old), Line(r2, old, p2, old, m2, old)>>

\* The first region has a new name, with nothing new below it.  The second
\* province has moved there under a new name, its town has a new name too, and
\* the second region is gone.
Merged == <<Line(r1, new, p1, old, m1, old), Line(r1, new, p2, new, m2, new)>>

\* The first town has moved to the second province; its own province and
\* region are gone.  This sheet has no date.
Moved == <<Line(r2, old, p2, old, m1, old), Line(r2, old, p2, old, m2, old)>>

\* Not valid: two names for one region.
Broken == <<Line(r1, old, p1, old, m1, old), Line(r1, new, p2, old, m2, old)>>

MCSheets == {First, Merged, Moved, Broken}
MCDated == (First :> 1) @@ (Merged :> 3) @@ (Moved :> 0) @@ (Broken :> 3)
=============================================================================
