-------------------------- MODULE GeoImportProofs ---------------------------
(***************************************************************************)
(* Proofs about GeoImport, for any sheets, any codes and any dates.        *)
(***************************************************************************)
EXTENDS GeoImport, FiniteSetTheorems, WellFoundedInduction, TLAPS

-----------------------------------------------------------------------------
(***************************************************************************)
(* One table.  What a promotion does to it is the same for regions,        *)
(* provinces and towns: C are its codes, R its rows.                       *)
(***************************************************************************)
IsRows(R) ==
  /\ None \notin R
  /\ \A r \in R : \A d \in Dates :
       [r EXCEPT !.to = d] \in R /\ [r EXCEPT !.to = d].to = d

IsTable(t, C, R) == t \in [C \X Dates -> R \cup {None}]

IsWanted(W, C, R) ==
  /\ W \subseteq [code : C, row : R]
  /\ \A w \in W : w.row.to = Open

Remaining(t, W, d) == Close(t, Outdated(t, W, d), d)
Opened(t, W, d) == Unmatched(Remaining(t, W, d), W)
Renewed(t, W, d) ==
  {k \in DOMAIN t : k[2] = d /\ \E w \in Opened(t, W, d) : w.code = k[1]}

(* A promotion closes the rows that are outdated, writes those that were   *)
(* not found, and leaves the others.                                       *)
RowsPromoted(C, R, t, W, d) ==
  /\ IsTable(Remaining(t, W, d), C, R)
  /\ IsTable(Promoted(t, W, d), C, R)
  /\ \A k \in C \X Dates :
       /\ k \in Outdated(t, W, d) =>
            /\ t[k] \in R
            /\ Remaining(t, W, d)[k] = [t[k] EXCEPT !.to = d]
            /\ Remaining(t, W, d)[k] \in R
            /\ Remaining(t, W, d)[k].to = d
       /\ k \notin Outdated(t, W, d) => Remaining(t, W, d)[k] = t[k]
       /\ k \in Renewed(t, W, d) =>
            \E w \in Opened(t, W, d) :
              w.code = k[1] /\ Promoted(t, W, d)[k] = w.row
       /\ k \notin Renewed(t, W, d) =>
            Promoted(t, W, d)[k] = Remaining(t, W, d)[k]

LEMMA PromotedRows ==
  ASSUME NEW C, NEW R, NEW t, NEW W, NEW d \in Dates,
         IsRows(R), IsTable(t, C, R), IsWanted(W, C, R)
  PROVE  RowsPromoted(C, R, t, W, d)
<1> DEFINE O == Outdated(t, W, d)
           m == Remaining(t, W, d)
           U == Opened(t, W, d)
           n == Promoted(t, W, d)
<1>1. DOMAIN t = C \X Dates /\ \A k \in C \X Dates : t[k] \in R \cup {None}
  BY DEF IsTable
<1>2. m = [k \in C \X Dates |-> IF k \in O THEN [t[k] EXCEPT !.to = d] ELSE t[k]]
  BY <1>1 DEF Remaining, Close
<1>3. \A k \in O : k \in C \X Dates /\ t[k] \in R
  BY <1>1 DEF Outdated, OpenRows
<1>4. ASSUME NEW k \in C \X Dates
      PROVE  /\ k \in O => /\ t[k] \in R /\ m[k] = [t[k] EXCEPT !.to = d]
                           /\ m[k] \in R /\ m[k].to = d
             /\ k \notin O => m[k] = t[k]
             /\ m[k] \in R \cup {None}
  BY <1>1, <1>2, <1>3, <1>4 DEF IsRows
<1>5. IsTable(m, C, R)
  BY <1>2, <1>4 DEF IsTable
<1>6. U \subseteq W
  BY DEF Opened, Unmatched
<1>7. n = [k \in C \X Dates |->
             IF k[2] = d /\ \E w \in U : w.code = k[1]
             THEN (CHOOSE w \in U : w.code = k[1]).row ELSE m[k]]
  BY <1>2 DEF Promoted, Upsert, Opened, Remaining
<1>8. ASSUME NEW k \in C \X Dates
      PROVE  /\ k \in Renewed(t, W, d) =>
                  \E w \in U : w.code = k[1] /\ n[k] = w.row
             /\ k \notin Renewed(t, W, d) => n[k] = m[k]
             /\ n[k] \in R \cup {None}
  <2>1. k \in Renewed(t, W, d) <=> k[2] = d /\ \E w \in U : w.code = k[1]
    BY <1>1 DEF Renewed
  <2>2. CASE k \in Renewed(t, W, d)
    <3>1. PICK w \in U : w = (CHOOSE x \in U : x.code = k[1]) /\ w.code = k[1]
      BY <2>1, <2>2
    <3>2. n[k] = w.row
      BY <1>7, <2>1, <2>2, <3>1
    <3>3. w.row \in R
      BY <1>6, <3>1 DEF IsWanted
    <3> QED
      BY <2>2, <3>1, <3>2, <3>3
  <2>3. CASE k \notin Renewed(t, W, d)
    BY <1>4, <1>7, <2>1, <2>3
  <2> QED
    BY <2>2, <2>3
<1>9. IsTable(n, C, R)
  BY <1>7, <1>8 DEF IsTable
<1> QED
  BY <1>4, <1>5, <1>8, <1>9 DEF RowsPromoted

(* The rows that are open after a promotion.                               *)
IsOpenAfter(k, t, W, d) ==
  \/ /\ k \in Renewed(t, W, d) /\ k[2] = d
     /\ \E w \in Opened(t, W, d) :
          w.code = k[1] /\ Promoted(t, W, d)[k] = w.row
  \/ /\ k \notin Renewed(t, W, d)
     /\ k \in OpenRows(t) \ Outdated(t, W, d)
     /\ Promoted(t, W, d)[k] = t[k] /\ Remaining(t, W, d)[k] = t[k]

LEMMA OpenAfter ==
  ASSUME NEW C, NEW R, NEW t, NEW W, NEW d \in Dates,
         IsRows(R), IsTable(t, C, R), IsWanted(W, C, R)
  PROVE  \A k \in OpenRows(Promoted(t, W, d)) :
           k \in C \X Dates /\ IsOpenAfter(k, t, W, d)
<1> DEFINE n == Promoted(t, W, d)
           m == Remaining(t, W, d)
<1> SUFFICES ASSUME NEW k \in OpenRows(n)
             PROVE  k \in C \X Dates /\ IsOpenAfter(k, t, W, d)
  OBVIOUS
<1>1. RowsPromoted(C, R, t, W, d)
  BY PromotedRows
<1>2. k \in C \X Dates /\ n[k] # None /\ n[k].to = Open /\ DOMAIN t = C \X Dates
  BY <1>1 DEF RowsPromoted, IsTable, OpenRows
<1>3. CASE k \in Renewed(t, W, d)
  BY <1>1, <1>2, <1>3 DEF RowsPromoted, Renewed, IsOpenAfter
<1>4. CASE k \notin Renewed(t, W, d)
  <2>1. n[k] = m[k]
    BY <1>1, <1>2, <1>4 DEF RowsPromoted
  <2>2. d # Open
    BY GeoAssumption DEF Dates, Open
  <2>3. k \notin Outdated(t, W, d)
    BY <1>1, <1>2, <2>1, <2>2 DEF RowsPromoted
  <2>4. m[k] = t[k]
    BY <1>1, <1>2, <2>3 DEF RowsPromoted
  <2>5. k \in OpenRows(t)
    BY <1>2, <2>1, <2>4 DEF OpenRows
  <2> QED
    BY <1>2, <1>4, <2>1, <2>3, <2>4, <2>5 DEF IsOpenAfter
<1> QED
  BY <1>3, <1>4

(* No row is ever deleted.                                                 *)
LEMMA RowsAreKept ==
  ASSUME NEW C, NEW R, NEW t, NEW W, NEW d \in Dates,
         IsRows(R), IsTable(t, C, R), IsWanted(W, C, R)
  PROVE  \A k \in C \X Dates : t[k] # None => Promoted(t, W, d)[k] # None
<1> SUFFICES ASSUME NEW k \in C \X Dates, t[k] # None
             PROVE  Promoted(t, W, d)[k] # None
  OBVIOUS
<1>1. RowsPromoted(C, R, t, W, d)
  BY PromotedRows
<1>2. None \notin R
  BY DEF IsRows
<1>3. Remaining(t, W, d)[k] # None
  BY <1>1, <1>2 DEF RowsPromoted
<1>4. \A w \in Opened(t, W, d) : w.row \in R
  BY DEF Opened, Unmatched, IsWanted
<1>5. CASE k \in Renewed(t, W, d)
  <2>1. PICK w \in Opened(t, W, d) : Promoted(t, W, d)[k] = w.row
    BY <1>1, <1>5 DEF RowsPromoted
  <2> QED
    BY <1>2, <1>4, <2>1
<1>6. CASE k \notin Renewed(t, W, d)
  BY <1>1, <1>3, <1>6 DEF RowsPromoted
<1> QED
  BY <1>5, <1>6

(* What is wanted is there after a promotion ...                           *)
LEMMA WantedIsThere ==
  ASSUME NEW C, NEW R, NEW t, NEW W, NEW d \in Dates,
         IsRows(R), IsTable(t, C, R), IsWanted(W, C, R), Writable(W)
  PROVE  \A w \in W : \E k \in OpenRows(Promoted(t, W, d)) :
           k[1] = w.code /\ Promoted(t, W, d)[k] = w.row
<1> DEFINE n == Promoted(t, W, d)
           m == Remaining(t, W, d)
           U == Opened(t, W, d)
<1> SUFFICES ASSUME NEW w \in W
             PROVE  \E k \in OpenRows(n) : k[1] = w.code /\ n[k] = w.row
  OBVIOUS
<1>1. RowsPromoted(C, R, t, W, d) /\ DOMAIN t = C \X Dates
  BY PromotedRows DEF IsTable
<1>2. w.row.to = Open /\ w.row \in R /\ w.row # None /\ w.code \in C
  BY DEF IsWanted, IsRows
<1>3. DOMAIN n = C \X Dates /\ DOMAIN m = C \X Dates /\ U \subseteq W
  BY <1>1 DEF RowsPromoted, IsTable, Opened, Unmatched
<1>4. \A v \in U : v.code = w.code => v = w
  BY <1>3 DEF Writable
<1>5. CASE w \in U
  <2> DEFINE k == <<w.code, d>>
  <2>1. k \in C \X Dates /\ k[1] = w.code /\ k[2] = d
    BY <1>2
  <2>2. k \in Renewed(t, W, d)
    BY <1>1, <1>5, <2>1 DEF Renewed
  <2>3. n[k] = w.row
    BY <1>1, <1>4, <2>1, <2>2 DEF RowsPromoted
  <2> QED
    BY <1>2, <1>3, <2>1, <2>3 DEF OpenRows
<1>6. CASE w \notin U
  <2>1. PICK k \in OpenRows(m) : k[1] = w.code /\ m[k] = w.row
    BY <1>6 DEF Opened, Unmatched, OpenRowsOf
  <2>2. k \in C \X Dates
    BY <1>3, <2>1 DEF OpenRows
  <2>3. k \notin Renewed(t, W, d)
    BY <1>4, <1>6, <2>1 DEF Renewed
  <2>4. n[k] = w.row
    BY <1>1, <2>1, <2>2, <2>3 DEF RowsPromoted
  <2> QED
    BY <1>2, <1>3, <2>1, <2>2, <2>4 DEF OpenRows
<1> QED
  BY <1>5, <1>6

(* ... so that a second one finds nothing to do.                           *)
LEMMA PromotedTwice ==
  ASSUME NEW C, NEW R, NEW t, NEW W, NEW d \in Dates,
         IsRows(R), IsTable(t, C, R), IsWanted(W, C, R), Writable(W)
  PROVE  Promoted(Promoted(t, W, d), W, d) = Promoted(t, W, d)
<1> DEFINE n == Promoted(t, W, d)
<1>1. n \in [C \X Dates -> R \cup {None}]
  BY PromotedRows DEF RowsPromoted, IsTable
<1>2. ASSUME NEW k \in Outdated(n, W, d)
      PROVE  FALSE
  <2>1. /\ k \in OpenRows(n) /\ k[2] < d
        /\ \/ \A w \in W : w.code # k[1]
           \/ \E w \in W : w.code = k[1] /\ w.row # n[k]
    BY <1>2 DEF Outdated
  <2>2. k \in C \X Dates /\ IsOpenAfter(k, t, W, d)
    BY <2>1, OpenAfter
  <2>3. k[2] # d
    BY <2>1, <2>2 DEF Dates
  <2>4. k \in OpenRows(t) \ Outdated(t, W, d) /\ n[k] = t[k]
    BY <2>2, <2>3 DEF IsOpenAfter
  <2> QED
    BY <2>1, <2>4 DEF Outdated
<1>3. Close(n, {}, d) = n
  BY <1>1 DEF Close
<1>4. Outdated(n, W, d) = {}
  BY <1>2
<1>5. Unmatched(n, W) = {}
  BY WantedIsThere DEF Unmatched, OpenRowsOf
<1>6. Upsert(n, {}, d) = n
  BY <1>1 DEF Upsert
<1>7. Promoted(n, W, d) = Upsert(Close(n, Outdated(n, W, d), d),
                                 Unmatched(Close(n, Outdated(n, W, d), d), W), d)
  BY DEF Promoted
<1> QED
  BY <1>3, <1>4, <1>5, <1>6, <1>7

(* The open rows are those that are wanted, one of each.                   *)
Shows(t, W) ==
  /\ \A w \in W : \E k \in OpenRows(t) : k[1] = w.code /\ t[k] = w.row
  /\ \A k \in OpenRows(t) : \E w \in W : w.code = k[1] /\ w.row = t[k]
  /\ OneEach(t)
  /\ Writable(W)

(* A promotion that is newer than all open rows leaves only what is        *)
(* wanted.                                                                 *)
LEMMA PromotedInOrder ==
  ASSUME NEW C, NEW R, NEW t, NEW W, NEW d \in Dates,
         IsRows(R), IsTable(t, C, R), IsWanted(W, C, R), Writable(W),
         OneEach(t), \A k \in OpenRows(t) : k[2] < d
  PROVE  Shows(Promoted(t, W, d), W)
<1> DEFINE n == Promoted(t, W, d)
           m == Remaining(t, W, d)
           U == Opened(t, W, d)
<1>1. \A k \in OpenRows(n) : k \in C \X Dates /\ IsOpenAfter(k, t, W, d)
  BY OpenAfter
<1>2. ASSUME NEW k \in OpenRows(t) \ Outdated(t, W, d)
      PROVE  /\ \E w \in W : w.code = k[1] /\ w.row = t[k]
             /\ \A w \in W : w.code = k[1] => w.row = t[k]
  BY <1>2 DEF Outdated
<1>3. U \subseteq W
  BY DEF Opened, Unmatched
<1>4. ASSUME NEW k \in OpenRows(n)
      PROVE  \E w \in W : w.code = k[1] /\ w.row = n[k]
  <2>1. IsOpenAfter(k, t, W, d)
    BY <1>1
  <2> QED
    BY <1>2, <1>3, <2>1 DEF IsOpenAfter
<1>5. ASSUME NEW j \in OpenRows(n), NEW k \in OpenRows(n), j[1] = k[1],
             j \in Renewed(t, W, d), k \notin Renewed(t, W, d)
      PROVE  FALSE
  <2>1. PICK w \in U : w.code = j[1]
    BY <1>1, <1>5 DEF IsOpenAfter
  <2>2. k \in OpenRows(t) \ Outdated(t, W, d) /\ m[k] = t[k]
    BY <1>1, <1>5 DEF IsOpenAfter
  <2>3. w.row = m[k] /\ w.code = k[1]
    BY <1>2, <1>3, <1>5, <2>1, <2>2
  <2>4. RowsPromoted(C, R, t, W, d) /\ k \in C \X Dates
    BY <1>1, PromotedRows
  <2>5. k \in OpenRows(m)
    BY <2>2, <2>4 DEF OpenRows, RowsPromoted, IsTable
  <2> QED
    BY <2>1, <2>3, <2>5 DEF Opened, Unmatched, OpenRowsOf
<1>6. ASSUME NEW j \in OpenRows(n), NEW k \in OpenRows(n), j[1] = k[1]
      PROVE  j = k
  <2>1. j \in C \X Dates /\ k \in C \X Dates
    BY <1>1
  <2>2. CASE j \in Renewed(t, W, d) /\ k \in Renewed(t, W, d)
    <3>1. j[2] = d /\ k[2] = d
      BY <2>2 DEF Renewed
    <3> QED
      BY <1>6, <2>1, <3>1
  <2>3. CASE j \notin Renewed(t, W, d) /\ k \notin Renewed(t, W, d)
    <3>1. j \in OpenRows(t) /\ k \in OpenRows(t)
      BY <1>1, <2>3 DEF IsOpenAfter
    <3> QED
      BY <1>6, <3>1 DEF OneEach
  <2> QED
    BY <1>5, <1>6, <2>2, <2>3
<1>7. OneEach(n)
  BY <1>6 DEF OneEach
<1> QED
  BY <1>4, <1>7, WantedIsThere DEF Shows

-----------------------------------------------------------------------------
(***************************************************************************)
(* A sheet without validation errors wants one row for each code.          *)
(***************************************************************************)
LEMMA LinesOfSheet ==
  ASSUME NEW s \in Sheets
  PROVE  /\ s \in Seq(Lines) /\ DOMAIN s = 1 .. Len(s) /\ Len(s) \in Nat
         /\ \A i \in DOMAIN s : i \in Nat /\ s[i] \in Lines
         /\ IsFiniteSet(DOMAIN s) /\ Cardinality(DOMAIN s) = Len(s)
<1>1. s \in Seq(Lines)
  BY GeoAssumption
<1>2. DOMAIN s = 1 .. Len(s) /\ Len(s) \in Nat
  BY <1>1
<1>3. \A i \in DOMAIN s : i \in Nat /\ s[i] \in Lines
  BY <1>1, <1>2
<1>4. IsFiniteSet(DOMAIN s) /\ Cardinality(DOMAIN s) = Len(s)
  <2> DEFINE n == Len(s)
  <2>1. n \in Int /\ 1 \in Int /\ n >= 0
    BY <1>2
  <2> HIDE DEF n
  <2>2. /\ IsFiniteSet(1 .. n)
        /\ Cardinality(1 .. n) = IF 1 > n THEN 0 ELSE n - 1 + 1
    BY <2>1, FS_Interval, Zenon
  <2>3. IsFiniteSet(1 .. n) /\ Cardinality(1 .. n) = n
    BY <2>1, <2>2
  <2> USE DEF n
  <2> QED
    BY <1>2, <2>3, Zenon
<1> QED
  BY <1>1, <1>2, <1>3, <1>4

LEMMA NamesOfSheet ==
  ASSUME NEW s \in Sheets, Valid(s), NEW i \in DOMAIN s
  PROVE  /\ s[i].region \in Regions /\ s[i].regionName \in Names
         /\ s[i].province \in Provinces /\ s[i].provinceName \in Names
         /\ s[i].town \in Towns /\ s[i].townName \in Names
<1>1. s[i] \in Lines
  BY LinesOfSheet
<1>2. Blank \notin {s[i].regionName, s[i].provinceName, s[i].townName}
  BY DEF Valid, Complete
<1> QED
  BY <1>1, <1>2 DEF Lines

LEMMA RegionsWanted ==
  ASSUME NEW s \in Sheets, Valid(s)
  PROVE  /\ IsWanted(RegionsFor(s), Regions, RegionRow)
         /\ Writable(RegionsFor(s))
         /\ \A w \in RegionsFor(s) : \E i \in DOMAIN s : w.code = s[i].region
<1>1. Open \in 0 .. MaxDate
  BY GeoAssumption DEF Open
<1>2. ASSUME NEW w \in RegionsFor(s)
      PROVE  \E i \in DOMAIN s :
               w = [code |-> s[i].region,
                    row |-> [name |-> s[i].regionName, to |-> Open]]
  BY <1>2 DEF RegionsFor, StagedRegions
<1>3. ASSUME NEW i \in DOMAIN s
      PROVE  [code |-> s[i].region, row |-> [name |-> s[i].regionName, to |-> Open]]
               \in [code : Regions, row : RegionRow]
  BY <1>1, <1>3, NamesOfSheet DEF RegionRow
<1>4. IsWanted(RegionsFor(s), Regions, RegionRow)
  BY <1>2, <1>3 DEF IsWanted
<1>5. Writable(RegionsFor(s))
  <2> SUFFICES ASSUME NEW v \in RegionsFor(s), NEW w \in RegionsFor(s),
                      v.code = w.code
               PROVE  v = w
    BY DEF Writable
  <2>1. PICK i \in DOMAIN s :
          v = [code |-> s[i].region,
               row |-> [name |-> s[i].regionName, to |-> Open]]
    BY <1>2
  <2>2. PICK j \in DOMAIN s :
          w = [code |-> s[j].region,
               row |-> [name |-> s[j].regionName, to |-> Open]]
    BY <1>2
  <2>3. s[i].region = s[j].region
    BY <2>1, <2>2
  <2>4. s[i].regionName = s[j].regionName
    BY <2>3 DEF Valid, Consistent
  <2> QED
    BY <2>1, <2>2, <2>3, <2>4
<1>6. \A w \in RegionsFor(s) : \E i \in DOMAIN s : w.code = s[i].region
  BY <1>2
<1> QED
  BY <1>4, <1>5, <1>6

(* The ids that parents can have.                                          *)
IsIds(ids, C) == ids \in [C -> SUBSET (C \X Dates)]
OneIdEach(ids, C) == \A c \in C : \A j, k \in ids[c] : j = k

LEMMA IdsOfTable ==
  ASSUME NEW C, NEW R, NEW t, IsTable(t, C, R)
  PROVE  /\ IsIds(Ids(t, C), C)
         /\ \A c \in C : \A k \in Ids(t, C)[c] : k \in OpenRows(t) /\ k[1] = c
         /\ \A k \in OpenRows(t) : k[1] \in C /\ k \in Ids(t, C)[k[1]]
         /\ OneEach(t) => OneIdEach(Ids(t, C), C)
<1>1. \A k \in OpenRows(t) : k \in C \X Dates
  BY DEF IsTable, OpenRows
<1>2. \A c \in C : Ids(t, C)[c] = {k \in OpenRows(t) : k[1] = c}
  BY DEF Ids, OpenRowsOf
<1>3. IsIds(Ids(t, C), C)
  BY <1>1 DEF IsIds, Ids, OpenRowsOf
<1>4. OneEach(t) => OneIdEach(Ids(t, C), C)
  BY <1>2 DEF OneEach, OneIdEach
<1> QED
  BY <1>1, <1>2, <1>3, <1>4

LEMMA KeptOnce ==
  ASSUME NEW s \in Sheets, NEW i \in KeptLines(s), NEW j \in KeptLines(s),
         s[i].province = s[j].province
  PROVE  i = j
<1>1. i \in DOMAIN s /\ j \in DOMAIN s /\ i \in Nat /\ j \in Nat
  BY LinesOfSheet DEF KeptLines
<1>2. ~(j > i) /\ ~(i > j)
  BY <1>1 DEF KeptLines
<1> QED
  BY <1>1, <1>2

LEMMA ProvincesWanted ==
  ASSUME NEW s \in Sheets, Valid(s), NEW ids, IsIds(ids, Regions)
  PROVE  /\ IsWanted(ProvincesFor(s, ids), Provinces, ProvinceRow)
         /\ OneIdEach(ids, Regions) => Writable(ProvincesFor(s, ids))
         /\ \A w \in ProvincesFor(s, ids) :
              /\ \E i \in KeptLines(s) : w.code = s[i].province
              /\ \E c \in Regions : w.row.region \in ids[c]
<1> DEFINE W == ProvincesFor(s, ids)
           Wish(i, k) == [code |-> s[i].province,
                          row |-> [name |-> s[i].provinceName, region |-> k,
                                   to |-> Open]]
<1>1. Open \in 0 .. MaxDate
  BY GeoAssumption DEF Open
<1>2. ASSUME NEW w \in W
      PROVE  \E i \in KeptLines(s) : \E k \in ids[s[i].region] : w = Wish(i, k)
  <2>1. PICK p \in StagedProvinces(s) : \E k \in ids[p.region] :
          w = [code |-> p.code,
               row |-> [name |-> p.name, region |-> k, to |-> Open]]
    BY <1>2 DEF ProvincesFor
  <2>2. PICK i \in KeptLines(s) :
          p = [code |-> s[i].province, name |-> s[i].provinceName,
               region |-> s[i].region]
    BY DEF StagedProvinces
  <2> QED
    BY <2>1, <2>2
<1>3. ASSUME NEW i \in KeptLines(s), NEW k \in ids[s[i].region]
      PROVE  /\ i \in DOMAIN s /\ s[i].region \in Regions
             /\ Wish(i, k) \in [code : Provinces, row : ProvinceRow]
  <2>1. i \in DOMAIN s
    BY DEF KeptLines
  <2>2. /\ s[i].region \in Regions /\ s[i].province \in Provinces
        /\ s[i].provinceName \in Names
    BY <2>1, NamesOfSheet
  <2>3. k \in Regions \X Dates
    BY <1>3, <2>2 DEF IsIds
  <2> QED
    BY <1>1, <2>1, <2>2, <2>3 DEF ProvinceRow
<1>4. IsWanted(W, Provinces, ProvinceRow)
  BY <1>2, <1>3 DEF IsWanted
<1>5. ASSUME OneIdEach(ids, Regions), NEW v \in W, NEW w \in W, v.code = w.code
      PROVE  v = w
  <2>1. PICK i \in KeptLines(s) : \E k \in ids[s[i].region] : v = Wish(i, k)
    BY <1>2
  <2>2. PICK k \in ids[s[i].region] : v = Wish(i, k)
    BY <2>1
  <2>3. PICK j \in KeptLines(s) : \E l \in ids[s[j].region] : w = Wish(j, l)
    BY <1>2
  <2>4. PICK l \in ids[s[j].region] : w = Wish(j, l)
    BY <2>3
  <2>5. i = j
    BY <1>5, <2>2, <2>4, KeptOnce
  <2>6. k = l
    BY <1>3, <1>5, <2>5 DEF OneIdEach
  <2> QED
    BY <2>2, <2>4, <2>5, <2>6
<1>6. OneIdEach(ids, Regions) => Writable(W)
  BY <1>5 DEF Writable
<1>7. ASSUME NEW w \in W
      PROVE  /\ \E i \in KeptLines(s) : w.code = s[i].province
             /\ \E c \in Regions : w.row.region \in ids[c]
  <2>1. PICK i \in KeptLines(s) : \E k \in ids[s[i].region] : w = Wish(i, k)
    BY <1>2
  <2>2. PICK k \in ids[s[i].region] : w = Wish(i, k)
    BY <2>1
  <2>3. w.code = s[i].province /\ w.row.region = k
    BY <2>2
  <2> QED
    BY <1>3, <2>3
<1> QED
  BY <1>4, <1>6, <1>7

LEMMA TownsWanted ==
  ASSUME NEW s \in Sheets, Valid(s),
         NEW pids, IsIds(pids, Provinces), NEW rids, IsIds(rids, Regions)
  PROVE  /\ IsWanted(TownsFor(s, pids, rids), Towns, TownRow)
         /\ OneIdEach(pids, Provinces) /\ OneIdEach(rids, Regions) =>
              Writable(TownsFor(s, pids, rids))
         /\ \A w \in TownsFor(s, pids, rids) :
              /\ \E i \in DOMAIN s : w.code = s[i].town
              /\ \E c \in Provinces : w.row.province \in pids[c]
              /\ \E c \in Regions : w.row.region \in rids[c]
         /\ \A i \in DOMAIN s :
              pids[s[i].province] # {} /\ rids[s[i].region] # {} =>
                \E w \in TownsFor(s, pids, rids) : w.code = s[i].town
<1> DEFINE W == TownsFor(s, pids, rids)
           Wish(i, j, k) == [code |-> s[i].town,
                             row |-> [name |-> s[i].townName, province |-> j,
                                      region |-> k, to |-> Open]]
           Cell(i) == [code |-> s[i].town, name |-> s[i].townName,
                       province |-> s[i].province, region |-> s[i].region]
<1>1. Open \in 0 .. MaxDate
  BY GeoAssumption DEF Open
<1>2. ASSUME NEW w \in W
      PROVE  \E i \in DOMAIN s : \E j \in pids[s[i].province] :
               \E k \in rids[s[i].region] : w = Wish(i, j, k)
  <2>1. PICK m \in StagedTowns(s) : \E k \in pids[m.province] \X rids[m.region] :
          w = [code |-> m.code,
               row |-> [name |-> m.name, province |-> k[1], region |-> k[2],
                        to |-> Open]]
    BY <1>2 DEF TownsFor
  <2>2. PICK i \in DOMAIN s : m = Cell(i)
    BY DEF StagedTowns
  <2>3. PICK k \in pids[s[i].province] \X rids[s[i].region] : w = Wish(i, k[1], k[2])
    BY <2>1, <2>2
  <2>4. k[1] \in pids[s[i].province] /\ k[2] \in rids[s[i].region]
    BY <2>3
  <2> QED
    BY <2>3, <2>4
<1>3. ASSUME NEW i \in DOMAIN s,
             NEW j \in pids[s[i].province], NEW k \in rids[s[i].region]
      PROVE  /\ s[i].region \in Regions /\ s[i].province \in Provinces
             /\ Wish(i, j, k) \in [code : Towns, row : TownRow]
  <2>1. /\ s[i].region \in Regions /\ s[i].province \in Provinces
        /\ s[i].town \in Towns /\ s[i].townName \in Names
    BY NamesOfSheet
  <2>2. j \in Provinces \X Dates /\ k \in Regions \X Dates
    BY <1>3, <2>1 DEF IsIds
  <2> QED
    BY <1>1, <2>1, <2>2 DEF TownRow
<1>4. IsWanted(W, Towns, TownRow)
  BY <1>2, <1>3 DEF IsWanted
<1>5. ASSUME OneIdEach(pids, Provinces), OneIdEach(rids, Regions),
             NEW v \in W, NEW w \in W, v.code = w.code
      PROVE  v = w
  <2>1. PICK i \in DOMAIN s : \E j \in pids[s[i].province] :
          \E k \in rids[s[i].region] : v = Wish(i, j, k)
    BY <1>2
  <2>2. PICK j \in pids[s[i].province], k \in rids[s[i].region] : v = Wish(i, j, k)
    BY <2>1
  <2>3. PICK h \in DOMAIN s : \E l \in pids[s[h].province] :
          \E m \in rids[s[h].region] : w = Wish(h, l, m)
    BY <1>2
  <2>4. PICK l \in pids[s[h].province], m \in rids[s[h].region] : w = Wish(h, l, m)
    BY <2>3
  <2>5. s[i].town = s[h].town
    BY <1>5, <2>2, <2>4
  <2>6. i = h
    BY <2>5 DEF Valid
  <2>7. s[i].province \in Provinces /\ s[i].region \in Regions
    BY <1>3
  <2>8. l \in pids[s[i].province] /\ m \in rids[s[i].region]
    BY <2>6
  <2>9. j = l /\ k = m
    BY <1>5, <2>7, <2>8 DEF OneIdEach
  <2> QED
    BY <2>2, <2>4, <2>6, <2>9
<1>6. OneIdEach(pids, Provinces) /\ OneIdEach(rids, Regions) => Writable(W)
  BY <1>5 DEF Writable
<1>7. ASSUME NEW w \in W
      PROVE  /\ \E i \in DOMAIN s : w.code = s[i].town
             /\ \E c \in Provinces : w.row.province \in pids[c]
             /\ \E c \in Regions : w.row.region \in rids[c]
  <2>1. PICK i \in DOMAIN s : \E j \in pids[s[i].province] :
          \E k \in rids[s[i].region] : w = Wish(i, j, k)
    BY <1>2
  <2>2. PICK j \in pids[s[i].province], k \in rids[s[i].region] : w = Wish(i, j, k)
    BY <2>1
  <2>3. w.code = s[i].town /\ w.row.province = j /\ w.row.region = k
    BY <2>2
  <2> QED
    BY <1>3, <2>3
<1>8. ASSUME NEW i \in DOMAIN s,
             pids[s[i].province] # {}, rids[s[i].region] # {}
      PROVE  \E w \in W : w.code = s[i].town
  <2>1. PICK j \in pids[s[i].province], k \in rids[s[i].region] : TRUE
    BY <1>8
  <2>2. Cell(i) \in StagedTowns(s)
    BY DEF StagedTowns
  <2>3. PICK m \in StagedTowns(s) : m = Cell(i)
    BY <2>2
  <2>4. j \in pids[m.province] /\ k \in rids[m.region]
    BY <2>1, <2>3
  <2> DEFINE Rows(q) ==
        {[code |-> q.code,
          row |-> [name |-> q.name, province |-> y[1], region |-> y[2],
                   to |-> Open]] : y \in pids[q.province] \X rids[q.region]}
  <2>5. W = UNION {Rows(q) : q \in StagedTowns(s)}
    BY DEF TownsFor
  <2>6. \E w \in Rows(m) : w.code = m.code
    <3> PICK A, B : A = pids[m.province] /\ B = rids[m.region]
      OBVIOUS
    <3>1. PICK x \in A \X B : x = <<j, k>>
      BY <2>4
    <3>2. [code |-> m.code,
           row |-> [name |-> m.name, province |-> x[1], region |-> x[2],
                    to |-> Open]] \in Rows(m)
      OBVIOUS
    <3> HIDE DEF Rows
    <3> QED
      BY <3>2
  <2>7. PICK w \in Rows(m) : w.code = m.code
    BY <2>6
  <2> HIDE DEF Rows
  <2>8. w \in W
    BY <2>5
  <2> QED
    BY <2>3, <2>7, <2>8
<1> QED
  BY <1>4, <1>6, <1>7, <1>8

(* Every province of a sheet has a line that is read last.                 *)
LEMMA ProvinceIsKept ==
  ASSUME NEW s \in Sheets, NEW i \in DOMAIN s
  PROVE  \E j \in KeptLines(s) : s[j].province = s[i].province
<1>1. DOMAIN s = 1 .. Len(s) /\ Len(s) \in Nat
  BY LinesOfSheet
<1> DEFINE n == Len(s)
           p == s[i].province
           T == {m \in 0 .. n : n - m \in DOMAIN s /\ s[n - m].province = p}
<1>2. n - i \in T
  BY <1>1
<1>3. T \subseteq Nat /\ T # {}
  BY <1>1, <1>2
<1>4. PICK m \in T : \A l \in T : ~(<<l, m>> \in OpToRel(<, Nat))
  <2>1. IsWellFoundedOn(OpToRel(<, Nat), Nat)
    BY NatLessThanWellFounded
  <2> HIDE DEF T
  <2> QED
    BY <1>3, <2>1, WFMin
<1>5. \A l \in T : ~(l < m)
  BY <1>3, <1>4 DEF OpToRel
<1> DEFINE j == n - m
<1>6. j \in DOMAIN s /\ s[j].province = s[i].province
  BY <1>4
<1>7. ASSUME NEW k \in DOMAIN s, k > j, s[k].province = s[i].province
      PROVE  FALSE
  <2>1. PICK l \in 0 .. n : l = n - k /\ n - l = k
    BY <1>1
  <2>2. l \in T
    BY <1>7, <2>1
  <2>3. m \in 0 .. n /\ k \in 1 .. n /\ k > n - m
    BY <1>1, <1>7
  <2>4. l < m
    BY <1>1, <2>1, <2>3
  <2> HIDE DEF T
  <2> QED
    BY <1>5, <2>2, <2>4
<1> QED
  BY <1>6, <1>7 DEF KeptLines

-----------------------------------------------------------------------------
(***************************************************************************)
(* The invariant.                                                          *)
(***************************************************************************)
WantedProvinces(s) == ProvincesFor(s, Ids(regions, Regions))
WantedTowns(s) == TownsFor(s, Ids(provinces, Provinces), Ids(regions, Regions))

(* Only sheets without errors are staged, and only those are promoted.     *)
SheetsAreValid ==
  /\ \A s \in Staged : Valid(s)
  /\ last # None => Valid(last.sheet)

(* Before the first promotion the tables are empty.                        *)
NothingAtFirst ==
  last = None =>
    /\ \A k \in Regions \X Dates : regions[k] = None
    /\ \A k \in Provinces \X Dates : provinces[k] = None
    /\ \A k \in Towns \X Dates : towns[k] = None
    /\ place = None

(* The last promotion would find nothing to do, unless a parent has two    *)
(* open rows.                                                              *)
LastIsDone ==
  last # None =>
    /\ Promoted(regions, RegionsFor(last.sheet), last.date) = regions
    /\ OneEach(regions) =>
         Promoted(provinces, WantedProvinces(last.sheet), last.date) = provinces
    /\ OneEach(regions) /\ OneEach(provinces) =>
         Promoted(towns, WantedTowns(last.sheet), last.date) = towns

(* While promotions are in order no row is newer than the last one, and    *)
(* what is open is what it wanted.                                         *)
RowsUpTo(t, d) == \A k \in DOMAIN t : t[k] # None => k[2] <= d

LastIsShown ==
  orderly /\ last # None =>
    /\ RowsUpTo(regions, last.date) /\ Shows(regions, RegionsFor(last.sheet))
    /\ RowsUpTo(provinces, last.date)
    /\ Shows(provinces, WantedProvinces(last.sheet))
    /\ RowsUpTo(towns, last.date) /\ Shows(towns, WantedTowns(last.sheet))

PlaceIsKnown == place # None => towns[place.town] # None

GeoInv ==
  /\ TypeOK /\ SheetsAreValid /\ NothingAtFirst /\ LastIsDone /\ LastIsShown
  /\ PlaceIsKnown /\ PlaceStaysWhole

(* TypeOK by parts.                                                        *)
RunsOK ==
  /\ today \in Dates
  /\ runs \in [Sheets -> Run \cup {None}]
  /\ before \subseteq Staged \X Staged
  /\ \A r, s \in Staged : <<r, s>> \in before <=> r # s /\ <<s, r>> \notin before
  /\ \A q, r, s \in Staged :
       <<q, r>> \in before /\ <<r, s>> \in before => <<q, s>> \in before

AreTables ==
  /\ IsTable(regions, Regions, RegionRow)
  /\ IsTable(provinces, Provinces, ProvinceRow)
  /\ IsTable(towns, Towns, TownRow)

HaveParents ==
  /\ \A k \in DOMAIN provinces :
       provinces[k] # None => regions[provinces[k].region] # None
  /\ \A k \in DOMAIN towns : towns[k] # None =>
       provinces[towns[k].province] # None /\ regions[towns[k].region] # None

EndsLater(t) ==
  \A k \in DOMAIN t : t[k] # None => t[k].to = Open \/ t[k].to > k[2]

HistoryOK ==
  /\ place \in Place \cup {None}
  /\ last \in Promotion \cup {None}
  /\ orderly \in BOOLEAN

LEMMA TypeByParts ==
  TypeOK <=> /\ RunsOK /\ AreTables /\ HaveParents
             /\ EndsLater(regions) /\ EndsLater(provinces) /\ EndsLater(towns)
             /\ HistoryOK
BY Zenon DEF TypeOK, RunsOK, AreTables, IsTable, HaveParents, EndsLater, HistoryOK

LEMMA RowSets ==
  /\ IsRows(RegionRow) /\ IsRows(ProvinceRow) /\ IsRows(TownRow)
  /\ \A r \in ProvinceRow, d \in Dates : [r EXCEPT !.to = d].region = r.region
  /\ \A r \in TownRow, d \in Dates :
       /\ [r EXCEPT !.to = d].region = r.region
       /\ [r EXCEPT !.to = d].province = r.province
<1>1. Dates \subseteq 0 .. MaxDate
  BY GeoAssumption DEF Dates
<1>2. None \notin RegionRow /\ None \notin ProvinceRow /\ None \notin TownRow
  BY GeoAssumption
<1>3. IsRows(RegionRow)
  BY <1>1, <1>2 DEF IsRows, RegionRow
<1>4. IsRows(ProvinceRow)
  BY <1>1, <1>2 DEF IsRows, ProvinceRow
<1>5. IsRows(TownRow)
  BY <1>1, <1>2 DEF IsRows, TownRow
<1>6. \A r \in ProvinceRow, d \in Dates : [r EXCEPT !.to = d].region = r.region
  BY DEF ProvinceRow
<1>7. \A r \in TownRow, d \in Dates :
        /\ [r EXCEPT !.to = d].region = r.region
        /\ [r EXCEPT !.to = d].province = r.province
  BY DEF TownRow
<1> QED
  BY <1>3, <1>4, <1>5, <1>6, <1>7

(* Where a row of a table comes from.                                      *)
IsWrittenBy(k, R, t, W, d) ==
  \/ k[2] = d /\ \E w \in W : w.code = k[1] /\ Promoted(t, W, d)[k] = w.row
  \/ t[k] \in R /\ Promoted(t, W, d)[k] = t[k]
  \/ /\ t[k] \in R /\ k[2] < d
     /\ Promoted(t, W, d)[k] = [t[k] EXCEPT !.to = d]

LEMMA RowSource ==
  ASSUME NEW C, NEW R, NEW t, NEW W, NEW d \in Dates,
         IsRows(R), IsTable(t, C, R), IsWanted(W, C, R)
  PROVE  \A k \in C \X Dates :
           Promoted(t, W, d)[k] # None => IsWrittenBy(k, R, t, W, d)
<1> DEFINE n == Promoted(t, W, d)
<1> SUFFICES ASSUME NEW k \in C \X Dates, n[k] # None
             PROVE  IsWrittenBy(k, R, t, W, d)
  OBVIOUS
<1>1. RowsPromoted(C, R, t, W, d)
  BY PromotedRows
<1>2. Opened(t, W, d) \subseteq W
  BY DEF Opened, Unmatched
<1>3. CASE k \in Renewed(t, W, d)
  <2>1. k[2] = d
    BY <1>3 DEF Renewed
  <2>2. PICK w \in Opened(t, W, d) : w.code = k[1] /\ n[k] = w.row
    BY <1>1, <1>3 DEF RowsPromoted
  <2> QED
    BY <1>2, <2>1, <2>2 DEF IsWrittenBy
<1>4. CASE k \notin Renewed(t, W, d) /\ k \in Outdated(t, W, d)
  <2>1. k[2] < d
    BY <1>4 DEF Outdated
  <2>2. n[k] = [t[k] EXCEPT !.to = d] /\ t[k] \in R
    BY <1>1, <1>4 DEF RowsPromoted
  <2> QED
    BY <2>1, <2>2 DEF IsWrittenBy
<1>5. CASE k \notin Renewed(t, W, d) /\ k \notin Outdated(t, W, d)
  <2>1. n[k] = t[k]
    BY <1>1, <1>5 DEF RowsPromoted
  <2> QED
    BY <2>1 DEF IsTable, IsWrittenBy
<1> QED
  BY <1>3, <1>4, <1>5

(* ... so that rows end after they began, and those below a date stay      *)
(* below it.                                                               *)
LEMMA RowsEndLater ==
  ASSUME NEW C, NEW R, NEW t, NEW W, NEW d \in Dates,
         IsRows(R), IsTable(t, C, R), IsWanted(W, C, R), EndsLater(t)
  PROVE  EndsLater(Promoted(t, W, d))
<1> DEFINE n == Promoted(t, W, d)
<1>1. DOMAIN n = C \X Dates /\ DOMAIN t = C \X Dates
  <2>1. RowsPromoted(C, R, t, W, d)
    BY PromotedRows
  <2> QED
    BY <2>1 DEF RowsPromoted, IsTable
<1> SUFFICES ASSUME NEW k \in C \X Dates, n[k] # None
             PROVE  n[k].to = Open \/ n[k].to > k[2]
  BY <1>1 DEF EndsLater
<1>2. CASE \E w \in W : n[k] = w.row
  BY <1>2 DEF IsWanted
<1>3. CASE t[k] \in R /\ n[k] = t[k]
  BY <1>1, <1>3 DEF EndsLater
<1>4. CASE t[k] \in R /\ k[2] < d /\ n[k] = [t[k] EXCEPT !.to = d]
  <2>1. n[k].to = d
    BY <1>4 DEF IsRows
  <2> QED
    BY <1>4, <2>1 DEF Dates
<1> QED
  <2>1. IsWrittenBy(k, R, t, W, d)
    BY RowSource
  <2> QED
    BY <1>2, <1>3, <1>4, <2>1 DEF IsWrittenBy

LEMMA RowsStayUpTo ==
  ASSUME NEW C, NEW R, NEW t, NEW W, NEW d \in Dates,
         IsRows(R), IsTable(t, C, R), IsWanted(W, C, R),
         \A k \in DOMAIN t : t[k] # None => k[2] < d
  PROVE  /\ RowsUpTo(Promoted(t, W, d), d)
         /\ \A k \in DOMAIN t : t[k] # None /\ Promoted(t, W, d)[k].to = Open
              => k \in OpenRows(Promoted(t, W, d)) /\ Promoted(t, W, d)[k] = t[k]
<1> DEFINE n == Promoted(t, W, d)
<1>1. DOMAIN n = C \X Dates /\ DOMAIN t = C \X Dates
  <2>1. RowsPromoted(C, R, t, W, d)
    BY PromotedRows
  <2> QED
    BY <2>1 DEF RowsPromoted, IsTable
<1>2. None \notin R /\ d # Open
  BY GeoAssumption DEF IsRows, Dates, Open
<1>3. ASSUME NEW k \in C \X Dates, n[k] # None
      PROVE  k[2] <= d
  <2>1. t[k] \in R => k[2] < d
    BY <1>1, <1>2
  <2>2. IsWrittenBy(k, R, t, W, d)
    BY <1>3, RowSource
  <2>3. k[2] \in Nat /\ d \in Nat
    BY DEF Dates
  <2> QED
    BY <2>1, <2>2, <2>3 DEF IsWrittenBy
<1>4. ASSUME NEW k \in C \X Dates, t[k] # None, n[k].to = Open
      PROVE  k \in OpenRows(n) /\ n[k] = t[k]
  <2>1. n[k] # None
    BY <1>4, RowsAreKept
  <2>2. k \in OpenRows(n)
    BY <1>1, <1>4, <2>1 DEF OpenRows
  <2>3. k[2] < d
    BY <1>1, <1>4
  <2>4. k[2] # d
    BY <2>3 DEF Dates
  <2>5. IsOpenAfter(k, t, W, d)
    BY <2>2, OpenAfter
  <2> QED
    BY <2>2, <2>4, <2>5 DEF IsOpenAfter
<1> QED
  BY <1>1, <1>3, <1>4 DEF RowsUpTo

-----------------------------------------------------------------------------
(***************************************************************************)
(* Steps.                                                                  *)
(***************************************************************************)
(* Whoever is written last becomes the last in the order.                  *)
LEMMA OrderOfRuns ==
  ASSUME RunsOK, NEW s \in Sheets, before' = Latest(s),
         Staged' = Staged \cup {s},
         runs' \in [Sheets -> Run \cup {None}], today' \in Dates
  PROVE  RunsOK'
<1> DEFINE S == Staged
           T == Staged \cup {s}
           B == Latest(s)
<1>1. \A q, r \in T : <<q, r>> \in B <=>
        \/ <<q, r>> \in before /\ q # s /\ r # s
        \/ q \in S /\ q # s /\ r = s
  BY DEF Latest
<1>2. B \subseteq T \X T
  BY DEF Latest, RunsOK
<1>3. \A q, r \in S : <<q, r>> \in before <=> q # r /\ <<r, q>> \notin before
  BY DEF RunsOK
<1>4. \A p, q, r \in S :
        <<p, q>> \in before /\ <<q, r>> \in before => <<p, r>> \in before
  BY DEF RunsOK
<1>5. \A q \in T : q # s => q \in S
  OBVIOUS
<1> HIDE DEF S, T, B
<1>6. \A q, r \in T : <<q, r>> \in B <=> q # r /\ <<r, q>> \notin B
  BY <1>1, <1>3, <1>5
<1>7. \A p, q, r \in T : <<p, q>> \in B /\ <<q, r>> \in B => <<p, r>> \in B
  BY <1>1, <1>4, <1>5
<1> QED
  BY <1>2, <1>6, <1>7 DEF RunsOK, T, B

LEMMA StageStep ==
  ASSUME RunsOK, NEW s \in Sheets, Stage(s)
  PROVE  /\ RunsOK'
         /\ Staged' = Staged \cup {s}
<1>1. DateOf(s) \in Dates
  BY GeoAssumption DEF RunsOK, DateOf, Dates
<1> DEFINE r == [status |-> "staged", date |-> DateOf(s)]
<1>2. r \in Run /\ r # None
  <2>1. r \in Run
    BY <1>1 DEF Run
  <2> QED
    BY <2>1, GeoAssumption
<1>3. runs' = [runs EXCEPT ![s] = r] /\ before' = Latest(s) /\ today' = today
  BY DEF Stage
<1>4. runs \in [Sheets -> Run \cup {None}] /\ today \in Dates
  BY DEF RunsOK
<1> HIDE DEF r
<1>5. runs' \in [Sheets -> Run \cup {None}]
  BY <1>2, <1>3, <1>4
<1>6. Staged' = Staged \cup {s}
  BY <1>2, <1>3, <1>4 DEF Staged
<1> QED
  BY <1>3, <1>4, <1>5, <1>6, OrderOfRuns

(* What a promotion does, table by table.                                  *)
Promoting(s, d) ==
  /\ d = runs[s].date /\ d \in Dates /\ Valid(s)
  /\ regions' = Promoted(regions, RegionsFor(s), d)
  /\ provinces' = Promoted(provinces, ProvincesFor(s, Ids(regions', Regions)), d)
  /\ towns' = Promoted(towns, TownsFor(s, Ids(provinces', Provinces),
                                       Ids(regions', Regions)), d)
  /\ last' = [sheet |-> s, date |-> d] /\ last' \in Promotion /\ last' # None
  /\ last'.sheet = s /\ last'.date = d
  /\ orderly' = (orderly /\ InOrder(s)) /\ place' = place

ArePromoted(s) ==
  /\ IsTable(regions', Regions, RegionRow)
  /\ IsTable(provinces', Provinces, ProvinceRow)
  /\ IsTable(towns', Towns, TownRow)
  /\ IsWanted(RegionsFor(s), Regions, RegionRow) /\ Writable(RegionsFor(s))
  /\ IsWanted(ProvincesFor(s, Ids(regions', Regions)), Provinces, ProvinceRow)
  /\ OneEach(regions') => Writable(ProvincesFor(s, Ids(regions', Regions)))
  /\ IsWanted(TownsFor(s, Ids(provinces', Provinces), Ids(regions', Regions)),
              Towns, TownRow)
  /\ OneEach(regions') /\ OneEach(provinces') =>
       Writable(TownsFor(s, Ids(provinces', Provinces), Ids(regions', Regions)))

LEMMA PromoteStep ==
  ASSUME TypeOK, SheetsAreValid, NEW s \in Sheets, Promote(s)
  PROVE  /\ \E d \in Dates : Promoting(s, d)
         /\ RunsOK' /\ Staged' = Staged
<1>1. RunsOK /\ s \in Staged /\ Valid(s)
  BY TypeByParts DEF Promote, SheetsAreValid
<1>2. runs[s] \in Run /\ runs \in [Sheets -> Run \cup {None}] /\ today \in Dates
  BY <1>1 DEF Staged, RunsOK
<1> DEFINE d == runs[s].date
<1>3. d \in Dates
  BY <1>2 DEF Run
<1>4. [sheet |-> s, date |-> d] \in Promotion
  BY <1>3 DEF Promotion
<1>5. Promoting(s, d)
  <2>1. last' = [sheet |-> s, date |-> d] /\ last' # None
    BY <1>4, GeoAssumption DEF Promote
  <2>2. last'.sheet = s /\ last'.date = d /\ last' \in Promotion
    BY <1>4, <2>1
  <2>3. regions' = Promoted(regions, RegionsFor(s), d)
    BY DEF Promote
  <2>4. provinces' = Promoted(provinces, ProvincesFor(s, Ids(regions', Regions)), d)
    BY <2>3 DEF Promote
  <2>5. towns' = Promoted(towns, TownsFor(s, Ids(provinces', Provinces),
                                          Ids(regions', Regions)), d)
    BY <2>3, <2>4 DEF Promote
  <2>6. orderly' = (orderly /\ InOrder(s)) /\ place' = place
    BY DEF Promote
  <2> QED
    BY <1>1, <1>3, <2>1, <2>2, <2>3, <2>4, <2>5, <2>6 DEF Promoting
<1>6. runs' = [runs EXCEPT ![s].status = "applied"] /\ before' = Latest(s)
      /\ today' = today
  BY DEF Promote
<1>7. [runs[s] EXCEPT !.status = "applied"] \in Run
  BY <1>2 DEF Run
<1>8. runs' \in [Sheets -> Run \cup {None}] /\ runs'[s] \in Run
      /\ \A r \in Sheets \ {s} : runs'[r] = runs[r]
  BY <1>2, <1>6, <1>7
<1>9. Staged' = Staged
  BY <1>1, <1>8, GeoAssumption DEF Staged
<1>10. RunsOK'
  BY <1>1, <1>2, <1>6, <1>8, <1>9, OrderOfRuns
<1> QED
  BY <1>3, <1>5, <1>9, <1>10

LEMMA TablesPromoted ==
  ASSUME AreTables, NEW s \in Sheets, NEW d \in Dates, Promoting(s, d)
  PROVE  ArePromoted(s)
<1>1. Valid(s) /\ regions' = Promoted(regions, RegionsFor(s), d)
  BY DEF Promoting
<1>2. IsWanted(RegionsFor(s), Regions, RegionRow) /\ Writable(RegionsFor(s))
  BY <1>1, RegionsWanted
<1>3. IsTable(regions', Regions, RegionRow)
  <2>1. RowsPromoted(Regions, RegionRow, regions, RegionsFor(s), d)
    BY <1>2, PromotedRows, RowSets DEF AreTables
  <2> QED
    BY <1>1, <2>1 DEF RowsPromoted
<1> DEFINE rids == Ids(regions', Regions)
<1>4. IsIds(rids, Regions) /\ (OneEach(regions') => OneIdEach(rids, Regions))
  BY <1>3, IdsOfTable
<1> DEFINE P == ProvincesFor(s, rids)
<1> HIDE DEF rids
<1>5. IsWanted(P, Provinces, ProvinceRow) /\ (OneIdEach(rids, Regions) => Writable(P))
  BY <1>1, <1>4, ProvincesWanted
<1>6. provinces' = Promoted(provinces, P, d)
  BY DEF Promoting, rids
<1>7. IsTable(provinces', Provinces, ProvinceRow)
  <2>1. RowsPromoted(Provinces, ProvinceRow, provinces, P, d)
    BY <1>5, PromotedRows, RowSets DEF AreTables
  <2> QED
    BY <1>6, <2>1 DEF RowsPromoted
<1> DEFINE pids == Ids(provinces', Provinces)
<1>8. /\ IsIds(pids, Provinces)
      /\ OneEach(provinces') => OneIdEach(pids, Provinces)
  BY <1>7, IdsOfTable
<1> HIDE DEF pids
<1> DEFINE T == TownsFor(s, pids, rids)
<1>9. /\ IsWanted(T, Towns, TownRow)
      /\ OneIdEach(pids, Provinces) /\ OneIdEach(rids, Regions) => Writable(T)
  BY <1>1, <1>4, <1>8, TownsWanted
<1>10. towns' = Promoted(towns, T, d)
  BY DEF Promoting, pids, rids
<1>11. IsTable(towns', Towns, TownRow)
  <2>1. RowsPromoted(Towns, TownRow, towns, T, d)
    BY <1>9, PromotedRows, RowSets DEF AreTables
  <2> QED
    BY <1>10, <2>1 DEF RowsPromoted
<1> QED
  BY <1>2, <1>3, <1>4, <1>5, <1>7, <1>8, <1>9, <1>11 DEF ArePromoted, pids, rids

(* No row loses its parents.                                               *)
LEMMA ParentsKept ==
  ASSUME AreTables, HaveParents, NEW s \in Sheets, NEW d \in Dates,
         Promoting(s, d), ArePromoted(s)
  PROVE  HaveParents'
<1> DEFINE rids == Ids(regions', Regions)
           pids == Ids(provinces', Provinces)
           P == ProvincesFor(s, rids)
           T == TownsFor(s, pids, rids)
<1>1. /\ regions' = Promoted(regions, RegionsFor(s), d)
      /\ provinces' = Promoted(provinces, P, d)
      /\ towns' = Promoted(towns, T, d) /\ Valid(s)
  BY DEF Promoting
<1>2. /\ IsWanted(RegionsFor(s), Regions, RegionRow)
      /\ IsWanted(P, Provinces, ProvinceRow) /\ IsWanted(T, Towns, TownRow)
      /\ IsTable(regions', Regions, RegionRow)
      /\ IsTable(provinces', Provinces, ProvinceRow)
      /\ IsTable(towns', Towns, TownRow)
  BY DEF ArePromoted
<1>3. /\ IsIds(rids, Regions)
      /\ \A c \in Regions : \A k \in rids[c] : k \in OpenRows(regions')
  BY <1>2, IdsOfTable
<1>4. /\ IsIds(pids, Provinces)
      /\ \A c \in Provinces : \A k \in pids[c] : k \in OpenRows(provinces')
  BY <1>2, IdsOfTable
<1>5. /\ \A w \in P : \E c \in Regions : w.row.region \in rids[c]
      /\ \A w \in T : /\ \E c \in Provinces : w.row.province \in pids[c]
                      /\ \E c \in Regions : w.row.region \in rids[c]
  BY <1>1, <1>3, <1>4, ProvincesWanted, TownsWanted
<1>6. \A w \in P : regions'[w.row.region] # None
  BY <1>3, <1>5 DEF OpenRows
<1>7. \A w \in T : provinces'[w.row.province] # None /\ regions'[w.row.region] # None
  BY <1>3, <1>4, <1>5 DEF OpenRows
<1>8. \A k \in Regions \X Dates : regions[k] # None => regions'[k] # None
  BY <1>1, <1>2, RowsAreKept, RowSets DEF AreTables
<1>9. \A k \in Provinces \X Dates : provinces[k] # None => provinces'[k] # None
  BY <1>1, <1>2, RowsAreKept, RowSets DEF AreTables
<1>10. /\ DOMAIN provinces = Provinces \X Dates
       /\ DOMAIN provinces' = Provinces \X Dates
       /\ DOMAIN towns = Towns \X Dates /\ DOMAIN towns' = Towns \X Dates
  BY <1>2 DEF AreTables, IsTable
<1>11. /\ \A k \in Provinces \X Dates :
            provinces'[k] # None => IsWrittenBy(k, ProvinceRow, provinces, P, d)
       /\ \A k \in Towns \X Dates :
            towns'[k] # None => IsWrittenBy(k, TownRow, towns, T, d)
  BY <1>1, <1>2, RowSource, RowSets DEF AreTables
<1> HIDE DEF P, T, rids, pids
<1>12. ASSUME NEW k \in Provinces \X Dates, provinces'[k] # None
       PROVE  regions'[provinces'[k].region] # None
  <2>1. CASE \E w \in P : provinces'[k] = w.row
    BY <1>6, <2>1
  <2>2. ASSUME provinces[k] \in ProvinceRow,
               provinces'[k].region = provinces[k].region
        PROVE  regions'[provinces'[k].region] # None
    <3>1. provinces[k] # None
      BY <2>2, RowSets DEF IsRows
    <3>2. regions[provinces[k].region] # None
      BY <1>10, <3>1 DEF HaveParents
    <3>3. provinces[k].region \in Regions \X Dates
      BY <2>2 DEF ProvinceRow
    <3> QED
      BY <1>8, <2>2, <3>2, <3>3
  <2>3. CASE provinces[k] \in ProvinceRow /\ provinces'[k] = provinces[k]
    BY <2>2, <2>3
  <2>4. CASE provinces[k] \in ProvinceRow /\ provinces'[k] = [provinces[k] EXCEPT !.to = d]
    BY <2>2, <2>4, RowSets
  <2> QED
    BY <1>1, <1>11, <1>12, <2>1, <2>3, <2>4 DEF IsWrittenBy
<1>13. ASSUME NEW k \in Towns \X Dates, towns'[k] # None
       PROVE  provinces'[towns'[k].province] # None /\ regions'[towns'[k].region] # None
  <2>1. CASE \E w \in T : towns'[k] = w.row
    BY <1>7, <2>1
  <2>2. ASSUME towns[k] \in TownRow, towns'[k].region = towns[k].region,
               towns'[k].province = towns[k].province
        PROVE  /\ provinces'[towns'[k].province] # None
               /\ regions'[towns'[k].region] # None
    <3>1. towns[k] # None
      BY <2>2, RowSets DEF IsRows
    <3>2. provinces[towns[k].province] # None /\ regions[towns[k].region] # None
      BY <1>10, <3>1 DEF HaveParents
    <3>3. towns[k].region \in Regions \X Dates /\ towns[k].province \in Provinces \X Dates
      BY <2>2 DEF TownRow
    <3> QED
      BY <1>8, <1>9, <2>2, <3>2, <3>3
  <2>3. CASE towns[k] \in TownRow /\ towns'[k] = towns[k]
    BY <2>2, <2>3
  <2>4. CASE towns[k] \in TownRow /\ towns'[k] = [towns[k] EXCEPT !.to = d]
    BY <2>2, <2>4, RowSets
  <2> QED
    BY <1>1, <1>11, <1>13, <2>1, <2>3, <2>4 DEF IsWrittenBy
<1> QED
  BY <1>10, <1>12, <1>13 DEF HaveParents

(* A second promotion of the same sheet and date would find nothing to do. *)
LEMMA PromotionIsDone ==
  ASSUME AreTables, NEW s \in Sheets, NEW d \in Dates,
         Promoting(s, d), ArePromoted(s)
  PROVE  LastIsDone'
<1> DEFINE P == ProvincesFor(s, Ids(regions', Regions))
           T == TownsFor(s, Ids(provinces', Provinces), Ids(regions', Regions))
<1>1. /\ regions' = Promoted(regions, RegionsFor(s), d)
      /\ provinces' = Promoted(provinces, P, d)
      /\ towns' = Promoted(towns, T, d)
      /\ last'.sheet = s /\ last'.date = d
  BY DEF Promoting
<1>2. /\ IsWanted(RegionsFor(s), Regions, RegionRow) /\ Writable(RegionsFor(s))
      /\ IsWanted(P, Provinces, ProvinceRow) /\ (OneEach(regions') => Writable(P))
      /\ IsWanted(T, Towns, TownRow)
      /\ OneEach(regions') /\ OneEach(provinces') => Writable(T)
  BY DEF ArePromoted
<1> HIDE DEF P, T
<1>3. Promoted(regions', RegionsFor(s), d) = regions'
  BY <1>1, <1>2, PromotedTwice, RowSets DEF AreTables
<1>4. OneEach(regions') => Promoted(provinces', P, d) = provinces'
  BY <1>1, <1>2, PromotedTwice, RowSets DEF AreTables
<1>5. OneEach(regions') /\ OneEach(provinces') => Promoted(towns', T, d) = towns'
  BY <1>1, <1>2, PromotedTwice, RowSets DEF AreTables
<1>6. last'.sheet = s /\ last'.date = d
  BY <1>1
<1> QED
  BY <1>3, <1>4, <1>5, <1>6 DEF P, T, LastIsDone, WantedProvinces, WantedTowns

OlderThan(t, d) == \A k \in DOMAIN t : t[k] # None => k[2] < d

(* One table, in order.                                                    *)
LEMMA TableInOrder ==
  ASSUME NEW C, NEW R, NEW t, NEW W, NEW d \in Dates, NEW n,
         IsRows(R), IsTable(t, C, R), IsWanted(W, C, R), Writable(W),
         OneEach(t), OlderThan(t, d), n = Promoted(t, W, d)
  PROVE  /\ RowsUpTo(n, d) /\ Shows(n, W)
         /\ \A k \in DOMAIN t : t[k] # None /\ n[k].to = Open =>
              k \in OpenRows(n) /\ n[k] = t[k]
<1>1. \A k \in DOMAIN t : t[k] # None => k[2] < d
  BY DEF OlderThan
<1>2. \A k \in OpenRows(t) : k[2] < d
  BY <1>1 DEF OpenRows
<1>3. Shows(Promoted(t, W, d), W)
  BY <1>2, PromotedInOrder
<1>4. /\ RowsUpTo(Promoted(t, W, d), d)
      /\ \A k \in DOMAIN t : t[k] # None /\ Promoted(t, W, d)[k].to = Open
           => k \in OpenRows(Promoted(t, W, d)) /\ Promoted(t, W, d)[k] = t[k]
  BY <1>1, RowsStayUpTo
<1> QED
  BY <1>3, <1>4

(* A promotion that is newer than every row.                               *)
LEMMA NewerIsShown ==
  ASSUME AreTables, NEW s \in Sheets, NEW d \in Dates,
         Promoting(s, d), ArePromoted(s),
         OneEach(regions), OneEach(provinces), OneEach(towns),
         OlderThan(regions, d), OlderThan(provinces, d), OlderThan(towns, d)
  PROVE  /\ LastIsShown'
         /\ Shows(towns', TownsFor(s, Ids(provinces', Provinces),
                                   Ids(regions', Regions)))
         /\ \A k \in DOMAIN towns : towns[k] # None /\ towns'[k].to = Open =>
              k \in OpenRows(towns') /\ towns'[k] = towns[k]
<1> DEFINE P == ProvincesFor(s, Ids(regions', Regions))
           T == TownsFor(s, Ids(provinces', Provinces), Ids(regions', Regions))
<1>1. /\ regions' = Promoted(regions, RegionsFor(s), d)
      /\ provinces' = Promoted(provinces, P, d)
      /\ towns' = Promoted(towns, T, d)
      /\ last'.sheet = s /\ last'.date = d
  BY DEF Promoting
<1>2. /\ IsWanted(RegionsFor(s), Regions, RegionRow) /\ Writable(RegionsFor(s))
      /\ IsWanted(P, Provinces, ProvinceRow) /\ (OneEach(regions') => Writable(P))
      /\ IsWanted(T, Towns, TownRow)
      /\ OneEach(regions') /\ OneEach(provinces') => Writable(T)
  BY DEF ArePromoted
<1>3. /\ IsTable(regions, Regions, RegionRow)
      /\ IsTable(provinces, Provinces, ProvinceRow)
      /\ IsTable(towns, Towns, TownRow)
  BY DEF AreTables
<1> HIDE DEF P, T
<1>4. RowsUpTo(regions', d) /\ Shows(regions', RegionsFor(s))
  BY <1>1, <1>2, <1>3, TableInOrder, RowSets
<1>5. OneEach(regions')
  BY <1>4 DEF Shows
<1>6. RowsUpTo(provinces', d) /\ Shows(provinces', P)
  BY <1>1, <1>2, <1>3, <1>5, TableInOrder, RowSets
<1>7. OneEach(provinces')
  BY <1>6 DEF Shows
<1>8. /\ RowsUpTo(towns', d) /\ Shows(towns', T)
      /\ \A k \in DOMAIN towns : towns[k] # None /\ towns'[k].to = Open =>
           k \in OpenRows(towns') /\ towns'[k] = towns[k]
  BY <1>1, <1>2, <1>3, <1>5, <1>7, TableInOrder, RowSets
<1>9. LastIsShown'
  BY <1>1, <1>4, <1>6, <1>8 DEF P, T, LastIsShown, WantedProvinces, WantedTowns
<1> QED
  BY <1>8, <1>9 DEF T

(* Promoting the last sheet once more.                                     *)
LEMMA RepeatStep ==
  ASSUME GeoInv, NEW s \in Sheets, NEW d \in Dates, Promoting(s, d),
         last # None, s = last.sheet, d = last.date,
         OneEach(regions), OneEach(provinces)
  PROVE  UNCHANGED tables /\ last' = last
<1>1. HistoryOK
  BY TypeByParts DEF GeoInv
<1>2. /\ Promoted(regions, RegionsFor(s), d) = regions
      /\ Promoted(provinces, WantedProvinces(s), d) = provinces
      /\ Promoted(towns, WantedTowns(s), d) = towns
  BY DEF GeoInv, LastIsDone
<1>3. regions' = regions
  BY <1>2 DEF Promoting
<1>4. provinces' = provinces
  BY <1>2, <1>3 DEF Promoting, WantedProvinces
<1>5. towns' = towns
  BY <1>2, <1>3, <1>4 DEF Promoting, WantedTowns
<1>6. last' = [sheet |-> s, date |-> d] /\ last \in Promotion
  BY <1>1 DEF Promoting, HistoryOK
<1>7. last' = last
  BY <1>6 DEF Promotion
<1> QED
  BY <1>3, <1>4, <1>5, <1>7 DEF tables

(* The promotions that leave orderly true.                                 *)
LEMMA InOrderStep ==
  ASSUME GeoInv, NEW s \in Sheets, NEW d \in Dates, Promoting(s, d), orderly'
  PROVE  \/ /\ OneEach(regions) /\ OneEach(provinces) /\ OneEach(towns)
            /\ OlderThan(regions, d) /\ OlderThan(provinces, d)
            /\ OlderThan(towns, d)
         \/ /\ UNCHANGED tables /\ last' = last
<1>1. AreTables /\ HistoryOK
  BY TypeByParts DEF GeoInv
<1>2. orderly /\ InOrder(s) /\ d = runs[s].date
  BY DEF Promoting
<1>3. CASE last = None
  <2>1. /\ \A k \in DOMAIN regions : regions[k] = None
        /\ \A k \in DOMAIN provinces : provinces[k] = None
        /\ \A k \in DOMAIN towns : towns[k] = None
    BY <1>1, <1>3 DEF GeoInv, NothingAtFirst, AreTables, IsTable
  <2>2. OpenRows(regions) = {} /\ OpenRows(provinces) = {} /\ OpenRows(towns) = {}
    BY <2>1 DEF OpenRows
  <2> QED
    BY <2>1, <2>2 DEF OneEach, OlderThan
<1>4. CASE last # None /\ d > last.date
  <2>1. last.date \in Nat /\ d \in Nat
    BY <1>1, <1>4 DEF HistoryOK, Promotion, Dates
  <2>2. /\ RowsUpTo(regions, last.date) /\ OneEach(regions)
        /\ RowsUpTo(provinces, last.date) /\ OneEach(provinces)
        /\ RowsUpTo(towns, last.date) /\ OneEach(towns)
    BY <1>2, <1>4 DEF GeoInv, LastIsShown, Shows
  <2>3. /\ \A k \in DOMAIN regions : k[2] \in Nat
        /\ \A k \in DOMAIN provinces : k[2] \in Nat
        /\ \A k \in DOMAIN towns : k[2] \in Nat
    BY <1>1 DEF AreTables, IsTable, Dates
  <2>4. OlderThan(regions, d)
    BY <1>4, <2>1, <2>2, <2>3 DEF RowsUpTo, OlderThan
  <2>5. OlderThan(provinces, d)
    BY <1>4, <2>1, <2>2, <2>3 DEF RowsUpTo, OlderThan
  <2>6. OlderThan(towns, d)
    BY <1>4, <2>1, <2>2, <2>3 DEF RowsUpTo, OlderThan
  <2> QED
    BY <2>2, <2>4, <2>5, <2>6
<1>5. CASE last # None /\ s = last.sheet /\ d = last.date
  <2>1. OneEach(regions) /\ OneEach(provinces)
    BY <1>2, <1>5 DEF GeoInv, LastIsShown, Shows
  <2> QED
    BY <1>5, <2>1, RepeatStep
<1> QED
  BY <1>2, <1>3, <1>4, <1>5 DEF InOrder

(* The place of a listing under a newer promotion.                         *)
LEMMA PlaceStays ==
  ASSUME GeoInv, NEW s \in Sheets, NEW d \in Dates,
         Promoting(s, d), ArePromoted(s), orderly',
         Shows(towns', TownsFor(s, Ids(provinces', Provinces),
                                Ids(regions', Regions))),
         \A k \in DOMAIN towns : towns[k] # None /\ towns'[k].to = Open =>
           k \in OpenRows(towns') /\ towns'[k] = towns[k]
  PROVE  PlaceStaysWhole'
<1> DEFINE m == place.town
           rids == Ids(regions', Regions)
           pids == Ids(provinces', Provinces)
<1> SUFFICES ASSUME place # None, towns'[m].to = Open
             PROVE  /\ towns'[m].province = place.province
                    /\ towns'[m].region = place.region
                    /\ m \in OpenRows(towns')
                    /\ provinces'[towns'[m].province].to = Open
                    /\ regions'[towns'[m].region].to = Open
  BY DEF PlaceStaysWhole, Pickable, Promoting
<1>1. orderly /\ Valid(s)
  BY DEF Promoting
<1>2. m \in DOMAIN towns /\ towns[m] # None
  BY TypeByParts DEF GeoInv, HistoryOK, Place, AreTables, IsTable, PlaceIsKnown
<1>3. m \in OpenRows(towns') /\ towns'[m] = towns[m]
  BY <1>2
<1>4. towns'[m].province = place.province /\ towns'[m].region = place.region
  BY <1>1, <1>3 DEF GeoInv, PlaceStaysWhole
<1>5. IsIds(rids, Regions) /\ \A c \in Regions : \A k \in rids[c] : k \in OpenRows(regions')
  BY IdsOfTable DEF ArePromoted
<1>6. /\ IsIds(pids, Provinces)
      /\ \A c \in Provinces : \A k \in pids[c] : k \in OpenRows(provinces')
  BY IdsOfTable DEF ArePromoted
<1> HIDE DEF rids, pids
<1>7. \A w \in TownsFor(s, pids, rids) :
        /\ \E c \in Provinces : w.row.province \in pids[c]
        /\ \E c \in Regions : w.row.region \in rids[c]
  BY <1>1, <1>5, <1>6, TownsWanted
<1>8. \E w \in TownsFor(s, pids, rids) : w.row = towns'[m]
  BY <1>3 DEF Shows, pids, rids
<1>9. towns'[m].province \in OpenRows(provinces') /\ towns'[m].region \in OpenRows(regions')
  BY <1>5, <1>6, <1>7, <1>8
<1> QED
  BY <1>3, <1>4, <1>9 DEF OpenRows

LEMMA PromoteKeepsInv ==
  ASSUME GeoInv, NEW s \in Sheets, Promote(s)
  PROVE  GeoInv'
<1>1. /\ RunsOK /\ AreTables /\ HaveParents /\ HistoryOK
      /\ EndsLater(regions) /\ EndsLater(provinces) /\ EndsLater(towns)
  BY TypeByParts DEF GeoInv
<1>2. PICK d \in Dates : Promoting(s, d)
  BY PromoteStep DEF GeoInv
<1>3. RunsOK' /\ Staged' = Staged
  BY PromoteStep DEF GeoInv
<1>4. ArePromoted(s)
  BY <1>1, <1>2, TablesPromoted
<1>5. AreTables'
  BY <1>4 DEF ArePromoted, AreTables
<1>6. HaveParents'
  BY <1>1, <1>2, <1>4, ParentsKept
<1>7. EndsLater(regions')
  BY <1>1, <1>2, <1>4, RowsEndLater, RowSets DEF Promoting, ArePromoted, AreTables
<1>8. EndsLater(provinces')
  BY <1>1, <1>2, <1>4, RowsEndLater, RowSets DEF Promoting, ArePromoted, AreTables
<1>9. EndsLater(towns')
  BY <1>1, <1>2, <1>4, RowsEndLater, RowSets DEF Promoting, ArePromoted, AreTables
<1>10. HistoryOK'
  <2>1. orderly \in BOOLEAN /\ place \in Place \cup {None}
    BY <1>1 DEF HistoryOK
  <2>2. orderly' \in BOOLEAN
    BY <1>2, <2>1, Zenon DEF Promoting
  <2> QED
    BY <1>2, <2>1, <2>2 DEF HistoryOK, Promoting
<1>11. TypeOK'
  BY <1>3, <1>5, <1>6, <1>7, <1>8, <1>9, <1>10, Zenon
     DEF TypeOK, RunsOK, AreTables, IsTable, HaveParents, EndsLater, HistoryOK
<1>12. SheetsAreValid'
  BY <1>2, <1>3 DEF GeoInv, SheetsAreValid, Promoting
<1>13. NothingAtFirst'
  BY <1>2 DEF NothingAtFirst, Promoting
<1>14. LastIsDone'
  BY <1>1, <1>2, <1>4, PromotionIsDone
<1>15. PlaceIsKnown'
  <2>1. \A k \in Towns \X Dates : towns[k] # None => towns'[k] # None
    BY <1>1, <1>2, <1>4, RowsAreKept, RowSets DEF Promoting, ArePromoted, AreTables
  <2>2. place' = place /\ (place # None => place.town \in Towns \X Dates)
    BY <1>1, <1>2 DEF Promoting, HistoryOK, Place
  <2> QED
    BY <2>1, <2>2 DEF GeoInv, PlaceIsKnown
<1>16. LastIsShown' /\ PlaceStaysWhole'
  <2>1. CASE ~orderly'
    BY <2>1 DEF LastIsShown, PlaceStaysWhole
  <2>2. CASE orderly' /\ UNCHANGED tables /\ last' = last
    <3>1. orderly /\ place' = place
      BY <1>2, <2>2 DEF Promoting
    <3>2. regions' = regions /\ provinces' = provinces /\ towns' = towns
      BY <2>2 DEF tables
    <3>3. LastIsShown'
      BY <2>2, <3>1, <3>2 DEF GeoInv, LastIsShown, WantedProvinces, WantedTowns
    <3>4. PlaceStaysWhole'
      BY <2>2, <3>1, <3>2 DEF GeoInv, PlaceStaysWhole, Pickable
    <3> QED
      BY <3>3, <3>4
  <2>3. CASE /\ orderly'
             /\ OneEach(regions) /\ OneEach(provinces) /\ OneEach(towns)
             /\ OlderThan(regions, d) /\ OlderThan(provinces, d)
             /\ OlderThan(towns, d)
    BY <1>1, <1>2, <1>4, <2>3, NewerIsShown, PlaceStays
  <2> QED
    BY <1>2, <2>1, <2>2, <2>3, InOrderStep
<1> QED
  BY <1>11, <1>12, <1>13, <1>14, <1>15, <1>16 DEF GeoInv

(* The other steps leave the tables alone.                                 *)
LEMMA OthersKeepInv ==
  ASSUME GeoInv,
         \/ NextDay \/ (\E s \in Sheets : Stage(s))
         \/ (\E m \in Towns \X Dates : PickPlace(m)) \/ UNCHANGED vars
  PROVE  GeoInv'
<1>1. /\ RunsOK /\ AreTables /\ HaveParents /\ HistoryOK
      /\ EndsLater(regions) /\ EndsLater(provinces) /\ EndsLater(towns)
  BY TypeByParts DEF GeoInv
<1>2. /\ regions' = regions /\ provinces' = provinces /\ towns' = towns
      /\ last' = last /\ orderly' = orderly
  BY DEF NextDay, Stage, PickPlace, vars, tables
<1>3. /\ AreTables' /\ HaveParents'
      /\ EndsLater(regions') /\ EndsLater(provinces') /\ EndsLater(towns')
  BY <1>1, <1>2 DEF AreTables, HaveParents
<1>4. /\ LastIsDone' /\ LastIsShown'
  BY <1>2 DEF GeoInv, LastIsDone, LastIsShown, WantedProvinces, WantedTowns
<1>5. RunsOK' /\ SheetsAreValid'
  <2>1. CASE NextDay
    <3>1. today' \in Dates
      BY <1>1, <2>1, GeoAssumption DEF NextDay, RunsOK, Dates
    <3>2. runs' = runs /\ before' = before
      BY <2>1 DEF NextDay
    <3> QED
      BY <1>1, <1>2, <3>1, <3>2 DEF GeoInv, RunsOK, SheetsAreValid, Staged
  <2>2. ASSUME NEW s \in Sheets, Stage(s)
        PROVE  RunsOK' /\ SheetsAreValid'
    <3>1. RunsOK' /\ Staged' = Staged \cup {s}
      BY <1>1, <2>2, StageStep
    <3>2. Valid(s)
      BY <2>2 DEF Stage
    <3> QED
      BY <1>2, <3>1, <3>2 DEF GeoInv, SheetsAreValid
  <2>3. CASE (\E m \in Towns \X Dates : PickPlace(m)) \/ UNCHANGED vars
    <3>1. today' = today /\ runs' = runs /\ before' = before
      BY <2>3 DEF PickPlace, vars
    <3> QED
      BY <1>1, <1>2, <3>1 DEF GeoInv, RunsOK, SheetsAreValid, Staged
  <2> QED
    BY <2>1, <2>2, <2>3
<1>6. ASSUME NEW m \in Towns \X Dates, PickPlace(m)
      PROVE  HistoryOK' /\ NothingAtFirst' /\ PlaceIsKnown' /\ PlaceStaysWhole'
  <2>1. Pickable(m) /\ place' = [town |-> m, province |-> towns[m].province,
                                 region |-> towns[m].region]
    BY <1>6 DEF PickPlace
  <2>2. m \in OpenRows(towns) /\ towns[m] # None /\ towns[m] \in TownRow
    BY <1>1, <2>1 DEF Pickable, OpenRows, AreTables, IsTable
  <2>3. place' \in Place
    BY <2>1, <2>2 DEF Place, TownRow
  <2>4. HistoryOK'
    BY <1>1, <1>2, <2>3 DEF HistoryOK
  <2>5. last # None
    BY <2>2 DEF GeoInv, NothingAtFirst
  <2>6. PlaceIsKnown' /\ PlaceStaysWhole'
    BY <1>2, <2>1, <2>2 DEF PlaceIsKnown, PlaceStaysWhole, Pickable
  <2> QED
    BY <1>2, <2>4, <2>5, <2>6 DEF NothingAtFirst
<1>7. ASSUME place' = place
      PROVE  HistoryOK' /\ NothingAtFirst' /\ PlaceIsKnown' /\ PlaceStaysWhole'
  <2>1. HistoryOK' /\ NothingAtFirst' /\ PlaceIsKnown'
    BY <1>1, <1>2, <1>7 DEF GeoInv, HistoryOK, NothingAtFirst, PlaceIsKnown
  <2>2. PlaceStaysWhole'
    BY <1>2, <1>7 DEF GeoInv, PlaceStaysWhole, Pickable
  <2> QED
    BY <2>1, <2>2
<1>8. HistoryOK' /\ NothingAtFirst' /\ PlaceIsKnown' /\ PlaceStaysWhole'
  <2>1. CASE NextDay \/ (\E s \in Sheets : Stage(s)) \/ UNCHANGED vars
    <3>1. place' = place
      BY <2>1 DEF NextDay, Stage, vars
    <3> QED
      BY <1>7, <3>1
  <2> QED
    BY <1>6, <2>1
<1>9. TypeOK'
  BY <1>3, <1>5, <1>8, Zenon
     DEF TypeOK, RunsOK, AreTables, IsTable, HaveParents, EndsLater, HistoryOK
<1> QED
  BY <1>4, <1>5, <1>8, <1>9 DEF GeoInv

LEMMA InitHasInv == Init => GeoInv
<1> SUFFICES ASSUME Init
             PROVE  GeoInv
  OBVIOUS
<1>1. Staged = {}
  BY DEF Init, Staged
<1>2. RunsOK
  <2>1. today \in Dates
    BY GeoAssumption DEF Init, Dates
  <2> QED
    BY <1>1, <2>1 DEF Init, RunsOK
<1>3. AreTables
  BY DEF Init, AreTables, IsTable
<1>4. /\ \A k \in DOMAIN regions : regions[k] = None
      /\ \A k \in DOMAIN provinces : provinces[k] = None
      /\ \A k \in DOMAIN towns : towns[k] = None
  BY DEF Init
<1>5. HaveParents /\ EndsLater(regions) /\ EndsLater(provinces) /\ EndsLater(towns)
  BY <1>4 DEF HaveParents, EndsLater
<1>6. HistoryOK
  BY DEF Init, HistoryOK
<1>7. TypeOK
  BY <1>2, <1>3, <1>5, <1>6, TypeByParts
<1>8. SheetsAreValid
  BY <1>1 DEF Init, SheetsAreValid
<1>9. NothingAtFirst /\ LastIsDone /\ LastIsShown /\ PlaceIsKnown /\ PlaceStaysWhole
  BY DEF Init, NothingAtFirst, LastIsDone, LastIsShown, PlaceIsKnown,
         PlaceStaysWhole
<1> QED
  BY <1>7, <1>8, <1>9 DEF GeoInv

LEMMA StepKeepsInv == GeoInv /\ [Next]_vars => GeoInv'
<1> SUFFICES ASSUME GeoInv, [Next]_vars
             PROVE  GeoInv'
  OBVIOUS
<1>1. CASE \E s \in Sheets : Promote(s)
  BY <1>1, PromoteKeepsInv
<1>2. CASE \/ NextDay \/ (\E s \in Sheets : Stage(s))
           \/ (\E m \in Towns \X Dates : PickPlace(m)) \/ UNCHANGED vars
  BY <1>2, OthersKeepInv
<1> QED
  BY <1>1, <1>2 DEF Next, PromoteDefault, PromoteNamed

LEMMA InvHolds == Spec => []GeoInv
BY InitHasInv, StepKeepsInv, PTL DEF Spec

(* In every state the tables hold rows of their kind, every province and   *)
(* town refers to rows that are there, no row was closed at or before its  *)
(* first day (replaceRegions and its siblings close only rows that began   *)
(* before the date of the sheet), and the runs are in one order.           *)
THEOREM GeoTypeCorrect == Spec => []TypeOK
<1>1. GeoInv => TypeOK
  BY DEF GeoInv
<1> QED
  BY <1>1, InvHolds, PTL

(* While promotions are in order, a town that was picked for a listing and *)
(* is still open lies in the province and region that were stored with it, *)
(* and they are open.                                                      *)
THEOREM PlacesStayWhole == Spec => []PlaceStaysWhole
<1>1. GeoInv => PlaceStaysWhole
  BY DEF GeoInv
<1> QED
  BY <1>1, InvHolds, PTL

(* Repeating a promotion of the same sheet and date changes no row, after  *)
(* any promotions in any order, if no region or province has two open rows.*)
THEOREM RepeatsChangeNothing == Spec => RepeatChangesNothing
<1>1. ASSUME GeoInv, Next, last' = last, OneEach(regions), OneEach(provinces)
      PROVE  UNCHANGED tables
  <2>1. CASE \E s \in Sheets : Promote(s)
    <3>1. PICK s \in Sheets : Promote(s)
      BY <2>1
    <3>2. PICK d \in Dates : Promoting(s, d)
      BY <1>1, <3>1, PromoteStep DEF GeoInv
    <3>3. last # None /\ last.sheet = s /\ last.date = d
      BY <1>1, <3>2 DEF Promoting
    <3> QED
      BY <1>1, <3>2, <3>3, RepeatStep
  <2>2. CASE \/ NextDay \/ (\E s \in Sheets : Stage(s))
             \/ (\E m \in Towns \X Dates : PickPlace(m))
    BY <2>2 DEF NextDay, Stage, PickPlace
  <2> QED
    BY <1>1, <2>1, <2>2 DEF Next, PromoteDefault, PromoteNamed
<1>2. GeoInv /\ [Next]_vars =>
        [last' = last /\ OneEach(regions) /\ OneEach(provinces)
           => UNCHANGED tables]_vars
  BY <1>1
<1> QED
  BY <1>2, InvHolds, PTL DEF Spec, RepeatChangesNothing

-----------------------------------------------------------------------------
(***************************************************************************)
(* Counting.                                                               *)
(***************************************************************************)
(* Rows with different codes, each the code of a line, are no more than    *)
(* the lines, and as many if every line has a row.                         *)
LEMMA RowsOfLines ==
  ASSUME NEW W, NEW S, IsFiniteSet(S), NEW g, Writable(W),
         \A w \in W : \E i \in S : w.code = g[i]
  PROVE  /\ IsFiniteSet(W)
         /\ (\A i, j \in S : g[i] = g[j] => i = j)
              /\ (\A i \in S : \E w \in W : w.code = g[i])
            => Cardinality(W) = Cardinality(S)
<1> DEFINE f == [w \in W |-> CHOOSE i \in S : w.code = g[i]]
<1>1. \A w \in W : f[w] \in S /\ w.code = g[f[w]]
  OBVIOUS
<1>2. f \in [W -> S]
  BY <1>1
<1>3. \A v, w \in W : f[v] = f[w] => v = w
  BY <1>1 DEF Writable
<1> HIDE DEF f
<1>4. f \in Injection(W, S)
  BY <1>2, <1>3 DEF Injection, IsInjective
<1>5. /\ IsFiniteSet(W)
      /\ Cardinality(W) = Cardinality(S) <=> f \in Surjection(W, S)
  BY <1>4, FS_Injection
<1>6. ASSUME \A i, j \in S : g[i] = g[j] => i = j,
             \A i \in S : \E w \in W : w.code = g[i]
      PROVE  f \in Surjection(W, S)
  <2>1. \A i \in S : \E w \in W : f[w] = i
    BY <1>1, <1>6
  <2> QED
    BY <1>2, <2>1 DEF Surjection
<1> QED
  BY <1>5, <1>6

(* As many rows are wanted as a sheet has lines, at most.                  *)
LEMMA WantedAreFinite ==
  ASSUME NEW s \in Sheets, Valid(s),
         NEW pids, IsIds(pids, Provinces), NEW rids, IsIds(rids, Regions)
  PROVE  /\ IsFiniteSet(RegionsFor(s))
         /\ Writable(ProvincesFor(s, rids)) => IsFiniteSet(ProvincesFor(s, rids))
         /\ Writable(TownsFor(s, pids, rids)) => IsFiniteSet(TownsFor(s, pids, rids))
<1>1. IsFiniteSet(DOMAIN s)
  BY LinesOfSheet
<1>2. IsFiniteSet(RegionsFor(s))
  <2> DEFINE g == [i \in DOMAIN s |-> s[i].region]
  <2>1. /\ Writable(RegionsFor(s))
        /\ \A w \in RegionsFor(s) : \E i \in DOMAIN s : w.code = s[i].region
    BY RegionsWanted
  <2>2. \A w \in RegionsFor(s) : \E i \in DOMAIN s : w.code = g[i]
    BY <2>1
  <2> HIDE DEF g
  <2> QED
    BY <1>1, <2>1, <2>2, RowsOfLines
<1> DEFINE P == ProvincesFor(s, rids)
           T == TownsFor(s, pids, rids)
<1>3. ASSUME Writable(P)
      PROVE  IsFiniteSet(P)
  <2> DEFINE g == [i \in DOMAIN s |-> s[i].province]
  <2>1. \A w \in P : \E i \in KeptLines(s) : w.code = s[i].province
    BY ProvincesWanted
  <2>2. \A w \in P : \E i \in DOMAIN s : w.code = g[i]
    BY <2>1 DEF KeptLines
  <2> HIDE DEF g, P
  <2> QED
    BY <1>1, <1>3, <2>2, RowsOfLines
<1>4. ASSUME Writable(T)
      PROVE  IsFiniteSet(T)
  <2> DEFINE g == [i \in DOMAIN s |-> s[i].town]
  <2>1. \A w \in T : \E i \in DOMAIN s : w.code = s[i].town
    BY TownsWanted
  <2>2. \A w \in T : \E i \in DOMAIN s : w.code = g[i]
    BY <2>1
  <2> HIDE DEF g, T
  <2> QED
    BY <1>1, <1>4, <2>2, RowsOfLines
<1> QED
  BY <1>2, <1>3, <1>4

(* A table that shows what is wanted has as many open rows.                *)
LEMMA ShownAreAsMany ==
  ASSUME NEW t, NEW C, NEW R, NEW W, IsTable(t, C, R), IsWanted(W, C, R),
         Shows(t, W), IsFiniteSet(W)
  PROVE  IsFiniteSet(OpenRows(t)) /\ Cardinality(OpenRows(t)) = Cardinality(W)
<1> DEFINE f == [w \in W |-> CHOOSE k \in OpenRows(t) : k[1] = w.code /\ t[k] = w.row]
<1>1. \A w \in W : f[w] \in OpenRows(t) /\ f[w][1] = w.code /\ t[f[w]] = w.row
  BY DEF Shows
<1>2. f \in [W -> OpenRows(t)]
  BY <1>1
<1> HIDE DEF f
<1>3. \A v, w \in W : f[v] = f[w] => v = w
  BY <1>1 DEF Shows, Writable
<1>4. \A k \in OpenRows(t) : \E w \in W : f[w] = k
  BY <1>1 DEF Shows, OneEach
<1>5. f \in Injection(W, OpenRows(t))
  BY <1>2, <1>3 DEF Injection, IsInjective
<1>6. f \in Surjection(W, OpenRows(t))
  BY <1>2, <1>4 DEF Surjection
<1>7. ExistsBijection(W, OpenRows(t))
  BY <1>5, <1>6 DEF ExistsBijection, Bijection
<1> QED
  BY <1>7, FS_Bijection

(* The parents that a line of a sheet names are open where it is shown.    *)
LEMMA ParentsAreOpen ==
  ASSUME NEW rs, NEW ps, IsTable(rs, Regions, RegionRow),
         IsTable(ps, Provinces, ProvinceRow),
         NEW s \in Sheets, Valid(s), Shows(rs, RegionsFor(s))
  PROVE  \A i \in DOMAIN s :
           /\ Ids(rs, Regions)[s[i].region] # {}
           /\ Shows(ps, ProvincesFor(s, Ids(rs, Regions))) =>
                Ids(ps, Provinces)[s[i].province] # {}
<1> DEFINE rids == Ids(rs, Regions)
           pids == Ids(ps, Provinces)
<1>1. /\ IsIds(rids, Regions)
      /\ \A k \in OpenRows(rs) : k \in rids[k[1]]
  BY IdsOfTable
<1>2. /\ IsIds(pids, Provinces)
      /\ \A k \in OpenRows(ps) : k \in pids[k[1]]
  BY IdsOfTable
<1> HIDE DEF rids, pids
<1>3. ASSUME NEW i \in DOMAIN s
      PROVE  rids[s[i].region] # {}
  <2> DEFINE w == [code |-> s[i].region,
                   row |-> [name |-> s[i].regionName, to |-> Open]]
             r == [code |-> s[i].region, name |-> s[i].regionName]
  <2>1. r \in StagedRegions(s)
    BY DEF StagedRegions
  <2>2. w = [code |-> r.code, row |-> [name |-> r.name, to |-> Open]]
    OBVIOUS
  <2>3. w \in RegionsFor(s)
    BY <2>1, <2>2 DEF RegionsFor
  <2>4. \E k \in OpenRows(rs) : k[1] = w.code
    BY <2>3 DEF Shows
  <2> QED
    BY <1>1, <2>4
<1>4. ASSUME NEW i \in DOMAIN s, Shows(ps, ProvincesFor(s, rids))
      PROVE  pids[s[i].province] # {}
  <2>1. PICK j \in KeptLines(s) : s[j].province = s[i].province
    BY ProvinceIsKept
  <2>2. j \in DOMAIN s
    BY DEF KeptLines
  <2>3. PICK k \in rids[s[j].region] : TRUE
    BY <1>3, <2>2
  <2> DEFINE p == [code |-> s[j].province, name |-> s[j].provinceName,
                   region |-> s[j].region]
             w == [code |-> p.code,
                   row |-> [name |-> p.name, region |-> k, to |-> Open]]
             Rows(q) == {[code |-> q.code,
                          row |-> [name |-> q.name, region |-> l, to |-> Open]]
                          : l \in rids[q.region]}
  <2>4. p \in StagedProvinces(s)
    BY DEF StagedProvinces
  <2>5. k \in rids[p.region] /\ w.code = s[j].province
    BY <2>3
  <2> HIDE DEF p
  <2>6. w \in Rows(p)
    BY <2>5
  <2>7. ProvincesFor(s, rids) = UNION {Rows(q) : q \in StagedProvinces(s)}
    BY DEF ProvincesFor
  <2> HIDE DEF w, Rows
  <2>8. w \in ProvincesFor(s, rids)
    BY <2>4, <2>6, <2>7
  <2>9. \E l \in OpenRows(ps) : l[1] = s[i].province
    BY <1>4, <2>1, <2>5, <2>8 DEF Shows
  <2> QED
    BY <1>2, <2>9
<1> QED
  BY <1>3, <1>4 DEF rids, pids

(* Every line of a sheet that is shown has a town with parents.            *)
LEMMA LinesHaveTowns ==
  ASSUME AreTables, NEW s \in Sheets, Valid(s),
         Shows(regions, RegionsFor(s)), Shows(provinces, WantedProvinces(s))
  PROVE  \A i \in DOMAIN s : \E w \in WantedTowns(s) : w.code = s[i].town
<1> DEFINE rids == Ids(regions, Regions)
           pids == Ids(provinces, Provinces)
<1>1. IsIds(rids, Regions) /\ IsIds(pids, Provinces)
  BY IdsOfTable DEF AreTables
<1>2. \A i \in DOMAIN s : rids[s[i].region] # {} /\ pids[s[i].province] # {}
  BY ParentsAreOpen DEF AreTables, WantedProvinces
<1> HIDE DEF rids, pids
<1>3. \A i \in DOMAIN s :
        pids[s[i].province] # {} /\ rids[s[i].region] # {} =>
          \E w \in TownsFor(s, pids, rids) : w.code = s[i].town
  BY <1>1, TownsWanted
<1> QED
  BY <1>2, <1>3 DEF WantedTowns, pids, rids

LEMMA ShownIsExact ==
  ASSUME GeoInv
  PROVE  CurrentIsLastPromoted
<1> SUFFICES ASSUME orderly, last # None
             PROVE  CurrentIsLastPromoted
  BY DEF CurrentIsLastPromoted
<1>1. AreTables /\ HistoryOK
  BY TypeByParts DEF GeoInv
<1>2. PICK s \in Sheets : s = last.sheet
  BY <1>1 DEF HistoryOK, Promotion
<1>3. Valid(s)
  BY <1>2 DEF GeoInv, SheetsAreValid
<1> DEFINE P == WantedProvinces(s)
           T == WantedTowns(s)
           rids == Ids(regions, Regions)
           pids == Ids(provinces, Provinces)
<1>4. Shows(regions, RegionsFor(s)) /\ Shows(provinces, P) /\ Shows(towns, T)
  BY <1>2 DEF GeoInv, LastIsShown
<1>5. IsIds(rids, Regions) /\ IsIds(pids, Provinces)
  BY <1>1, IdsOfTable DEF AreTables
<1>6. /\ IsWanted(RegionsFor(s), Regions, RegionRow)
      /\ \A w \in RegionsFor(s) : \E i \in DOMAIN s : w.code = s[i].region
  BY <1>3, RegionsWanted
<1>7. /\ IsWanted(P, Provinces, ProvinceRow)
      /\ \A w \in P : \E i \in KeptLines(s) : w.code = s[i].province
  BY <1>3, <1>5, ProvincesWanted DEF WantedProvinces
<1>8. /\ IsWanted(T, Towns, TownRow)
      /\ \A w \in T : \E i \in DOMAIN s : w.code = s[i].town
  BY <1>3, <1>5, TownsWanted DEF WantedTowns
<1>9. IsFiniteSet(DOMAIN s) /\ Cardinality(DOMAIN s) = Len(s)
  BY LinesOfSheet
<1>10. IsFiniteSet(RegionsFor(s))
  BY <1>3, <1>5, WantedAreFinite
<1>11. IsFiniteSet(P)
  BY <1>3, <1>4, <1>5, WantedAreFinite DEF Shows, WantedProvinces
<1>12. IsFiniteSet(T) /\ Cardinality(T) = Len(s)
  <2> DEFINE g == [i \in DOMAIN s |-> s[i].town]
  <2>1. \A w \in T : \E i \in DOMAIN s : w.code = g[i]
    BY <1>8
  <2>2. \A i \in DOMAIN s : \E w \in T : w.code = g[i]
    BY <1>1, <1>3, <1>4, LinesHaveTowns
  <2>3. \A i, j \in DOMAIN s : g[i] = g[j] => i = j
    <3>1. \A i, j \in DOMAIN s : s[i].town = s[j].town => i = j
      BY <1>3 DEF Valid
    <3> QED
      BY <3>1
  <2> HIDE DEF g
  <2>4. /\ IsFiniteSet(T)
        /\ (\A i, j \in DOMAIN s : g[i] = g[j] => i = j)
             /\ (\A i \in DOMAIN s : \E w \in T : w.code = g[i])
           => Cardinality(T) = Cardinality(DOMAIN s)
    <3>1. Writable(T)
      BY <1>4 DEF Shows
    <3> HIDE DEF T
    <3> QED
      BY <1>9, <2>1, <3>1, RowsOfLines
  <2> QED
    BY <1>9, <2>2, <2>3, <2>4
<1>13. /\ Cardinality(OpenRows(regions)) = Cardinality(RegionsFor(s))
       /\ Cardinality(OpenRows(provinces)) = Cardinality(P)
       /\ Cardinality(OpenRows(towns)) = Cardinality(T)
  <2>1. Cardinality(OpenRows(regions)) = Cardinality(RegionsFor(s))
    BY <1>1, <1>4, <1>6, <1>10, ShownAreAsMany DEF AreTables
  <2>2. Cardinality(OpenRows(provinces)) = Cardinality(P)
    BY <1>1, <1>4, <1>7, <1>11, ShownAreAsMany DEF AreTables
  <2>3. Cardinality(OpenRows(towns)) = Cardinality(T)
    BY <1>1, <1>4, <1>8, <1>12, ShownAreAsMany DEF AreTables
  <2> QED
    BY <2>1, <2>2, <2>3
<1>14. /\ \A w \in RegionsFor(s) : \E k \in OpenRows(regions) :
            k[1] = w.code /\ regions[k] = w.row
       /\ \A w \in P : \E k \in OpenRows(provinces) :
            k[1] = w.code /\ provinces[k] = w.row
       /\ \A w \in T : \E k \in OpenRows(towns) :
            k[1] = w.code /\ towns[k] = w.row
  BY <1>4 DEF Shows
<1>15. /\ P = ProvincesFor(s, rids) /\ T = TownsFor(s, pids, rids)
  BY DEF WantedProvinces, WantedTowns
<1> HIDE DEF P, T, rids, pids
<1> QED
  BY <1>2, <1>12, <1>13, <1>14, <1>15 DEF CurrentIsLastPromoted, rids, pids

(* While promotions are in order the open rows are exactly the lines of    *)
(* the sheet that was promoted last, one row for each code, under the open *)
(* rows of its parents: nothing is missing, doubled or left over.          *)
THEOREM CurrentIsLast == Spec => []CurrentIsLastPromoted
<1>1. GeoInv => CurrentIsLastPromoted
  BY ShownIsExact
<1> QED
  BY <1>1, InvHolds, PTL

-----------------------------------------------------------------------------
(***************************************************************************)
(* What is announced is what is done.                                      *)
(***************************************************************************)
(* What is announced is what there is to insert and to close.              *)
LEMMA AnnouncedByRow ==
  ASSUME NEW t, NEW W, NEW d, Writable(W), \A k \in OpenRows(t) : k[2] < d,
         IsFiniteSet(OpenRows(t))
  PROVE  Announced(t, W, d) = [inserted |-> Cardinality(Unmatched(t, W)),
                               closed |-> Cardinality(Outdated(t, W, d))]
<1> DEFINE O == Outdated(t, W, d)
           older == {k \in OpenRows(t) : k[2] < d}
           gone == {k \in older : \A w \in W : w.code # k[1]}
           changed == {p \in older \X W : p[2].code = p[1][1] /\ p[2].row # t[p[1]]}
           renamed == {k \in older : \E w \in W : w.code = k[1] /\ w.row # t[k]}
<1>1. O = gone \cup renamed /\ gone \cap renamed = {}
  BY DEF O, Outdated
<1>2. IsFiniteSet(gone) /\ IsFiniteSet(renamed)
  <2>1. gone \subseteq OpenRows(t) /\ renamed \subseteq OpenRows(t)
    OBVIOUS
  <2> QED
    BY <2>1, FS_Subset
<1>3. Cardinality(changed) = Cardinality(renamed)
  <2> DEFINE f == [k \in renamed |->
                     <<k, CHOOSE w \in W : w.code = k[1] /\ w.row # t[k]>>]
  <2>1. ASSUME NEW k \in renamed
        PROVE  f[k] \in changed /\ f[k][1] = k
    <3>1. PICK w \in W : w = (CHOOSE v \in W : v.code = k[1] /\ v.row # t[k])
                         /\ w.code = k[1] /\ w.row # t[k]
      OBVIOUS
    <3>2. f[k] = <<k, w>>
      BY <3>1
    <3> QED
      BY <3>1, <3>2
  <2>2. ASSUME NEW p \in changed
        PROVE  \E k \in renamed : f[k] = p
    <3>1. PICK k \in older, w \in W : p = <<k, w>> /\ w.code = k[1] /\ w.row # t[k]
      OBVIOUS
    <3>2. k \in renamed
      BY <3>1
    <3>3. f[k][2] \in W /\ f[k][2].code = k[1] /\ f[k] = <<k, f[k][2]>>
      BY <3>2, <3>1
    <3>4. f[k][2] = w
      BY <3>1, <3>3 DEF Writable
    <3> QED
      BY <3>1, <3>2, <3>3, <3>4
  <2>3. f \in [renamed -> changed]
    BY <2>1
  <2>4. \A j, k \in renamed : f[j] = f[k] => j = k
    BY <2>1
  <2> HIDE DEF f, renamed, changed
  <2>5. f \in Injection(renamed, changed)
    BY <2>3, <2>4 DEF Injection, IsInjective
  <2>6. f \in Surjection(renamed, changed)
    BY <2>2, <2>3 DEF Surjection
  <2>7. ExistsBijection(renamed, changed)
    BY <2>5, <2>6 DEF ExistsBijection, Bijection
  <2> QED
    BY <1>2, <2>7, FS_Bijection
<1>4. Cardinality(O) = Cardinality(gone) + Cardinality(renamed)
  <2> HIDE DEF gone, renamed
  <2>1. Cardinality(gone \cup renamed)
          = Cardinality(gone) + Cardinality(renamed) - Cardinality(gone \cap renamed)
    BY <1>2, FS_Union
  <2>2. Cardinality(gone) \in Nat /\ Cardinality(renamed) \in Nat
    BY <1>2, FS_CardinalityType
  <2>3. Cardinality(gone \cap renamed) = 0
    BY <1>1, FS_EmptySet
  <2> QED
    BY <1>1, <2>1, <2>2, <2>3
<1>5. Announced(t, W, d) =
        [inserted |-> Cardinality(Unmatched(t, W)),
         closed |-> Cardinality(gone) + Cardinality(changed)]
  BY DEF Announced
<1> HIDE DEF gone, changed, renamed, O
<1>6. Announced(t, W, d) = [inserted |-> Cardinality(Unmatched(t, W)),
                            closed |-> Cardinality(O)]
  BY <1>3, <1>4, <1>5
<1> QED
  BY <1>6 DEF O

(* What a promotion does to a table is what would be announced with the    *)
(* ids that the parents now have.                                          *)
LEMMA TableAnnounced ==
  ASSUME NEW C, NEW R, NEW t, NEW W, NEW d \in Dates,
         IsRows(R), IsTable(t, C, R), IsWanted(W, C, R), Writable(W),
         OneEach(t), OlderThan(t, d), IsFiniteSet(W), IsFiniteSet(OpenRows(t))
  PROVE  Announced(t, W, d) = Done(t, Promoted(t, W, d))
<1> DEFINE n == Promoted(t, W, d)
           m == Remaining(t, W, d)
           O == Outdated(t, W, d)
           U == Opened(t, W, d)
           new == {k \in OpenRows(n) : t[k] # n[k]}
<1>1. RowsPromoted(C, R, t, W, d)
  BY PromotedRows
<1>2. /\ DOMAIN t = C \X Dates /\ DOMAIN m = C \X Dates /\ DOMAIN n = C \X Dates
      /\ \A k \in OpenRows(t) : k \in C \X Dates /\ k[2] < d
  BY <1>1 DEF RowsPromoted, IsTable, OpenRows, OlderThan
<1>3. d # Open
  BY DEF Open, Dates
<1>4. O \subseteq OpenRows(t)
  BY DEF Outdated
<1>5. \A k \in C \X Dates : /\ k \in O => m[k].to = d
                            /\ k \notin O => m[k] = t[k]
                            /\ k \notin Renewed(t, W, d) => n[k] = m[k]
                            /\ k \in Renewed(t, W, d) =>
                                 \E w \in U : w.code = k[1] /\ n[k] = w.row
  BY <1>1 DEF RowsPromoted
<1> HIDE DEF n, m, O, U
<1>6. ASSUME NEW w \in W
      PROVE  (\E k \in OpenRowsOf(t, w.code) : t[k] = w.row) <=>
               \E k \in OpenRowsOf(m, w.code) : m[k] = w.row
  <2>1. ASSUME NEW k \in OpenRowsOf(t, w.code), t[k] = w.row
        PROVE  k \in OpenRowsOf(m, w.code) /\ m[k] = w.row
    <3>1. k \in OpenRows(t) /\ k[1] = w.code
      BY DEF OpenRowsOf
    <3>2. k \notin O
      BY <2>1, <3>1 DEF O, Outdated, Writable
    <3>3. m[k] = t[k]
      BY <1>2, <1>5, <3>1, <3>2
    <3> QED
      BY <1>2, <2>1, <3>1, <3>3 DEF OpenRowsOf, OpenRows
  <2>2. ASSUME NEW k \in OpenRowsOf(m, w.code), m[k] = w.row
        PROVE  k \in OpenRowsOf(t, w.code) /\ t[k] = w.row
    <3>1. k \in C \X Dates /\ m[k] # None /\ m[k].to = Open /\ k[1] = w.code
      BY <1>2 DEF OpenRowsOf, OpenRows
    <3>2. m[k] = t[k]
      BY <1>3, <1>5, <3>1
    <3> QED
      BY <1>2, <2>2, <3>1, <3>2 DEF OpenRowsOf, OpenRows
  <2> QED
    BY <2>1, <2>2
<1>7. Unmatched(t, W) = U
  BY <1>6 DEF Unmatched, U, m, Opened
<1>8. U \subseteq W
  BY DEF U, Opened, Unmatched
<1>9. \A w \in U : w.code \in C /\ w.row.to = Open /\ w.row # None
  BY <1>8 DEF IsWanted, IsRows
<1>10. Cardinality(new) = Cardinality(U)
  <2> DEFINE g == [w \in U |-> <<w.code, d>>]
  <2>1. ASSUME NEW w \in U
        PROVE  g[w] \in new
    <3> DEFINE k == <<w.code, d>>
    <3>1. k \in C \X Dates /\ k[1] = w.code /\ k[2] = d
      BY <1>9
    <3>2. k \in Renewed(t, W, d)
      BY <1>2, <3>1 DEF Renewed, U
    <3>3. n[k] # None /\ n[k].to = Open
      BY <1>5, <1>9, <3>1, <3>2
    <3>4. t[k] = None
      BY <1>2, <3>1 DEF OlderThan, Dates
    <3> QED
      BY <1>2, <3>1, <3>3, <3>4 DEF OpenRows
  <2>2. ASSUME NEW k \in new
        PROVE  \E w \in U : g[w] = k
    <3>1. k \in OpenRows(n) /\ t[k] # n[k]
      OBVIOUS
    <3>2. k \in C \X Dates /\ IsOpenAfter(k, t, W, d)
      BY <3>1, OpenAfter DEF n
    <3>3. k[2] = d /\ \E w \in U : w.code = k[1]
      BY <3>1, <3>2 DEF IsOpenAfter, U, n
    <3>4. k = <<k[1], k[2]>>
      BY <3>2
    <3> QED
      BY <3>3, <3>4
  <2>3. \A v, w \in U : g[v] = g[w] => v = w
    BY <1>8 DEF Writable
  <2>4. g \in [U -> new]
    BY <2>1
  <2> HIDE DEF g, new
  <2>5. g \in Injection(U, new)
    BY <2>3, <2>4 DEF Injection, IsInjective
  <2>6. g \in Surjection(U, new)
    BY <2>2, <2>4 DEF Surjection
  <2>7. ExistsBijection(U, new)
    BY <2>5, <2>6 DEF ExistsBijection, Bijection
  <2>8. IsFiniteSet(U)
    BY <1>8, FS_Subset
  <2> QED
    BY <2>7, <2>8, FS_Bijection
<1>11. OpenRows(t) \ OpenRows(n) = O
  <2>1. ASSUME NEW k \in OpenRows(t)
        PROVE  k \in O <=> k \notin OpenRows(n)
    <3>1. k \in C \X Dates /\ k[2] < d
      BY <1>2
    <3>2. k[2] # d
      BY <3>1 DEF Dates
    <3>3. n[k] = m[k]
      BY <1>5, <3>1, <3>2 DEF Renewed
    <3>4. CASE k \in O
      BY <1>3, <1>5, <3>1, <3>3, <3>4 DEF OpenRows
    <3>5. CASE k \notin O
      BY <1>2, <1>5, <3>1, <3>3, <3>5 DEF OpenRows
    <3> QED
      BY <3>4, <3>5
  <2> QED
    BY <1>4, <2>1
<1>12. Announced(t, W, d) = [inserted |-> Cardinality(Unmatched(t, W)),
                             closed |-> Cardinality(O)]
  BY <1>2, AnnouncedByRow DEF O
<1>13. Done(t, n) = [inserted |-> Cardinality(new),
                     closed |-> Cardinality(OpenRows(t) \ OpenRows(n))]
  BY DEF Done
<1> HIDE DEF new
<1>14. Announced(t, W, d) = Done(t, n)
  BY <1>7, <1>10, <1>11, <1>12, <1>13
<1> QED
  BY <1>14 DEF n

(* The rows that stay are counted neither as inserted nor as closed.       *)
LEMMA AnnouncedCounts ==
  ASSUME NEW t, NEW W, NEW d, Writable(W), OneEach(t),
         \A k \in OpenRows(t) : k[2] < d, IsFiniteSet(W), IsFiniteSet(OpenRows(t))
  PROVE  Announced(t, W, d) =
           [inserted |-> Cardinality(W) - Cardinality(Unchanged(t, W)),
            closed |-> Cardinality(OpenRows(t)) - Cardinality(Unchanged(t, W))]
<1> DEFINE U == Unchanged(t, W)
           M == {w \in W : \E k \in OpenRows(t) : k[1] = w.code /\ t[k] = w.row}
           f == [w \in M |-> CHOOSE k \in OpenRows(t) : k[1] = w.code /\ t[k] = w.row]
<1>1. ASSUME NEW w \in M
      PROVE  f[w] \in U /\ f[w][1] = w.code
  <2>1. f[w] \in OpenRows(t) /\ f[w][1] = w.code /\ t[f[w]] = w.row
    BY <1>1
  <2> QED
    BY <1>1, <2>1 DEF Unchanged
<1>2. ASSUME NEW k \in U
      PROVE  \E w \in M : f[w] = k
  <2>1. PICK w \in W : k \in OpenRows(t) /\ w.code = k[1] /\ w.row = t[k]
    BY <1>2 DEF Unchanged
  <2>2. w \in M
    BY <2>1
  <2>3. f[w] \in OpenRows(t) /\ f[w][1] = k[1]
    BY <2>1, <2>2
  <2> QED
    BY <2>1, <2>2, <2>3 DEF OneEach
<1>3. Cardinality(M) = Cardinality(U)
  <2>1. f \in [M -> U]
    BY <1>1
  <2>2. \A v, w \in M : f[v] = f[w] => v = w
    BY <1>1 DEF Writable
  <2>3. IsFiniteSet(M)
    BY FS_Subset
  <2> HIDE DEF f, M, U
  <2>4. f \in Injection(M, U)
    BY <2>1, <2>2 DEF Injection, IsInjective
  <2>5. f \in Surjection(M, U)
    BY <1>2, <2>1 DEF Surjection
  <2>6. ExistsBijection(M, U)
    BY <2>4, <2>5 DEF ExistsBijection, Bijection
  <2> QED
    BY <2>3, <2>6, FS_Bijection
<1>4. Unmatched(t, W) = W \ M
  BY DEF Unmatched, OpenRowsOf
<1>5. Outdated(t, W, d) = OpenRows(t) \ U
  BY DEF Outdated, Unchanged, Writable
<1>6. W \cap M = M /\ OpenRows(t) \cap U = U
  BY DEF Unchanged
<1> HIDE DEF f, M, U
<1>7. Cardinality(W \ M) = Cardinality(W) - Cardinality(W \cap M)
  BY FS_Difference
<1>8. Cardinality(OpenRows(t) \ U)
        = Cardinality(OpenRows(t)) - Cardinality(OpenRows(t) \cap U)
  BY FS_Difference
<1>9. Announced(t, W, d) = [inserted |-> Cardinality(Unmatched(t, W)),
                            closed |-> Cardinality(Outdated(t, W, d))]
  BY AnnouncedByRow
<1>10. Announced(t, W, d) =
         [inserted |-> Cardinality(W) - Cardinality(U),
          closed |-> Cardinality(OpenRows(t)) - Cardinality(U)]
  BY <1>3, <1>4, <1>5, <1>6, <1>7, <1>8, <1>9
<1> QED
  BY <1>10 DEF U

More(counts, more) == [inserted |-> counts.inserted + Cardinality(more),
                       closed |-> counts.closed + Cardinality(more)]

(* Two readings of a sheet, of which the second leaves fewer rows as they  *)
(* are, differ by these rows.                                              *)
LEMMA CountedMore ==
  ASSUME NEW t, NEW V, NEW W, NEW d, NEW X,
         Writable(V), Writable(W), IsFiniteSet(V), IsFiniteSet(OpenRows(t)),
         OneEach(t), \A k \in OpenRows(t) : k[2] < d,
         \A v \in V : \E w \in W : w.code = v.code,
         \A w \in W : \E v \in V : w.code = v.code,
         X \subseteq Unchanged(t, W), Unchanged(t, V) = Unchanged(t, W) \ X
  PROVE  Announced(t, V, d) = More(Announced(t, W, d), X)
<1>1. IsFiniteSet(W) /\ Cardinality(W) = Cardinality(V)
  <2> DEFINE g == [v \in V |-> v.code]
  <2>1. /\ \A w \in W : \E v \in V : w.code = g[v]
        /\ \A v \in V : \E w \in W : w.code = g[v]
        /\ \A u, v \in V : g[u] = g[v] => u = v
    BY DEF Writable
  <2> HIDE DEF g
  <2>2. /\ IsFiniteSet(W)
        /\ (\A u, v \in V : g[u] = g[v] => u = v)
             /\ (\A v \in V : \E w \in W : w.code = g[v])
           => Cardinality(W) = Cardinality(V)
    BY <2>1, RowsOfLines
  <2> QED
    BY <2>1, <2>2
<1> DEFINE U == Unchanged(t, W)
           v == Cardinality(V)
           o == Cardinality(OpenRows(t))
           u == Cardinality(U)
           x == Cardinality(X)
<1>2. U \subseteq OpenRows(t) /\ X \subseteq U /\ U \cap X = X
  BY DEF Unchanged
<1> HIDE DEF U
<1>3. IsFiniteSet(U) /\ IsFiniteSet(X)
  <2>1. IsFiniteSet(U)
    BY <1>2, FS_Subset
  <2> QED
    BY <1>2, <2>1, FS_Subset
<1>4. v \in Nat /\ o \in Nat /\ u \in Nat /\ x \in Nat
  BY <1>3, FS_CardinalityType
<1>5. Cardinality(U \ X) = u - x
  BY <1>2, <1>3, FS_Difference
<1>6. Announced(t, V, d) = [inserted |-> v - Cardinality(U \ X),
                            closed |-> o - Cardinality(U \ X)]
  <2>1. Announced(t, V, d) =
          [inserted |-> Cardinality(V) - Cardinality(Unchanged(t, V)),
           closed |-> Cardinality(OpenRows(t)) - Cardinality(Unchanged(t, V))]
    BY AnnouncedCounts
  <2>2. Unchanged(t, V) = U \ X
    BY DEF U
  <2> QED
    BY <2>1, <2>2
<1>7. Announced(t, W, d) = [inserted |-> v - u, closed |-> o - u]
  BY <1>1, AnnouncedCounts DEF U
<1> HIDE DEF v, o, u
<1>8. v - (u - x) = (v - u) + x /\ o - (u - x) = (o - u) + x
  BY <1>4
<1> QED
  BY <1>5, <1>6, <1>7, <1>8 DEF More

-----------------------------------------------------------------------------
(***************************************************************************)
(* What the plan calls unchanged, and the promotion too unless a parent is *)
(* replaced.                                                               *)
(***************************************************************************)
(* Parents before and after: the table r has become the table n.           *)
Became(r, n, C, R) ==
  /\ IsTable(r, C, R) /\ IsTable(n, C, R)
  /\ \A k \in C \X Dates : r[k] # None =>
       n[k] # None /\ (n[k].to = Open => n[k] = r[k])

(* A row that was a parent still is one if it is still open.               *)
LEMMA ParentKept ==
  ASSUME NEW C, NEW R, NEW r, NEW n, Became(r, n, C, R), None \notin C \X Dates,
         NEW c \in C, NEW k \in C \X Dates, r[k] # None
  PROVE  k \in Ids(n, C)[c] <=> k \in IdsOrNone(r, C)[c] /\ n[k].to = Open
<1>1. n[k] # None /\ (n[k].to = Open => n[k] = r[k])
  BY DEF Became
<1>2. DOMAIN r = C \X Dates /\ DOMAIN n = C \X Dates
  BY DEF Became, IsTable
<1>3. k \in Ids(n, C)[c] <=> k[1] = c /\ n[k].to = Open
  BY <1>1, <1>2 DEF Ids, OpenRowsOf, OpenRows
<1>4. k \in OpenRowsOf(r, c) <=> k[1] = c /\ r[k].to = Open
  BY <1>2 DEF OpenRowsOf, OpenRows
<1>5. k \in IdsOrNone(r, C)[c] <=> k \in OpenRowsOf(r, c)
  <2>1. IdsOrNone(r, C)[c] = IF OpenRowsOf(r, c) = {} THEN {None} ELSE OpenRowsOf(r, c)
    BY DEF IdsOrNone
  <2>2. k # None
    OBVIOUS
  <2> QED
    BY <2>1, <2>2
<1> QED
  BY <1>1, <1>3, <1>4, <1>5

LEMMA OneOrNone ==
  ASSUME NEW C, NEW r, OneEach(r), NEW c \in C
  PROVE  /\ IdsOrNone(r, C)[c] # {}
         /\ \A j, k \in IdsOrNone(r, C)[c] : j = k
<1>1. IdsOrNone(r, C)[c] = IF OpenRowsOf(r, c) = {} THEN {None} ELSE OpenRowsOf(r, c)
  BY DEF IdsOrNone
<1>2. \A j, k \in OpenRowsOf(r, c) : j = k
  BY DEF OneEach, OpenRowsOf
<1> QED
  BY <1>1, <1>2

ProvinceLine(s, i, k) ==
  [code |-> s[i].province,
   row |-> [name |-> s[i].provinceName, region |-> k, to |-> Open]]

TownLine(s, i, j, k) ==
  [code |-> s[i].town,
   row |-> [name |-> s[i].townName, province |-> j, region |-> k, to |-> Open]]

LEMMA ProvinceLines ==
  ASSUME NEW s \in Sheets, NEW ids
  PROVE  \A w : w \in ProvincesFor(s, ids) <=>
           \E i \in KeptLines(s) : \E k \in ids[s[i].region] : w = ProvinceLine(s, i, k)
<1> SUFFICES ASSUME NEW w
             PROVE  w \in ProvincesFor(s, ids) <=>
                      \E i \in KeptLines(s) : \E k \in ids[s[i].region] :
                        w = ProvinceLine(s, i, k)
  OBVIOUS
<1> DEFINE Rows(p) == {[code |-> p.code,
                        row |-> [name |-> p.name, region |-> k, to |-> Open]]
                        : k \in ids[p.region]}
           Cell(i) == [code |-> s[i].province, name |-> s[i].provinceName,
                       region |-> s[i].region]
<1>1. ProvincesFor(s, ids) = UNION {Rows(p) : p \in StagedProvinces(s)}
  BY DEF ProvincesFor
<1>2. StagedProvinces(s) = {Cell(i) : i \in KeptLines(s)}
  BY DEF StagedProvinces
<1>3. \A i \in KeptLines(s) : w \in Rows(Cell(i)) <=>
        \E k \in ids[s[i].region] : w = ProvinceLine(s, i, k)
  BY DEF ProvinceLine
<1> HIDE DEF Rows, Cell
<1>4. w \in ProvincesFor(s, ids) <=> \E i \in KeptLines(s) : w \in Rows(Cell(i))
  BY <1>1, <1>2
<1> QED
  BY <1>3, <1>4

LEMMA TownLines ==
  ASSUME NEW s \in Sheets, NEW pids, NEW rids
  PROVE  \A w : w \in TownsFor(s, pids, rids) <=>
           \E i \in DOMAIN s : \E j \in pids[s[i].province], k \in rids[s[i].region] :
             w = TownLine(s, i, j, k)
<1> SUFFICES ASSUME NEW w
             PROVE  w \in TownsFor(s, pids, rids) <=>
                      \E i \in DOMAIN s :
                        \E j \in pids[s[i].province], k \in rids[s[i].region] :
                          w = TownLine(s, i, j, k)
  OBVIOUS
<1> DEFINE Rows(m) == {[code |-> m.code,
                        row |-> [name |-> m.name, province |-> k[1], region |-> k[2],
                                 to |-> Open]]
                        : k \in pids[m.province] \X rids[m.region]}
           Cell(i) == [code |-> s[i].town, name |-> s[i].townName,
                       province |-> s[i].province, region |-> s[i].region]
<1>1. TownsFor(s, pids, rids) = UNION {Rows(m) : m \in StagedTowns(s)}
  BY DEF TownsFor
<1>2. StagedTowns(s) = {Cell(i) : i \in DOMAIN s}
  BY DEF StagedTowns
<1>3. \A i \in DOMAIN s : w \in Rows(Cell(i)) <=>
        \E j \in pids[s[i].province], k \in rids[s[i].region] : w = TownLine(s, i, j, k)
  <2> SUFFICES ASSUME NEW i \in DOMAIN s
               PROVE  w \in Rows(Cell(i)) <=>
                        \E j \in pids[s[i].province], k \in rids[s[i].region] :
                          w = TownLine(s, i, j, k)
    OBVIOUS
  <2> DEFINE A == pids[s[i].province]
             B == rids[s[i].region]
  <2>1. w \in Rows(Cell(i)) <=> \E x \in A \X B : w = TownLine(s, i, x[1], x[2])
    BY DEF TownLine
  <2> HIDE DEF A, B, Rows, Cell
  <2>2. ASSUME NEW j \in A, NEW k \in B, w = TownLine(s, i, j, k)
        PROVE  \E x \in A \X B : w = TownLine(s, i, x[1], x[2])
    <3>1. PICK x \in A \X B : x = <<j, k>>
      OBVIOUS
    <3> QED
      BY <2>2, <3>1
  <2>3. \A x \in A \X B : x[1] \in A /\ x[2] \in B
    OBVIOUS
  <2> QED
    BY <2>1, <2>2, <2>3 DEF A, B
<1> HIDE DEF Rows, Cell
<1>4. w \in TownsFor(s, pids, rids) <=> \E i \in DOMAIN s : w \in Rows(Cell(i))
  BY <1>1, <1>2
<1> QED
  BY <1>3, <1>4

LEMMA ProvincesOverlooked ==
  ASSUME NEW s \in Sheets, Valid(s), NEW r, NEW n, NEW t, NEW d,
         Became(r, n, Regions, RegionRow), OneEach(r), OneEach(n),
         IsTable(t, Provinces, ProvinceRow), OneEach(t), IsFiniteSet(OpenRows(t)),
         \A k \in OpenRows(t) : k[2] < d /\ r[t[k].region] # None,
         \A i \in DOMAIN s : Ids(n, Regions)[s[i].region] # {},
         IsFiniteSet(ProvincesFor(s, Ids(n, Regions)))
  PROVE  LET W == ProvincesFor(s, IdsOrNone(r, Regions))
         IN  Announced(t, ProvincesFor(s, Ids(n, Regions)), d)
               = More(Announced(t, W, d),
                      {k \in Unchanged(t, W) : n[t[k].region].to # Open})
<1> DEFINE olds == IdsOrNone(r, Regions)
           news == Ids(n, Regions)
           W == ProvincesFor(s, olds)
           V == ProvincesFor(s, news)
           X == {k \in Unchanged(t, W) : n[t[k].region].to # Open}
<1>1. \A i \in KeptLines(s) : i \in DOMAIN s /\ s[i].region \in Regions
  BY NamesOfSheet DEF KeptLines
<1>2. \A i \in KeptLines(s) :
        /\ olds[s[i].region] # {} /\ news[s[i].region] # {}
        /\ \A j, k \in olds[s[i].region] : j = k
        /\ \A j, k \in news[s[i].region] : j = k
  <2>1. OneIdEach(news, Regions)
    BY IdsOfTable DEF Became
  <2>2. \A c \in Regions : olds[c] # {} /\ \A j, k \in olds[c] : j = k
    BY OneOrNone
  <2> QED
    BY <1>1, <2>1, <2>2 DEF OneIdEach
<1>3. None \notin Regions \X Dates
  BY GeoAssumption
<1>4. ASSUME NEW i \in KeptLines(s), NEW k \in Regions \X Dates, r[k] # None
      PROVE  k \in news[s[i].region] <=> k \in olds[s[i].region] /\ n[k].to = Open
  BY <1>1, <1>3, <1>4, ParentKept
<1>5. /\ \A w : w \in W <=> \E i \in KeptLines(s) : \E k \in olds[s[i].region] :
                          w = ProvinceLine(s, i, k)
      /\ \A w : w \in V <=> \E i \in KeptLines(s) : \E k \in news[s[i].region] :
                          w = ProvinceLine(s, i, k)
  BY ProvinceLines
<1>6. \A i, j \in KeptLines(s) : s[i].province = s[j].province => i = j
  BY KeptOnce
<1>7. \A i, k : /\ ProvinceLine(s, i, k).code = s[i].province
                /\ ProvinceLine(s, i, k).row.region = k
  BY DEF ProvinceLine
<1>8. \A k \in OpenRows(t) : t[k].region \in Regions \X Dates
  BY DEF OpenRows, IsTable, ProvinceRow
<1>9. IsFiniteSet(V)
  OBVIOUS
<1> HIDE DEF olds, news, W, V
<1>10. Writable(W) /\ Writable(V)
  <2>1. Writable(W)
    BY <1>2, <1>5, <1>6, <1>7 DEF Writable
  <2>2. Writable(V)
    BY <1>2, <1>5, <1>6, <1>7 DEF Writable
  <2> QED
    BY <2>1, <2>2
<1>11. \A v \in V : \E w \in W : w.code = v.code
  BY <1>2, <1>5, <1>7
<1>12. \A w \in W : \E v \in V : w.code = v.code
  BY <1>2, <1>5, <1>7
<1>13. Unchanged(t, V) = Unchanged(t, W) \ X
  <2>1. ASSUME NEW k \in OpenRows(t)
        PROVE  (\E v \in V : v.code = k[1] /\ v.row = t[k]) <=>
                 /\ \E w \in W : w.code = k[1] /\ w.row = t[k]
                 /\ n[t[k].region].to = Open
    <3>1. t[k].region \in Regions \X Dates /\ r[t[k].region] # None
      BY <1>8
    <3>2. ASSUME NEW v \in V, v.code = k[1], v.row = t[k]
          PROVE  v \in W /\ n[t[k].region].to = Open
      <4>1. PICK i \in KeptLines(s) : \E l \in news[s[i].region] : v = ProvinceLine(s, i, l)
        BY <1>5
      <4>2. PICK l \in news[s[i].region] : v = ProvinceLine(s, i, l)
        BY <4>1
      <4>3. l = t[k].region
        BY <1>7, <3>2, <4>2
      <4>4. l \in olds[s[i].region] /\ n[l].to = Open
        BY <1>4, <3>1, <4>2, <4>3
      <4> QED
        BY <1>5, <4>2, <4>3, <4>4
    <3>3. ASSUME NEW w \in W, w.code = k[1], w.row = t[k], n[t[k].region].to = Open
          PROVE  w \in V
      <4>1. PICK i \in KeptLines(s) : \E l \in olds[s[i].region] : w = ProvinceLine(s, i, l)
        BY <1>5
      <4>2. PICK l \in olds[s[i].region] : w = ProvinceLine(s, i, l)
        BY <4>1
      <4>3. l = t[k].region
        BY <1>7, <3>3, <4>2
      <4>4. l \in news[s[i].region]
        BY <1>4, <3>1, <3>3, <4>2, <4>3
      <4> QED
        BY <1>5, <4>2, <4>4
    <3> QED
      BY <3>2, <3>3
  <2> QED
    BY <2>1 DEF Unchanged
<1>14. X \subseteq Unchanged(t, W)
  OBVIOUS
<1> HIDE DEF X
<1>15. Announced(t, V, d) = More(Announced(t, W, d), X)
  BY <1>9, <1>10, <1>11, <1>12, <1>13, <1>14, CountedMore
<1> QED
  BY <1>15 DEF V, W, X, olds, news

LEMMA TownsOverlooked ==
  ASSUME NEW s \in Sheets, Valid(s), NEW p, NEW o, NEW r, NEW n, NEW t, NEW d,
         Became(p, o, Provinces, ProvinceRow), OneEach(p), OneEach(o),
         Became(r, n, Regions, RegionRow), OneEach(r), OneEach(n),
         IsTable(t, Towns, TownRow), OneEach(t), IsFiniteSet(OpenRows(t)),
         \A k \in OpenRows(t) :
           k[2] < d /\ p[t[k].province] # None /\ r[t[k].region] # None,
         \A i \in DOMAIN s : /\ Ids(o, Provinces)[s[i].province] # {}
                             /\ Ids(n, Regions)[s[i].region] # {},
         IsFiniteSet(TownsFor(s, Ids(o, Provinces), Ids(n, Regions)))
  PROVE  LET W == TownsFor(s, IdsOrNone(p, Provinces), IdsOrNone(r, Regions))
         IN  Announced(t, TownsFor(s, Ids(o, Provinces), Ids(n, Regions)), d)
               = More(Announced(t, W, d),
                      {k \in Unchanged(t, W) : \/ o[t[k].province].to # Open
                                              \/ n[t[k].region].to # Open})
<1> DEFINE oldps == IdsOrNone(p, Provinces)
           newps == Ids(o, Provinces)
           olds == IdsOrNone(r, Regions)
           news == Ids(n, Regions)
           W == TownsFor(s, oldps, olds)
           V == TownsFor(s, newps, news)
           X == {k \in Unchanged(t, W) : \/ o[t[k].province].to # Open
                                         \/ n[t[k].region].to # Open}
<1>1. \A i \in DOMAIN s : s[i].province \in Provinces /\ s[i].region \in Regions
  BY NamesOfSheet
<1>2. \A i \in DOMAIN s :
        /\ oldps[s[i].province] # {} /\ newps[s[i].province] # {}
        /\ \A j, k \in oldps[s[i].province] : j = k
        /\ \A j, k \in newps[s[i].province] : j = k
  <2>1. OneIdEach(newps, Provinces)
    BY IdsOfTable DEF Became
  <2>2. \A c \in Provinces : oldps[c] # {} /\ \A j, k \in oldps[c] : j = k
    BY OneOrNone
  <2> QED
    BY <1>1, <2>1, <2>2 DEF OneIdEach
<1>3. \A i \in DOMAIN s :
        /\ olds[s[i].region] # {} /\ news[s[i].region] # {}
        /\ \A j, k \in olds[s[i].region] : j = k
        /\ \A j, k \in news[s[i].region] : j = k
  <2>1. OneIdEach(news, Regions)
    BY IdsOfTable DEF Became
  <2>2. \A c \in Regions : olds[c] # {} /\ \A j, k \in olds[c] : j = k
    BY OneOrNone
  <2> QED
    BY <1>1, <2>1, <2>2 DEF OneIdEach
<1>4. None \notin Provinces \X Dates /\ None \notin Regions \X Dates
  BY GeoAssumption
<1>5. ASSUME NEW i \in DOMAIN s, NEW k \in Provinces \X Dates, p[k] # None
      PROVE  k \in newps[s[i].province] <=> k \in oldps[s[i].province] /\ o[k].to = Open
  BY <1>1, <1>4, <1>5, ParentKept
<1>6. ASSUME NEW i \in DOMAIN s, NEW k \in Regions \X Dates, r[k] # None
      PROVE  k \in news[s[i].region] <=> k \in olds[s[i].region] /\ n[k].to = Open
  BY <1>1, <1>4, <1>6, ParentKept
<1>7. \A w : w \in W <=>
        \E i \in DOMAIN s : \E j \in oldps[s[i].province], k \in olds[s[i].region] :
          w = TownLine(s, i, j, k)
  BY TownLines
<1>8. \A w : w \in V <=>
        \E i \in DOMAIN s : \E j \in newps[s[i].province], k \in news[s[i].region] :
          w = TownLine(s, i, j, k)
  BY TownLines
<1>9. \A i, j \in DOMAIN s : s[i].town = s[j].town => i = j
  BY DEF Valid
<1>10. \A i, j, k : /\ TownLine(s, i, j, k).code = s[i].town
                    /\ TownLine(s, i, j, k).row.province = j
                    /\ TownLine(s, i, j, k).row.region = k
  BY DEF TownLine
<1>11. \A k \in OpenRows(t) : /\ t[k].province \in Provinces \X Dates
                              /\ t[k].region \in Regions \X Dates
  BY DEF OpenRows, IsTable, TownRow
<1>12. IsFiniteSet(V)
  OBVIOUS
<1> HIDE DEF oldps, newps, olds, news, W, V
<1>13. Writable(W)
  <2> SUFFICES ASSUME NEW v \in W, NEW w \in W, v.code = w.code
               PROVE  v = w
    BY DEF Writable
  <2>1. PICK i \in DOMAIN s :
          \E j \in oldps[s[i].province], k \in olds[s[i].region] : v = TownLine(s, i, j, k)
    BY <1>7
  <2>2. PICK h \in DOMAIN s :
          \E j \in oldps[s[h].province], k \in olds[s[h].region] : w = TownLine(s, h, j, k)
    BY <1>7
  <2>3. h = i
    BY <1>9, <1>10, <2>1, <2>2
  <2> QED
    BY <1>2, <1>3, <2>1, <2>2, <2>3
<1>14. Writable(V)
  <2> SUFFICES ASSUME NEW v \in V, NEW w \in V, v.code = w.code
               PROVE  v = w
    BY DEF Writable
  <2>1. PICK i \in DOMAIN s :
          \E j \in newps[s[i].province], k \in news[s[i].region] : v = TownLine(s, i, j, k)
    BY <1>8
  <2>2. PICK h \in DOMAIN s :
          \E j \in newps[s[h].province], k \in news[s[h].region] : w = TownLine(s, h, j, k)
    BY <1>8
  <2>3. h = i
    BY <1>9, <1>10, <2>1, <2>2
  <2> QED
    BY <1>2, <1>3, <2>1, <2>2, <2>3
<1>15. ASSUME NEW v \in V
       PROVE  \E w \in W : w.code = v.code
  <2>1. PICK i \in DOMAIN s :
          \E j \in newps[s[i].province], k \in news[s[i].region] : v = TownLine(s, i, j, k)
    BY <1>8
  <2>2. PICK j \in oldps[s[i].province], k \in olds[s[i].region] : TRUE
    BY <1>2, <1>3
  <2>3. PICK w \in W : w = TownLine(s, i, j, k)
    BY <1>7
  <2> QED
    BY <1>10, <2>1, <2>3
<1>16. ASSUME NEW w \in W
       PROVE  \E v \in V : w.code = v.code
  <2>1. PICK i \in DOMAIN s :
          \E j \in oldps[s[i].province], k \in olds[s[i].region] : w = TownLine(s, i, j, k)
    BY <1>7
  <2>2. PICK j \in newps[s[i].province], k \in news[s[i].region] : TRUE
    BY <1>2, <1>3
  <2>3. PICK v \in V : v = TownLine(s, i, j, k)
    BY <1>8
  <2> QED
    BY <1>10, <2>1, <2>3
<1>17. Unchanged(t, V) = Unchanged(t, W) \ X
  <2>1. ASSUME NEW k \in OpenRows(t)
        PROVE  (\E v \in V : v.code = k[1] /\ v.row = t[k]) <=>
                 /\ \E w \in W : w.code = k[1] /\ w.row = t[k]
                 /\ o[t[k].province].to = Open /\ n[t[k].region].to = Open
    <3>1. /\ t[k].province \in Provinces \X Dates /\ p[t[k].province] # None
          /\ t[k].region \in Regions \X Dates /\ r[t[k].region] # None
      BY <1>11
    <3>2. ASSUME NEW v \in V, v.code = k[1], v.row = t[k]
          PROVE  v \in W /\ o[t[k].province].to = Open /\ n[t[k].region].to = Open
      <4>1. PICK i \in DOMAIN s :
              \E j \in newps[s[i].province], l \in news[s[i].region] : v = TownLine(s, i, j, l)
        BY <1>8
      <4>2. PICK j \in newps[s[i].province], l \in news[s[i].region] : v = TownLine(s, i, j, l)
        BY <4>1
      <4>3. j = t[k].province /\ l = t[k].region
        BY <1>10, <3>2, <4>2
      <4>4. j \in oldps[s[i].province] /\ o[j].to = Open
        BY <1>5, <3>1, <4>2, <4>3
      <4>5. l \in olds[s[i].region] /\ n[l].to = Open
        BY <1>6, <3>1, <4>2, <4>3
      <4> QED
        BY <1>7, <4>2, <4>3, <4>4, <4>5
    <3>3. ASSUME NEW w \in W, w.code = k[1], w.row = t[k],
                 o[t[k].province].to = Open, n[t[k].region].to = Open
          PROVE  w \in V
      <4>1. PICK i \in DOMAIN s :
              \E j \in oldps[s[i].province], l \in olds[s[i].region] : w = TownLine(s, i, j, l)
        BY <1>7
      <4>2. PICK j \in oldps[s[i].province], l \in olds[s[i].region] : w = TownLine(s, i, j, l)
        BY <4>1
      <4>3. j = t[k].province /\ l = t[k].region
        BY <1>10, <3>3, <4>2
      <4>4. j \in newps[s[i].province]
        BY <1>5, <3>1, <3>3, <4>2, <4>3
      <4>5. l \in news[s[i].region]
        BY <1>6, <3>1, <3>3, <4>2, <4>3
      <4> QED
        BY <1>8, <4>2, <4>4, <4>5
    <3> QED
      BY <3>2, <3>3
  <2> QED
    BY <2>1 DEF Unchanged
<1>18. X \subseteq Unchanged(t, W)
  OBVIOUS
<1> HIDE DEF X
<1>19. Announced(t, V, d) = More(Announced(t, W, d), X)
  BY <1>12, <1>13, <1>14, <1>15, <1>16, <1>17, <1>18, CountedMore
<1> QED
  BY <1>19 DEF V, W, X, oldps, newps, olds, news

(* While promotions are in order, tables have finitely many open rows.     *)
LEMMA OpenAreFinite ==
  ASSUME GeoInv, orderly
  PROVE  /\ IsFiniteSet(OpenRows(regions)) /\ IsFiniteSet(OpenRows(provinces))
         /\ IsFiniteSet(OpenRows(towns))
<1>1. AreTables /\ HistoryOK
  BY TypeByParts DEF GeoInv
<1>2. CASE last = None
  <2>1. /\ \A k \in DOMAIN regions : regions[k] = None
        /\ \A k \in DOMAIN provinces : provinces[k] = None
        /\ \A k \in DOMAIN towns : towns[k] = None
    BY <1>1, <1>2 DEF GeoInv, NothingAtFirst, AreTables, IsTable
  <2>2. OpenRows(regions) = {} /\ OpenRows(provinces) = {} /\ OpenRows(towns) = {}
    BY <2>1 DEF OpenRows
  <2> QED
    BY <2>2, FS_EmptySet
<1>3. CASE last # None
  <2>1. PICK s \in Sheets : s = last.sheet
    BY <1>1, <1>3 DEF HistoryOK, Promotion
  <2>2. Valid(s)
    BY <1>3, <2>1 DEF GeoInv, SheetsAreValid
  <2> DEFINE rids == Ids(regions, Regions)
             pids == Ids(provinces, Provinces)
             P == ProvincesFor(s, rids)
             T == TownsFor(s, pids, rids)
  <2>3. Shows(regions, RegionsFor(s)) /\ Shows(provinces, P) /\ Shows(towns, T)
    BY <1>3, <2>1 DEF GeoInv, LastIsShown, WantedProvinces, WantedTowns
  <2>4. IsIds(rids, Regions) /\ IsIds(pids, Provinces)
    BY <1>1, IdsOfTable DEF AreTables
  <2> HIDE DEF rids, pids
  <2>5. /\ IsWanted(RegionsFor(s), Regions, RegionRow)
        /\ IsWanted(P, Provinces, ProvinceRow)
        /\ IsWanted(T, Towns, TownRow)
    BY <2>2, <2>4, RegionsWanted, ProvincesWanted, TownsWanted
  <2>6. IsFiniteSet(RegionsFor(s)) /\ IsFiniteSet(P) /\ IsFiniteSet(T)
    BY <2>2, <2>3, <2>4, WantedAreFinite DEF Shows
  <2> HIDE DEF P, T
  <2>7. IsFiniteSet(OpenRows(regions))
    BY <1>1, <2>3, <2>5, <2>6, ShownAreAsMany DEF AreTables
  <2>8. IsFiniteSet(OpenRows(provinces))
    BY <1>1, <2>3, <2>5, <2>6, ShownAreAsMany DEF AreTables
  <2>9. IsFiniteSet(OpenRows(towns))
    BY <1>1, <2>3, <2>5, <2>6, ShownAreAsMany DEF AreTables
  <2> QED
    BY <2>7, <2>8, <2>9
<1> QED
  BY <1>2, <1>3

(* One promotion that is newer than every row.                             *)
LEMMA NewerIsAnnounced ==
  ASSUME GeoInv, NEW s \in Sheets, NEW d \in Dates,
         Promoting(s, d), ArePromoted(s), orderly',
         OneEach(regions), OneEach(provinces), OneEach(towns),
         OlderThan(regions, d), OlderThan(provinces, d), OlderThan(towns, d)
  PROVE  /\ Done(regions, regions') = Announcement(s).regions
         /\ Done(provinces, provinces')
              = More(Announcement(s).provinces, OverlookedProvinces(s))
         /\ Done(towns, towns') = More(Announcement(s).towns, OverlookedTowns(s))
<1>1. AreTables /\ HaveParents /\ orderly /\ Valid(s) /\ d = runs[s].date
  BY TypeByParts DEF GeoInv, Promoting
<1>2. /\ IsFiniteSet(OpenRows(regions)) /\ IsFiniteSet(OpenRows(provinces))
      /\ IsFiniteSet(OpenRows(towns))
  BY <1>1, OpenAreFinite
<1> DEFINE rids == Ids(regions', Regions)
           pids == Ids(provinces', Provinces)
           P == ProvincesFor(s, rids)
           T == TownsFor(s, pids, rids)
<1>3. /\ regions' = Promoted(regions, RegionsFor(s), d)
      /\ provinces' = Promoted(provinces, P, d)
      /\ towns' = Promoted(towns, T, d)
  BY DEF Promoting
<1>4. /\ IsWanted(RegionsFor(s), Regions, RegionRow) /\ Writable(RegionsFor(s))
      /\ IsWanted(P, Provinces, ProvinceRow)
      /\ IsWanted(T, Towns, TownRow)
      /\ IsTable(regions', Regions, RegionRow)
      /\ IsTable(provinces', Provinces, ProvinceRow)
  BY DEF ArePromoted
<1>5. LastIsShown' /\ last'.sheet = s /\ last' # None
  BY <1>1, NewerIsShown DEF Promoting
<1>6. Shows(regions', RegionsFor(s)) /\ Shows(provinces', P) /\ Shows(towns', T)
  BY <1>5 DEF LastIsShown, WantedProvinces, WantedTowns
<1>7. IsIds(rids, Regions) /\ IsIds(pids, Provinces)
  BY IdsOfTable DEF ArePromoted
<1>8. Writable(P) /\ Writable(T) /\ OneEach(regions') /\ OneEach(provinces')
  BY <1>6 DEF Shows
<1>9. IsFiniteSet(RegionsFor(s)) /\ IsFiniteSet(P) /\ IsFiniteSet(T)
  <2> HIDE DEF rids, pids
  <2> QED
    BY <1>1, <1>7, <1>8, WantedAreFinite
<1>10. \A i \in DOMAIN s : rids[s[i].region] # {} /\ pids[s[i].province] # {}
  BY <1>1, <1>4, <1>6, ParentsAreOpen
<1> HIDE DEF P, T
<1>11. /\ Announced(regions, RegionsFor(s), d) = Done(regions, regions')
       /\ Announced(provinces, P, d) = Done(provinces, provinces')
       /\ Announced(towns, T, d) = Done(towns, towns')
  <2> HIDE DEF rids, pids
  <2>1. Announced(regions, RegionsFor(s), d) = Done(regions, regions')
    BY <1>1, <1>2, <1>3, <1>4, <1>9, TableAnnounced, RowSets DEF AreTables
  <2>2. Announced(provinces, P, d) = Done(provinces, provinces')
    BY <1>1, <1>2, <1>3, <1>4, <1>8, <1>9, TableAnnounced, RowSets DEF AreTables
  <2>3. Announced(towns, T, d) = Done(towns, towns')
    BY <1>1, <1>2, <1>3, <1>4, <1>8, <1>9, TableAnnounced, RowSets DEF AreTables
  <2> QED
    BY <2>1, <2>2, <2>3
<1>12. Became(regions, regions', Regions, RegionRow)
  <2>1. \A k \in Regions \X Dates : regions[k] # None => regions'[k] # None
    BY <1>1, <1>3, <1>4, RowsAreKept, RowSets DEF AreTables
  <2>2. \A k \in DOMAIN regions : regions[k] # None /\ regions'[k].to = Open =>
          regions'[k] = regions[k]
    BY <1>1, <1>3, <1>4, TableInOrder, RowSets DEF AreTables
  <2> QED
    BY <1>1, <1>4, <2>1, <2>2 DEF Became, AreTables, IsTable
<1>13. Became(provinces, provinces', Provinces, ProvinceRow)
  <2> HIDE DEF rids, pids
  <2>1. \A k \in Provinces \X Dates : provinces[k] # None => provinces'[k] # None
    BY <1>1, <1>3, <1>4, RowsAreKept, RowSets DEF AreTables
  <2>2. \A k \in DOMAIN provinces : provinces[k] # None /\ provinces'[k].to = Open =>
          provinces'[k] = provinces[k]
    BY <1>1, <1>3, <1>4, <1>8, TableInOrder, RowSets DEF AreTables
  <2> QED
    BY <1>1, <1>4, <2>1, <2>2 DEF Became, AreTables, IsTable
<1>14. /\ \A k \in OpenRows(provinces) :
            k[2] < d /\ regions[provinces[k].region] # None
       /\ \A k \in OpenRows(towns) :
            k[2] < d /\ provinces[towns[k].province] # None
                     /\ regions[towns[k].region] # None
  BY <1>1 DEF OpenRows, OlderThan, HaveParents
<1>15. Announced(provinces, P, d)
         = More(Announced(provinces, PlannedProvinces(s), d), OverlookedProvinces(s))
  BY <1>1, <1>2, <1>8, <1>9, <1>10, <1>12, <1>14, ProvincesOverlooked
     DEF P, AreTables, PlannedProvinces, OverlookedProvinces
<1>16. Announced(towns, T, d)
         = More(Announced(towns, PlannedTowns(s), d), OverlookedTowns(s))
  BY <1>1, <1>2, <1>8, <1>9, <1>10, <1>12, <1>13, <1>14, TownsOverlooked
     DEF T, AreTables, PlannedTowns, OverlookedTowns
<1>17. /\ Announcement(s).regions = Announced(regions, RegionsFor(s), d)
       /\ Announcement(s).provinces = Announced(provinces, PlannedProvinces(s), d)
       /\ Announcement(s).towns = Announced(towns, PlannedTowns(s), d)
  BY <1>1 DEF Announcement
<1> QED
  BY <1>11, <1>15, <1>16, <1>17

(* What geo:promote announces before a promotion in order is what          *)
(* geo:promote:apply then does: exactly as many rows of regions are        *)
(* inserted and closed, and of provinces and towns as many as announced    *)
(* and, on top of that, one for each row that the plan calls unchanged and *)
(* whose parent is replaced.                                               *)
THEOREM PlansAreApplied == Spec => PlanIsApplied
<1>1. ASSUME GeoInv, Next, last' # last, orderly'
      PROVE  LET s == last'.sheet
                 plan == Announcement(s)
             IN  /\ Done(regions, regions') = plan.regions
                 /\ Done(provinces, provinces')
                      = More(plan.provinces, OverlookedProvinces(s))
                 /\ Done(towns, towns') = More(plan.towns, OverlookedTowns(s))
  <2>1. PICK s \in Sheets : Promote(s)
    BY <1>1 DEF Next, NextDay, Stage, PickPlace, PromoteDefault, PromoteNamed
  <2>2. PICK d \in Dates : Promoting(s, d)
    BY <1>1, <2>1, PromoteStep DEF GeoInv
  <2>3. ArePromoted(s)
    BY <1>1, <2>2, TablesPromoted, TypeByParts DEF GeoInv
  <2>4. /\ OneEach(regions) /\ OneEach(provinces) /\ OneEach(towns)
        /\ OlderThan(regions, d) /\ OlderThan(provinces, d) /\ OlderThan(towns, d)
    BY <1>1, <2>2, InOrderStep
  <2>5. last'.sheet = s
    BY <2>2 DEF Promoting
  <2> QED
    BY <1>1, <2>2, <2>3, <2>4, <2>5, NewerIsAnnounced
<1>2. GeoInv /\ [Next]_vars =>
        [last' # last /\ orderly' =>
           LET s == last'.sheet
               plan == Announcement(s)
           IN  /\ Done(regions, regions') = plan.regions
               /\ Done(provinces, provinces')
                    = More(plan.provinces, OverlookedProvinces(s))
               /\ Done(towns, towns') = More(plan.towns, OverlookedTowns(s))]_vars
  BY <1>1
<1> QED
  BY <1>2, InvHolds, PTL DEF Spec, PlanIsApplied, More
=============================================================================
