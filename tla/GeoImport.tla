----------------------------- MODULE GeoImport -----------------------------
(***************************************************************************)
(* The register of regions, provinces and towns: the statistics office     *)
(* publishes a sheet, one command stages it, another promotes it into the  *)
(* tables that searches and listings refer to.                             *)
(*                                                                         *)
(* A row is never deleted.  One that a promotion finds changed or gone is  *)
(* closed (valid_to) and its successor, with a new id, is opened from the  *)
(* reference date of the sheet.  Rows are unique by code and valid_from,   *)
(* so <<code, from>> stands for the id: an insertion that meets a row of   *)
(* the same day overwrites and reopens it.                                 *)
(*                                                                         *)
(* The commands are run by hand, one at a time; each writes in one         *)
(* transaction, so that one that fails leaves nothing behind.  is_active   *)
(* of a town is written together with valid_to and says the same.          *)
(***************************************************************************)
EXTENDS Naturals, Sequences, FiniteSets

CONSTANTS
  Regions, Provinces, Towns,  \* codes
  Names,                      \* names of any of them
  Blank,                      \* an empty cell
  Sheets,                     \* the published files: sequences of lines
  Dated,                      \* Dated[s]: the date in the sheet's name, or 0
  MaxDate,                    \* bound on dates
  None                        \* no row, no run, no place

Lines == [region : Regions, regionName : Names \cup {Blank},
          province : Provinces, provinceName : Names \cup {Blank},
          town : Towns, townName : Names \cup {Blank}]

VARIABLES
  today,      \* the date
  runs,       \* geo_import_runs, by the checksum of the file: its sheet
  before,     \* <<r, s>>: run r was updated (updated_at) before run s
  regions, provinces, towns,  \* the tables, by id
  place,      \* the place a listing was given: ids of a town and its parents
  last,       \* history: the run that was promoted last, as it was then
  orderly     \* history: every promotion so far was in order

tables == <<regions, provinces, towns>>
vars == <<today, runs, before, tables, place, last, orderly>>

Dates == 1 .. MaxDate
Open == 0   \* valid_to is null

RegionRow == [name : Names, to : 0 .. MaxDate]
ProvinceRow == [name : Names, region : Regions \X Dates, to : 0 .. MaxDate]
TownRow == [name : Names, province : Provinces \X Dates,
            region : Regions \X Dates, to : 0 .. MaxDate]
Run == [status : {"staged", "applied"}, date : Dates]
Place == [town : Towns \X Dates, province : Provinces \X Dates,
          region : Regions \X Dates]
Promotion == [sheet : Sheets, date : Dates]

ASSUME GeoAssumption ==
  /\ MaxDate \in Nat \ {0}
  /\ Sheets \subseteq Seq(Lines)
  /\ Dated \in [Sheets -> 0 .. MaxDate]
  /\ Blank \notin Names
  /\ None \notin RegionRow \cup ProvinceRow \cup TownRow \cup Run
               \cup Place \cup Promotion
               \cup (Regions \X Dates) \cup (Provinces \X Dates)

Init ==
  /\ today = 1
  /\ runs = [s \in Sheets |-> None]
  /\ before = {}
  /\ regions = [k \in Regions \X Dates |-> None]
  /\ provinces = [k \in Provinces \X Dates |-> None]
  /\ towns = [k \in Towns \X Dates |-> None]
  /\ place = None
  /\ last = None
  /\ orderly = TRUE

-----------------------------------------------------------------------------
(***************************************************************************)
(* Reading a sheet: one line per town names its province and region too.   *)
(***************************************************************************)
Complete(line) ==
  Blank \notin {line.regionName, line.provinceName, line.townName}

Consistent(a, b) ==
  /\ a.region = b.region => a.regionName = b.regionName
  /\ a.province = b.province => a.provinceName = b.provinceName

\* No validation error.  That all lines put a province into one region is not
\* validated, nor that there are any lines.
Valid(s) ==
  /\ \A i \in DOMAIN s : Complete(s[i])
  /\ \A i, j \in DOMAIN s : Consistent(s[i], s[j])
  /\ \A i, j \in DOMAIN s : s[i].town = s[j].town => i = j

\* The line of a province that is read last is the one that is kept.
KeptLines(s) ==
  {i \in DOMAIN s : \A j \in DOMAIN s : j > i => s[j].province # s[i].province}

StagedRegions(s) ==
  {[code |-> s[i].region, name |-> s[i].regionName] : i \in DOMAIN s}

StagedProvinces(s) ==
  {[code |-> s[i].province, name |-> s[i].provinceName, region |-> s[i].region]
    : i \in KeptLines(s)}

StagedTowns(s) ==
  {[code |-> s[i].town, name |-> s[i].townName,
    province |-> s[i].province, region |-> s[i].region] : i \in DOMAIN s}

DateOf(s) == IF Dated[s] = 0 THEN today ELSE Dated[s]

Staged == {s \in Sheets : runs[s] # None}

\* updated_at = now() makes s the last of them.
Latest(s) ==
  {p \in before : p[1] # s /\ p[2] # s} \cup ((Staged \ {s}) \X {s})

\* geo:import:apply: the run of the file is created or started again, its
\* staged rows are written anew.
Stage(s) ==
  /\ Valid(s)
  /\ runs' = [runs EXCEPT ![s] = [status |-> "staged", date |-> DateOf(s)]]
  /\ before' = Latest(s)
  /\ UNCHANGED <<today, tables, place, last, orderly>>

NextDay ==
  /\ today < MaxDate
  /\ today' = today + 1
  /\ UNCHANGED <<runs, before, tables, place, last, orderly>>

-----------------------------------------------------------------------------
(***************************************************************************)
(* Comparing staged rows with a table.  A staged row is given the ids of   *)
(* its parents' open rows: it becomes a row for each choice of them.       *)
(***************************************************************************)
OpenRows(t) == {k \in DOMAIN t : t[k] # None /\ t[k].to = Open}

OpenRowsOf(t, code) == {k \in OpenRows(t) : k[1] = code}

Ids(t, codes) == [c \in codes |-> OpenRowsOf(t, c)]

RegionsFor(s) ==
  {[code |-> r.code, row |-> [name |-> r.name, to |-> Open]]
    : r \in StagedRegions(s)}

\* Mutant: the ids of the regions as they were before the promotion.
ProvincesForM(s, regionIds) ==
  UNION {{[code |-> p.code,
           row |-> [name |-> p.name, region |-> k, to |-> Open]]
           : k \in OpenRowsOf(regions, p.region)} : p \in StagedProvinces(s)}

ProvincesFor(s, regionIds) ==
  UNION {{[code |-> p.code,
           row |-> [name |-> p.name, region |-> k, to |-> Open]]
           : k \in regionIds[p.region]} : p \in StagedProvinces(s)}

TownsFor(s, provinceIds, regionIds) ==
  UNION {{[code |-> m.code,
           row |-> [name |-> m.name, province |-> k[1], region |-> k[2],
                    to |-> Open]]
           : k \in provinceIds[m.province] \X regionIds[m.region]}
         : m \in StagedTowns(s)}

\* Mutant: a row that the same sheet has opened can be closed by it.
OutdatedSameDayM(t, wanted, date) ==
  {k \in OpenRows(t) :
    /\ k[2] <= date
    /\ \/ \A w \in wanted : w.code # k[1]
       \/ \E w \in wanted : w.code = k[1] /\ w.row # t[k]}

\* Mutant: codes that are not in the sheet any more stay open.
OutdatedChangedM(t, wanted, date) ==
  {k \in OpenRows(t) :
    /\ k[2] < date
    /\ \E w \in wanted : w.code = k[1] /\ w.row # t[k]}

\* Mutant: only names are compared.
OutdatedNameM(t, wanted, date) ==
  {k \in OpenRows(t) :
    /\ k[2] < date
    /\ \/ \A w \in wanted : w.code # k[1]
       \/ \E w \in wanted : w.code = k[1] /\ w.row.name # t[k].name}

\* The open rows, older than the sheet, that are not in it as they are.
Outdated(t, wanted, date) ==
  {k \in OpenRows(t) :
    /\ k[2] < date
    /\ \/ \A w \in wanted : w.code # k[1]
       \/ \E w \in wanted : w.code = k[1] /\ w.row # t[k]}

\* The rows of the sheet that are not in the table as they are.
Unmatched(t, wanted) ==
  {w \in wanted : \A k \in OpenRowsOf(t, w.code) : t[k] # w.row}

Close(t, ks, date) ==
  [k \in DOMAIN t |-> IF k \in ks THEN [t[k] EXCEPT !.to = date] ELSE t[k]]

\* on conflict (istat_code, valid_from) do update
Upsert(t, ws, date) ==
  [k \in DOMAIN t |->
    IF k[2] = date /\ \E w \in ws : w.code = k[1]
    THEN (CHOOSE w \in ws : w.code = k[1]).row
    ELSE t[k]]

\* A statement cannot write the same row twice.
Writable(ws) == \A v, w \in ws : v.code = w.code => v = w

Promoted(t, wanted, date) ==
  LET closed == Close(t, Outdated(t, wanted, date), date)
  IN  Upsert(closed, Unmatched(closed, wanted), date)

Promotable(t, wanted, date) ==
  Writable(Unmatched(Close(t, Outdated(t, wanted, date), date), wanted))

\* What the command reports: rows that the statements returned.
Done(t, next) ==
  [inserted |-> Cardinality({k \in OpenRows(next) : t[k] # next[k]}),
   closed |-> Cardinality(OpenRows(t) \ OpenRows(next))]

(***************************************************************************)
(* geo:promote counts with the ids of today: parents that the promotion is *)
(* about to replace still have their old ones.                             *)
(***************************************************************************)
\* Mutant: codes that are not in the sheet any more are not counted.
AnnouncedM(t, wanted, date) ==
  LET older == {k \in OpenRows(t) : k[2] < date}
      changed == {p \in older \X wanted : p[2].code = p[1][1] /\ p[2].row # t[p[1]]}
  IN  [inserted |-> Cardinality(Unmatched(t, wanted)),
       closed |-> Cardinality(changed)]

Announced(t, wanted, date) ==
  LET older == {k \in OpenRows(t) : k[2] < date}
      gone == {k \in older : \A w \in wanted : w.code # k[1]}
      changed == {p \in older \X wanted : p[2].code = p[1][1] /\ p[2].row # t[p[1]]}
  IN  [inserted |-> Cardinality(Unmatched(t, wanted)),
       closed |-> Cardinality(gone) + Cardinality(changed)]

\* left join: a staged row without an open parent is counted too.
IdsOrNone(t, codes) ==
  [c \in codes |-> IF OpenRowsOf(t, c) = {} THEN {None} ELSE OpenRowsOf(t, c)]

PlannedProvinces(s) == ProvincesFor(s, IdsOrNone(regions, Regions))

PlannedTowns(s) ==
  TownsFor(s, IdsOrNone(provinces, Provinces), IdsOrNone(regions, Regions))

Announcement(s) ==
  LET date == runs[s].date
  IN  [regions |-> Announced(regions, RegionsFor(s), date),
       provinces |-> Announced(provinces, PlannedProvinces(s), date),
       towns |-> Announced(towns, PlannedTowns(s), date)]

-----------------------------------------------------------------------------
(***************************************************************************)
(* geo:promote:apply                                                       *)
(***************************************************************************)
\* Without --import-run-id: the newest reference date, then the run that was
\* written last.
IsDefault(s) ==
  /\ s \in Staged
  /\ \A r \in Staged \ {s} :
       \/ runs[r].date < runs[s].date
       \/ runs[r].date = runs[s].date /\ <<r, s>> \in before

\* The promotion follows the one before, or repeats it.
InOrder(s) ==
  \/ last = None
  \/ runs[s].date > last.date
  \/ s = last.sheet /\ runs[s].date = last.date

\* Each table in turn, with the ids that the one before it now has.
Promote(s) ==
  LET date == runs[s].date
      rs == Promoted(regions, RegionsFor(s), date)
      regionIds == Ids(rs, Regions)
      wantedProvinces == ProvincesFor(s, regionIds)
      ps == Promoted(provinces, wantedProvinces, date)
      wantedTowns == TownsFor(s, Ids(ps, Provinces), regionIds)
  IN  /\ s \in Staged
      /\ Promotable(provinces, wantedProvinces, date)
      /\ Promotable(towns, wantedTowns, date)
      /\ regions' = rs
      /\ provinces' = ps
      /\ towns' = Promoted(towns, wantedTowns, date)
      /\ runs' = [runs EXCEPT ![s].status = "applied"]
      /\ before' = Latest(s)
      /\ last' = [sheet |-> s, date |-> date]
      /\ orderly' = (orderly /\ InOrder(s))
      /\ UNCHANGED <<today, place>>

PromoteDefault == \E s \in Sheets : IsDefault(s) /\ Promote(s)

\* --import-run-id names any run.
PromoteNamed == \E s \in Sheets : Promote(s)

-----------------------------------------------------------------------------
\* The places that can be picked: open, under open parents.
Pickable(m) ==
  /\ m \in OpenRows(towns)
  /\ provinces[towns[m].province].to = Open
  /\ regions[towns[m].region].to = Open

\* The owner of a listing gives it a place; all three ids are stored.
PickPlace(m) ==
  /\ Pickable(m)
  /\ place' = [town |-> m, province |-> towns[m].province,
               region |-> towns[m].region]
  /\ UNCHANGED <<today, runs, before, tables, last, orderly>>

Next ==
  \/ NextDay
  \/ \E s \in Sheets : Stage(s)
  \/ PromoteDefault
  \/ PromoteNamed
  \/ \E m \in Towns \X Dates : PickPlace(m)

Spec == Init /\ [][Next]_vars

-----------------------------------------------------------------------------
(***************************************************************************)
(* Properties                                                              *)
(***************************************************************************)
\* Every table holds rows of its kind, every reference names a row, no row is
\* closed at or before its first day, and runs are in
\* one order.
TypeOK ==
  /\ today \in Dates
  /\ runs \in [Sheets -> Run \cup {None}]
  /\ before \subseteq Staged \X Staged
  /\ \A r, s \in Staged : <<r, s>> \in before <=> r # s /\ <<s, r>> \notin before
  /\ \A q, r, s \in Staged :
       <<q, r>> \in before /\ <<r, s>> \in before => <<q, s>> \in before
  /\ regions \in [Regions \X Dates -> RegionRow \cup {None}]
  /\ provinces \in [Provinces \X Dates -> ProvinceRow \cup {None}]
  /\ towns \in [Towns \X Dates -> TownRow \cup {None}]
  /\ \A k \in DOMAIN provinces :
       provinces[k] # None => regions[provinces[k].region] # None
  /\ \A k \in DOMAIN towns : towns[k] # None =>
       provinces[towns[k].province] # None /\ regions[towns[k].region] # None
  /\ \A t \in {regions, provinces, towns} : \A k \in DOMAIN t :
       t[k] # None => t[k].to = Open \/ t[k].to > k[2]
  /\ place \in Place \cup {None}
  /\ last \in Promotion \cup {None}
  /\ orderly \in BOOLEAN

\* As long as each sheet that is promoted is newer than the one before, or the
\* same, the open rows are exactly the lines of the last sheet: one row per
\* code, with its name, under the open rows of its parents.
CurrentIsLastPromoted ==
  orderly /\ last # None =>
    LET s == last.sheet
        regionIds == Ids(regions, Regions)
        provinceIds == Ids(provinces, Provinces)
        Exactly(t, wanted) ==
          /\ \A w \in wanted : \E k \in OpenRows(t) : k[1] = w.code /\ t[k] = w.row
          /\ Cardinality(OpenRows(t)) = Cardinality(wanted)
    IN  /\ Exactly(regions, RegionsFor(s))
        /\ Exactly(provinces, ProvincesFor(s, regionIds))
        /\ Exactly(towns, TownsFor(s, provinceIds, regionIds))
        /\ Cardinality(OpenRows(towns)) = Len(s)

\* The place of a listing stays the same place: as long as promotions are in
\* order, its town, if it is still open, lies in the province and the region
\* that were stored with it, and they are open, so that a search by any of the
\* three finds the listing.
PlaceStaysWhole ==
  orderly /\ place # None /\ towns[place.town].to = Open =>
    /\ towns[place.town].province = place.province
    /\ towns[place.town].region = place.region
    /\ Pickable(place.town)

\* Of every code at most one row is open.
OneEach(t) == \A j, k \in OpenRows(t) : j[1] = k[1] => j = k

\* Promoting the run that was promoted last, of the same date, changes no row,
\* whatever was promoted before it, as long as no region and no province has
\* two open rows.  Promotions out of order can leave two; a town or province
\* below them then goes from one to the other each time it is promoted.
RepeatChangesNothing ==
  [][last' = last /\ OneEach(regions) /\ OneEach(provinces)
       => UNCHANGED tables]_vars

\* The rows that are announced as unchanged, and those of them that are
\* replaced all the same, because a parent of theirs is.
Unchanged(t, wanted) ==
  {k \in OpenRows(t) : \E w \in wanted : w.code = k[1] /\ w.row = t[k]}

OverlookedProvinces(s) ==
  {k \in Unchanged(provinces, PlannedProvinces(s)) :
    regions'[provinces[k].region].to # Open}

OverlookedTowns(s) ==
  {k \in Unchanged(towns, PlannedTowns(s)) :
    \/ provinces'[towns[k].province].to # Open
    \/ regions'[towns[k].region].to # Open}

\* A promotion in order does what was announced, and nothing more than what is
\* due to the one thing that the announcement cannot see: each province and
\* town that it calls unchanged and whose parent is replaced is closed, and
\* inserted again, on top of what was announced.
PlanIsApplied ==
  [][last' # last /\ orderly' =>
       LET s == last'.sheet
           plan == Announcement(s)
           And(counts, more) == [inserted |-> counts.inserted + Cardinality(more),
                                 closed |-> counts.closed + Cardinality(more)]
       IN  /\ Done(regions, regions') = plan.regions
           /\ Done(provinces, provinces')
                = And(plan.provinces, OverlookedProvinces(s))
           /\ Done(towns, towns') = And(plan.towns, OverlookedTowns(s))]_vars
=============================================================================
