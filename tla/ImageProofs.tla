----------------------------- MODULE ImageProofs -----------------------------
(***************************************************************************)
(* Proofs about the images of a listing: ImageGallery, for any limit and   *)
(* any number of sessions, and ImagePipeline, for any number of images and *)
(* workers, any batch and any number of faults.  What must eventually      *)
(* happen is left to TLC.                                                  *)
(***************************************************************************)
EXTENDS ImageGallery, ImagePipeline, SequenceTheorems, FiniteSetTheorems,
        WellFoundedInduction, TLAPS

-----------------------------------------------------------------------------
(* A finite set has a first element in any total order.                    *)
LEMMA FiniteHasFirst ==
  ASSUME NEW S, IsFiniteSet(S), S # {}, NEW R,
         \A i, j \in S : <<i, j>> \in R \/ <<j, i>> \in R,
         \A i, j, k \in S : <<i, j>> \in R /\ <<j, k>> \in R => <<i, k>> \in R
  PROVE  \E i \in S : \A j \in S : <<i, j>> \in R
<1> DEFINE HasFirst(T) == \E i \in T : \A j \in T : <<i, j>> \in R
           Bad == {T \in SUBSET S : T # {} /\ ~HasFirst(T)}
<1> SUFFICES ASSUME Bad # {} PROVE FALSE
  OBVIOUS
<1>1. \A T \in SUBSET S : IsFiniteSet(T)
  BY FS_Subset
<1> DEFINE Sizes == {Cardinality(T) : T \in Bad}
<1>2. Sizes \subseteq Nat /\ Sizes # {}
  BY <1>1, FS_CardinalityType
<1>3. PICK n \in Sizes : \A m \in Sizes : ~ (<<m, n>> \in OpToRel(<, Nat))
  <2>1. IsWellFoundedOn(OpToRel(<, Nat), Nat)
    BY NatLessThanWellFounded
  <2> HIDE DEF Sizes
  <2> QED
    BY <1>2, <2>1, WFMin
<1>4. n \in Nat /\ \A m \in Sizes : ~ (m < n)
  BY <1>2, <1>3 DEF OpToRel
<1>5. PICK T \in Bad : n = Cardinality(T)
  OBVIOUS
<1>6. PICK x \in T : TRUE
  OBVIOUS
<1>7. /\ IsFiniteSet(T \ {x})
      /\ Cardinality(T \ {x}) \in Nat
      /\ Cardinality(T \ {x}) = n - 1
  BY <1>1, <1>4, <1>5, <1>6, FS_RemoveElement, FS_CardinalityType
<1>8. Cardinality(T \ {x}) < n
  BY <1>4, <1>7
<1>9. T \ {x} \notin Bad
  <2> SUFFICES ASSUME T \ {x} \in Bad PROVE FALSE
    OBVIOUS
  <2>1. Cardinality(T \ {x}) \in Sizes
    OBVIOUS
  <2> HIDE DEF Sizes, Bad
  <2> QED
    BY <1>4, <1>8, <2>1
<1>10. CASE T \ {x} = {}
  BY <1>5, <1>6, <1>10
<1>11. CASE HasFirst(T \ {x})
  <2>1. PICK y \in T \ {x} : \A j \in T \ {x} : <<y, j>> \in R
    BY <1>11
  <2>2. CASE <<x, y>> \in R
    BY <1>5, <1>6, <2>1, <2>2
  <2>3. CASE <<y, x>> \in R
    BY <1>5, <1>6, <2>1, <2>3
  <2> QED
    BY <1>5, <1>6, <2>1, <2>2, <2>3
<1> QED
  BY <1>5, <1>9, <1>10, <1>11

-----------------------------------------------------------------------------
(* The local state of a call is what its step left there.                  *)
CallOK ==
  /\ DOMAIN calls = Callers
  /\ \A k \in Callers :
       /\ calls[k].at = "idle" => Idle(k)
       /\ calls[k].at \in {"checked", "counted"} => calls[k].wantsCover \in BOOLEAN
       /\ calls[k].at = "creating" => /\ calls[k].position \in Nat
                                      /\ calls[k].cover \in BOOLEAN
                                      /\ ~calls[k].cover => calls[k].unset = {}
       /\ calls[k].at = "ordering" =>
            \A i \in DOMAIN calls[k].places : calls[k].places[i] \in Nat

(* As long as calls do not overlap there is one at a time, and what it has *)
(* read is still so.                                                       *)
Alone ==
  ~overlapped => \A j, k \in Callers : ~Idle(j) /\ ~Idle(k) => j = k

SnapshotHolds(k) ==
  /\ calls[k].at \in {"checked", "counted", "creating"} =>
       Cardinality(Live) <= MaxImages
  /\ calls[k].at \in {"counted", "creating"} =>
       (editable => Cardinality(Live) < MaxImages)
  /\ calls[k].at = "creating" =>
       /\ \A i \in Live : images[i].order < calls[k].position
       /\ Live = {} => calls[k].cover
  /\ calls[k].at = "deleting" =>
       /\ calls[k].image \in Live
       /\ calls[k].heir \subseteq Heirs(calls[k].image)
       /\ images[calls[k].image].cover /\ Heirs(calls[k].image) # {} =>
            calls[k].heir # {}
  /\ calls[k].at = "covering" => calls[k].image \in Live /\ calls[k].seen = Live
  /\ calls[k].at = "ordering" => calls[k].places \in Orders(Live)

SnapshotsHold == ~overlapped => \A k \in Callers : SnapshotHolds(k)

IInv == TypeOK /\ CallOK /\ Alone /\ SnapshotsHold /\ GalleryInOrder

-----------------------------------------------------------------------------
(* A function over the rows of the table is again a table.                 *)
LEMMA UpdateTable ==
  ASSUME NEW s \in Seq(Image), NEW t, t \in [DOMAIN s -> Image]
  PROVE  t \in Seq(Image) /\ Len(t) = Len(s) /\ DOMAIN t = DOMAIN s
<1>1. DOMAIN s = 1..Len(s) /\ Len(s) \in Nat
  BY LenProperties
<1>2. t \in [1..Len(s) -> Image]
  BY <1>1
<1>3. t \in Seq(Image)
  BY <1>1, <1>2, SeqDef
<1>4. DOMAIN t = 1..Len(t) /\ Len(t) \in Nat
  BY <1>3, LenProperties
<1> QED
  BY <1>1, <1>2, <1>3, <1>4

(* The rows, and the sets of them the calls look at.                       *)
LEMMA RowsOfTable ==
  ASSUME images \in Seq(Image)
  PROVE  /\ DOMAIN images = 1..Len(images) /\ Len(images) \in Nat
         /\ \A i \in DOMAIN images : /\ images[i] \in Image
                                     /\ images[i].live \in BOOLEAN
                                     /\ images[i].order \in Nat
                                     /\ images[i].cover \in BOOLEAN
         /\ Cover \subseteq Live /\ Live \subseteq DOMAIN images
         /\ IsFiniteSet(Live) /\ Cardinality(Live) \in Nat
<1>1. DOMAIN images = 1..Len(images) /\ Len(images) \in Nat
  BY LenProperties
<1>2. \A i \in DOMAIN images : images[i] \in Image
  BY <1>1, ElementOfSeq
<1>3. Cover \subseteq Live /\ Live \subseteq DOMAIN images
  BY DEF Cover, Live
<1>4. IsFiniteSet(DOMAIN images)
  BY <1>1, FS_Interval
<1>5. IsFiniteSet(Live)
  BY <1>3, <1>4, FS_Subset
<1> QED
  BY <1>1, <1>2, <1>3, <1>5, FS_CardinalityType DEF Image

(* The position of a new image comes after all the others.                 *)
LEMMA NextPositionIsLast ==
  ASSUME images \in Seq(Image)
  PROVE  /\ NextPosition(Live) \in Nat
         /\ \A i \in Live : images[i].order < NextPosition(Live)
<1>1. CASE Live = {}
  BY <1>1 DEF NextPosition
<1>2. CASE Live # {}
  <2> DEFINE R == {ij \in Live \X Live : images[ij[2]].order <= images[ij[1]].order}
  <2>1. \A i, j \in Live : <<i, j>> \in R <=> images[j].order <= images[i].order
    OBVIOUS
  <2>2. \A i \in Live : images[i].order \in Nat
    BY RowsOfTable
  <2>3. IsFiniteSet(Live)
    BY RowsOfTable
  <2>4. /\ \A i, j \in Live : <<i, j>> \in R \/ <<j, i>> \in R
        /\ \A i, j, k \in Live : <<i, j>> \in R /\ <<j, k>> \in R => <<i, k>> \in R
    <3> HIDE DEF R
    <3> QED BY <2>1, <2>2
  <2>5. \E i \in Live : \A j \in Live : <<i, j>> \in R
    <3> HIDE DEF R
    <3> QED BY <1>2, <2>3, <2>4, FiniteHasFirst
  <2>6. \E i \in Live : \A j \in Live : images[j].order <= images[i].order
    BY <2>1, <2>5
  <2> DEFINE last == CHOOSE i \in Live : \A j \in Live : images[j].order <= images[i].order
  <2>7. last \in Live /\ \A j \in Live : images[j].order <= images[last].order
    BY <2>6
  <2>8. NextPosition(Live) = 1 + images[last].order
    BY <1>2 DEF NextPosition
  <2> HIDE DEF last
  <2> QED
    BY <2>2, <2>7, <2>8
<1> QED
  BY <1>1, <1>2

(* The first of some images is one of them.                                *)
LEMMA FirstIsOne ==
  ASSUME images \in Seq(Image), NEW S, S \subseteq Live, S # {}
  PROVE  First(S) \in S
<1> DEFINE Before(i, j) == \/ images[i].order < images[j].order
                           \/ images[i].order = images[j].order /\ i <= j
           R == {ij \in S \X S : Before(ij[1], ij[2])}
<1>1. \A i, j \in S : <<i, j>> \in R <=> Before(i, j)
  OBVIOUS
<1>2. \A i \in S : images[i].order \in Nat /\ i \in Nat
  BY RowsOfTable
<1>3. IsFiniteSet(S)
  BY RowsOfTable, FS_Subset
<1>4. \A i, j \in S : <<i, j>> \in R \/ <<j, i>> \in R
  <2> SUFFICES ASSUME NEW i \in S, NEW j \in S
               PROVE  Before(i, j) \/ Before(j, i)
    <3> HIDE DEF R
    <3> QED BY <1>1
  <2> QED BY <1>2
<1>5. \A i, j, k \in S : <<i, j>> \in R /\ <<j, k>> \in R => <<i, k>> \in R
  <2> SUFFICES ASSUME NEW i \in S, NEW j \in S, NEW k \in S,
                      Before(i, j), Before(j, k)
               PROVE  Before(i, k)
    <3> HIDE DEF R
    <3> QED BY <1>1
  <2> QED BY <1>2
<1>6. \E i \in S : \A j \in S : <<i, j>> \in R
  <2> HIDE DEF R
  <2> QED BY <1>3, <1>4, <1>5, FiniteHasFirst
<1>7. \E i \in S : \A j \in S : Before(i, j)
  BY <1>1, <1>6
<1> QED
  BY <1>7 DEF First

-----------------------------------------------------------------------------
(* A step of a call changes its own state; if calls do not overlap after   *)
(* it, all the others are idle.                                            *)
LEMMA Entered ==
  ASSUME IInv, NEW k \in Callers, NEW c, Enter(k, c)
  PROVE  /\ DOMAIN calls' = Callers
         /\ calls'[k] = c
         /\ \A j \in Callers \ {k} : calls'[j] = calls[j]
         /\ overlapped' \in BOOLEAN
         /\ ~overlapped' =>
              /\ ~overlapped
              /\ \A j \in Callers \ {k} : calls'[j] = NoCall
         /\ Alone'
<1>1. /\ DOMAIN calls' = Callers
      /\ calls'[k] = c
      /\ \A j \in Callers \ {k} : calls'[j] = calls[j]
  BY DEF IInv, CallOK, Enter
<1>2. overlapped' \in BOOLEAN
  BY DEF Enter
<1>3. ~overlapped' => ~overlapped /\ \A j \in Callers \ {k} : Idle(j)
  BY DEF Enter
<1> QED
  BY <1>1, <1>2, <1>3 DEF Alone, Idle

(* A step that leaves the table alone keeps the invariant if the local     *)
(* state it leaves is one of a call and its snapshot is of the present.    *)
LEMMA ReadStep ==
  ASSUME IInv, NEW k \in Callers, NEW c, Enter(k, c),
         UNCHANGED <<images, editable>>,
         c.at \in {"idle", "checked", "counted", "creating", "deleting", "covering", "ordering"},
         c.at = "idle" => c = NoCall,
         c.at \in {"checked", "counted"} => c.wantsCover \in BOOLEAN,
         c.at = "creating" => /\ c.position \in Nat
                              /\ c.cover \in BOOLEAN
                              /\ ~c.cover => c.unset = {},
         c.at = "ordering" => \A i \in DOMAIN c.places : c.places[i] \in Nat,
         ~overlapped => SnapshotHolds(k)'
  PROVE  IInv'
<1>1. /\ DOMAIN calls' = Callers
      /\ calls'[k] = c
      /\ \A j \in Callers \ {k} : calls'[j] = calls[j]
      /\ overlapped' \in BOOLEAN
      /\ ~overlapped' =>
           /\ ~overlapped
           /\ \A j \in Callers \ {k} : calls'[j] = NoCall
      /\ Alone'
  BY Entered
<1>2. Live' = Live /\ Cover' = Cover
  BY DEF Live, Cover
<1>3. TypeOK'
  BY <1>1 DEF IInv, TypeOK
<1>4. CallOK'
  BY <1>1 DEF IInv, CallOK, Idle
<1>5. SnapshotsHold'
  <2> SUFFICES ASSUME ~overlapped', NEW j \in Callers PROVE SnapshotHolds(j)'
    BY DEF SnapshotsHold
  <2>1. CASE j = k
    BY <1>1, <2>1
  <2>2. CASE j # k
    <3>1. calls'[j] = NoCall
      BY <1>1, <2>2
    <3> QED
      BY <3>1 DEF SnapshotHolds, NoCall
  <2> QED
    BY <2>1, <2>2
<1>6. GalleryInOrder'
  BY <1>1, <1>2 DEF IInv, GalleryInOrder
<1> QED
  BY <1>1, <1>3, <1>4, <1>5, <1>6 DEF IInv

(* A statement that ends its call keeps the invariant if it keeps the      *)
(* table and the order of the gallery.                                     *)
LEMMA WriteStep ==
  ASSUME IInv, NEW k \in Callers, Leave(k), UNCHANGED editable,
         images' \in Seq(Image), Len(images') <= MaxRows,
         ~overlapped /\ ~overlapped' => GalleryInOrder'
  PROVE  IInv'
<1>1. /\ DOMAIN calls' = Callers
      /\ calls'[k] = NoCall
      /\ \A j \in Callers \ {k} : calls'[j] = calls[j]
      /\ overlapped' \in BOOLEAN
      /\ ~overlapped' =>
           /\ ~overlapped
           /\ \A j \in Callers \ {k} : calls'[j] = NoCall
      /\ Alone'
  BY Entered DEF Leave
<1>2. NoCall.at = "idle"
  BY DEF NoCall
<1>3. TypeOK'
  BY <1>1, <1>2 DEF IInv, TypeOK
<1>4. CallOK'
  BY <1>1, <1>2 DEF IInv, CallOK, Idle
<1>5. SnapshotsHold'
  BY <1>1, <1>2 DEF SnapshotsHold, SnapshotHolds
<1>6. GalleryInOrder'
  BY <1>1 DEF GalleryInOrder
<1> QED
  BY <1>1, <1>3, <1>4, <1>5, <1>6 DEF IInv

-----------------------------------------------------------------------------
(* The steps that read: count, snapshots, and the failures, which write    *)
(* nothing.                                                                *)
LEMMA ReadsKeepInv ==
  ASSUME IInv, NEW k \in Callers,
         \/ \E wantsCover \in BOOLEAN : CreateDraft(k, wantsCover)
         \/ CreateCount(k) \/ CreateRead(k) \/ CreateFail(k) \/ DeleteFail(k) \/ CoverFail(k)
         \/ \E i \in DOMAIN images : DeleteRead(k, i) \/ CoverRead(k, i)
         \/ OrderRead(k)
  PROVE  IInv'
<1>0. images \in Seq(Image) /\ (\A j \in Callers : ~overlapped => SnapshotHolds(j))
  BY DEF IInv, TypeOK, SnapshotsHold
<1>1. ASSUME NEW wantsCover \in BOOLEAN, CreateDraft(k, wantsCover) PROVE IInv'
  <2> DEFINE c == [at |-> "checked", wantsCover |-> wantsCover]
  <2>1. Enter(k, c) /\ UNCHANGED <<images, editable>> /\ editable
    BY <1>1 DEF CreateDraft
  <2>2. calls'[k] = c /\ Live' = Live
    BY <2>1, Entered DEF Live
  <2>3. ASSUME ~overlapped PROVE SnapshotHolds(k)'
    <3>1. Cardinality(Live) <= MaxImages
      BY <2>1, <2>3, ImagesAssumption DEF IInv, GalleryInOrder
    <3> QED
      BY <2>1, <2>2, <3>1 DEF SnapshotHolds
  <2> QED
    BY <2>1, <2>3, ReadStep
<1>7. CASE CreateCount(k)
  <2>1. CASE BelowLimit
    <3> DEFINE c == [at |-> "counted", wantsCover |-> calls[k].wantsCover]
    <3>1. Enter(k, c) /\ UNCHANGED <<images, editable>> /\ calls[k].at = "checked"
      BY <1>7, <2>1 DEF CreateCount
    <3>2. calls'[k] = c /\ Live' = Live
      BY <3>1, Entered DEF Live
    <3>3. calls[k].wantsCover \in BOOLEAN
      BY <3>1 DEF IInv, CallOK
    <3>4. ASSUME ~overlapped PROVE SnapshotHolds(k)'
      <4>1. Cardinality(Live) <= MaxImages
        BY <1>0, <3>1, <3>4 DEF SnapshotHolds
      <4>2. editable => Cardinality(Live) < MaxImages
        BY <2>1 DEF BelowLimit
      <4> QED
        BY <3>1, <3>2, <4>1, <4>2 DEF SnapshotHolds
    <3> QED
      BY <3>1, <3>3, <3>4, ReadStep
  <2>2. CASE ~BelowLimit
    <3>1. Enter(k, NoCall) /\ UNCHANGED <<images, editable>>
      BY <1>7, <2>2 DEF CreateCount, Leave
    <3>2. calls'[k] = NoCall /\ NoCall.at = "idle"
      BY <3>1, Entered DEF NoCall
    <3>3. SnapshotHolds(k)'
      BY <3>2 DEF SnapshotHolds
    <3> QED
      BY <3>1, <3>2, <3>3, ReadStep
  <2> QED
    BY <2>1, <2>2
<1>2. CASE CreateRead(k)
  <2> DEFINE c == [at |-> "creating",
                   position |-> NextPosition(Live),
                   cover |-> calls[k].wantsCover \/ Live = {},
                   unset |-> IF calls[k].wantsCover THEN Live ELSE {}]
  <2>1. Enter(k, c) /\ UNCHANGED <<images, editable>> /\ calls[k].at = "counted"
    BY <1>2 DEF CreateRead
  <2>2. calls'[k] = c /\ Live' = Live
    BY <2>1, Entered DEF Live
  <2>3. NextPosition(Live) \in Nat /\ \A i \in Live : images[i].order < NextPosition(Live)
    BY <1>0, NextPositionIsLast
  <2>4. c.position \in Nat /\ c.cover \in BOOLEAN /\ (~c.cover => c.unset = {})
    BY <2>3
  <2>5. ~overlapped => SnapshotHolds(k)'
    <3>1. c.at = "creating" /\ c.position = NextPosition(Live)
      OBVIOUS
    <3>2. ASSUME Live = {} PROVE c.cover
      <4>1. c.cover = (calls[k].wantsCover \/ Live = {})
        OBVIOUS
      <4> QED BY <3>2, <4>1
    <3> HIDE DEF c
    <3> QED
      BY <1>0, <2>1, <2>2, <2>3, <3>1, <3>2 DEF SnapshotHolds
  <2>6. c.at = "creating"
    OBVIOUS
  <2> HIDE DEF c
  <2> QED
    BY <2>1, <2>4, <2>5, <2>6, ReadStep
<1>3. CASE CreateFail(k) \/ DeleteFail(k) \/ CoverFail(k)
  <2>1. Enter(k, NoCall) /\ UNCHANGED <<images, editable>>
    BY <1>3 DEF CreateFail, DeleteFail, CoverFail, Leave
  <2>2. calls'[k] = NoCall /\ NoCall.at = "idle"
    BY <2>1, Entered DEF NoCall
  <2>3. SnapshotHolds(k)'
    BY <2>2 DEF SnapshotHolds
  <2> QED
    BY <2>1, <2>2, <2>3, ReadStep
<1>4. ASSUME NEW i \in DOMAIN images, DeleteRead(k, i) PROVE IInv'
  <2> DEFINE heir == IF images[i].cover /\ Heirs(i) # {}
                       THEN {First(Heirs(i))} ELSE {}
             c == [at |-> "deleting", image |-> i, heir |-> heir]
  <2>1. Enter(k, c) /\ UNCHANGED <<images, editable>> /\ i \in Live
    BY <1>4 DEF DeleteRead
  <2>2. calls'[k] = c /\ Live' = Live
    BY <2>1, Entered DEF Live
  <2>3. heir \subseteq Heirs(i) /\ (images[i].cover /\ Heirs(i) # {} => heir # {})
    BY <1>0, FirstIsOne DEF Heirs
  <2>4. Heirs(i)' = Heirs(i)
    BY <2>2 DEF Heirs
  <2>5. SnapshotHolds(k)'
    <3> HIDE DEF heir
    <3>1. /\ calls'[k].at = "deleting" /\ calls'[k].image = i
          /\ calls'[k].heir = heir
      BY <2>2
    <3>2. Heirs(calls[k].image)' = Heirs(i)
      BY <2>2, <3>1 DEF Heirs
    <3> QED
      BY <2>1, <2>2, <2>3, <3>1, <3>2 DEF SnapshotHolds
  <2> QED
    BY <2>1, <2>5, ReadStep
<1>5. ASSUME NEW i \in DOMAIN images, CoverRead(k, i) PROVE IInv'
  <2> DEFINE c == [at |-> "covering", image |-> i, seen |-> Live]
  <2>1. Enter(k, c) /\ UNCHANGED <<images, editable>> /\ i \in Live
    BY <1>5 DEF CoverRead
  <2>2. calls'[k] = c /\ Live' = Live
    BY <2>1, Entered DEF Live
  <2>3. SnapshotHolds(k)'
    BY <2>1, <2>2 DEF SnapshotHolds
  <2> QED
    BY <2>1, <2>3, ReadStep
<1>6. CASE OrderRead(k)
  <2>1. PICK f \in Orders(Live) : Enter(k, [at |-> "ordering", places |-> f])
    BY <1>6 DEF OrderRead
  <2> DEFINE c == [at |-> "ordering", places |-> f]
  <2>2. Enter(k, c) /\ UNCHANGED <<images, editable>>
    BY <1>6, <2>1 DEF OrderRead
  <2>3. calls'[k] = c /\ Live' = Live
    BY <2>2, Entered DEF Live
  <2>4. Orders(Live)' = Orders(Live)
    BY <2>3 DEF Orders
  <2>5. SnapshotHolds(k)'
    BY <2>3, <2>4 DEF SnapshotHolds
  <2>6. \A i \in DOMAIN f : f[i] \in Nat
    <3>1. Cardinality(Live) \in Nat
      BY <1>0, RowsOfTable
    <3> QED
      BY <3>1 DEF Orders
  <2> QED
    BY <2>2, <2>5, <2>6, ReadStep
<1> QED
  BY <1>1, <1>2, <1>3, <1>4, <1>5, <1>6, <1>7

-----------------------------------------------------------------------------
(* The insert adds one row, last in the order, and the cover if it has it. *)
LEMMA CreateKeepsInv ==
  ASSUME IInv, NEW k \in Callers, CreateWrite(k)
  PROVE  IInv'
<1> DEFINE n == Len(images) + 1
           row == [live |-> TRUE, order |-> calls[k].position,
                   cover |-> calls[k].cover]
           kept == [i \in DOMAIN images |->
                      IF i \in calls[k].unset
                        THEN [images[i] EXCEPT !.cover = FALSE]
                        ELSE images[i]]
<1>0. /\ images \in Seq(Image) /\ calls[k].position \in Nat
      /\ calls[k].cover \in BOOLEAN /\ (~calls[k].cover => calls[k].unset = {})
      /\ Len(images) < MaxRows /\ MaxRows \in Nat
      /\ images' = Append(kept, row)
      /\ Leave(k) /\ UNCHANGED editable
  BY ImagesAssumption DEF IInv, TypeOK, CallOK, CreateWrite
<1>1. /\ DOMAIN images = 1..Len(images) /\ Len(images) \in Nat
      /\ \A i \in DOMAIN images : /\ images[i] \in Image
                                  /\ images[i].live \in BOOLEAN
                                  /\ images[i].order \in Nat
                                  /\ images[i].cover \in BOOLEAN
      /\ Cover \subseteq Live /\ Live \subseteq DOMAIN images
      /\ IsFiniteSet(Live) /\ Cardinality(Live) \in Nat
  BY <1>0, RowsOfTable
<1>2. row \in Image
  BY <1>0 DEF Image
<1>3. kept \in [DOMAIN images -> Image]
  BY <1>1 DEF Image
<1>4. kept \in Seq(Image) /\ Len(kept) = Len(images) /\ DOMAIN kept = DOMAIN images
  BY <1>0, <1>3, UpdateTable
<1>5. \A i \in DOMAIN images :
        /\ kept[i].live = images[i].live
        /\ kept[i].order = images[i].order
        /\ kept[i].cover = (images[i].cover /\ i \notin calls[k].unset)
  BY <1>1 DEF Image
<1>6. row.live = TRUE /\ row.order = calls[k].position /\ row.cover = calls[k].cover
  OBVIOUS
<1> HIDE DEF kept, row
<1>7. /\ images' \in Seq(Image)
      /\ Len(images') = n
      /\ DOMAIN images' = DOMAIN images \cup {n}
      /\ n \notin DOMAIN images
      /\ \A i \in DOMAIN images : images'[i] = kept[i]
      /\ images'[n] = row
  <2>1. /\ images' \in Seq(Image)
        /\ Len(images') = n
        /\ \A i \in 1..Len(kept) : images'[i] = kept[i]
        /\ images'[Len(kept) + 1] = row
    BY <1>0, <1>2, <1>4, AppendProperties
  <2>2. DOMAIN images' = 1..n
    BY <2>1, LenProperties
  <2> QED
    BY <1>1, <1>4, <2>1, <2>2
<1> HIDE DEF n
<1>8. Live' = Live \cup {n}
  BY <1>5, <1>6, <1>7 DEF Live
<1>9. Cover' = (Cover \ calls[k].unset) \cup (IF calls[k].cover THEN {n} ELSE {})
  <2>1. \A i \in DOMAIN images : i \in Cover' <=> i \in Cover \ calls[k].unset
    BY <1>5, <1>7, <1>8 DEF Cover, Live
  <2>2. n \in Cover' <=> calls[k].cover
    BY <1>6, <1>7, <1>8 DEF Cover
  <2>3. Cover' \subseteq DOMAIN images \cup {n} /\ n \notin Cover
    BY <1>1, <1>7, <1>8 DEF Cover
  <2> QED
    BY <1>1, <1>7, <2>1, <2>2, <2>3
<1>11. ASSUME ~overlapped, ~overlapped' PROVE GalleryInOrder'
  <2>1. /\ Live # {} => Cover # {}
        /\ \A i, j \in Live : images[i].order = images[j].order => i = j
    BY <1>11 DEF IInv, GalleryInOrder
  <2>2. /\ Cardinality(Live) <= MaxImages
        /\ editable => Cardinality(Live) < MaxImages
        /\ \A i \in Live : images[i].order < calls[k].position
        /\ Live = {} => calls[k].cover
    BY <1>11 DEF IInv, SnapshotsHold, SnapshotHolds, CreateWrite
  <2>3. Cover' # {}
    <3>1. CASE calls[k].cover
      BY <1>9, <3>1
    <3>2. CASE ~calls[k].cover
      BY <1>0, <1>9, <2>1, <2>2, <3>2
    <3> QED
      BY <3>1, <3>2
  <2>4. Cardinality(Live') <= MaxImages + (IF editable' THEN 0 ELSE 1)
    <3>1. Cardinality(Live') = Cardinality(Live) + 1
      BY <1>1, <1>7, <1>8, FS_AddElement
    <3> QED
      BY <1>0, <1>1, <2>2, <3>1, ImagesAssumption
  <2>5. ASSUME NEW i \in Live', NEW j \in Live', images'[i].order = images'[j].order
        PROVE  i = j
    <3>1. \A h \in Live : images'[h].order = images[h].order /\ images[h].order \in Nat
      BY <1>1, <1>5, <1>7
    <3>2. images'[n].order = calls[k].position
      BY <1>6, <1>7
    <3>3. CASE i \in Live /\ j \in Live
      BY <2>1, <2>5, <3>1, <3>3
    <3>4. CASE i = n /\ j \in Live
      <4>1. images[j].order = calls[k].position
        BY <2>5, <3>1, <3>2, <3>4
      <4> QED
        BY <1>0, <2>2, <3>1, <3>4, <4>1
    <3>5. CASE i \in Live /\ j = n
      <4>1. images[i].order = calls[k].position
        BY <2>5, <3>1, <3>2, <3>5
      <4> QED
        BY <1>0, <2>2, <3>1, <3>5, <4>1
    <3> QED
      BY <1>8, <3>3, <3>4, <3>5
  <2> QED
    BY <2>3, <2>4, <2>5 DEF GalleryInOrder
<1>12. Len(images') <= MaxRows
  BY <1>0, <1>1, <1>7 DEF n
<1> QED
  BY <1>0, <1>7, <1>11, <1>12, WriteStep

(* The deletion takes one image away and gives the cover to the heir.      *)
LEMMA DeleteKeepsInv ==
  ASSUME IInv, NEW k \in Callers, DeleteWrite(k)
  PROVE  IInv'
<1> DEFINE i == calls[k].image
           heir == calls[k].heir
<1>0. /\ images \in Seq(Image)
      /\ images' = [j \in DOMAIN images |->
                      IF j = i THEN [images[j] EXCEPT !.live = FALSE,
                                                      !.cover = FALSE]
                      ELSE IF j \in heir THEN [images[j] EXCEPT !.cover = TRUE]
                      ELSE images[j]]
      /\ Leave(k) /\ UNCHANGED editable /\ calls[k].at = "deleting"
  BY DEF IInv, TypeOK, DeleteWrite
<1>1. /\ \A j \in DOMAIN images : /\ images[j] \in Image
                                  /\ images[j].live \in BOOLEAN
                                  /\ images[j].order \in Nat
                                  /\ images[j].cover \in BOOLEAN
      /\ Cover \subseteq Live /\ Live \subseteq DOMAIN images
      /\ IsFiniteSet(Live) /\ Cardinality(Live) \in Nat
  BY <1>0, RowsOfTable
<1> HIDE DEF i, heir
<1>2. images' \in [DOMAIN images -> Image]
  BY <1>0, <1>1 DEF Image
<1>3. images' \in Seq(Image) /\ Len(images') = Len(images) /\ DOMAIN images' = DOMAIN images
  BY <1>0, <1>2, UpdateTable
<1>4. \A j \in DOMAIN images :
        /\ images'[j].live = (images[j].live /\ j # i)
        /\ images'[j].order = images[j].order
        /\ images'[j].cover = (j # i /\ (images[j].cover \/ j \in heir))
  BY <1>0, <1>1 DEF Image
<1>5. Live' = Live \ {i}
  BY <1>3, <1>4 DEF Live
<1>6. Cover' = (Cover \ {i}) \cup ((heir \cap Live) \ {i})
  BY <1>3, <1>4, <1>5 DEF Cover, Live
<1>8. ASSUME ~overlapped, ~overlapped' PROVE GalleryInOrder'
  <2>1. /\ Live # {} => Cover # {}
        /\ Cardinality(Live) <= MaxImages + (IF editable THEN 0 ELSE 1)
        /\ \A j, h \in Live : images[j].order = images[h].order => j = h
    BY <1>8 DEF IInv, GalleryInOrder
  <2>2. /\ i \in Live /\ heir \subseteq Live \ {i}
        /\ images[i].cover /\ Live \ {i} # {} => heir # {}
    BY <1>0, <1>8 DEF IInv, SnapshotsHold, SnapshotHolds, Heirs, i, heir
  <2>3. Live' # {} => Cover' # {}
    <3>1. CASE images[i].cover
      BY <1>5, <1>6, <2>2, <3>1
    <3>2. CASE ~images[i].cover
      BY <1>5, <1>6, <2>1, <3>2 DEF Cover
    <3> QED
      BY <3>1, <3>2
  <2>4. Cardinality(Live') <= MaxImages + (IF editable' THEN 0 ELSE 1)
    <3>1. Cardinality(Live') <= Cardinality(Live) /\ Cardinality(Live') \in Nat
      BY <1>1, <1>5, FS_Subset, FS_CardinalityType
    <3>2. editable' = editable /\ Cardinality(Live) \in Nat
      BY <1>0, <1>1
    <3>3. CASE editable
      BY <2>1, <3>1, <3>2, <3>3, ImagesAssumption
    <3>4. CASE ~editable
      BY <2>1, <3>1, <3>2, <3>4, ImagesAssumption
    <3> QED
      BY <3>3, <3>4
  <2>5. \A j, h \in Live' : images'[j].order = images'[h].order => j = h
    BY <1>1, <1>4, <1>5, <2>1
  <2> QED
    BY <2>3, <2>4, <2>5 DEF GalleryInOrder
<1>9. Len(images') <= MaxRows
  BY <1>3 DEF IInv, TypeOK
<1> QED
  BY <1>0, <1>3, <1>8, <1>9, WriteStep

(* The new cover replaces the ones the call has seen.                      *)
LEMMA CoverKeepsInv ==
  ASSUME IInv, NEW k \in Callers, CoverWrite(k)
  PROVE  IInv'
<1> DEFINE i == calls[k].image
           seen == calls[k].seen
<1>0. /\ images \in Seq(Image)
      /\ images' = [j \in DOMAIN images |->
                      IF j \in seen \cap Live
                        THEN [images[j] EXCEPT !.cover = (j = i)]
                        ELSE images[j]]
      /\ Leave(k) /\ UNCHANGED editable /\ calls[k].at = "covering"
  BY DEF IInv, TypeOK, CoverWrite
<1>1. /\ \A j \in DOMAIN images : /\ images[j] \in Image
                                  /\ images[j].live \in BOOLEAN
                                  /\ images[j].order \in Nat
                                  /\ images[j].cover \in BOOLEAN
      /\ Cover \subseteq Live /\ Live \subseteq DOMAIN images
      /\ IsFiniteSet(Live)
  BY <1>0, RowsOfTable
<1> HIDE DEF i, seen
<1>2. images' \in [DOMAIN images -> Image]
  BY <1>0, <1>1 DEF Image
<1>3. images' \in Seq(Image) /\ Len(images') = Len(images) /\ DOMAIN images' = DOMAIN images
  BY <1>0, <1>2, UpdateTable
<1>4. \A j \in DOMAIN images :
        /\ images'[j].live = images[j].live
        /\ images'[j].order = images[j].order
        /\ j \in seen \cap Live => images'[j].cover = (j = i)
        /\ j \notin seen \cap Live => images'[j].cover = images[j].cover
  BY <1>0, <1>1 DEF Image
<1>5. Live' = Live
  BY <1>3, <1>4 DEF Live
<1>6. Cover' = (Cover \ seen) \cup ({i} \cap seen \cap Live)
  BY <1>1, <1>3, <1>4, <1>5 DEF Cover
<1>8. ASSUME ~overlapped, ~overlapped' PROVE GalleryInOrder'
  <2>1. /\ Cardinality(Live) <= MaxImages + (IF editable THEN 0 ELSE 1)
        /\ \A j, h \in Live : images[j].order = images[h].order => j = h
    BY <1>8 DEF IInv, GalleryInOrder
  <2>2. i \in Live /\ seen = Live
    BY <1>0, <1>8 DEF IInv, SnapshotsHold, SnapshotHolds, i, seen
  <2>3. Cover' # {}
    BY <1>6, <2>2
  <2>4. \A j, h \in Live' : images'[j].order = images'[h].order => j = h
    BY <1>1, <1>4, <1>5, <2>1
  <2> QED
    BY <1>0, <1>5, <2>1, <2>3, <2>4 DEF GalleryInOrder
<1>9. Len(images') <= MaxRows
  BY <1>3 DEF IInv, TypeOK
<1> QED
  BY <1>0, <1>3, <1>8, <1>9, WriteStep

(* A new order keeps images and covers.                                    *)
LEMMA OrderKeepsInv ==
  ASSUME IInv, NEW k \in Callers, OrderWrite(k)
  PROVE  IInv'
<1> DEFINE places == calls[k].places
<1>0. /\ images \in Seq(Image)
      /\ images' = [j \in DOMAIN images |->
                      IF editable /\ j \in DOMAIN places \cap Live
                        THEN [images[j] EXCEPT !.order = places[j]]
                        ELSE images[j]]
      /\ \A j \in DOMAIN places : places[j] \in Nat
      /\ Leave(k) /\ UNCHANGED editable /\ calls[k].at = "ordering"
  BY DEF IInv, TypeOK, CallOK, OrderWrite
<1>1. /\ \A j \in DOMAIN images : /\ images[j] \in Image
                                  /\ images[j].live \in BOOLEAN
                                  /\ images[j].order \in Nat
                                  /\ images[j].cover \in BOOLEAN
      /\ Live \subseteq DOMAIN images
  BY <1>0, RowsOfTable
<1> HIDE DEF places
<1>2. images' \in [DOMAIN images -> Image]
  BY <1>0, <1>1 DEF Image
<1>3. images' \in Seq(Image) /\ Len(images') = Len(images) /\ DOMAIN images' = DOMAIN images
  BY <1>0, <1>2, UpdateTable
<1>4. \A j \in DOMAIN images :
        /\ images'[j].live = images[j].live
        /\ images'[j].cover = images[j].cover
        /\ editable /\ j \in DOMAIN places \cap Live =>
             images'[j].order = places[j]
        /\ ~editable => images'[j].order = images[j].order
  BY <1>0, <1>1 DEF Image
<1>5. Live' = Live /\ Cover' = Cover
  BY <1>3, <1>4 DEF Live, Cover
<1>7. ASSUME ~overlapped, ~overlapped' PROVE GalleryInOrder'
  <2>1. /\ Live # {} => Cover # {}
        /\ Cardinality(Live) <= MaxImages + (IF editable THEN 0 ELSE 1)
        /\ \A j, h \in Live : images[j].order = images[h].order => j = h
    BY <1>7 DEF IInv, GalleryInOrder
  <2>2. /\ DOMAIN places = Live
        /\ \A j, h \in Live : places[j] = places[h] => j = h
    BY <1>0, <1>7 DEF IInv, SnapshotsHold, SnapshotHolds, Orders, places
  <2>3. \A j, h \in Live' : images'[j].order = images'[h].order => j = h
    <3>1. CASE editable
      BY <1>1, <1>4, <1>5, <2>2, <3>1
    <3>2. CASE ~editable
      BY <1>1, <1>4, <1>5, <2>1, <3>2
    <3> QED
      BY <3>1, <3>2
  <2> QED
    BY <1>0, <1>5, <2>1, <2>3 DEF GalleryInOrder
<1>8. Len(images') <= MaxRows
  BY <1>3 DEF IInv, TypeOK
<1> QED
  BY <1>0, <1>3, <1>7, <1>8, WriteStep

-----------------------------------------------------------------------------
LEMMA InitIInv == Init => IInv
<1> SUFFICES ASSUME Init PROVE IInv
  OBVIOUS
<1>1. images = <<>> /\ images \in Seq(Image) /\ Len(images) = 0
  BY EmptySeq DEF Init
<1>2. Live = {} /\ Cover = {}
  BY <1>1 DEF Live, Cover
<1>3. Cardinality(Cover) = 0 /\ Cardinality(Live) = 0
  BY <1>2, FS_EmptySet
<1>4. /\ DOMAIN calls = Callers
      /\ \A k \in Callers : calls[k] = NoCall /\ calls[k].at = "idle"
  BY DEF Init, NoCall
<1>5. TypeOK /\ CallOK /\ Alone
  <2>1. TypeOK
    <3>1. Len(images) <= MaxRows
      BY <1>1, ImagesAssumption
    <3>2. editable \in BOOLEAN /\ overlapped \in BOOLEAN
      BY DEF Init
    <3> QED
      BY <1>1, <1>4, <3>1, <3>2 DEF TypeOK
  <2>2. CallOK
    BY <1>4 DEF CallOK, Idle
  <2>3. Alone
    BY <1>4 DEF Alone, Idle
  <2> QED
    BY <2>1, <2>2, <2>3
<1>6. SnapshotsHold
  BY <1>4 DEF SnapshotsHold, SnapshotHolds
<1>7. GalleryInOrder
  BY <1>2, <1>3, ImagesAssumption DEF GalleryInOrder
<1> QED
  BY <1>5, <1>6, <1>7 DEF IInv

LEMMA NextIInv == IInv /\ [Next]_vars => IInv'
<1> SUFFICES ASSUME IInv, [Next]_vars PROVE IInv'
  OBVIOUS
<1>1. ASSUME UNCHANGED <<images, calls, overlapped>>, editable' \in BOOLEAN,
             editable' => editable
      PROVE  IInv'
  <2>1. Live' = Live /\ Cover' = Cover
    BY <1>1 DEF Live, Cover
  <2>2. TypeOK' /\ CallOK' /\ Alone'
    BY <1>1, <2>1 DEF IInv, TypeOK, CallOK, Alone, Idle
  <2>4. Cardinality(Live) \in Nat /\ MaxImages \in Nat
    BY RowsOfTable, ImagesAssumption DEF IInv, TypeOK
  <2>5. GalleryInOrder'
    BY <1>1, <2>1, <2>4 DEF IInv, GalleryInOrder
  <2>3. \A k \in Callers : SnapshotHolds(k) => SnapshotHolds(k)'
    BY <1>1, <2>1 DEF SnapshotHolds, Heirs, Orders
  <2> QED
    BY <1>1, <2>2, <2>3, <2>5 DEF IInv, SnapshotsHold
<1>2. CASE Decide
  BY <1>1, <1>2 DEF Decide
<1>3. CASE UNCHANGED vars
  BY <1>1, <1>3 DEF vars, IInv, TypeOK
<1>4. ASSUME NEW k \in Callers,
             CreateWrite(k) \/ DeleteWrite(k) \/ CoverWrite(k) \/ OrderWrite(k)
      PROVE  IInv'
  BY <1>4, CreateKeepsInv, DeleteKeepsInv, CoverKeepsInv, OrderKeepsInv
<1> QED
  BY <1>2, <1>3, <1>4, ReadsKeepInv DEF Next

(* The rows of the gallery are well formed in every behaviour.             *)
THEOREM TypeCorrect == Spec => []TypeOK
<1>1. IInv => TypeOK
  BY DEF IInv
<1> QED
  BY <1>1, InitIInv, NextIInv, PTL DEF Spec

(* As long as calls do not overlap the gallery is in order, for any limit  *)
(* and after any number of calls.                                          *)
THEOREM InOrder == Spec => []GalleryInOrder
<1>1. IInv => GalleryInOrder
  BY DEF IInv
<1> QED
  BY <1>1, InitIInv, NextIInv, PTL DEF Spec

-----------------------------------------------------------------------------
(* The calls that have counted may all insert; so may, once the listing is *)
(* no draft any more, those that have only found it.                       *)
Counted == {k \in Callers : calls[k].at \in {"counted", "creating"}}
Coming == {k \in Callers : calls[k].at \in {"checked", "counted", "creating"}}

RoomLeft ==
  LET callers == Cardinality(Callers)
  IN IF editable
       THEN Cardinality(Live) + Cardinality(Counted) <= MaxImages + callers - 1
       ELSE Cardinality(Live) + Cardinality(Coming) <= MaxImages + 2 * callers - 1

LEMMA SizesOfCalls ==
  /\ Cardinality(Callers) \in Nat
  /\ IsFiniteSet(Counted) /\ Cardinality(Counted) \in Nat
  /\ IsFiniteSet(Coming) /\ Cardinality(Coming) \in Nat
  /\ Counted \subseteq Coming /\ Coming \subseteq Callers
  /\ Cardinality(Counted) <= Cardinality(Coming)
  /\ Cardinality(Coming) <= Cardinality(Callers)
<1>1. Counted \subseteq Coming /\ Coming \subseteq Callers
  BY DEF Counted, Coming
<1>2. IsFiniteSet(Callers)
  BY ImagesAssumption
<1>3. IsFiniteSet(Coming) /\ Cardinality(Coming) <= Cardinality(Callers)
  BY <1>1, <1>2, FS_Subset
<1>4. IsFiniteSet(Counted) /\ Cardinality(Counted) <= Cardinality(Coming)
  BY <1>1, <1>3, FS_Subset
<1> QED
  BY <1>1, <1>2, <1>3, <1>4, FS_CardinalityType

(* The images after a statement: one more for an insert, no new one else.  *)
LEMMA LiveAfterWrite ==
  ASSUME IInv, NEW k \in Callers
  PROVE  /\ CreateWrite(k) => Live' \subseteq Live \cup {Len(images) + 1}
         /\ DeleteWrite(k) \/ CoverWrite(k) \/ OrderWrite(k) => Live' \subseteq Live
<1>1. /\ images \in Seq(Image)
      /\ DOMAIN images = 1..Len(images) /\ Len(images) \in Nat
      /\ \A i \in DOMAIN images : images[i] \in Image
      /\ Live \subseteq DOMAIN images
  BY RowsOfTable DEF IInv, TypeOK
<1>2. ASSUME CreateWrite(k) PROVE Live' \subseteq Live \cup {Len(images) + 1}
  <2> DEFINE row == [live |-> TRUE, order |-> calls[k].position,
                     cover |-> calls[k].cover]
             kept == [i \in DOMAIN images |->
                        IF i \in calls[k].unset
                          THEN [images[i] EXCEPT !.cover = FALSE]
                          ELSE images[i]]
  <2>1. images' = Append(kept, row) /\ row \in Image
    BY <1>2 DEF CreateWrite, IInv, CallOK, Image
  <2>2. kept \in [DOMAIN images -> Image] /\ \A i \in DOMAIN images :
          kept[i].live = images[i].live
    BY <1>1 DEF Image
  <2> HIDE DEF kept, row
  <2>3. kept \in Seq(Image) /\ Len(kept) = Len(images)
    BY <1>1, <2>2, UpdateTable
  <2>4. /\ images' \in Seq(Image) /\ Len(images') = Len(images) + 1
        /\ \A i \in 1..Len(images) : images'[i] = kept[i]
    BY <2>1, <2>3, AppendProperties
  <2>5. DOMAIN images' = 1..(Len(images) + 1)
    BY <2>4, LenProperties
  <2> QED
    BY <1>1, <2>2, <2>4, <2>5 DEF Live
<1>3. ASSUME DeleteWrite(k) PROVE Live' \subseteq Live
  BY <1>1, <1>3 DEF DeleteWrite, Live, Image
<1>4. ASSUME CoverWrite(k) PROVE Live' \subseteq Live
  BY <1>1, <1>4 DEF CoverWrite, Live, Image
<1>5. ASSUME OrderWrite(k) PROVE Live' \subseteq Live
  BY <1>1, <1>5 DEF OrderWrite, Live, Image
<1> QED
  BY <1>2, <1>3, <1>4, <1>5

(* The sets of calls after a step of one of them.                          *)
LEMMA CallsAfterStep ==
  ASSUME IInv, NEW k \in Callers, NEW c, Enter(k, c)
  PROVE  /\ Counted' = IF c.at \in {"counted", "creating"}
                         THEN Counted \cup {k} ELSE Counted \ {k}
         /\ Coming' = IF c.at \in {"checked", "counted", "creating"}
                        THEN Coming \cup {k} ELSE Coming \ {k}
<1>1. /\ calls'[k] = c
      /\ \A j \in Callers \ {k} : calls'[j] = calls[j]
  BY Entered
<1> QED
  BY <1>1 DEF Counted, Coming

(* A step that inserts nothing and counts nothing takes no room.           *)
LEMMA NoRoomTaken ==
  ASSUME IInv, RoomLeft, UNCHANGED editable, Live' \subseteq Live,
         Counted' \subseteq Counted, editable \/ Coming' \subseteq Coming
  PROVE  RoomLeft'
<1>1. /\ IsFiniteSet(Live) /\ Cardinality(Live) \in Nat
      /\ Cardinality(Live') <= Cardinality(Live) /\ Cardinality(Live') \in Nat
  BY RowsOfTable, FS_Subset, FS_CardinalityType DEF IInv, TypeOK
<1>2. /\ Cardinality(Counted') <= Cardinality(Counted) /\ Cardinality(Counted') \in Nat
      /\ Cardinality(Counted) \in Nat /\ Cardinality(Coming) \in Nat
  BY SizesOfCalls, FS_Subset, FS_CardinalityType
<1>3. editable \/ (Cardinality(Coming') <= Cardinality(Coming) /\ Cardinality(Coming') \in Nat)
  BY SizesOfCalls, FS_Subset, FS_CardinalityType
<1>4. Cardinality(Callers) \in Nat /\ MaxImages \in Nat
  BY SizesOfCalls, ImagesAssumption
<1>5. CASE editable
  BY <1>1, <1>2, <1>4, <1>5 DEF RoomLeft
<1>6. CASE ~editable
  BY <1>1, <1>2, <1>3, <1>4, <1>6 DEF RoomLeft
<1> QED
  BY <1>5, <1>6

LEMMA NextRoomLeft == IInv /\ RoomLeft /\ [Next]_vars => RoomLeft'
<1> SUFFICES ASSUME IInv, RoomLeft, [Next]_vars PROVE RoomLeft'
  OBVIOUS
<1>0. /\ IsFiniteSet(Live) /\ Cardinality(Live) \in Nat
      /\ Len(images) + 1 \notin Live
      /\ Cardinality(Callers) \in Nat /\ MaxImages \in Nat
      /\ Cardinality(Counted) \in Nat /\ Cardinality(Coming) \in Nat
      /\ Cardinality(Counted) <= Cardinality(Callers)
      /\ Cardinality(Coming) <= Cardinality(Callers)
  <2>1. images \in Seq(Image)
    BY DEF IInv, TypeOK
  <2>2. /\ IsFiniteSet(Live) /\ Cardinality(Live) \in Nat
        /\ DOMAIN images = 1..Len(images) /\ Len(images) \in Nat
        /\ Live \subseteq DOMAIN images
    BY <2>1, RowsOfTable
  <2>3. Len(images) + 1 \notin Live
    BY <2>2
  <2> QED
    BY <2>2, <2>3, SizesOfCalls, ImagesAssumption
<1>1. CASE Decide
  <2>1. Live' = Live /\ Coming' = Coming /\ editable /\ editable' = FALSE
    BY <1>1 DEF Decide, Live, Coming
  <2>2. Cardinality(Live) + Cardinality(Counted) <= MaxImages + Cardinality(Callers) - 1
    BY <2>1 DEF RoomLeft
  <2>3. Cardinality(Live) + Cardinality(Coming) <= MaxImages + 2 * Cardinality(Callers) - 1
    BY <1>0, <2>2
  <2> QED
    BY <2>1, <2>3 DEF RoomLeft
<1>2. CASE UNCHANGED vars
  BY <1>2 DEF vars, RoomLeft, Live, Counted, Coming
<1>3. ASSUME NEW k \in Callers, NEW wantsCover \in BOOLEAN, CreateDraft(k, wantsCover)
      PROVE  RoomLeft'
  <2> DEFINE c == [at |-> "checked", wantsCover |-> wantsCover]
  <2>1. Enter(k, c) /\ UNCHANGED <<images, editable>> /\ editable
    BY <1>3 DEF CreateDraft
  <2>2. c.at = "checked"
    OBVIOUS
  <2> HIDE DEF c
  <2>3. Live' = Live /\ Counted' \subseteq Counted
    BY <2>1, <2>2, CallsAfterStep DEF Live
  <2> QED
    BY <2>1, <2>3, NoRoomTaken
<1>4. ASSUME NEW k \in Callers, CreateCount(k) PROVE RoomLeft'
  <2>1. CASE BelowLimit
    <3> DEFINE c == [at |-> "counted", wantsCover |-> calls[k].wantsCover]
    <3>1. Enter(k, c) /\ UNCHANGED <<images, editable>> /\ calls[k].at = "checked"
      BY <1>4, <2>1 DEF CreateCount
    <3>2. c.at = "counted"
      OBVIOUS
    <3> HIDE DEF c
    <3>3. /\ Live' = Live /\ Counted' = Counted \cup {k}
          /\ k \in Coming /\ Coming' = Coming
      BY <3>1, <3>2, CallsAfterStep DEF Live, Coming
    <3>4. CASE editable
      <4>1. Cardinality(Live) < MaxImages
        BY <2>1, <3>4 DEF BelowLimit
      <4>2. Cardinality(Counted') <= Cardinality(Callers) /\ Cardinality(Counted') \in Nat
        <5>1. IsFiniteSet(Callers) /\ Counted' \subseteq Callers
          BY <3>3, SizesOfCalls, ImagesAssumption
        <5> QED
          BY <5>1, FS_Subset, FS_CardinalityType
      <4>3. Cardinality(Live) + Cardinality(Counted') <= MaxImages + Cardinality(Callers) - 1
        BY <1>0, <4>1, <4>2
      <4> QED
        BY <3>1, <3>3, <3>4, <4>3 DEF RoomLeft
    <3>5. CASE ~editable
      BY <3>1, <3>3, <3>5 DEF RoomLeft
    <3> QED
      BY <3>4, <3>5
  <2>2. CASE ~BelowLimit
    <3>1. Enter(k, NoCall) /\ UNCHANGED <<images, editable>> /\ NoCall.at = "idle"
      BY <1>4, <2>2 DEF CreateCount, Leave, NoCall
    <3>2. Live' = Live /\ Counted' \subseteq Counted /\ Coming' \subseteq Coming
      BY <3>1, CallsAfterStep DEF Live
    <3> QED
      BY <3>1, <3>2, NoRoomTaken
  <2> QED
    BY <2>1, <2>2
<1>5. ASSUME NEW k \in Callers, CreateRead(k) PROVE RoomLeft'
  <2> DEFINE c == [at |-> "creating",
                   position |-> NextPosition(Live),
                   cover |-> calls[k].wantsCover \/ Live = {},
                   unset |-> IF calls[k].wantsCover THEN Live ELSE {}]
  <2>1. Enter(k, c) /\ UNCHANGED <<images, editable>> /\ calls[k].at = "counted"
    BY <1>5 DEF CreateRead
  <2>2. c.at = "creating"
    OBVIOUS
  <2> HIDE DEF c
  <2>3. Live' = Live /\ Counted' \subseteq Counted /\ Coming' \subseteq Coming
    BY <2>1, <2>2, CallsAfterStep DEF Live, Counted, Coming
  <2> QED
    BY <2>1, <2>3, NoRoomTaken
<1>6. ASSUME NEW k \in Callers, CreateWrite(k) PROVE RoomLeft'
  <2>1. Enter(k, NoCall) /\ UNCHANGED editable /\ calls[k].at = "creating"
        /\ NoCall.at = "idle"
    BY <1>6 DEF CreateWrite, Leave, NoCall
  <2>2. /\ k \in Counted /\ Counted' = Counted \ {k}
        /\ k \in Coming /\ Coming' = Coming \ {k}
    BY <2>1, CallsAfterStep DEF Counted, Coming
  <2>3. /\ Cardinality(Counted') = Cardinality(Counted) - 1
        /\ Cardinality(Coming') = Cardinality(Coming) - 1
    BY <2>2, SizesOfCalls, FS_RemoveElement
  <2>4. Cardinality(Live') <= Cardinality(Live) + 1 /\ Cardinality(Live') \in Nat
    <3> DEFINE n == Len(images) + 1
    <3>1. Live' \subseteq Live \cup {n} /\ n \notin Live
      BY <1>0, <1>6, LiveAfterWrite
    <3> HIDE DEF n
    <3>2. IsFiniteSet(Live \cup {n}) /\ Cardinality(Live \cup {n}) = Cardinality(Live) + 1
      BY <1>0, <3>1, FS_AddElement
    <3>3. IsFiniteSet(Live') /\ Cardinality(Live') <= Cardinality(Live \cup {n})
      BY <3>1, <3>2, FS_Subset
    <3> QED
      BY <3>2, <3>3, FS_CardinalityType
  <2>5. CASE editable
    BY <1>0, <2>1, <2>3, <2>4, <2>5 DEF RoomLeft
  <2>6. CASE ~editable
    BY <1>0, <2>1, <2>3, <2>4, <2>6 DEF RoomLeft
  <2> QED
    BY <2>5, <2>6
<1>7. ASSUME NEW k \in Callers, NEW c, Enter(k, c), UNCHANGED editable,
             Live' \subseteq Live,
             c.at \notin {"checked", "counted", "creating"}
      PROVE  RoomLeft'
  <2>1. Counted' \subseteq Counted /\ Coming' \subseteq Coming
    BY <1>7, CallsAfterStep
  <2> QED
    BY <1>7, <2>1, NoRoomTaken
<1>8. ASSUME NEW k \in Callers,
             \/ CreateFail(k) \/ DeleteFail(k) \/ CoverFail(k)
             \/ DeleteWrite(k) \/ CoverWrite(k) \/ OrderWrite(k)
      PROVE  RoomLeft'
  <2>1. Enter(k, NoCall) /\ UNCHANGED editable /\ NoCall.at = "idle"
    BY <1>8 DEF CreateFail, DeleteFail, CoverFail, DeleteWrite, CoverWrite,
                OrderWrite, Leave, NoCall
  <2>2. Live' \subseteq Live
    <3>1. CASE CreateFail(k) \/ DeleteFail(k) \/ CoverFail(k)
      BY <3>1 DEF CreateFail, DeleteFail, CoverFail, Live
    <3> QED
      BY <1>8, <3>1, LiveAfterWrite
  <2> QED
    BY <1>7, <2>1, <2>2
<1>9. ASSUME NEW k \in Callers, NEW i \in DOMAIN images,
             DeleteRead(k, i) \/ CoverRead(k, i)
      PROVE  RoomLeft'
  <2>1. \E c : Enter(k, c) /\ c.at \in {"deleting", "covering"}
    BY <1>9 DEF DeleteRead, CoverRead
  <2>2. UNCHANGED <<images, editable>>
    BY <1>9 DEF DeleteRead, CoverRead
  <2>3. Live' = Live
    BY <2>2 DEF Live
  <2> QED
    BY <1>7, <2>1, <2>2, <2>3
<1>10. ASSUME NEW k \in Callers, OrderRead(k) PROVE RoomLeft'
  <2>1. PICK f \in Orders(Live) : Enter(k, [at |-> "ordering", places |-> f])
    BY <1>10 DEF OrderRead
  <2>2. UNCHANGED <<images, editable>>
    BY <1>10 DEF OrderRead
  <2>3. Live' = Live
    BY <2>2 DEF Live
  <2> QED
    BY <1>7, <2>1, <2>2, <2>3
<1> QED
  BY <1>1, <1>2, <1>3, <1>4, <1>5, <1>6, <1>8, <1>9, <1>10 DEF Next

(* However uploads overlap and whatever a moderator decides meanwhile, the *)
(* images over the maximum are bounded by the number of sessions, for any  *)
(* maximum and any number of sessions and of calls.                        *)
THEOREM Bounded == Spec => []ExcessIsBounded
<1>1. Init => RoomLeft
  <2> SUFFICES ASSUME Init PROVE RoomLeft
    OBVIOUS
  <2>1. Live = {} /\ Counted = {} /\ editable
    BY DEF Init, Live, Counted, NoCall
  <2>2. Cardinality(Live) = 0 /\ Cardinality(Counted) = 0
    BY <2>1, FS_EmptySet
  <2> QED
    BY <2>1, <2>2, SizesOfCalls, ImagesAssumption DEF RoomLeft
<1>2. ASSUME IInv, RoomLeft PROVE ExcessIsBounded
  <2>1. /\ Cardinality(Live) \in Nat /\ Cardinality(Callers) \in Nat
        /\ MaxImages \in Nat
        /\ Cardinality(Counted) \in Nat /\ Cardinality(Coming) \in Nat
    BY <1>2, RowsOfTable, SizesOfCalls, ImagesAssumption DEF IInv, TypeOK
  <2>2. CASE editable
    BY <1>2, <2>1, <2>2 DEF RoomLeft, ExcessIsBounded
  <2>3. CASE ~editable
    BY <1>2, <2>1, <2>3 DEF RoomLeft, ExcessIsBounded
  <2> QED
    BY <2>2, <2>3
<1> QED
  BY <1>1, <1>2, InitIInv, NextIInv, NextRoomLeft, PTL DEF Spec

-----------------------------------------------------------------------------
(***************************************************************************)
(* The worker.                                                             *)
(***************************************************************************)
Work == [at : Stages, batch : SUBSET Images, image : Images \cup {"none"}]

(* A worker that is not idle has an image, and the variants of the stages  *)
(* that are behind it.                                                     *)
WorkHolds ==
  /\ work \in [Workers -> Work]
  /\ \A w \in Workers :
       /\ work[w].at # "idle" => work[w].image \in Images
       /\ work[w].at \in {"put_thumb", "mark_ready"} =>
            <<work[w].image, "large">> \in variants
       /\ work[w].at = "mark_ready" => <<work[w].image, "thumb">> \in variants

PipelineInv == PipelineTypeOK /\ WorkHolds /\ ReadyHasVariants

-----------------------------------------------------------------------------
LEMMA InitPipelineInv == PipelineInit => PipelineInv
<1> SUFFICES ASSUME PipelineInit PROVE PipelineInv
  OBVIOUS
<1>1. Resting \in Work /\ Resting.at = "idle" /\ Resting.batch = {}
  BY DEF Resting, Work, Stages
<1>2. /\ work \in [Workers -> Work]
      /\ \A w \in Workers : work[w].at = "idle" /\ work[w].batch = {}
  BY <1>1 DEF PipelineInit
<1>3. /\ listing \in ListingStatus /\ status \in [Images -> ImageStatus]
      /\ originals = {} /\ variants = {} /\ confirming = {} /\ submitting = FALSE
      /\ faults \in 0..MaxFaults
  BY PipelineAssumption DEF PipelineInit, ListingStatus, ImageStatus
<1>4. submitting \in BOOLEAN
  BY <1>3
<1>5. PipelineTypeOK
  BY <1>2, <1>3, <1>4 DEF PipelineTypeOK, Stages
<1>6. WorkHolds /\ ReadyHasVariants
  BY <1>2 DEF PipelineInit, WorkHolds, ReadyHasVariants
<1> QED
  BY <1>5, <1>6 DEF PipelineInv

(* The owner and the moderators do not touch variants or workers, and make *)
(* no image ready.                                                         *)
LEMMA OwnerKeepsInv ==
  ASSUME PipelineInv, OwnerNext
  PROVE  PipelineInv'
<1>1. UNCHANGED <<variants, work, faults>>
  BY DEF OwnerNext, CreateUpload, PutOriginal, ConfirmStat, ConfirmWrite, DeleteImage,
         SubmitCheck, SubmitWrite, DeleteDraft, DecideListing
<1>2. WorkHolds'
  BY <1>1 DEF PipelineInv, WorkHolds
<1>3. /\ status' \in [Images -> ImageStatus]
      /\ \A i \in Images : status'[i] = "ready" => status[i] = "ready"
  <2>1. status \in [Images -> ImageStatus]
    BY DEF PipelineInv, PipelineTypeOK
  <2>2. ASSUME NEW i \in Images,
               CreateUpload(i) \/ PutOriginal(i) \/ ConfirmStat(i)
               \/ ConfirmWrite(i) \/ DeleteImage(i)
        PROVE  /\ status' \in [Images -> ImageStatus]
               /\ \A j \in Images : status'[j] = "ready" => status[j] = "ready"
    BY <2>1, <2>2 DEF CreateUpload, PutOriginal, ConfirmStat, ConfirmWrite,
                      DeleteImage, ImageStatus
  <2>3. CASE SubmitCheck \/ SubmitWrite \/ DeleteDraft \/ DecideListing
    BY <2>1, <2>3 DEF SubmitCheck, SubmitWrite, DeleteDraft, DecideListing
  <2> QED
    BY <2>2, <2>3 DEF OwnerNext
<1>4. ReadyHasVariants'
  BY <1>1, <1>3 DEF PipelineInv, ReadyHasVariants
<1>5. /\ listing' \in ListingStatus /\ originals' \in SUBSET Images
      /\ confirming' \in SUBSET Images /\ submitting' \in BOOLEAN
  BY DEF PipelineInv, PipelineTypeOK, OwnerNext, CreateUpload, PutOriginal, ConfirmStat,
         ConfirmWrite, DeleteImage, SubmitCheck, SubmitWrite, DeleteDraft, DecideListing,
         ListingStatus
<1>6. PipelineTypeOK'
  BY <1>1, <1>3, <1>5 DEF PipelineInv, PipelineTypeOK
<1> QED
  BY <1>2, <1>4, <1>6 DEF PipelineInv

(* A step of a worker keeps the invariant if the state it leaves is one    *)
(* with the variants of its stage, and an image it makes ready has both.   *)
LEMMA WorkerStep ==
  ASSUME PipelineInv, NEW w \in Workers, NEW x \in Work,
         work' = [work EXCEPT ![w] = x], UnchangedOwner,
         x.at # "idle" => x.image \in Images,
         status' \in [Images -> ImageStatus],
         variants \subseteq variants', variants' \in SUBSET (Images \X {"large", "thumb"}),
         faults' \in 0..MaxFaults,
         x.at \in {"put_thumb", "mark_ready"} => <<x.image, "large">> \in variants',
         x.at = "mark_ready" => <<x.image, "thumb">> \in variants',
         \A i \in Images : status'[i] = "ready" =>
           status[i] = "ready" \/ {i} \X {"large", "thumb"} \subseteq variants
  PROVE  PipelineInv'
<1>1. /\ work' \in [Workers -> Work] /\ work'[w] = x
      /\ \A v \in Workers \ {w} : work'[v] = work[v]
  BY DEF PipelineInv, WorkHolds
<1>2. WorkHolds'
  BY <1>1 DEF PipelineInv, WorkHolds
<1>3. ReadyHasVariants'
  BY DEF PipelineInv, ReadyHasVariants
<1>4. \A v \in Workers : work'[v].at \in Stages /\ work'[v].batch \in SUBSET Images
  BY <1>1 DEF Work
<1>5. PipelineTypeOK'
  BY <1>4 DEF PipelineInv, PipelineTypeOK, UnchangedOwner
<1> QED
  BY <1>2, <1>3, <1>5 DEF PipelineInv

(* The same for a step to another stage with the same image and batch.     *)
LEMMA AdvanceStep ==
  ASSUME PipelineInv, NEW w \in Workers, NEW s \in Stages \ {"idle"},
         Advance(w, s), UnchangedOwner, work[w].at # "idle",
         status' \in [Images -> ImageStatus],
         variants \subseteq variants', variants' \in SUBSET (Images \X {"large", "thumb"}),
         faults' \in 0..MaxFaults,
         s \in {"put_thumb", "mark_ready"} => <<work[w].image, "large">> \in variants',
         s = "mark_ready" => <<work[w].image, "thumb">> \in variants',
         \A i \in Images : status'[i] = "ready" =>
           status[i] = "ready" \/ {i} \X {"large", "thumb"} \subseteq variants
  PROVE  PipelineInv'
<1> DEFINE x == [work[w] EXCEPT !.at = s]
<1>1. work[w] \in Work /\ work[w].image \in Images
  BY DEF PipelineInv, WorkHolds
<1>2. x \in Work /\ x.at = s /\ x.image = work[w].image
  BY <1>1 DEF Work
<1>3. work' = [work EXCEPT ![w] = x]
  BY DEF Advance, PipelineInv, WorkHolds
<1> HIDE DEF x
<1>4. /\ x.at # "idle" => x.image \in Images
      /\ x.at \in {"put_thumb", "mark_ready"} => <<x.image, "large">> \in variants'
      /\ x.at = "mark_ready" => <<x.image, "thumb">> \in variants'
  BY <1>1, <1>2
<1> QED
  BY <1>2, <1>3, <1>4, WorkerStep

LEMMA WorkersKeepInv ==
  ASSUME PipelineInv, NEW w \in Workers, Step(w) \/ FaultCaught(w) \/ FaultAbort(w)
  PROVE  PipelineInv'
<1>0. /\ status \in [Images -> ImageStatus] /\ faults \in 0..MaxFaults
      /\ variants \in SUBSET (Images \X {"large", "thumb"})
      /\ work[w] \in Work /\ MaxFaults \in Nat
      /\ work[w].at # "idle" => work[w].image \in Images
      /\ work[w].batch \in SUBSET Images
  BY PipelineAssumption DEF PipelineInv, PipelineTypeOK, WorkHolds, Work
<1>3. CASE Tick(w)
  <2>1. PICK batch \in SUBSET Pending, i \in Pending :
          work' = [work EXCEPT ![w] = [at |-> "fetch", batch |-> batch \ {i}, image |-> i]]
    BY <1>3 DEF Tick
  <2>2. [at |-> "fetch", batch |-> batch \ {i}, image |-> i] \in Work /\ i \in Images
    BY <2>1 DEF Work, Stages, Pending
  <2>3. UnchangedOwner /\ UNCHANGED <<status, variants, faults>>
    BY <1>3 DEF Tick
  <2> QED
    BY <1>0, <2>1, <2>2, <2>3, WorkerStep
<1>4. CASE Fetch(w)
  <2>1. PICK s \in {"put_large", "mark_rejected"} : Advance(w, s)
    BY <1>4 DEF Fetch
  <2>2. UnchangedOwner /\ UNCHANGED <<status, variants, faults>> /\ work[w].at = "fetch"
    BY <1>4 DEF Fetch
  <2>3. s \in Stages \ {"idle"} /\ s # "put_thumb" /\ s # "mark_ready"
    BY <2>1 DEF Stages
  <2> QED
    BY <1>0, <2>1, <2>2, <2>3, AdvanceStep
<1>5. CASE PutVariant(w, "put_large", "large", "put_thumb")
  <2>1. UnchangedOwner /\ UNCHANGED <<status, faults>> /\ work[w].at = "put_large"
    BY <1>5 DEF PutVariant
  <2>2. CASE Advance(w, "put_thumb")
             /\ variants' = variants \cup {<<work[w].image, "large">>}
    <3>1. /\ variants \subseteq variants' /\ <<work[w].image, "large">> \in variants'
          /\ variants' \in SUBSET (Images \X {"large", "thumb"})
      BY <1>0, <2>1, <2>2
    <3>2. "put_thumb" \in Stages \ {"idle"}
      BY DEF Stages
    <3> QED
      BY <1>0, <2>1, <2>2, <3>1, <3>2, AdvanceStep
  <2>3. CASE Advance(w, "mark_rejected") /\ UNCHANGED variants
    BY <1>0, <2>1, <2>3, AdvanceStep DEF Stages
  <2> QED
    BY <1>5, <2>2, <2>3 DEF PutVariant
<1>6. CASE PutVariant(w, "put_thumb", "thumb", "mark_ready")
  <2>1. /\ UnchangedOwner /\ UNCHANGED <<status, faults>> /\ work[w].at = "put_thumb"
        /\ <<work[w].image, "large">> \in variants
    BY <1>6 DEF PutVariant, PipelineInv, WorkHolds
  <2>2. CASE Advance(w, "mark_ready")
             /\ variants' = variants \cup {<<work[w].image, "thumb">>}
    <3>1. /\ variants \subseteq variants' /\ <<work[w].image, "thumb">> \in variants'
          /\ variants' \in SUBSET (Images \X {"large", "thumb"})
      BY <1>0, <2>1, <2>2
    <3>2. "mark_ready" \in Stages \ {"idle"}
      BY DEF Stages
    <3> QED
      BY <1>0, <2>1, <2>2, <3>1, <3>2, AdvanceStep
  <2>3. CASE Advance(w, "mark_rejected") /\ UNCHANGED variants
    BY <1>0, <2>1, <2>3, AdvanceStep DEF Stages
  <2> QED
    BY <1>6, <2>2, <2>3 DEF PutVariant
<1>7. CASE MarkReady(w)
  <2>1. /\ UnchangedOwner /\ UNCHANGED <<variants, faults>> /\ work[w].at = "mark_ready"
        /\ Advance(w, "refresh") /\ status' = Settle(work[w].image, "ready")
    BY <1>7 DEF MarkReady
  <2>2. <<work[w].image, "large">> \in variants /\ <<work[w].image, "thumb">> \in variants
    BY <2>1 DEF PipelineInv, WorkHolds
  <2>3. /\ status' \in [Images -> ImageStatus]
        /\ \A i \in Images : status'[i] = "ready" =>
             status[i] = "ready" \/ i = work[w].image
    BY <1>0, <2>1 DEF Settle, ImageStatus
  <2> QED
    BY <1>0, <2>1, <2>2, <2>3, AdvanceStep DEF Stages
<1>8. CASE MarkRejected(w)
  <2>1. /\ UnchangedOwner /\ UNCHANGED <<variants, faults>> /\ work[w].at = "mark_rejected"
        /\ Advance(w, "refresh_rejected")
        /\ status' = Settle(work[w].image, "rejected")
    BY <1>8 DEF MarkRejected
  <2>2. /\ status' \in [Images -> ImageStatus]
        /\ \A i \in Images : status'[i] = "ready" => status[i] = "ready"
    BY <1>0, <2>1 DEF Settle, ImageStatus
  <2> QED
    BY <1>0, <2>1, <2>2, AdvanceStep DEF Stages
<1>9. CASE Refresh(w)
  <2>1. UnchangedOwner /\ UNCHANGED <<status, variants, faults>>
    BY <1>9 DEF Refresh
  <2>2. CASE work' = [work EXCEPT ![w] = Resting]
    <3>1. Resting \in Work /\ Resting.at = "idle"
      BY DEF Resting, Work, Stages
    <3> QED
      BY <1>0, <2>1, <2>2, <3>1, WorkerStep
  <2>3. ASSUME NEW i \in work[w].batch,
               work' = [work EXCEPT ![w] = [at |-> "fetch", image |-> i,
                                            batch |-> work[w].batch \ {i}]]
        PROVE  PipelineInv'
    <3>1. [at |-> "fetch", image |-> i, batch |-> work[w].batch \ {i}] \in Work
          /\ i \in Images
      BY <1>0, <2>3 DEF Work, Stages
    <3> QED
      BY <1>0, <2>1, <2>3, <3>1, WorkerStep
  <2> QED
    BY <1>9, <2>2, <2>3 DEF Refresh
<1>10. CASE FaultCaught(w)
  <2>1. /\ UnchangedOwner /\ UNCHANGED <<status, variants>> /\ faults' \in 0..MaxFaults
        /\ work[w].at \in {"mark_ready", "refresh"} /\ Advance(w, "mark_rejected")
    BY <1>0, <1>10 DEF FaultCaught
  <2> QED
    BY <1>0, <2>1, AdvanceStep DEF Stages
<1>11. CASE FaultAbort(w)
  <2>1. /\ UnchangedOwner /\ UNCHANGED <<status, variants>> /\ faults' \in 0..MaxFaults
        /\ work' = [work EXCEPT ![w] = Resting]
    BY <1>0, <1>11 DEF FaultAbort
  <2>2. Resting \in Work /\ Resting.at = "idle"
    BY DEF Resting, Work, Stages
  <2> QED
    BY <1>0, <2>1, <2>2, WorkerStep
<1> QED
  BY <1>3, <1>4, <1>5, <1>6, <1>7, <1>8, <1>9, <1>10, <1>11 DEF Step

LEMMA NextPipelineInv == PipelineInv /\ [PipelineNext]_pipelineVars => PipelineInv'
<1> SUFFICES ASSUME PipelineInv, [PipelineNext]_pipelineVars PROVE PipelineInv'
  OBVIOUS
<1>1. CASE UNCHANGED pipelineVars
  BY <1>1 DEF pipelineVars, PipelineInv, PipelineTypeOK, WorkHolds, ReadyHasVariants
<1> QED
  BY <1>1, OwnerKeepsInv, WorkersKeepInv DEF PipelineNext

(* Images, objects and workers are of their kinds in every behaviour.      *)
THEOREM PipelineTypeCorrect == PipelineSpec => []PipelineTypeOK
<1>1. PipelineInv => PipelineTypeOK
  BY DEF PipelineInv
<1> QED
  BY <1>1, InitPipelineInv, NextPipelineInv, PTL DEF PipelineSpec

(* A ready image has both its variants in storage, however many workers    *)
(* process it and crash.                                                   *)
THEOREM ReadyImagesHaveVariants == PipelineSpec => []ReadyHasVariants
<1>1. PipelineInv => ReadyHasVariants
  BY DEF PipelineInv
<1> QED
  BY <1>1, InitPipelineInv, NextPipelineInv, PTL DEF PipelineSpec

(* No worker, however late, changes the outcome of an image or brings back *)
(* one that was deleted.                                                   *)
THEOREM OutcomesAreFinal == PipelineSpec => OutcomeIsFinal
<1> DEFINE Final == \A i \in Images :
                      status[i] \in {"ready", "rejected", "deleted"} =>
                        status'[i] \in {status[i], "deleted"}
<1>1. PipelineInv /\ [PipelineNext]_pipelineVars => [Final]_pipelineVars
  <2> SUFFICES ASSUME PipelineInv, PipelineNext PROVE Final
    BY DEF pipelineVars
  <2>1. status \in [Images -> ImageStatus]
    BY DEF PipelineInv, PipelineTypeOK
  <2>2. CASE UNCHANGED status
    BY <2>1, <2>2
  <2>3. ASSUME NEW i \in Images, CreateUpload(i) \/ ConfirmWrite(i) \/ DeleteImage(i)
        PROVE  Final
    BY <2>1, <2>3 DEF CreateUpload, ConfirmWrite, DeleteImage
  <2>4. ASSUME NEW w \in Workers, MarkReady(w) \/ MarkRejected(w) PROVE Final
    BY <2>1, <2>4 DEF MarkReady, MarkRejected, Settle
  <2>5. CASE OwnerNext
    BY <2>2, <2>3, <2>5 DEF OwnerNext, PutOriginal, ConfirmStat, SubmitCheck,
                            SubmitWrite, DeleteDraft, DecideListing
  <2>6. ASSUME NEW w \in Workers, Step(w) \/ FaultCaught(w) \/ FaultAbort(w)
        PROVE  Final
    BY <2>2, <2>4, <2>6 DEF Step, Tick, Fetch, PutVariant, Refresh, FaultCaught,
                            FaultAbort
  <2> QED
    BY <2>5, <2>6 DEF PipelineNext
<1> QED
  BY <1>1, InitPipelineInv, NextPipelineInv, PTL DEF PipelineSpec, OutcomeIsFinal
=============================================================================
