------------------------ MODULE SearchDocumentProofs -------------------------
(***************************************************************************)
(* Proofs about SearchDocument, for any number of users and of calls that  *)
(* overlap and die.                                                        *)
(***************************************************************************)
EXTENDS SearchDocument, FiniteSetTheorems, TLAPS

(* What a refresh that started now would leave behind.                     *)
Right == IF Public THEN Computed ELSE NoDocument

(* A snapshot that nothing has outdated holds what is right to write; if   *)
(* that is nothing, it has seen the document there is to delete.           *)
SnapshotsHold ==
  \A k \in current :
    /\ calls[k].at = "writing"
    /\ calls[k].saved = Right
    /\ calls[k].saw \/ Public \/ document = NoDocument

(* A document is there, or it is the empty one.                            *)
Rows == document.indexed \/ document = NoDocument

SettledIsRight == settled => document = Right

IInv == TypeOK /\ Rows /\ SnapshotsHold /\ SettledIsRight

-----------------------------------------------------------------------------
(* The number of likes is one of those a document can hold.                *)
LEMMA LikesAreCounted ==
  ASSUME TypeOK
  PROVE  Computed \in Document /\ NoDocument \in Document /\ Right \in Document
<1>1. IsFiniteSet(Users) /\ Cardinality(Users) \in Nat
  BY UsersAssumption, FS_CardinalityType
<1>2. Cardinality(likes) \in Nat /\ Cardinality(likes) <= Cardinality(Users)
  BY <1>1, FS_Subset, FS_CardinalityType DEF TypeOK
<1>3. Cardinality(likes) \in 0..Cardinality(Users) /\ 0 \in 0..Cardinality(Users)
  BY <1>1, <1>2
<1> QED
  BY <1>3 DEF TypeOK, Computed, NoDocument, Document, Right

(* A change of the listing outdates every snapshot.                        *)
LEMMA ChangeKeepsInv ==
  ASSUME IInv, NEW k \in Calls, Changed(k),
         status' \in {"review", "published", "expired", "removed"},
         likes' \in SUBSET Users, ready' \in BOOLEAN
  PROVE  IInv'
<1>1. calls' \in [Calls -> Call]
  BY DEF IInv, TypeOK, Changed, Move, Call
<1>2. TypeOK'
  BY <1>1 DEF IInv, TypeOK, Changed, Outdate
<1>3. Rows' /\ SnapshotsHold' /\ SettledIsRight'
  BY DEF IInv, Rows, SnapshotsHold, SettledIsRight, Changed, Outdate, NoDocument
<1> QED
  BY <1>2, <1>3 DEF IInv

(* A call that changes nothing is not a refresh under way.                 *)
LEMMA NoChangeKeepsInv ==
  ASSUME IInv, NEW k \in Calls, Unchanged(k),
         UNCHANGED <<status, likes, ready>>
  PROVE  IInv'
<1>1. calls' \in [Calls -> Call]
  BY DEF IInv, TypeOK, Unchanged, Move, Call
<1>2. TypeOK'
  BY <1>1 DEF IInv, TypeOK, Unchanged
<1>3. Right' = Right /\ Public' = Public
  BY DEF Right, Public, Computed, NoDocument
<1>4. Rows' /\ SettledIsRight'
  BY <1>3 DEF IInv, Rows, SettledIsRight, Unchanged, NoDocument
<1>5. SnapshotsHold'
  <2>1. k \notin current
    BY DEF IInv, SnapshotsHold, Unchanged
  <2>2. \A j \in current : calls'[j] = calls[j]
    BY <2>1 DEF IInv, TypeOK, Unchanged, Move
  <2> QED
    BY <1>3, <2>2 DEF IInv, SnapshotsHold, Unchanged, NoDocument
<1> QED
  BY <1>2, <1>4, <1>5 DEF IInv

(* The snapshot of a refresh that starts is right.                         *)
LEMMA ReadKeepsInv ==
  ASSUME IInv, NEW k \in Calls, RefreshRead(k)
  PROVE  IInv'
<1>1. Right \in Document
  BY LikesAreCounted DEF IInv
<1>2. Right' = Right /\ Public' = Public
  BY DEF Right, Public, Computed, NoDocument, RefreshRead
<1>3. document.indexed \in BOOLEAN
  BY DEF IInv, TypeOK, Document
<1>4. /\ calls'[k] = [at |-> "writing", saved |-> Right,
                      saw |-> document.indexed]
      /\ \A j \in Calls \ {k} : calls'[j] = calls[j]
      /\ calls' \in [Calls -> Call]
  BY <1>1, <1>3 DEF IInv, TypeOK, RefreshRead, Call, Right
<1>5. TypeOK'
  BY <1>4 DEF IInv, TypeOK, RefreshRead
<1>6. Rows' /\ SettledIsRight'
  BY <1>2 DEF IInv, Rows, SettledIsRight, RefreshRead, NoDocument
<1>7. SnapshotsHold'
  <2>1. current \subseteq Calls /\ current' = current \cup {k}
    BY DEF IInv, TypeOK, RefreshRead
  <2>2. document' = document
    BY DEF RefreshRead
  <2> SUFFICES ASSUME NEW j \in current'
               PROVE  /\ calls'[j].at = "writing"
                      /\ calls'[j].saved = Right
                      /\ calls'[j].saw \/ Public \/ document = NoDocument
    BY <1>2, <2>2 DEF SnapshotsHold, NoDocument
  <2>3. CASE j = k
    BY <1>4, <2>3 DEF IInv, Rows
  <2>4. CASE j # k
    BY <1>4, <2>1, <2>4 DEF IInv, SnapshotsHold
  <2> QED
    BY <2>3, <2>4
<1> QED
  BY <1>5, <1>6, <1>7 DEF IInv

(* A refresh that nothing outdated writes what is right; one that something *)
(* did outdates all the others.                                            *)
LEMMA WriteKeepsInv ==
  ASSUME IInv, NEW k \in Calls, RefreshWrite(k)
  PROVE  IInv'
<1>1. Right' = Right /\ Public' = Public
  BY DEF Right, Public, Computed, NoDocument, RefreshWrite
<1>2. /\ \A j \in Calls \ {k} : calls'[j] = calls[j]
      /\ calls' \in [Calls -> Call]
  BY DEF IInv, TypeOK, RefreshWrite, Move, Call
<1>3. calls[k] \in Call /\ NoDocument \in Document
  BY LikesAreCounted DEF IInv, TypeOK
<1>4. document' \in Document
  BY <1>3 DEF IInv, TypeOK, RefreshWrite, Refreshed, Call
<1>5. TypeOK'
  BY <1>2, <1>4 DEF IInv, TypeOK, RefreshWrite
<1>6. Rows'
  BY DEF IInv, Rows, RefreshWrite, Refreshed, NoDocument
<1>7. ASSUME k \in current PROVE document' = Right
  <2>1. /\ document' = Refreshed(calls[k])
        /\ calls[k].saved = Right
        /\ calls[k].saw \/ Public \/ document = NoDocument
    BY <1>7 DEF IInv, SnapshotsHold, RefreshWrite
  <2>2. CASE Public
    <3>1. Right.indexed
      BY <2>2 DEF Right, Computed
    <3> QED
      BY <2>1, <3>1 DEF Refreshed
  <2>3. CASE ~Public
    <3>1. Right = NoDocument /\ ~NoDocument.indexed
      BY <2>3 DEF Right, NoDocument
    <3> QED
      BY <2>1, <2>3, <3>1 DEF Refreshed
  <2> QED
    BY <2>2, <2>3
<1>8. SettledIsRight'
  BY <1>1, <1>7 DEF SettledIsRight, RefreshWrite
<1>9. SnapshotsHold'
  <2> SUFFICES ASSUME NEW j \in current'
               PROVE  /\ calls'[j].at = "writing"
                      /\ calls'[j].saved = Right
                      /\ calls'[j].saw \/ Public \/ document' = NoDocument
    BY <1>1 DEF SnapshotsHold, NoDocument
  <2>1. k \in current /\ j \in current \ {k} /\ j \in Calls \ {k}
    BY DEF IInv, TypeOK, RefreshWrite
  <2>2. calls'[j] = calls[j]
    BY <1>2, <2>1
  <2>3. Public \/ document' = NoDocument
    BY <1>7, <2>1 DEF Right
  <2> QED
    BY <2>1, <2>2, <2>3 DEF IInv, SnapshotsHold
<1> QED
  BY <1>5, <1>6, <1>8, <1>9 DEF IInv

(* A call that dies takes its snapshot with it.                            *)
LEMMA DeathKeepsInv ==
  ASSUME IInv, NEW k \in Calls, Die(k)
  PROVE  IInv'
<1>1. Right' = Right /\ Public' = Public
  BY DEF Right, Public, Computed, NoDocument, Die
<1>2. /\ \A j \in Calls \ {k} : calls'[j] = calls[j]
      /\ calls' \in [Calls -> Call]
  BY DEF IInv, TypeOK, Die, Move, Call
<1>3. TypeOK'
  BY <1>2 DEF IInv, TypeOK, Die
<1>4. Rows' /\ SettledIsRight'
  BY <1>1 DEF IInv, Rows, SettledIsRight, Die, NoDocument
<1>5. SnapshotsHold'
  BY <1>1, <1>2 DEF IInv, TypeOK, SnapshotsHold, Die, NoDocument
<1> QED
  BY <1>3, <1>4, <1>5 DEF IInv

-----------------------------------------------------------------------------
LEMMA InitIInv == Init => IInv
<1> SUFFICES ASSUME Init PROVE IInv
  OBVIOUS
<1>1. Cardinality(Users) \in Nat
  BY UsersAssumption, FS_CardinalityType
<1>2. NoDocument \in Document
  BY <1>1 DEF NoDocument, Document
<1>3. TypeOK
  BY <1>2 DEF Init, TypeOK, NoCall, Call
<1> QED
  BY <1>3 DEF Init, IInv, Rows, SnapshotsHold, SettledIsRight, Right, Public

LEMMA NextIInv == IInv /\ [Next]_vars => IInv'
<1> SUFFICES ASSUME IInv, [Next]_vars PROVE IInv'
  OBVIOUS
<1>0. /\ status \in {"review", "published", "expired", "removed"}
      /\ likes \in SUBSET Users /\ ready \in BOOLEAN
  BY DEF IInv, TypeOK
<1>1. ASSUME NEW k \in Calls, Approve(k) \/ Remove(k) PROVE IInv'
  <2>1. /\ Changed(k) /\ UNCHANGED <<likes, ready>>
        /\ status' \in {"review", "published", "expired", "removed"}
    BY <1>1 DEF Approve, Remove
  <2> QED
    BY <1>0, <2>1, ChangeKeepsInv
<1>2. ASSUME NEW k \in Calls, SettleImage(k) PROVE IInv'
  <2>1. Changed(k) /\ UNCHANGED <<status, likes>> /\ ready' \in BOOLEAN
    BY <1>0, <1>2 DEF SettleImage
  <2> QED
    BY <1>0, <2>1, ChangeKeepsInv
<1>3. ASSUME NEW k \in Calls, NEW u \in Users, Like(k, u) \/ Unlike(k, u)
      PROVE  IInv'
  <2>1. UNCHANGED <<status, ready>> /\ likes' \in SUBSET Users
    BY <1>0, <1>3 DEF Like, Unlike
  <2>2. CASE Changed(k)
    BY <1>0, <2>1, <2>2, ChangeKeepsInv
  <2>3. CASE ~Changed(k)
    <3>1. Unchanged(k) /\ likes' = likes
      BY <1>0, <1>3, <2>3 DEF Like, Unlike
    <3> QED
      BY <2>1, <3>1, NoChangeKeepsInv
  <2> QED
    BY <2>2, <2>3
<1>4. ASSUME NEW k \in Calls, RefreshRead(k) \/ RefreshWrite(k) \/ Die(k)
      PROVE  IInv'
  BY <1>4, ReadKeepsInv, WriteKeepsInv, DeathKeepsInv
<1>5. CASE Expire
  BY <1>5 DEF IInv, TypeOK, Rows, SnapshotsHold, SettledIsRight, Expire, Outdate,
              NoDocument
<1>6. CASE UNCHANGED vars
  <2>1. Right' = Right /\ Public' = Public
    BY <1>6 DEF Right, Public, Computed, NoDocument, vars
  <2> QED
    BY <1>6, <2>1 DEF IInv, TypeOK, Rows, SnapshotsHold, SettledIsRight, vars,
                      NoDocument
<1> QED
  BY <1>1, <1>2, <1>3, <1>4, <1>5, <1>6 DEF Next

(* Rows and calls are well formed in every behaviour, for any number of    *)
(* users and calls.                                                        *)
THEOREM TypeCorrect == Spec => []TypeOK
<1>1. IInv => TypeOK
  BY DEF IInv
<1> QED
  BY <1>1, InitIInv, NextIInv, PTL DEF Spec

(* However many refreshes are lost or overtake one another, one that runs  *)
(* undisturbed leaves the document as the listing is.                      *)
THEOREM RefreshHeals == Spec => []DocumentFollowsListing
<1>1. IInv => DocumentFollowsListing
  BY DEF IInv, SettledIsRight, DocumentFollowsListing, Right, Public, Computed
<1> QED
  BY <1>1, InitIInv, NextIInv, PTL DEF Spec
=============================================================================
